---------------------------- MODULE LibraryProofs ----------------------------
(***************************************************************************)
(* Proofs about the library, for limbs of all sizes, operands of all types *)
(* and sizes, and all programs: sums, differences and products are right,  *)
(* whatever the places of the operands and the memory that is not          *)
(* initialized; comparisons are those of the numbers; montgomery_reduce    *)
(* gives the residue; operators of bigint are exact; greatest common       *)
(* divisors and their coefficients are found and fit; division gives the   *)
(* quotient and the remainder; shifts, copies and negations write the bits *)
(* that they should, and widths and trailing zeros are counted right; and  *)
(* kernels that draw random elements have nonces of their own.             *)
(*                                                                         *)
(* A behaviour of the library is one of the function that it begins with:  *)
(* what is proved of the function's own steps holds in the library.        *)
(***************************************************************************)
EXTENDS Library, WordProofs, FiniteSetTheorems

------------------------------------------------------------------------------
(* Comparisons of numbers *)

\* Limbs and spans are the same in comparisons as elsewhere.
LEMMA ComparisonWords ==
  /\ \A x, h : Comparisons!Limb(x, h) = Limb(x, h)
  /\ \A x, h : Comparisons!Subspan(x, h) = Subspan(x, h)
  /\ \A x, h : Comparisons!FirstLimbs(x, h) = FirstLimbs(x, h)
BY DEF Comparisons!Limb, Limb, Comparisons!Subspan, Subspan, Comparisons!FirstLimbs, FirstLimbs

\* Comparisons have fewer limbs than there are laws of exponents for.
LEMMA CompareLimbsOK ==
  /\ CompareLimbs \in Nat \ {0} /\ Limbs \in Nat /\ CompareLimbs <= Limbs
  /\ Compared \subseteq Int
BY LibraryAssumption, WordAssumption

\* A comparison of numbers is true or false.
LEMMA CompareType ==
  ASSUME NEW op \in Comparisons!Equalities \cup Comparisons!Orders, NEW x \in Int, NEW y \in Int
  PROVE  Comparisons!Compare(op, x, y) \in BOOLEAN
<1>1. CASE op = "equal_to"
  BY <1>1 DEF Comparisons!Compare
<1>2. CASE op = "not_equal_to"
  BY <1>2 DEF Comparisons!Compare
<1>3. CASE op = "less"
  BY <1>3 DEF Comparisons!Compare
<1>4. CASE op = "greater"
  BY <1>4 DEF Comparisons!Compare
<1>5. CASE op = "less_equal"
  BY <1>5 DEF Comparisons!Compare
<1>6. CASE op = "greater_equal"
  BY <1>6 DEF Comparisons!Compare
<1> QED BY <1>1, <1>2, <1>3, <1>4, <1>5, <1>6 DEF Comparisons!Equalities, Comparisons!Orders

\* Of two numbers that are put together from higher and lower parts, the higher ones decide,
\* and then the lower ones.
LEMMA DigitsDecide ==
  ASSUME NEW w \in Nat \ {0},
         NEW x \in Int, NEW y \in Int, NEW a \in Int, NEW b \in Int,
         NEW s \in 0..w-1, NEW t \in 0..w-1, x = w * a + s, y = w * b + t
  PROVE  /\ x < y <=> a < b \/ (a = b /\ s < t)
         /\ x = y <=> a = b /\ s = t
<1>1. w \in Nat /\ s \in Int /\ t \in Int /\ 0 <= s /\ s < w /\ 0 <= t /\ t < w
  OBVIOUS
<1>2. CASE a = b
  BY <1>1, <1>2
<1>3. CASE a < b
  <2>1. w * (a+1) <= w * b /\ w * (a+1) = w * a + w
    BY <1>1, <1>3
  <2> QED BY <1>1, <1>3, <2>1
<1>4. CASE b < a
  <2>1. w * (b+1) <= w * a /\ w * (b+1) = w * b + w
    BY <1>1, <1>4
  <2> QED BY <1>1, <1>4, <2>1
<1> QED BY <1>2, <1>3, <1>4

\* The functions see nothing of numbers but their order.
LEMMA CompareSame ==
  ASSUME NEW op \in Comparisons!Orders, NEW x \in Int, NEW y \in Int, NEW a \in Int, NEW b \in Int,
         x < y <=> a < b, x = y <=> a = b
  PROVE  Comparisons!Compare(op, x, y) = Comparisons!Compare(op, a, b)
<1>1. CASE op = "less"
  BY <1>1 DEF Comparisons!Compare
<1>2. CASE op = "greater"
  BY <1>2 DEF Comparisons!Compare
<1>3. CASE op = "less_equal"
  BY <1>3 DEF Comparisons!Compare
<1>4. CASE op = "greater_equal"
  BY <1>4 DEF Comparisons!Compare
<1> QED BY <1>1, <1>2, <1>3, <1>4 DEF Comparisons!Orders

\* If higher parts decide before lower ones, so do the functions.
LEMMA CompareDigits ==
  ASSUME NEW op \in Comparisons!Orders,
         NEW x \in Int, NEW y \in Int, NEW a \in Int, NEW b \in Int,
         NEW s \in Int, NEW t \in Int,
         x < y <=> a < b \/ (a = b /\ s < t), x = y <=> a = b /\ s = t
  PROVE  /\ a = b /\ s # t => Comparisons!Compare(op, x, y) = Comparisons!Compare(op, s, t)
         /\ a # b \/ s = t => Comparisons!Compare(op, x, y) = Comparisons!Compare(op, a, b)
<1>1. ASSUME a = b, s # t PROVE Comparisons!Compare(op, x, y) = Comparisons!Compare(op, s, t)
  BY <1>1, CompareSame
<1>2. ASSUME a # b \/ s = t PROVE Comparisons!Compare(op, x, y) = Comparisons!Compare(op, a, b)
  <2>1. (x < y <=> a < b) /\ (x = y <=> a = b)
    BY <1>2
  <2> QED BY <2>1, CompareSame
<1> QED BY <1>1, <1>2

------------------------------------------------------------------------------
(* Operands *)

\* The longer operand has room for both.
LEMMA LimbsOK ==
  ASSUME NEW c \in Comparisons!Calls, Comparisons!Allowed(c)
  PROVE  /\ Comparisons!LimbsOf(c) \in 0..Limbs /\ Comparisons!LimbsOf(c) \in 0..CompareLimbs
         /\ Comparisons!limb_size_for(c.left_type.bits) \in 0..Comparisons!LimbsOf(c)
         /\ Comparisons!limb_size_for(c.right_type.bits) \in 0..Comparisons!LimbsOf(c)
BY CompareLimbsOK DEF Comparisons!Allowed, Comparisons!Operand, Comparisons!LimbsOf

\* An operand is less than the limbs of the comparison hold, and half of that if it has a sign.
LEMMA OperandFits ==
  ASSUME NEW x \in Int, NEW t \in [bits : Nat, signed : BOOLEAN], NEW n \in 0..Limbs,
         Comparisons!Operand(x, t), Comparisons!limb_size_for(t.bits) \in 0..n
  PROVE  /\ x < B^n /\ -B^n <= x
         /\ ~t.signed => x >= 0
         /\ t.signed => 2 * x < B^n /\ -B^n <= 2 * x
<1> DEFINE h == Comparisons!limb_size_for(t.bits)
           w == B^h
           v == B^n
           u == B^(n-h)
           z == 2^t.bits
<1>1. w \in Nat \ {0} /\ u \in Nat \ {0} /\ v \in Nat \ {0} /\ v = w * u
  <2>1. n - h \in 0..Limbs /\ n \in 0..n /\ n - h \in 0..n-h
    BY PowerOK
  <2> QED BY <2>1, PowerOK
<1>2. z \in 1..w /\ (IF t.signed THEN -z <= 2 * x /\ 2 * x < z ELSE 0 <= x /\ x < z)
  BY DEF Comparisons!Operand
<1> HIDE DEF w, v, u, z, h
<1>3. w <= v
  BY <1>1, w * 1 <= w * u
<1>4. z \in Int /\ z >= 1 /\ z <= v
  BY <1>1, <1>2, <1>3
<1>5. x < v /\ -v <= x /\ (~t.signed => x >= 0) /\ (t.signed => 2 * x < v /\ -v <= 2 * x)
  BY <1>1, <1>2, <1>4
<1> QED BY <1>5 DEF v

\* Beyond the last limb, an operand shows its sign and nothing else.
LEMMA TopOK ==
  ASSUME NEW x \in Int, NEW n \in 0..Limbs, x < B^n, -B^n <= x
  PROVE  Subspan(x, n) = -Comparisons!Sign(x)
<1> DEFINE v == B^n
<1>1. v \in Nat \ {0}
  BY PowerOK, n \in 0..n
<1> HIDE DEF v
<1>2. x < v /\ -v <= x
  BY DEF v
<1>3. CASE x >= 0
  <2>1. x \div v = 0
    BY <1>1, <1>2, <1>3, QuotientUnique, x = v * 0 + x
  <2> QED BY <1>3, <2>1 DEF Comparisons!Sign, Subspan, v
<1>4. CASE x < 0
  <2>1. x + v \in 0..v-1 /\ x = v * (-1) + (x + v)
    BY <1>1, <1>2, <1>4
  <2> DEFINE s == x + v
  <2> HIDE DEF s
  <2>2. x = v * (-1) + s /\ s \in 0..v-1
    BY <2>1 DEF s
  <2>3. x \div v = -1
    BY <1>1, <2>2, -1 \in Int, QuotientUnique
  <2> QED BY <1>4, <2>3 DEF Comparisons!Sign, Subspan, v
<1> QED BY <1>3, <1>4

\* One limb more of a span: a digit at its lower end.
LEMMA NextDigit ==
  ASSUME NEW x \in Int, NEW h \in 1..Limbs
  PROVE  /\ h-1 \in 0..Limbs-1
         /\ Subspan(x, h) \in Int /\ Subspan(x, h-1) \in Int /\ Limb(x, h-1) \in Word
         /\ Subspan(x, h-1) = B * Subspan(x, h) + Limb(x, h-1)
<1>1. h-1 \in 0..Limbs-1 /\ (h-1)+1 = h
  BY WordAssumption
<1> DEFINE s == Subspan(x, h-1)
<1>2. s \in Int /\ Limb(x, h-1) \in Word /\ Subspan(x, h) = s \div B /\ Limb(x, h-1) = s % B
  BY <1>1, LimbOK DEF Subspan, Limb
<1> HIDE DEF s
<1>3. s = B * (s \div B) + (s % B) /\ s \div B \in Int
  <2>1. B \in Nat \ {0}
    BY WordAssumption
  <2> QED BY <1>2, <2>1, QuotientAndRemainder
<1> QED BY <1>1, <1>2, <1>3 DEF s

\* All of a number is the span that begins with its first limb.
LEMMA AllLimbs ==
  ASSUME NEW x \in Int
  PROVE  Subspan(x, 0) = x
<1>1. x \div 1 = x
  BY x = 1 * x + 0, QuotientUnique
<1> QED BY <1>1, PowerAssumption DEF Subspan

\* One limb more from below: spans are alike if they were and the limbs are.
LEMMA AlikeStep ==
  ASSUME NEW x \in Int, NEW y \in Int, NEW h \in 0..Limbs-1
  PROVE  FirstLimbs(x, h+1) = FirstLimbs(y, h+1)
           <=> FirstLimbs(x, h) = FirstLimbs(y, h) /\ Limb(x, h) = Limb(y, h)
<1> DEFINE w == B^h
           a == Limb(x, h)
           b == Limb(y, h)
           s == FirstLimbs(x, h)
           t == FirstLimbs(y, h)
<1>1. w \in Nat \ {0}
  <2>1. h \in 0..Limbs /\ h \in 0..h
    BY WordAssumption
  <2> QED BY <2>1, PowerOK
<1>2. /\ a \in Word /\ s \in 0..w-1 /\ FirstLimbs(x, h+1) = s + a * w
      /\ b \in Word /\ t \in 0..w-1 /\ FirstLimbs(y, h+1) = t + b * w
  BY LimbOK
<1> HIDE DEF w, a, b, s, t
<1>3. a \in Int /\ b \in Int
  BY <1>2, WordAssumption DEF Word
<1>4. ASSUME s + a * w = t + b * w PROVE s = t /\ a = b
  <2> DEFINE z == s + a * w
  <2>1. z \in Int /\ z = w * a + s /\ z = w * b + t /\ w \in Nat \ {0}
    BY <1>1, <1>2, <1>3, <1>4
  <2>4. s \in 0..w-1 /\ t \in 0..w-1
    BY <1>2
  <2> HIDE DEF z
  <2>2. z \div w = a /\ z % w = s
    BY ONLY <1>3, <2>1, <2>4, QuotientUnique
  <2>3. z \div w = b /\ z % w = t
    BY ONLY <1>3, <2>1, <2>4, QuotientUnique
  <2> QED BY <2>2, <2>3
<1> QED BY <1>2, <1>4 DEF a, b, s, t

\* Operands with the same limbs are the same, if limbs can tell them apart.
LEMMA SameLimbs ==
  ASSUME NEW c \in Comparisons!Calls, Comparisons!Allowed(c), Comparisons!Distinguishable(c),
         c.left_type.signed # c.right_type.signed /\ Comparisons!SameFullLimbs(c)
           => Comparisons!Sign(c.left) = Comparisons!Sign(c.right),
         FirstLimbs(c.left, Comparisons!LimbsOf(c)) = FirstLimbs(c.right, Comparisons!LimbsOf(c))
  PROVE  c.left = c.right
<1> DEFINE n == Comparisons!LimbsOf(c)
           v == B^n
           x == c.left
           y == c.right
           a == Subspan(x, n)
           b == Subspan(y, n)
<1>1. n \in 0..Limbs /\ v \in Nat \ {0}
  BY LimbsOK, PowerOK, Comparisons!LimbsOf(c) \in 0..Comparisons!LimbsOf(c)
<1>2. /\ x \in Int /\ y \in Int
      /\ c.left_type \in [bits : Nat, signed : BOOLEAN]
      /\ c.right_type \in [bits : Nat, signed : BOOLEAN]
  BY DEF Comparisons!Calls
<1>3. /\ x < v /\ -v <= x /\ (~c.left_type.signed => x >= 0)
      /\ c.left_type.signed => 2 * x < v /\ -v <= 2 * x
  BY <1>1, <1>2, LimbsOK, OperandFits DEF Comparisons!Allowed
<1>4. /\ y < v /\ -v <= y /\ (~c.right_type.signed => y >= 0)
      /\ c.right_type.signed => 2 * y < v /\ -v <= 2 * y
  BY <1>1, <1>2, LimbsOK, OperandFits DEF Comparisons!Allowed
<1>5. a = -Comparisons!Sign(x) /\ b = -Comparisons!Sign(y)
  BY <1>1, <1>2, <1>3, <1>4, TopOK
<1>6. /\ x = FirstLimbs(x, n) + a * v /\ FirstLimbs(x, n) \in Nat
      /\ y = FirstLimbs(y, n) + b * v
  BY <1>1, <1>2, SplitOK
<1>7. CASE c.left_type.signed /\ c.right_type.signed
  <2>1. CASE a = b
    BY <1>6, <2>1
  <2>2. CASE a # b
    <3>1. x = y + v \/ y = x + v
      BY <1>1, <1>2, <1>5, <1>6, <2>2 DEF Comparisons!Sign
    <3> HIDE DEF v, x, y
    <3> QED BY <1>1, <1>2, <1>3, <1>4, <1>7, <3>1
  <2> QED BY <2>1, <2>2
<1>8. CASE Comparisons!Sign(x) = Comparisons!Sign(y)
  BY <1>5, <1>6, <1>8
<1>9. CASE ~(c.left_type.signed /\ c.right_type.signed) /\ Comparisons!Sign(x) # Comparisons!Sign(y)
  BY <1>2, <1>3, <1>4, <1>9 DEF Comparisons!Distinguishable, Comparisons!Sign
<1> QED BY <1>7, <1>8, <1>9

------------------------------------------------------------------------------
(* The loops *)

\* The first values of the code.
LEMMA InitComparison == Comparisons!Init => Comparisons!LoopInv
<1> SUFFICES ASSUME Comparisons!Init PROVE Comparisons!LoopInv
  OBVIOUS
<1> DEFINE n == Comparisons!LimbsOf(call)
           x == call.left
           y == call.right
<1>1. call \in Comparisons!Calls
  BY NumberAssumption
     DEF Comparisons!Init, Comparisons!Calls, Comparisons!Allowed, Comparisons!Operand
<1>2. Comparisons!Allowed(call) /\ pc = "scan" /\ i = n /\ n \in 0..Limbs /\ n \in 0..CompareLimbs
      /\ n \in 0..n
  BY <1>1, LimbsOK DEF Comparisons!Init
<1>3. /\ x \in Int /\ y \in Int /\ call.op \in Comparisons!Equalities \cup Comparisons!Orders
      /\ call.left_type \in [bits : Nat, signed : BOOLEAN]
      /\ call.right_type \in [bits : Nat, signed : BOOLEAN]
  BY <1>1 DEF Comparisons!Calls
<1>4. /\ x < B^n /\ -B^n <= x /\ (~call.left_type.signed => Comparisons!Sign(x) = 0)
      /\ y < B^n /\ -B^n <= y /\ (~call.right_type.signed => Comparisons!Sign(y) = 0)
  BY <1>1, <1>2, <1>3, LimbsOK, OperandFits DEF Comparisons!Allowed, Comparisons!Sign
<1>5. Subspan(x, n) = -Comparisons!Sign(x) /\ Subspan(y, n) = -Comparisons!Sign(y)
  BY <1>2, <1>3, <1>4, TopOK
<1>6. Comparisons!Sign(x) \in Int /\ Comparisons!Sign(y) \in Int
  BY DEF Comparisons!Sign
<1>7. Comparisons!initial_determined(call) <=> Comparisons!Sign(x) # Comparisons!Sign(y)
  BY <1>4 DEF Comparisons!initial_determined
<1>8. Comparisons!initial_result(call) \in BOOLEAN
  <2>1. Comparisons!Default(call.op) \in BOOLEAN
    BY DEF Comparisons!Default
  <2>2. call.op \in Comparisons!Equalities =>
          Comparisons!Compare(call.op, Comparisons!Sign(x), Comparisons!Sign(y)) \in BOOLEAN
    BY <1>6, CompareType
  <2>3. call.op \in Comparisons!Orders =>
          Comparisons!Compare(Comparisons!Negative(call.op), Comparisons!Sign(x),
                              Comparisons!Sign(y)) \in BOOLEAN
    <3> SUFFICES ASSUME call.op \in Comparisons!Orders
                 PROVE  Comparisons!Compare(Comparisons!Negative(call.op), Comparisons!Sign(x),
                                            Comparisons!Sign(y)) \in BOOLEAN
      OBVIOUS
    <3>1. Comparisons!Negative(call.op) \in Comparisons!Orders
      BY DEF Comparisons!Negative, Comparisons!Orders
    <3> QED BY <3>1, <1>6, CompareType
  <2> QED BY <2>1, <2>2, <2>3 DEF Comparisons!initial_result
<1>9. Comparisons!TypeOK
  <2>1. Comparisons!initial_determined(call) \in BOOLEAN
    BY DEF Comparisons!initial_determined
  <2> QED BY <1>1, <1>2, <1>8, <2>1 DEF Comparisons!Init, Comparisons!TypeOK
<1>10. ASSUME call.op \in Comparisons!Orders
       PROVE  Comparisons!initial_result(call) =
                Comparisons!Compare(call.op, Subspan(x, i), Subspan(y, i))
  <2>1. ~(call.op \in Comparisons!Equalities)
    BY <1>10 DEF Comparisons!Equalities, Comparisons!Orders
  <2>2. Comparisons!Compare(Comparisons!Negative(call.op), Comparisons!Sign(x),
                            Comparisons!Sign(y)) =
          Comparisons!Compare(call.op, -Comparisons!Sign(x), -Comparisons!Sign(y))
    BY <1>6, <1>10 DEF Comparisons!Compare, Comparisons!Negative, Comparisons!Orders
  <2>3. CASE call.left_type.signed \/ call.right_type.signed
    BY <1>2, <1>5, <1>10, <2>1, <2>2, <2>3 DEF Comparisons!initial_result
  <2>4. CASE ~call.left_type.signed /\ ~call.right_type.signed
    <3>1. Comparisons!initial_result(call) = Comparisons!Default(call.op)
      BY <2>1, <2>4 DEF Comparisons!initial_result
    <3>2. Comparisons!Compare(call.op, 0, 0) = Comparisons!Default(call.op)
      BY <1>10 DEF Comparisons!Compare, Comparisons!Default, Comparisons!Orders
    <3> QED BY <1>2, <1>4, <1>5, <2>4, <3>1, <3>2
  <2> QED BY <2>3, <2>4
<1>11. carry <=> Subspan(x, i) # Subspan(y, i)
  BY <1>2, <1>5, <1>6, <1>7 DEF Comparisons!Init
<1>12. call.compiletime => ~carry
  BY <1>2, <1>4, <1>7 DEF Comparisons!Init, Comparisons!Allowed
<1>13. Comparisons!Alike
  <2>1. n - i = 0
    BY <1>2
  <2> QED BY <1>3, <2>1, NoLimbs, ComparisonWords DEF Comparisons!Alike
<1>14. result = Comparisons!initial_result(call)
  BY DEF Comparisons!Init
<1> QED BY <1>2, <1>8, <1>9, <1>10, <1>11, <1>12, <1>13, <1>14, ComparisonWords
           DEF Comparisons!LoopInv, Comparisons!Ordered

\* What the steps find: operands, and limbs of them as long as some are left.
LEMMA Operands ==
  ASSUME Comparisons!LoopInv
  PROVE  /\ call \in Comparisons!Calls /\ call.left \in Int /\ call.right \in Int
         /\ call.op \in Comparisons!Equalities \cup Comparisons!Orders
         /\ call.compiletime \in BOOLEAN
         /\ Comparisons!LimbsOf(call) \in 0..Limbs /\ Comparisons!LimbsOf(call) \in 0..CompareLimbs
         /\ ~(call.op \in Comparisons!Equalities /\ call.op \in Comparisons!Orders)
BY LimbsOK, ComparisonWords
   DEF Comparisons!LoopInv, Comparisons!TypeOK, Comparisons!Calls, Comparisons!Equalities,
       Comparisons!Orders

\* An order looks at the next limbs: what it knows of the spans goes on to the longer ones.
LEMMA OrderStep ==
  ASSUME NEW op \in Comparisons!Orders, NEW x \in Int, NEW y \in Int, NEW h \in 1..Limbs,
         NEW r \in BOOLEAN, NEW d \in BOOLEAN,
         r = Comparisons!Compare(op, Subspan(x, h), Subspan(y, h)),
         d <=> Subspan(x, h) # Subspan(y, h)
  PROVE  LET s == Limb(x, h-1)
             t == Limb(y, h-1)
         IN  /\ (IF ~d /\ s # t THEN Comparisons!Compare(op, s, t) ELSE r)
                  = Comparisons!Compare(op, Subspan(x, h-1), Subspan(y, h-1))
             /\ (d \/ s # t) <=> Subspan(x, h-1) # Subspan(y, h-1)
             /\ Comparisons!Compare(op, s, t) \in BOOLEAN
<1> DEFINE s == Limb(x, h-1)
           t == Limb(y, h-1)
           a == Subspan(x, h)
           b == Subspan(y, h)
           u == Subspan(x, h-1)
           v == Subspan(y, h-1)
<1>1. /\ s \in 0..B-1 /\ a \in Int /\ u \in Int /\ u = B * a + s
      /\ t \in 0..B-1 /\ b \in Int /\ v \in Int /\ v = B * b + t
      /\ B \in Nat \ {0}
  BY NextDigit, WordAssumption DEF Word
<1> HIDE DEF s, t, a, b, u, v
<1>2. u < v <=> a < b \/ (a = b /\ s < t)
  BY ONLY <1>1, DigitsDecide
<1>3. u = v <=> a = b /\ s = t
  BY ONLY <1>1, DigitsDecide
<1>8. /\ a = b /\ s # t => Comparisons!Compare(op, u, v) = Comparisons!Compare(op, s, t)
      /\ a # b \/ s = t => Comparisons!Compare(op, u, v) = Comparisons!Compare(op, a, b)
  BY <1>1, <1>2, <1>3, CompareDigits
<1>4. r = Comparisons!Compare(op, a, b) /\ (d <=> a # b)
  BY DEF a, b
<1>5. Comparisons!Compare(op, s, t) \in BOOLEAN
  <2>1. s \in Int /\ t \in Int
    BY <1>1
  <2> QED BY <2>1, CompareType
<1>6. (IF ~d /\ s # t THEN Comparisons!Compare(op, s, t) ELSE r) = Comparisons!Compare(op, u, v)
  BY <1>8, <1>4
<1>7. (d \/ s # t) <=> u # v
  BY <1>3, <1>4
<1> QED BY <1>5, <1>6, <1>7 DEF s, t, u, v

\* ScanOrder, one limb of an order at run time
LEMMA ScanOrderOK == Comparisons!LoopInv /\ Comparisons!ScanOrder => Comparisons!LoopInv'
<1> SUFFICES ASSUME Comparisons!LoopInv, Comparisons!ScanOrder PROVE Comparisons!LoopInv'
  OBVIOUS
<1> DEFINE s == Limb(call.left, i-1)
           t == Limb(call.right, i-1)
<1>1. /\ i \in 1..Limbs /\ i-1 \in 0..CompareLimbs /\ i \in 0..CompareLimbs
      /\ call.op \in Comparisons!Orders /\ ~call.compiletime
  BY CompareLimbsOK, ComparisonWords
     DEF Comparisons!LoopInv, Comparisons!TypeOK, Comparisons!ScanOrder
<1>2. /\ i <= Comparisons!LimbsOf(call) /\ result \in BOOLEAN /\ carry \in BOOLEAN
      /\ result = Comparisons!Compare(call.op, Subspan(call.left, i), Subspan(call.right, i))
      /\ carry <=> Subspan(call.left, i) # Subspan(call.right, i)
  BY <1>1, ComparisonWords DEF Comparisons!LoopInv, Comparisons!TypeOK, Comparisons!ScanOrder
<1>3. /\ call' = call /\ pc' = "scan" /\ i' = i-1
      /\ result' = IF ~carry /\ s # t THEN Comparisons!Compare(call.op, s, t) ELSE result
      /\ carry' = (carry \/ s # t)
  BY ComparisonWords DEF Comparisons!ScanOrder
<1>4. /\ result' = Comparisons!Compare(call.op, Subspan(call.left, i-1), Subspan(call.right, i-1))
      /\ carry' <=> Subspan(call.left, i-1) # Subspan(call.right, i-1)
      /\ result' \in BOOLEAN /\ carry' \in BOOLEAN
  <2> DEFINE x == call.left
             y == call.right
  <2>1. x \in Int /\ y \in Int
    BY Operands
  <2>2. /\ (IF ~carry /\ s # t THEN Comparisons!Compare(call.op, s, t) ELSE result)
              = Comparisons!Compare(call.op, Subspan(x, i-1), Subspan(y, i-1))
        /\ (carry \/ s # t) <=> Subspan(x, i-1) # Subspan(y, i-1)
        /\ Comparisons!Compare(call.op, s, t) \in BOOLEAN
    <3> HIDE DEF x, y
    <3> QED BY <1>1, <1>2, <2>1, OrderStep DEF x, y
  <2> QED BY <1>2, <1>3, <2>2
<1>5. Comparisons!TypeOK'
  BY <1>1, <1>3, <1>4, Operands DEF Comparisons!TypeOK
<1>6. i' <= Comparisons!LimbsOf(call')
  BY <1>1, <1>2, <1>3, Operands
<1>7. Comparisons!Allowed(call)' /\ ~(call.op \in Comparisons!Equalities)
  BY <1>1, <1>3, Operands, ComparisonWords DEF Comparisons!LoopInv
<1> QED BY <1>1, <1>3, <1>4, <1>5, <1>6, <1>7, ComparisonWords
           DEF Comparisons!LoopInv, Comparisons!Ordered

\* ScanEquality, one limb of an equality at run time
LEMMA ScanEqualityOK == Comparisons!LoopInv /\ Comparisons!ScanEquality => Comparisons!LoopInv'
<1> SUFFICES ASSUME Comparisons!LoopInv, Comparisons!ScanEquality PROVE Comparisons!LoopInv'
  OBVIOUS
<1> DEFINE h == Comparisons!LimbsOf(call) - i
           x == call.left
           y == call.right
           s == Limb(x, h)
           t == Limb(y, h)
           alike == FirstLimbs(x, h) = FirstLimbs(y, h)
           next  == FirstLimbs(x, h+1) = FirstLimbs(y, h+1)
           init  == Comparisons!initial_result(call)
<1>1. /\ i \in 1..Limbs /\ i <= Comparisons!LimbsOf(call) /\ i-1 \in 0..CompareLimbs
      /\ call.op \in Comparisons!Equalities /\ ~call.compiletime
  BY CompareLimbsOK, ComparisonWords
     DEF Comparisons!LoopInv, Comparisons!TypeOK, Comparisons!ScanEquality
<1>2. h \in 0..Limbs-1 /\ x \in Int /\ y \in Int /\ Comparisons!LimbsOf(call) - (i-1) = h+1
  <2>1. Comparisons!LimbsOf(call) \in 0..Limbs /\ x \in Int /\ y \in Int
    BY Operands
  <2> QED BY <1>1, <2>1, WordAssumption
<1>3. next <=> alike /\ s = t
  BY <1>2, AlikeStep
<1>4. result \in BOOLEAN /\ (result <=> IF call.op = "equal_to" THEN init /\ alike
                                                                ELSE init \/ ~alike)
  BY <1>1, ComparisonWords
     DEF Comparisons!LoopInv, Comparisons!TypeOK, Comparisons!ScanEquality, Comparisons!Alike
<1>5. Comparisons!Compare(call.op, s, t) = IF call.op = "equal_to" THEN s = t ELSE s # t
  BY <1>1 DEF Comparisons!Compare, Comparisons!Equalities
<1>6. /\ call' = call /\ pc' = "scan" /\ i' = i-1 /\ carry' = carry
      /\ result' = IF call.op = "equal_to" THEN result /\ Comparisons!Compare(call.op, s, t)
                                           ELSE result \/ Comparisons!Compare(call.op, s, t)
  BY ComparisonWords DEF Comparisons!ScanEquality
<1>7. Comparisons!Alike' <=> next
  BY <1>2, <1>6, ComparisonWords DEF Comparisons!Alike
<1> HIDE DEF s, t, alike, next, init
<1>8. result' <=> IF call.op = "equal_to" THEN init /\ next ELSE init \/ ~next
  BY <1>3, <1>4, <1>5, <1>6
<1>9. Comparisons!TypeOK'
  <2>1. result' \in BOOLEAN
    BY <1>4, <1>5, <1>6
  <2>2. pc \in {"scan", "done"} /\ carry \in BOOLEAN /\ call \in Comparisons!Calls
    BY DEF Comparisons!LoopInv, Comparisons!TypeOK
  <2>3. i' \in 0..CompareLimbs
    BY <1>1, <1>6
  <2> QED BY <1>6, <2>1, <2>2, <2>3 DEF Comparisons!TypeOK
<1>10. i' <= Comparisons!LimbsOf(call')
  BY <1>1, <1>6, Operands
<1>11. /\ Comparisons!Allowed(call)' /\ ~(call.op \in Comparisons!Orders)
       /\ Comparisons!initial_result(call') = init
  BY <1>1, <1>6, Operands, ComparisonWords DEF Comparisons!LoopInv, init
<1> QED BY <1>1, <1>6, <1>7, <1>8, <1>9, <1>10, <1>11, ComparisonWords
           DEF Comparisons!LoopInv, Comparisons!Ordered

\* A comparison of spans that differ at the limb that ends the loop, or not at all.
LEMMA EqualityEnds ==
  ASSUME Comparisons!LoopInv, call.op \in Comparisons!Equalities,
         Comparisons!Distinguishable(call), NEW alike \in BOOLEAN,
         alike => FirstLimbs(call.left, Comparisons!LimbsOf(call)) =
                    FirstLimbs(call.right, Comparisons!LimbsOf(call)),
         ~alike => call.left # call.right
  PROVE  (IF call.op = "equal_to" THEN Comparisons!initial_result(call) /\ alike
                                  ELSE Comparisons!initial_result(call) \/ ~alike)
           <=> Comparisons!Compare(call.op, call.left, call.right)
<1> DEFINE x == call.left
           y == call.right
           mixed == /\ call.left_type.signed # call.right_type.signed
                    /\ Comparisons!SameFullLimbs(call)
           same  == Comparisons!Sign(x) = Comparisons!Sign(y)
           init  == Comparisons!initial_result(call)
<1>1. call.op \in {"equal_to", "not_equal_to"} /\ ~(call.op \in Comparisons!Orders)
  BY DEF Comparisons!Equalities, Comparisons!Orders
<1>2. Comparisons!Compare(call.op, x, y) = IF call.op = "equal_to" THEN x = y ELSE x # y
  BY <1>1 DEF Comparisons!Compare
<1>3. Comparisons!Compare(call.op, Comparisons!Sign(x), Comparisons!Sign(y)) =
        IF call.op = "equal_to" THEN same ELSE ~same
  BY <1>1 DEF Comparisons!Compare
<1>4. Comparisons!Default(call.op) = (call.op = "equal_to")
  BY <1>1 DEF Comparisons!Default
<1>5. call.compiletime => ~mixed
  BY ComparisonWords
     DEF Comparisons!LoopInv, Comparisons!Allowed, Comparisons!TypeOK, Comparisons!Calls
<1>6. init = IF mixed THEN Comparisons!Compare(call.op, Comparisons!Sign(x), Comparisons!Sign(y))
                ELSE Comparisons!Default(call.op)
  BY <1>1, <1>5 DEF Comparisons!initial_result
<1>7. x = y => same
  OBVIOUS
<1>8. (mixed => same) /\ alike => x = y
  BY Operands, SameLimbs, ComparisonWords DEF Comparisons!LoopInv
<1> HIDE DEF x, y, mixed, same, init
<1>9. CASE call.op = "equal_to"
  BY <1>2, <1>3, <1>4, <1>6, <1>7, <1>8, <1>9 DEF x, y, init
<1>10. CASE call.op = "not_equal_to"
  BY <1>2, <1>3, <1>4, <1>6, <1>7, <1>8, <1>10 DEF x, y, init
<1> QED BY <1>1, <1>9, <1>10

\* A loop that returns without looking at more limbs leaves nothing of the invariant but
\* its promise.
LEMMA ReturnOK ==
  ASSUME Comparisons!LoopInv, NEW b \in BOOLEAN, Comparisons!Return(b),
         \/ call.op \in Comparisons!Equalities /\ ~Comparisons!Distinguishable(call)
         \/ b = Comparisons!Compare(call.op, call.left, call.right)
  PROVE  Comparisons!LoopInv'
<1>1. call' = call /\ i' = i /\ carry' = carry /\ pc' = "done" /\ result' = b
  BY DEF Comparisons!Return
<1>2. Comparisons!TypeOK' /\ Comparisons!Allowed(call)'
  BY <1>1, ComparisonWords DEF Comparisons!LoopInv, Comparisons!TypeOK
<1>3. Comparisons!Ordered'
  BY <1>1 DEF Comparisons!Ordered
<1> QED BY <1>1, <1>2, <1>3, ComparisonWords DEF Comparisons!LoopInv

\* An order is determined by the highest limbs that differ.
LEMMA HigherLimbsDecide ==
  ASSUME NEW op \in Comparisons!Orders, NEW x \in Int, NEW y \in Int, NEW h \in 0..Limbs,
         Subspan(x, h) # Subspan(y, h)
  PROVE  Comparisons!Compare(op, x, y) = Comparisons!Compare(op, Subspan(x, h), Subspan(y, h))
<1> DEFINE w == B^h
           a == Subspan(x, h)
           b == Subspan(y, h)
           s == FirstLimbs(x, h)
           t == FirstLimbs(y, h)
<1>1. w \in Nat \ {0}
  BY PowerOK, h \in 0..h
<1>2. /\ s \in Nat /\ s < w /\ a \in Int /\ x = s + a * w
      /\ t \in Nat /\ t < w /\ b \in Int /\ y = t + b * w
  BY SplitOK
<1>3. a # b
  OBVIOUS
<1> HIDE DEF w, a, b, s, t
<1>4. s \in 0..w-1 /\ t \in 0..w-1 /\ x = w * a + s /\ y = w * b + t
  BY <1>1, <1>2
<1>5. /\ x < y <=> a < b \/ (a = b /\ s < t)
      /\ x = y <=> a = b /\ s = t
  BY <1>1, <1>2, <1>4, DigitsDecide
<1>6. Comparisons!Compare(op, x, y) = Comparisons!Compare(op, a, b)
  BY <1>2, <1>3, <1>4, <1>5, CompareSame
<1> QED BY <1>6 DEF a, b

\* CompiletimeLimb, one limb of an order
LEMMA CompiletimeOrderOK ==
  Comparisons!LoopInv /\ Comparisons!CompiletimeLimb /\ call.op \in Comparisons!Orders =>
    Comparisons!LoopInv'
<1> SUFFICES ASSUME Comparisons!LoopInv, Comparisons!CompiletimeLimb,
                    call.op \in Comparisons!Orders
             PROVE  Comparisons!LoopInv'
  OBVIOUS
<1> DEFINE x == call.left
           y == call.right
           s == Limb(x, i-1)
           t == Limb(y, i-1)
           r == Comparisons!Compare(call.op, s, t)
<1>1. /\ i \in 1..Limbs /\ i-1 \in 0..CompareLimbs /\ i \in 0..CompareLimbs
      /\ i <= Comparisons!LimbsOf(call)
      /\ ~(call.op \in Comparisons!Equalities) /\ call.compiletime /\ pc = "scan"
      /\ carry \in BOOLEAN /\ result \in BOOLEAN
  BY Operands, CompareLimbsOK, ComparisonWords
     DEF Comparisons!LoopInv, Comparisons!TypeOK, Comparisons!CompiletimeLimb
<1>2. /\ ~carry
      /\ result = Comparisons!Compare(call.op, Subspan(x, i), Subspan(y, i))
      /\ carry <=> Subspan(x, i) # Subspan(y, i)
  BY <1>1, ComparisonWords DEF Comparisons!LoopInv
<1>3. x \in Int /\ y \in Int
  BY Operands
<1>4. /\ (IF ~carry /\ s # t THEN r ELSE result)
            = Comparisons!Compare(call.op, Subspan(x, i-1), Subspan(y, i-1))
      /\ (carry \/ s # t) <=> Subspan(x, i-1) # Subspan(y, i-1)
      /\ r \in BOOLEAN
  <2> HIDE DEF x, y
  <2> QED BY <1>1, <1>2, <1>3, OrderStep DEF x, y
<1>5. CASE s # t
  <2>1. Comparisons!Return(r)
    BY <1>1, <1>5, ComparisonWords DEF Comparisons!CompiletimeLimb
  <2>2. Comparisons!Compare(call.op, x, y) = r
    <3>1. call.op \in Comparisons!Orders /\ i-1 \in 0..Limbs
      BY <1>1, CompareLimbsOK
    <3> HIDE DEF x, y, r
    <3> QED BY <1>1, <1>2, <1>3, <1>4, <1>5, <3>1, HigherLimbsDecide
  <2>3. Comparisons!LoopInv' BY <1>4, <2>1, <2>2, ReturnOK
  <2> QED BY <2>3
<1>6. CASE s = t
  <2>1. /\ call' = call /\ pc' = pc /\ i' = i-1
        /\ result' = result /\ carry' = carry
    BY <1>1, <1>6, ComparisonWords DEF Comparisons!CompiletimeLimb
  <2>2. Comparisons!TypeOK'
    BY <1>1, <2>1, ComparisonWords DEF Comparisons!LoopInv, Comparisons!TypeOK
  <2>3. i' <= Comparisons!LimbsOf(call') /\ Comparisons!Allowed(call)'
    BY <1>1, <2>1, Operands, ComparisonWords DEF Comparisons!LoopInv
  <2> HIDE DEF r, s, t
  <2> QED BY <1>1, <1>2, <1>4, <1>6, <2>1, <2>2, <2>3, ComparisonWords
             DEF Comparisons!LoopInv, Comparisons!Ordered
<1> QED BY <1>5, <1>6

\* CompiletimeLimb, one limb of an equality
LEMMA CompiletimeEqualityOK ==
  Comparisons!LoopInv /\ Comparisons!CompiletimeLimb /\ call.op \in Comparisons!Equalities =>
    Comparisons!LoopInv'
<1> SUFFICES ASSUME Comparisons!LoopInv, Comparisons!CompiletimeLimb,
                    call.op \in Comparisons!Equalities
             PROVE  Comparisons!LoopInv'
  OBVIOUS
<1> DEFINE h == Comparisons!LimbsOf(call) - i
           x == call.left
           y == call.right
           s == Limb(x, h)
           t == Limb(y, h)
           next == FirstLimbs(x, h+1) = FirstLimbs(y, h+1)
           init == Comparisons!initial_result(call)
<1>1. /\ i \in 1..Limbs /\ i-1 \in 0..CompareLimbs /\ i \in 0..CompareLimbs
      /\ i <= Comparisons!LimbsOf(call)
      /\ ~(call.op \in Comparisons!Orders) /\ call.compiletime /\ pc = "scan"
      /\ carry \in BOOLEAN /\ result \in BOOLEAN
  BY Operands, CompareLimbsOK, ComparisonWords
     DEF Comparisons!LoopInv, Comparisons!TypeOK, Comparisons!CompiletimeLimb
<1>2. h \in 0..Limbs-1 /\ x \in Int /\ y \in Int /\ Comparisons!LimbsOf(call) - (i-1) = h+1
  <2>1. Comparisons!LimbsOf(call) \in 0..Limbs /\ x \in Int /\ y \in Int
    BY Operands
  <2> QED BY <1>1, <2>1, WordAssumption
<1>3. /\ Comparisons!Alike
      /\ result <=> IF call.op = "equal_to" THEN init /\ Comparisons!Alike
                                            ELSE init \/ ~Comparisons!Alike
  BY <1>1, ComparisonWords DEF Comparisons!LoopInv
<1>4. next <=> s = t
  BY <1>2, <1>3, AlikeStep, ComparisonWords DEF Comparisons!Alike
<1>5. CASE s # t
  <2> DEFINE b == ~Comparisons!Default(call.op)
  <2>1. Comparisons!Return(b) /\ b \in BOOLEAN
    BY <1>1, <1>5, ComparisonWords DEF Comparisons!CompiletimeLimb, Comparisons!Default
  <2>2. x # y
    BY <1>5
  <2>3. b = Comparisons!Compare(call.op, x, y)
    BY <2>2 DEF Comparisons!Compare, Comparisons!Default, Comparisons!Equalities
  <2> HIDE DEF b
  <2> QED BY <2>1, <2>3, ReturnOK
<1>6. CASE s = t
  <2>1. /\ call' = call /\ pc' = pc /\ i' = i-1
        /\ result' = result /\ carry' = carry
    BY <1>1, <1>6, ComparisonWords DEF Comparisons!CompiletimeLimb
  <2>2. Comparisons!TypeOK'
    BY <1>1, <2>1, ComparisonWords DEF Comparisons!LoopInv, Comparisons!TypeOK
  <2>3. /\ i' <= Comparisons!LimbsOf(call') /\ Comparisons!Allowed(call)'
        /\ Comparisons!initial_result(call') = init
    BY <1>1, <2>1, Operands, ComparisonWords DEF Comparisons!LoopInv
  <2>4. Comparisons!Alike'
    BY <1>2, <1>4, <1>6, <2>1, ComparisonWords DEF Comparisons!Alike
  <2> HIDE DEF init
  <2> QED BY <1>1, <1>3, <2>1, <2>2, <2>3, <2>4, ComparisonWords
             DEF Comparisons!LoopInv, Comparisons!Ordered
<1> QED BY <1>5, <1>6

\* End: no limb is left, and the result is that of the whole numbers.
LEMMA EndOK == Comparisons!LoopInv /\ Comparisons!End => Comparisons!LoopInv'
<1> SUFFICES ASSUME Comparisons!LoopInv, Comparisons!End PROVE Comparisons!LoopInv'
  OBVIOUS
<1> DEFINE x == call.left
           y == call.right
           n == Comparisons!LimbsOf(call)
<1>1. /\ i = 0 /\ pc = "scan" /\ Comparisons!Return(result) /\ result \in BOOLEAN
      /\ x \in Int /\ y \in Int /\ n \in 0..Limbs
      /\ call.op \in Comparisons!Equalities \cup Comparisons!Orders
  BY Operands, ComparisonWords DEF Comparisons!End, Comparisons!LoopInv, Comparisons!TypeOK
<1>2. CASE call.op \in Comparisons!Orders
  <2>1. result = Comparisons!Compare(call.op, Subspan(x, 0), Subspan(y, 0))
    BY <1>1, <1>2, ComparisonWords DEF Comparisons!LoopInv
  <2>2. result = Comparisons!Compare(call.op, x, y)
    BY <1>1, <2>1, AllLimbs
  <2> QED BY <1>1, <2>2, ReturnOK
<1>3. CASE call.op \in Comparisons!Equalities
  <2>1. CASE ~Comparisons!Distinguishable(call)
    BY <1>1, <1>3, <2>1, ReturnOK
  <2>2. CASE Comparisons!Distinguishable(call)
    <3> DEFINE alike == FirstLimbs(x, n) = FirstLimbs(y, n)
    <3>1. Comparisons!Alike <=> alike
      BY <1>1, n - 0 = n, ComparisonWords DEF Comparisons!Alike
    <3>2. alike \in BOOLEAN /\ (~alike => x # y)
      OBVIOUS
    <3> HIDE DEF alike
    <3>3. result <=> IF call.op = "equal_to" THEN Comparisons!initial_result(call) /\ alike
                                             ELSE Comparisons!initial_result(call) \/ ~alike
      BY <1>1, <1>3, <3>1, ComparisonWords DEF Comparisons!LoopInv
    <3>4. result <=> Comparisons!Compare(call.op, x, y)
      BY <1>3, <2>2, <3>2, <3>3, EqualityEnds DEF alike
    <3>5. Comparisons!Compare(call.op, x, y) \in BOOLEAN
      BY <1>1, CompareType
    <3>6. result = Comparisons!Compare(call.op, x, y)
      BY <1>1, <3>4, <3>5
    <3> QED BY <1>1, <3>6, ReturnOK
  <2> QED BY <2>1, <2>2
<1> QED BY <1>1, <1>2, <1>3

------------------------------------------------------------------------------
(* The theorems *)

\* The loops keep their invariant.
LEMMA ComparisonKeeps == Comparisons!Spec => []Comparisons!LoopInv
<1>1. Comparisons!LoopInv /\ [Comparisons!Next]_(Comparisons!vars) => Comparisons!LoopInv'
  <2> SUFFICES ASSUME Comparisons!LoopInv, [Comparisons!Next]_(Comparisons!vars)
               PROVE  Comparisons!LoopInv'
    OBVIOUS
  <2>1. CASE Comparisons!ScanOrder
    BY <2>1, ScanOrderOK
  <2>2. CASE Comparisons!ScanEquality
    BY <2>2, ScanEqualityOK
  <2>3. CASE Comparisons!CompiletimeLimb
    BY <2>3, Operands, CompiletimeOrderOK, CompiletimeEqualityOK
  <2>4. CASE Comparisons!End
    BY <2>4, EndOK
  <2>5. CASE UNCHANGED Comparisons!vars
    BY <2>5, ComparisonWords
       DEF Comparisons!vars, Comparisons!LoopInv, Comparisons!TypeOK, Comparisons!Ordered,
           Comparisons!Alike
  <2> QED BY <2>1, <2>2, <2>3, <2>4, <2>5 DEF Comparisons!Next
<1> QED BY InitComparison, <1>1, PTL DEF Comparisons!Spec

\* The six comparisons of compare.hpp, at run time and at compile time, are those of the
\* numbers, whatever the sizes and signs of the operands, as far as their limbs show it.
THEOREM OrderedOK == Comparisons!Spec => []Comparisons!Ordered
<1>1. Comparisons!LoopInv => Comparisons!Ordered
  BY ComparisonWords DEF Comparisons!LoopInv
<1> QED BY ComparisonKeeps, <1>1, PTL

------------------------------------------------------------------------------
(* Additions *)

Result == Addition!Result
Places == Addition!Places

\* There are laws of exponents for the limbs of a sum.
LEMMA SumLimbsOK == SumLimbs \in Nat \ {0} /\ Limbs \in Nat /\ SumLimbs <= Limbs
BY LibraryAssumption, WordAssumption

\* The limbs that the loop reads, and the loop's invariant, Addition!LoopInv.
Left  == Limb(memory[call.left], i)
Right == Limb(memory[call.right], i)

SumInv ==
  /\ Addition!TypeOK
  /\ memory[Result] \in 0 .. B^call.limb_size - 1
  /\ Subspan(memory[call.left], i) = Subspan(call.operands[1], i)
  /\ Subspan(memory[call.right], i) = Subspan(call.operands[2], i)
  /\ LET left  == FirstLimbs(call.operands[1], i)
         right == FirstLimbs(call.operands[2], i)
         sum  == FirstLimbs(memory[Result], i)
     IN  IF call.function = "add"
         THEN sum + carry * B^i = left + right + call.carry
         ELSE sum - carry * B^i = left - right - call.carry

\* A step writes a limb and hands a carry on.
LEMMA AddMeans ==
  ASSUME Addition!Add
  PROVE  LET r == ExtendedAddCarry(Left, Right, carry)
         IN  /\ call.function = "add" /\ i < call.limb_size
             /\ memory' = [memory EXCEPT ![Result] = Store(@, i, r.sum)]
             /\ carry' = r.carry /\ i' = i + 1 /\ call' = call
BY Zenon DEF Addition!Add, Places, Result, Left, Right, Addition!Left, Addition!Right,
             Addition!Limb, Limb,
             Addition!Store, Store, Addition!ExtendedAddCarry, ExtendedAddCarry,
             Addition!Plus, Plus, Addition!IfBit, IfBit

\* So does a step of a subtraction, with a borrow.
LEMMA SubtractMeans ==
  ASSUME Addition!Subtract
  PROVE  LET r == SubtractBorrow(Left, Right, carry)
         IN  /\ call.function = "subtract" /\ i < call.limb_size
             /\ memory' = [memory EXCEPT ![Result] = Store(@, i, r.difference)]
             /\ carry' = r.borrow /\ i' = i + 1 /\ call' = call
BY Zenon DEF Addition!Subtract, Places, Result, Left, Right, Addition!Left, Addition!Right,
             Addition!Limb, Limb,
             Addition!Store, Store, Addition!SubtractBorrow, SubtractBorrow,
             Addition!Plus, Plus, Addition!Minus, Minus, Addition!IfBit, IfBit

\* The result has a place, and what there is at a place is a number.
LEMMA PlacesOK == Result \in Places /\ Numbers \subseteq Int
BY NumberAssumption DEF Places, Result, Addition!Places, Addition!Result

\* Before the first limb nothing is added up.
LEMMA InitSumInv == Addition!Init => SumInv
<1> SUFFICES ASSUME Addition!Init PROVE SumInv
  OBVIOUS
<1>1. \A x \in Int : Subspan(x, 0) \in Int /\ FirstLimbs(x, 0) = 0
  <2> SUFFICES ASSUME NEW x \in Int PROVE Subspan(x, 0) \in Int /\ FirstLimbs(x, 0) = 0
    OBVIOUS
  <2>1. x \div 1 = x /\ x % 1 = 0
    BY x = 1 * x + 0, QuotientUnique
  <2> QED BY <2>1, PowerAssumption DEF Subspan, FirstLimbs
<1>2. PICK left \in Places, right \in Places, op \in {"add", "subtract"},
           size \in 0..SumLimbs, bit \in Bit :
        /\ memory[Result] \in 0 .. B^size - 1
        /\ call = [function |-> op, left |-> left, right |-> right,
                   limb_size |-> size, carry |-> bit,
                   operands |-> <<memory[left], memory[right]>>]
  BY DEF Addition!Init, Places, Result, Addition!Bit, Bit
<1>3. memory \in [Places -> Int] /\ memory[left] \in Int /\ memory[right] \in Int
      /\ memory[Result] \in Int
  BY PlacesOK DEF Addition!Init, Places, Result, Addition!Bit
<1>4. Addition!TypeOK
  BY <1>2, <1>3, SumLimbsOK
  DEF Addition!Init, Places, Result, Addition!TypeOK, Addition!Calls, Addition!Bit, Bit
<1>5. i = 0 /\ carry \in Int /\ carry = call.carry
  BY <1>2 DEF Addition!Init, Places, Result, Bit
<1>6. carry * B^i = carry
  BY <1>5, PowerAssumption
<1> QED BY <1>1, <1>2, <1>3, <1>4, <1>5, <1>6 DEF SumInv

\* What the steps for adding and subtracting share: a limb of the result is
\* written, and the operands stay above it, wherever they are.
LEMMA StoreStep ==
  ASSUME SumInv, i < call.limb_size, NEW word \in Word, NEW bit \in Bit,
         memory' = [memory EXCEPT ![Result] = Store(@, i, word)],
         carry' = bit, i' = i + 1, call' = call
  PROVE  /\ Addition!TypeOK'
         /\ memory'[Result] \in 0 .. B^call.limb_size - 1
         /\ Subspan(memory'[call.left], i+1) = Subspan(call.operands[1], i+1)
         /\ Subspan(memory'[call.right], i+1) = Subspan(call.operands[2], i+1)
         /\ FirstLimbs(memory'[Result], i+1)
              = FirstLimbs(memory[Result], i) + word * B^i
<1>1. /\ i \in 0..Limbs-1 /\ i \in 0.. call.limb_size-1
      /\ call.limb_size \in 0..Limbs
      /\ call.left \in Places /\ call.right \in Places
      /\ call.operands[1] \in Int /\ call.operands[2] \in Int
      /\ memory \in [Places -> Int] /\ Result \in Places /\ memory[Result] \in Int
  BY SumLimbsOK, PlacesOK DEF SumInv, Addition!TypeOK, Addition!Calls, Places, Result
<1> DEFINE x == memory[Result]
           y == Store(x, i, word)
<1>2. memory'[Result] = y /\ \A p \in Places \ {Result} : memory'[p] = memory[p]
  BY <1>1
<1>3. y \in Int /\ FirstLimbs(y, i+1) = FirstLimbs(x, i) + word * B^i
      /\ Subspan(y, i+1) = Subspan(x, i+1)
  BY <1>1, StoreOK
<1>4. y \in 0 .. B^call.limb_size - 1
  BY <1>1, StoreInside DEF SumInv
<1> HIDE DEF y
<1>5. memory' \in [Places -> Int]
  BY <1>1, <1>2, <1>3
<1>6. i' \in 0.. call'.limb_size
  BY <1>1
<1>7. Addition!TypeOK'
  BY <1>5, <1>6 DEF Addition!TypeOK, Places, Addition!Bit, Bit, SumInv
<1>8. \A p \in Places, o \in Int :
        Subspan(memory[p], i) = Subspan(o, i) =>
          Subspan(memory'[p], i+1) = Subspan(o, i+1)
  <2> SUFFICES ASSUME NEW p \in Places, NEW o \in Int,
                      Subspan(memory[p], i) = Subspan(o, i)
               PROVE  Subspan(memory'[p], i+1) = Subspan(o, i+1)
    OBVIOUS
  <2>1. memory[p] \in Int
    BY <1>1
  <2>2. Subspan(memory[p], i+1) = Subspan(memory[p], i) \div B
    BY <1>1, <2>1, LimbOK
  <2>3. Subspan(o, i+1) = Subspan(o, i) \div B
    BY <1>1, LimbOK
  <2>4. Subspan(memory'[p], i+1) = Subspan(memory[p], i+1)
    BY <1>2, <1>3
  <2> QED BY <2>2, <2>3, <2>4
<1> QED BY <1>1, <1>2, <1>3, <1>4, <1>7, <1>8 DEF SumInv

\* The limbs that a step reads are the operands' own.
LEMMA ReadStep ==
  ASSUME SumInv, i < call.limb_size
  PROVE  /\ Left \in Word /\ Right \in Word
         /\ FirstLimbs(call.operands[1], i+1)
              = FirstLimbs(call.operands[1], i) + Left * B^i
         /\ FirstLimbs(call.operands[2], i+1)
              = FirstLimbs(call.operands[2], i) + Right * B^i
<1>1. /\ i \in 0..Limbs-1
      /\ call.operands[1] \in Int /\ call.operands[2] \in Int
  BY SumLimbsOK DEF SumInv, Addition!TypeOK, Addition!Calls, Places, Result
<1>2. Left = Limb(call.operands[1], i) /\ Right = Limb(call.operands[2], i)
  BY DEF SumInv, Left, Right, Limb, Subspan
<1> QED BY <1>1, <1>2, LimbOK

------------------------------------------------------------------------------

\* The carry that a limb hands on has the weight of the next limb.
LEMMA CarryWeight ==
  ASSUME NEW h \in 0..Limbs-1
  PROVE  B^h \in Nat /\ \A c \in Bit : c * B^(h+1) = (B * c) * B^h
<1>1. h+1 \in 0..Limbs /\ h \in 0..h+1 /\ h < h+1
  BY WordAssumption
<1>2. B^h \in Nat /\ B^(h+1) = B^h * B
  BY <1>1, PowerOK
<1> DEFINE w == B^h
<1> HIDE DEF w
<1>3. \A c \in Bit : c * (w * B) = (B * c) * w
  BY <1>2, WordAssumption DEF Bit, w
<1> QED BY <1>2, <1>3 DEF w

\* Add keeps the loop's invariant.
LEMMA AddStep == SumInv /\ Addition!Add => SumInv'
<1> SUFFICES ASSUME SumInv, Addition!Add PROVE SumInv'
  OBVIOUS
<1> DEFINE r     == ExtendedAddCarry(Left, Right, carry)
           out   == B * r.carry
           w     == B^i
           left  == FirstLimbs(call.operands[1], i)
           right == FirstLimbs(call.operands[2], i)
           sum  == FirstLimbs(memory[Result], i)
<1>1. /\ i \in 0..Limbs-1 /\ carry \in Bit /\ call.carry \in Bit
      /\ call.operands[1] \in Int /\ call.operands[2] \in Int /\ memory[Result] \in Int
  BY SumLimbsOK, PlacesOK, AddMeans
  DEF SumInv, Addition!TypeOK, Addition!Calls, Places, Result, Addition!Bit, Bit
<1>2. Left \in Word /\ Right \in Word
  BY ReadStep, AddMeans
<1>3. r.sum \in Word /\ r.carry \in Bit /\ r.sum + out = Left + Right + carry
  BY <1>1, <1>2, ExtendedAddCarryOK
<1>4. /\ FirstLimbs(call.operands[1], i+1) = left + Left * w
      /\ FirstLimbs(call.operands[2], i+1) = right + Right * w
  BY ReadStep, AddMeans
<1>5. /\ memory' = [memory EXCEPT ![Result] = Store(@, i, r.sum)]
      /\ carry' = r.carry /\ i' = i + 1 /\ call' = call
      /\ i < call.limb_size
      /\ call.function = "add"
  BY AddMeans
<1>6. w \in Nat /\ r.carry * B^(i+1) = out * w
  BY <1>1, <1>3, CarryWeight
<1>7. left \in Int /\ right \in Int /\ sum \in Int
  <2>1. \A x \in Int : FirstLimbs(x, i) \in Int
    BY <1>1, LimbOK
  <2> QED BY <1>1, <2>1
<1>8. sum + carry * w = left + right + call.carry
  BY <1>5 DEF SumInv
<1>9. /\ r.sum \in Int /\ out \in Int /\ Left \in Int /\ Right \in Int
         /\ carry \in Int /\ call.carry \in Int /\ w \in Int
  <2>1. B \in Int /\ r.carry \in Int
    BY <1>3, WordAssumption DEF Bit
  <2>2. out \in Int
    BY <2>1
  <2>3. w \in Int
    BY <1>6
  <2> HIDE DEF out, w, r
  <2> QED BY <1>1, <1>2, <1>3, <2>2, <2>3, WordAssumption DEF Word, Bit
<1> HIDE DEF r, out, w, left, right, sum
<1>10. /\ Addition!TypeOK'
      /\ memory'[Result] \in 0 .. B^call.limb_size - 1
      /\ Subspan(memory'[call.left], i+1) = Subspan(call.operands[1], i+1)
      /\ Subspan(memory'[call.right], i+1) = Subspan(call.operands[2], i+1)
      /\ FirstLimbs(memory'[Result], i+1) = sum + r.sum * w
  BY <1>3, <1>5, StoreStep DEF sum, w
<1>11. (sum + r.sum * w) + out * w
         = (left + Left * w) + (right + Right * w) + call.carry
  <2>1. /\ (r.sum + out) * w = r.sum * w + out * w
        /\ (Left + Right + carry) * w = Left * w + Right * w + carry * w
    BY <1>9
  <2>2. /\ r.sum * w \in Int /\ out * w \in Int /\ Left * w \in Int
        /\ Right * w \in Int /\ carry * w \in Int
    BY <1>9
  <2> QED BY <1>3, <1>7, <1>8, <1>9, <2>1, <2>2
<1> QED BY <1>4, <1>5, <1>6, <1>10, <1>11 DEF SumInv

\* Subtract keeps it, too.
LEMMA SubtractStep == SumInv /\ Addition!Subtract => SumInv'
<1> SUFFICES ASSUME SumInv, Addition!Subtract PROVE SumInv'
  OBVIOUS
<1> DEFINE r     == SubtractBorrow(Left, Right, carry)
           out   == B * r.borrow
           w     == B^i
           left  == FirstLimbs(call.operands[1], i)
           right == FirstLimbs(call.operands[2], i)
           sum  == FirstLimbs(memory[Result], i)
<1>1. /\ i \in 0..Limbs-1 /\ carry \in Bit /\ call.carry \in Bit
      /\ call.operands[1] \in Int /\ call.operands[2] \in Int /\ memory[Result] \in Int
  BY SumLimbsOK, PlacesOK, SubtractMeans
  DEF SumInv, Addition!TypeOK, Addition!Calls, Places, Result, Addition!Bit, Bit
<1>2. Left \in Word /\ Right \in Word
  BY ReadStep, SubtractMeans
<1>3. r.difference \in Word /\ r.borrow \in Bit /\ r.difference - out = Left - Right - carry
  BY <1>1, <1>2, SubtractBorrowOK
<1>4. /\ FirstLimbs(call.operands[1], i+1) = left + Left * w
      /\ FirstLimbs(call.operands[2], i+1) = right + Right * w
  BY ReadStep, SubtractMeans
<1>5. /\ memory' = [memory EXCEPT ![Result] = Store(@, i, r.difference)]
      /\ carry' = r.borrow /\ i' = i + 1 /\ call' = call
      /\ i < call.limb_size
      /\ call.function = "subtract"
  BY SubtractMeans
<1>6. w \in Nat /\ r.borrow * B^(i+1) = out * w
  BY <1>1, <1>3, CarryWeight
<1>7. left \in Int /\ right \in Int /\ sum \in Int
  <2>1. \A x \in Int : FirstLimbs(x, i) \in Int
    BY <1>1, LimbOK
  <2> QED BY <1>1, <2>1
<1>8. sum - carry * w = left - right - call.carry
  BY <1>5 DEF SumInv
<1>9. /\ r.difference \in Int /\ out \in Int /\ Left \in Int /\ Right \in Int
         /\ carry \in Int /\ call.carry \in Int /\ w \in Int
  <2>1. B \in Int /\ r.borrow \in Int
    BY <1>3, WordAssumption DEF Bit
  <2>2. out \in Int
    BY <2>1
  <2>3. w \in Int
    BY <1>6
  <2> HIDE DEF out, w, r
  <2> QED BY <1>1, <1>2, <1>3, <2>2, <2>3, WordAssumption DEF Word, Bit
<1> HIDE DEF r, out, w, left, right, sum
<1>10. /\ Addition!TypeOK'
      /\ memory'[Result] \in 0 .. B^call.limb_size - 1
      /\ Subspan(memory'[call.left], i+1) = Subspan(call.operands[1], i+1)
      /\ Subspan(memory'[call.right], i+1) = Subspan(call.operands[2], i+1)
      /\ FirstLimbs(memory'[Result], i+1) = sum + r.difference * w
  BY <1>3, <1>5, StoreStep DEF sum, w
<1>11. (sum + r.difference * w) - out * w
         = (left + Left * w) - (right + Right * w) - call.carry
  <2>1. /\ (r.difference - out) * w = r.difference * w - out * w
        /\ (Left - Right - carry) * w = Left * w - Right * w - carry * w
    BY <1>9
  <2>2. /\ r.difference * w \in Int /\ out * w \in Int /\ Left * w \in Int
        /\ Right * w \in Int /\ carry * w \in Int
    BY <1>9
  <2> QED BY <1>3, <1>7, <1>8, <1>9, <2>1, <2>2
<1> QED BY <1>4, <1>5, <1>6, <1>10, <1>11 DEF SumInv

------------------------------------------------------------------------------

\* The loop's invariant holds throughout.
LEMMA SumInvHolds == Addition!Spec => []SumInv
<1>1. SumInv /\ UNCHANGED Addition!vars => SumInv'
  BY DEF SumInv, Addition!TypeOK, Addition!vars, Result
<1>2. SumInv /\ [Addition!Next]_(Addition!vars) => SumInv'
  BY <1>1, AddStep, SubtractStep DEF Addition!Next
<1> QED BY InitSumInv, <1>2, PTL DEF Addition!Spec

\* Additions and subtractions of long integers are right, and so is the carry
\* or borrow that they return, whether or not the result's memory is that of an
\* operand: callers do both.
THEOREM SumsOK == Addition!Spec => []Addition!Sums
<1>1. SumInv => Addition!Sums
  <2> SUFFICES ASSUME SumInv, i = call.limb_size PROVE Addition!Sums
    BY DEF Addition!Sums
  <2>1. call.limb_size \in 0..Limbs /\ memory[Result] \in Int
    BY SumLimbsOK, PlacesOK DEF SumInv, Addition!TypeOK, Addition!Calls, Places, Result
  <2>2. FirstLimbs(memory[Result], i) = memory[Result]
    BY <2>1, SpanOK DEF SumInv
  <2> QED BY <2>2 DEF SumInv, Addition!Sums, Result, Addition!FirstLimbs, FirstLimbs
<1> QED BY <1>1, SumInvHolds, PTL

\* The counter of limbs stays within the result, and a carry is a bit.
THEOREM LongAdditionTypeOK == Addition!Spec => []Addition!TypeOK
BY SumInvHolds, PTL DEF SumInv

------------------------------------------------------------------------------
(* Kernels and their nonces *)

\* A kernel that draws random elements
\* keeps the nonce that the queue has when it is submitted, and the queue's nonce goes on by
\* the kernel's size.  That nonces are distinct follows from what is true of every state: the
\* queue's nonce is above those of all kernels before.

\* The nonces of the kernels so far are below the one that the next kernel gets.
NoncesBelow == \A j \in DOMAIN kernels : kernels[j].random => kernels[j].nonce < nonce

NonceInv == Queue!TypeOK /\ NoncesBelow /\ Queue!DistinctNonces

\* A kernel has an element, so the nonce goes on when random elements are drawn in it.
LEMMA KernelSizes ==
  ASSUME Queue!ProgramAssumption, NEW p \in Programs, NEW n \in Queue!Nodes(p)
  PROVE  Queue!Size(Queue!ElementShape(p, n)) \in Nat \ {0}
BY Queue!ProgramAssumption

\* Types hold before the first call.
LEMMA InitMachineType ==
  ASSUME Queue!ProgramAssumption PROVE Queue!Init => Queue!TypeOK
<1> SUFFICES ASSUME Queue!Init PROVE Queue!TypeOK
  OBVIOUS
<1>1. program \in Programs
  BY DEF Queue!Init
<1>2. program.calls \in Seq(Seq(DOMAIN program.graph))
  BY <1>1, Queue!ProgramAssumption
<1>3. call \in 0 .. Len(program.calls)
  BY <1>2 DEF Queue!Init
<1>4. plan \in Seq(Queue!Nodes(program)) /\ kernels \in Seq(Queue!Kernel)
  BY DEF Queue!Init
<1> QED
  BY <1>1, <1>3, <1>4 DEF Queue!Init, Queue!TypeOK

\* A call plans the expressions of its execution cache, in which there is nothing but the
\* expressions of the program.
LEMMA CallType ==
  ASSUME Queue!ProgramAssumption PROVE Queue!TypeOK /\ Queue!Call => Queue!TypeOK'
<1> SUFFICES ASSUME Queue!TypeOK, Queue!Call PROVE Queue!TypeOK'
  OBVIOUS
<1>1. program \in Programs /\ program' = program
  BY DEF Queue!TypeOK, Queue!Call
<1>2. Len(program.calls) \in Nat
  BY <1>1, Queue!ProgramAssumption
<1>3. call + 1 \in 1 .. Len(program.calls)
  BY <1>2 DEF Queue!TypeOK, Queue!Call
<1>4. Queue!ExecutionCache(program, call + 1) \in Seq(Queue!Nodes(program))
  BY <1>1, <1>3, Queue!ProgramAssumption
<1>5. plan' \in Seq(Queue!Nodes(program')) /\ call' \in 0 .. Len(program'.calls)
  BY <1>1, <1>2, <1>3, <1>4 DEF Queue!Call
<1>6. Queue!Kernel' = Queue!Kernel
  BY <1>1 DEF Queue!Kernel
<1> QED
  BY <1>1, <1>5, <1>6 DEF Queue!TypeOK, Queue!Call

\* A kernel is submitted with an expression of the plan, and the nonce stays a number.
LEMMA SubmitType ==
  ASSUME Queue!ProgramAssumption PROVE Queue!TypeOK /\ Queue!Submit => Queue!TypeOK'
<1> SUFFICES ASSUME Queue!TypeOK, Queue!Submit PROVE Queue!TypeOK'
  OBVIOUS
<1> DEFINE h == [call |-> call, node |-> Head(plan), nonce |-> nonce,
                random |-> Queue!IsRandom(call, Head(plan))]
<1>1. program \in Programs /\ program' = program /\ call' = call /\ done' = done
  BY DEF Queue!TypeOK, Queue!Submit
<1>2. Head(plan) \in Queue!Nodes(program) /\ plan' \in Seq(Queue!Nodes(program))
  <2>1. plan \in Seq(Queue!Nodes(program)) /\ plan # <<>> /\ plan' = Tail(plan)
    BY DEF Queue!TypeOK, Queue!Submit
  <2> QED
    BY <2>1
<1>3. Queue!KernelSize(Head(plan)) \in Nat
  BY <1>1, <1>2, KernelSizes DEF Queue!KernelSize
<1>4. nonce' \in Nat
  BY <1>3 DEF Queue!TypeOK, Queue!Submit, Queue!Advance
<1>5. Len(program.calls) \in Nat
  BY <1>1, Queue!ProgramAssumption
<1>6. h \in Queue!Kernel
  <2>1. call \in Nat
    BY <1>5 DEF Queue!TypeOK
  <2>2. Queue!IsRandom(call, Head(plan)) \in BOOLEAN
    BY DEF Queue!IsRandom
  <2> QED
    BY <1>2, <2>1, <2>2 DEF Queue!TypeOK, Queue!Kernel
<1>7. kernels' = Append(kernels, h)
  BY DEF Queue!Submit
<1>8. kernels' \in Seq(Queue!Kernel) /\ DOMAIN kernels \subseteq DOMAIN kernels'
  BY <1>6, <1>7 DEF Queue!TypeOK
<1>9. Queue!Kernel' = Queue!Kernel
  BY <1>1 DEF Queue!Kernel
<1> QED
  BY <1>1, <1>2, <1>4, <1>8, <1>9 DEF Queue!TypeOK

\* A kernel that runs changes tensors only.
LEMMA RunType ==
  ASSUME Queue!ProgramAssumption, NEW h \in DOMAIN kernels, Queue!TypeOK, Queue!Run(h)
  PROVE  Queue!TypeOK'
<1>1. UNCHANGED <<program, call, plan, nonce, kernels>> /\ done' \subseteq DOMAIN kernels
  BY DEF Queue!TypeOK, Queue!Run
<1>2. Queue!Kernel' = Queue!Kernel
  BY <1>1 DEF Queue!Kernel
<1> QED
  BY <1>1, <1>2 DEF Queue!TypeOK

\* Types hold after every step.
LEMMA MachineStepType ==
  ASSUME Queue!ProgramAssumption
  PROVE  Queue!TypeOK /\ [Queue!Next]_(Queue!vars) => Queue!TypeOK'
<1> SUFFICES ASSUME Queue!TypeOK, [Queue!Next]_(Queue!vars) PROVE Queue!TypeOK'
  OBVIOUS
<1>1. CASE Queue!Call
  BY <1>1, CallType
<1>2. CASE Queue!Submit
  BY <1>2, SubmitType
<1>3. ASSUME NEW h \in DOMAIN kernels, Queue!Run(h) PROVE Queue!TypeOK'
  BY <1>3, RunType
<1>4. CASE UNCHANGED Queue!vars
  <2>1. Queue!Kernel' = Queue!Kernel
    BY <1>4 DEF Queue!vars, Queue!Kernel
  <2> QED
    BY <1>4, <2>1 DEF Queue!vars, Queue!TypeOK
<1> QED
  BY <1>1, <1>2, <1>3, <1>4 DEF Queue!Next

\* A step that submits no kernel and leaves the nonce leaves what is true of nonces.
LEMMA NoncesKept ==
  NoncesBelow /\ Queue!DistinctNonces /\ UNCHANGED <<nonce, kernels>> =>
    NoncesBelow' /\ Queue!DistinctNonces'
BY DEF NoncesBelow, Queue!DistinctNonces

\* The nonce of a kernel that is submitted is above the others', and the queue's goes on if
\* the kernel draws random elements.
LEMMA SubmitNonces ==
  ASSUME Queue!ProgramAssumption
  PROVE  NonceInv /\ Queue!Submit => NoncesBelow' /\ Queue!DistinctNonces'
<1> SUFFICES ASSUME NonceInv, Queue!Submit PROVE NoncesBelow' /\ Queue!DistinctNonces'
  OBVIOUS
<1> DEFINE n == Head(plan)
           random == Queue!IsRandom(call, n)
           h == [call |-> call, node |-> n, nonce |-> nonce, random |-> random]
<1>1. kernels \in Seq(Queue!Kernel) /\ nonce \in Nat
  BY DEF NonceInv, Queue!TypeOK
<1>2. n \in Queue!Nodes(program)
  <2>1. plan \in Seq(Queue!Nodes(program)) /\ plan # <<>>
    BY DEF NonceInv, Queue!TypeOK, Queue!Submit
  <2> QED
    BY <2>1
<1>3. Queue!KernelSize(n) \in Nat \ {0}
  BY <1>2, KernelSizes DEF NonceInv, Queue!TypeOK, Queue!KernelSize
<1>4. kernels' = Append(kernels, h) /\ nonce' = Queue!Advance(random, Queue!KernelSize(n))
  BY DEF Queue!Submit
<1>5. nonce' \in Nat /\ nonce <= nonce' /\ (random => nonce < nonce')
  BY <1>1, <1>3, <1>4 DEF Queue!Advance
<1>6. /\ DOMAIN kernels' = DOMAIN kernels \cup {Len(kernels) + 1}
      /\ Len(kernels) + 1 \notin DOMAIN kernels
      /\ kernels'[Len(kernels) + 1] = h
      /\ \A j \in DOMAIN kernels : kernels'[j] = kernels[j]
  BY <1>1, <1>4
<1>7. \A j \in DOMAIN kernels : kernels[j].nonce \in Nat
  <2> SUFFICES ASSUME NEW j \in DOMAIN kernels PROVE kernels[j].nonce \in Nat
    OBVIOUS
  <2>1. kernels[j] \in Queue!Kernel
    BY <1>1
  <2> QED
    BY <2>1 DEF Queue!Kernel
<1>8. \A j \in DOMAIN kernels : kernels[j].random => kernels[j].nonce < nonce
  BY DEF NonceInv, NoncesBelow
<1>9. h.nonce = nonce /\ h.random = random
  OBVIOUS
<1> HIDE DEF h, random, n
<1>10. NoncesBelow'
  BY <1>1, <1>5, <1>6, <1>7, <1>8, <1>9 DEF NoncesBelow
<1>11. Queue!DistinctNonces'
  <2> SUFFICES ASSUME NEW o \in DOMAIN kernels', NEW j \in DOMAIN kernels', o # j,
                      kernels'[o].random, kernels'[j].random
               PROVE  kernels'[o].nonce # kernels'[j].nonce
    BY DEF Queue!DistinctNonces
  <2>1. CASE o \in DOMAIN kernels /\ j \in DOMAIN kernels
    BY <1>6, <2>1 DEF NonceInv, Queue!DistinctNonces
  <2>2. CASE o \in DOMAIN kernels /\ j = Len(kernels) + 1
    BY <1>1, <1>6, <1>7, <1>8, <1>9, <2>2
  <2>3. CASE j \in DOMAIN kernels /\ o = Len(kernels) + 1
    BY <1>1, <1>6, <1>7, <1>8, <1>9, <2>3
  <2> QED
    BY <1>6, <2>1, <2>2, <2>3
<1> QED
  BY <1>10, <1>11

\* Whatever programs there are and however calls and kernels are interleaved, what later calls
\* of queue::operator() rely on keeps its types.
THEOREM ExecutionTypeOK ==
  ASSUME Queue!ProgramAssumption PROVE Queue!Spec => []Queue!TypeOK
<1>1. Queue!Init => Queue!TypeOK
  BY InitMachineType
<1>2. Queue!TypeOK /\ [Queue!Next]_(Queue!vars) => Queue!TypeOK'
  BY MachineStepType
<1> QED
  BY <1>1, <1>2, PTL DEF Queue!Spec

\* No two kernels of a queue that draw random elements have the same nonce: add_capability_data
\* advances it by the size of the kernel, which is never zero.
THEOREM DistinctNoncesOK ==
  ASSUME Queue!ProgramAssumption PROVE Queue!Spec => []Queue!DistinctNonces
<1>1. Queue!Init => NonceInv
  <2>1. Queue!Init => NoncesBelow /\ Queue!DistinctNonces
    BY DEF Queue!Init, NoncesBelow, Queue!DistinctNonces
  <2> QED
    BY <2>1, InitMachineType DEF NonceInv
<1>2. NonceInv /\ [Queue!Next]_(Queue!vars) => NonceInv'
  <2> SUFFICES ASSUME NonceInv, [Queue!Next]_(Queue!vars) PROVE NonceInv'
    OBVIOUS
  <2>1. Queue!TypeOK'
    BY MachineStepType DEF NonceInv
  <2>2. CASE Queue!Submit
    BY <2>1, <2>2, SubmitNonces DEF NonceInv
  <2>3. CASE UNCHANGED <<nonce, kernels>>
    BY <2>1, <2>3, NoncesKept DEF NonceInv
  <2> QED
    BY <2>2, <2>3 DEF Queue!Next, Queue!Call, Queue!Run, Queue!vars
<1>3. NonceInv => Queue!DistinctNonces
  BY DEF NonceInv
<1> QED
  BY <1>1, <1>2, <1>3, PTL DEF Queue!Spec

------------------------------------------------------------------------------
(* Integers with types *)

\* The numbers for which there are laws of exponents of two, and the numbers of bits among them
\* that types of bigint and of divisors have
Exponents == (0 .. ArithmeticBits + DivisorBits + limb_bit_size + 3)
               \cup (0 .. limb_bit_size * QuotientLimbs)
               \cup (0 .. limb_bit_size * (2 * BitLimbs)) \cup (0 .. B)
BitCounts == 0 .. ArithmeticBits + DivisorBits + limb_bit_size + 3

\* Powers of two.
LEMMA ExponentOK ==
  ASSUME NEW n \in Exponents, NEW l \in 0..n
  PROVE  /\ 2^n \in Nat \ {0} /\ 2^l \in Nat \ {0} /\ l \in Exponents /\ n-l \in Exponents
         /\ 2^n = 2^l * 2^(n-l) /\ 2^l <= 2^n
         /\ 2^(n-l) \in Nat \ {0}
         /\ 0 < n => 2^n = 2 * 2^(n-1) /\ 2^(n-1) \in Nat \ {0}
<1> DEFINE most == limb_bit_size * QuotientLimbs
           other == limb_bit_size * (2 * BitLimbs)
<1>1. /\ ArithmeticBits \in Nat /\ DivisorBits \in Nat /\ limb_bit_size \in Nat /\ B \in Nat
      /\ most \in Nat /\ other \in Nat
      /\ Exponents = (0 .. ArithmeticBits + DivisorBits + limb_bit_size + 3)
                       \cup (0..most) \cup (0..other) \cup (0..B)
  <2>1. limb_bit_size \in Nat /\ QuotientLimbs \in Nat /\ BitLimbs \in Nat
    BY LibraryAssumption, WordAssumption
  <2> QED BY <2>1, LibraryAssumption, WordAssumption DEF Exponents
<1>2. /\ 2^1 = 2 /\ \A a \in Exponents : 2^a \in Nat \ {0}
      /\ \A a, b \in Exponents : a + b \in Exponents => 2^(a + b) = 2^a * 2^b
  BY TwoAssumption DEF Exponents
<1> HIDE DEF most, other
<1>3. n \in Nat /\ l \in Exponents /\ n-l \in Exponents /\ l + (n-l) = n
  BY <1>1
<1>4. 2^n = 2^l * 2^(n-l)
  BY <1>2, <1>3
<1>5. 2^n \in Nat \ {0} /\ 2^l \in Nat \ {0} /\ 2^(n-l) \in Nat \ {0}
  BY <1>2, <1>3
<1>6. ASSUME 0 < n PROVE 2^n = 2 * 2^(n-1) /\ 2^(n-1) \in Nat \ {0}
  <2>1. 1 \in Exponents /\ n-1 \in Exponents /\ 1 + (n-1) = n
    BY <1>1, <1>6
  <2> QED BY <1>2, <2>1
<1>7. 2^l <= 2^n
  <2> DEFINE u == 2^l
             v == 2^(n-l)
             w == 2^n
  <2>1. u \in Nat \ {0} /\ v \in Nat \ {0} /\ w = u * v
    BY <1>4, <1>5
  <2> HIDE DEF u, v, w
  <2>2. u <= w
    BY <2>1
  <2> QED BY <2>2 DEF u, w
<1> QED BY <1>3, <1>4, <1>5, <1>6, <1>7

\* So for numbers of bits.
LEMMA TwoOK ==
  ASSUME NEW n \in BitCounts, NEW l \in 0..n
  PROVE  /\ 2^n \in Nat \ {0} /\ 2^l \in Nat \ {0} /\ l \in BitCounts /\ n-l \in BitCounts
         /\ 2^n = 2^l * 2^(n-l) /\ 2^l <= 2^n
         /\ 2^(n-l) \in Nat \ {0}
         /\ 0 < n => 2^n = 2 * 2^(n-1) /\ 2^(n-1) \in Nat \ {0}
<1>1. n \in Exponents
  BY DEF Exponents, BitCounts
<1>2. l \in BitCounts /\ n-l \in BitCounts
  BY LibraryAssumption DEF BitCounts
<1> QED BY <1>1, <1>2, ExponentOK

\* The limbs of a type have at least its bits.
LEMMA RoomOfLimbs ==
  ASSUME NEW bits \in 0..ArithmeticBits
  PROVE  /\ Bigints!limb_size_for(bits) * limb_bit_size \in BitCounts
         /\ bits <= Bigints!limb_size_for(bits) * limb_bit_size
<1> DEFINE n == bits + limb_bit_size - 1
           w == limb_bit_size
           d == n \div w
<1>1. /\ bits \in Nat /\ bits <= ArithmeticBits /\ ArithmeticBits \in Nat /\ DivisorBits \in Nat
      /\ w \in Nat \ {0} /\ n \in Int /\ n \in Nat
  BY LibraryAssumption
<1>2. n = bits + w - 1
  OBVIOUS
<1> HIDE DEF n, w
<1>3. d \in Int /\ n % w \in 0..w-1 /\ n = w * d + (n % w)
  BY <1>1, QuotientAndRemainder
<1> DEFINE e == w * d
           r == n % w
<1>4. r \in Int /\ 0 <= r /\ r < w /\ n = e + r /\ e \in Int
  BY <1>1, <1>3
<1>5. d * w = e
  BY <1>1, <1>3
<1> HIDE DEF d, e, r
<1>6. bits <= e /\ e <= ArithmeticBits + DivisorBits + w + 3 /\ 0 <= e
  BY <1>1, <1>2, <1>4
<1> QED BY <1>4, <1>5, <1>6 DEF d, n, w, BitCounts, Bigints!limb_size_for

\* What has room is stored as it is.
LEMMA StoredOK ==
  ASSUME NEW bits \in 0..ArithmeticBits, NEW signed \in BOOLEAN, signed => bits > 0,
         NEW n \in Bigints!Values(bits, signed)
  PROVE  n \in Int /\ Bigints!Stored(n, bits, signed) = n
<1> DEFINE W == Bigints!limb_size_for(bits) * limb_bit_size
           V == 2^W
           v == 2^bits
           low == n % V
<1>1. W \in BitCounts /\ bits \in 0..W /\ bits \in BitCounts
  BY RoomOfLimbs, LibraryAssumption DEF BitCounts
<1> DEFINE u == 2^(W-bits)
           h == 2^(bits-1)
<1>2. V \in Nat \ {0} /\ v \in Nat \ {0} /\ u \in Nat \ {0} /\ V = v * u /\ v <= V
  BY <1>1, TwoOK
<1>3. bits > 0 => v = 2 * h /\ h \in Nat \ {0}
  BY <1>1, TwoOK, bits \in 0..bits
<1>4. CASE bits = 0
  BY <1>4 DEF Bigints!Values, Bigints!Stored
<1>5. CASE bits > 0 /\ ~signed
  <2>1. n \in 0..v-1
    BY <1>5 DEF Bigints!Values
  <2> HIDE DEF V, v, u, h
  <2>2. n \in Int /\ n \in 0..V-1 /\ n = V * 0 + n /\ n = v * 0 + n
    BY <1>2, <2>1
  <2>3. n % V = n /\ n % v = n
    BY <1>2, <2>1, <2>2, QuotientUnique
  <2> QED BY <1>5, <2>2, <2>3 DEF Bigints!Stored, V, v
<1>6. CASE bits > 0 /\ signed
  <2>1. n \in -h .. h-1
    BY <1>6 DEF Bigints!Values
  <2>2. Bigints!Stored(n, bits, signed) =
          IF (low \div h) % 2 = 1 THEN (low % v) - v ELSE low
    BY <1>6 DEF Bigints!Stored
  <2> HIDE DEF V, v, u, h
  <2>3. v = 2 * h /\ h \in Nat \ {0} /\ n \in Int
    BY <1>3, <1>6, <2>1
  <2>4. CASE n >= 0
    <3>1. n \in 0..V-1 /\ n = V * 0 + n /\ n \in 0..h-1 /\ n = h * 0 + n
      BY <1>2, <2>1, <2>3, <2>4
    <3>2. low = n
      BY <1>2, <2>3, <3>1, QuotientUnique
    <3>3. n \div h = 0
      BY <2>3, <3>1, QuotientUnique
    <3> QED BY <2>2, <2>3, <3>2, <3>3
  <2>5. CASE n < 0
    <3>1. V + n \in 0..V-1 /\ n = V * (-1) + (V + n)
      BY <1>2, <2>1, <2>3, <2>5
    <3>2. low = V + n
      <4>1. n \in Int /\ V \in Nat \ {0} /\ -1 \in Int /\ V + n \in 0..V-1
        BY <1>2, <2>3, <3>1
      <4>2. n % V = V + n
        <5>1. n = V * (-1) + (V + n)
          BY <3>1
        <5> DEFINE s0 == V + n
        <5>2. n = V * (-1) + s0 /\ s0 \in 0..V-1
          BY <4>1, <5>1
        <5> HIDE DEF s0
        <5>3. n % V = s0
          BY ONLY <4>1, <5>2, QuotientUnique
        <5> QED BY <5>3 DEF s0
      <4> QED BY <4>2
    <3>3. V = h * (2 * u) /\ V = v * u
      BY <1>2, <2>3
    <3>4. /\ V + n = h * (2 * u - 1) + (h + n) /\ h + n \in 0..h-1
          /\ 2 * u - 1 \in Int /\ V + n \in Int
      BY <1>2, <2>1, <2>3, <2>5, <3>3
    <3>5. (V + n) \div h = 2 * u - 1
      BY <2>3, <3>4, QuotientUnique
    <3>6. V + n = v * (u - 1) + (v + n) /\ v + n \in 0..v-1 /\ u - 1 \in Int
      BY <1>2, <2>1, <2>3, <2>5, <3>3
    <3>7. (V + n) % v = v + n
      BY <1>2, <3>4, <3>6, QuotientUnique
    <3>8. (2 * u - 1) % 2 = 1
      <4>1. 2 * u - 1 = 2 * (u - 1) + 1 /\ 1 \in 0..2-1 /\ u - 1 \in Int /\ 2 * u - 1 \in Int
        BY <1>2
      <4> QED BY <4>1, QuotientUnique
    <3> HIDE DEF low
    <3> QED BY <1>2, <2>2, <2>3, <3>2, <3>5, <3>7, <3>8
  <2> QED BY <2>3, <2>4, <2>5
<1> QED BY <1>4, <1>5, <1>6

\* Types of integers, and their values.
BigInv ==
  /\ result.bits \in 0..ArithmeticBits /\ result.signed \in BOOLEAN
  /\ result.signed => result.bits > 0
  /\ result.value \in Bigints!Values(result.bits, result.signed)
  /\ m = result.value

\* An operator keeps the invariant if its result has room for what it should be.
LEMMA ApplyOK ==
  ASSUME NEW bits \in Nat, NEW signed \in BOOLEAN, NEW v, NEW n,
         Bigints!Apply(Bigints!Big(bits, signed, v), n),
         v = n, v \in Bigints!Values(bits, signed)
  PROVE  BigInv'
<1> DEFINE new == Bigints!Big(bits, signed, v)
<1>1. /\ new = [bits |-> bits, signed |-> signed, value |-> Bigints!Stored(v, bits, signed)]
      /\ new.bits = bits /\ new.signed = signed /\ new.value = Bigints!Stored(v, bits, signed)
  BY DEF Bigints!Big
<1>2. /\ new.bits <= ArithmeticBits
      /\ new.signed => new.bits > 0
      /\ result' = new /\ m' = n
  BY DEF Bigints!Apply
<1>3. bits \in 0..ArithmeticBits /\ (signed => bits > 0)
  BY <1>1, <1>2, LibraryAssumption
<1>4. Bigints!Stored(v, bits, signed) = v
  BY <1>3, StoredOK
<1> HIDE DEF new
<1> QED BY <1>1, <1>2, <1>3, <1>4 DEF BigInv

\* What a type's values are.
LEMMA ValuesOK ==
  ASSUME NEW bits \in BitCounts, NEW signed \in BOOLEAN, NEW v
  PROVE  /\ 2^bits \in Nat \ {0}
         /\ bits > 0 => 2^bits = 2 * 2^(bits-1) /\ 2^(bits-1) \in Nat \ {0}
         /\ v \in Bigints!Values(bits, signed) <=>
              v \in Int /\ IF bits = 0 THEN v = 0
                           ELSE IF signed THEN -2^(bits-1) <= v /\ v < 2^(bits-1)
                                ELSE 0 <= v /\ v < 2^bits
<1>1. bits \in Nat
  BY LibraryAssumption DEF BitCounts
<1>2. 2^bits \in Nat \ {0} /\ (bits > 0 => 2^bits = 2 * 2^(bits-1) /\ 2^(bits-1) \in Nat \ {0})
  BY <1>1, bits \in 0..bits, TwoOK
<1> DEFINE u == 2^bits
           h == 2^(bits-1)
<1>3. v \in Bigints!Values(bits, signed) <=>
        v \in IF bits = 0 THEN {0} ELSE IF signed THEN -h .. h-1 ELSE 0 .. u-1
  BY DEF Bigints!Values
<1>4. u \in Nat \ {0} /\ (bits > 0 => h \in Nat \ {0})
  BY <1>2
<1> HIDE DEF u, h
<1>5. v \in Bigints!Values(bits, signed) <=>
        v \in Int /\ IF bits = 0 THEN v = 0
                     ELSE IF signed THEN -h <= v /\ v < h ELSE 0 <= v /\ v < u
  BY <1>1, <1>3, <1>4
<1> QED BY <1>2, <1>5 DEF u, h

\* Numbers have values of their type, and there are laws of exponents for its bits.
LEMMA NumberOK ==
  ASSUME BigInv
  PROVE  /\ result.bits \in BitCounts /\ result.bits \in Nat /\ result.signed \in BOOLEAN
         /\ result.value \in Int /\ m = result.value
BY StoredOK, LibraryAssumption DEF BigInv, BitCounts

\* An operand of an operator has a value of its type, and few bits.
LEMMA OperandOK ==
  ASSUME NEW y \in Bigints!Operands
  PROVE  /\ y.bits \in 0..3 /\ y.signed \in BOOLEAN /\ (y.signed => y.bits > 0)
         /\ y.value \in Bigints!Values(y.bits, y.signed)
<1>1. PICK bits \in 0..3, signed \in BOOLEAN :
        y \in {Bigints!Big(bits, signed, n) : n \in Bigints!Values(bits, signed)}
  BY DEF Bigints!Operands
<1>2. PICK n \in Bigints!Values(bits, signed) : y = Bigints!Big(bits, signed, n)
  BY <1>1
<1>3. y = [bits |-> bits, signed |-> signed, value |-> Bigints!Stored(n, bits, signed)]
  BY <1>2 DEF Bigints!Big
<1>4. ASSUME signed, bits = 0 PROVE FALSE
  <2>1. y = Bigints!Big(0, TRUE, 0)
    BY <1>2, <1>4 DEF Bigints!Values
  <2> QED BY <2>1 DEF Bigints!Operands
<1>5. bits \in 0..ArithmeticBits
  BY LibraryAssumption
<1>6. Bigints!Stored(n, bits, signed) = n
  BY <1>4, <1>5, StoredOK
<1> QED BY <1>2, <1>3, <1>4, <1>6

\* A number begins with its value.
LEMMA InitBigInv == Bigints!Init => BigInv
<1> SUFFICES ASSUME Bigints!Init PROVE BigInv
  OBVIOUS
<1>1. result \in Bigints!Operands /\ m = result.value
  BY DEF Bigints!Init
<1>2. 0..3 \subseteq 0..ArithmeticBits
  BY LibraryAssumption
<1> QED BY <1>1, <1>2, OperandOK DEF BigInv

\* The greater one of two numbers of bits.
LEMMA GreaterOK ==
  ASSUME NEW b \in Nat, NEW c \in Nat
  PROVE  /\ Bigints!Greater(b, c) \in Nat
         /\ b <= Bigints!Greater(b, c) /\ c <= Bigints!Greater(b, c)
         /\ Bigints!Greater(b, c) = b \/ Bigints!Greater(b, c) = c
BY DEF Bigints!Greater

\* A sum or difference has room in one bit more than the greater operand, unless one with a sign
\* has no bit more than one without.
LEMMA SumRoom ==
  ASSUME NEW b \in BitCounts, NEW c \in BitCounts, NEW s \in BOOLEAN, NEW t \in BOOLEAN,
         NEW x \in Bigints!Values(b, s), NEW y \in Bigints!Values(c, t),
         s => b > 0, t => c > 0, Bigints!Greater(b, c) + 1 \in BitCounts,
         s = t \/ (s /\ c < b) \/ (t /\ b < c)
  PROVE  LET g == Bigints!Greater(b, c) + 1
         IN  /\ x + y \in Bigints!Values(g, s \/ t)
             /\ x - y \in Bigints!Values(g, TRUE)
<1> DEFINE g == Bigints!Greater(b, c)
           G == 2^g
           F == 2^(g+1)
           P == 2^b
           Q == 2^c
           h == 2^(b-1)
           l == 2^(c-1)
<1>1. b \in Nat /\ c \in Nat /\ g \in Nat /\ b <= g /\ c <= g /\ (g = b \/ g = c)
  BY GreaterOK, LibraryAssumption DEF BitCounts
<1>2. g \in BitCounts /\ g+1 \in BitCounts /\ b \in 0..g /\ c \in 0..g /\ g \in 0..g+1
  BY <1>1
<1>3. G \in Nat \ {0} /\ P <= G /\ Q <= G
  BY <1>2, TwoOK
<1>4. F = 2 * G
  <2>1. g + 1 > 0 /\ (g + 1) - 1 = g
    BY <1>1
  <2> QED BY <1>2, <2>1, TwoOK
<1>5. /\ P \in Nat \ {0} /\ (b > 0 => P = 2 * h /\ h \in Nat \ {0})
      /\ Q \in Nat \ {0} /\ (c > 0 => Q = 2 * l /\ l \in Nat \ {0})
  BY ValuesOK
<1>6. x \in Int /\ IF b = 0 THEN x = 0 ELSE IF s THEN -h <= x /\ x < h ELSE 0 <= x /\ x < P
  BY ValuesOK
<1>7. y \in Int /\ IF c = 0 THEN y = 0 ELSE IF t THEN -l <= y /\ y < l ELSE 0 <= y /\ y < Q
  BY ValuesOK
<1>8. ASSUME s, c < b PROVE Q <= h
  <2>1. b-1 \in BitCounts /\ c \in 0..b-1
    BY <1>1, <1>2, <1>8, LibraryAssumption DEF BitCounts
  <2> QED BY <2>1, TwoOK
<1>9. ASSUME t, b < c PROVE P <= l
  <2>1. c-1 \in BitCounts /\ b \in 0..c-1
    BY <1>1, <1>2, <1>9, LibraryAssumption DEF BitCounts
  <2> QED BY <2>1, TwoOK
<1>10. \A v : /\ v \in Int /\ -G <= v /\ v < G => v \in Bigints!Values(g+1, TRUE)
              /\ v \in Int /\ 0 <= v /\ v < F => v \in Bigints!Values(g+1, FALSE)
  <2>1. g + 1 # 0 /\ (g+1)-1 = g
    BY <1>1
  <2> QED BY <1>2, <2>1, ValuesOK
<1> HIDE DEF g, G, F, P, Q, h, l
<1>11. /\ s => b > 0 /\ -h <= x /\ x < h
       /\ ~s => 0 <= x /\ x < P
       /\ x \in Int
  BY <1>5, <1>6
<1>12. /\ t => c > 0 /\ -l <= y /\ y < l
       /\ ~t => 0 <= y /\ y < Q
       /\ y \in Int
  BY <1>5, <1>7
<1>13. s => 2 * h <= G /\ h \in Nat
  BY <1>3, <1>5, <1>11
<1>14. t => 2 * l <= G /\ l \in Nat
  BY <1>3, <1>5, <1>12
<1>15. s /\ ~t => Q <= h
  BY <1>8, Zenon
<1>16. ~s /\ t => P <= l
  BY <1>9, Zenon
<1>17. x - y \in Int /\ -G <= x - y /\ x - y < G
  <2>1. CASE s /\ t
    BY <1>3, <1>11, <1>12, <1>13, <1>14, <2>1
  <2>2. CASE ~s /\ ~t
    BY <1>3, <1>5, <1>11, <1>12, <2>2
  <2>3. CASE s /\ ~t
    BY <1>3, <1>5, <1>11, <1>12, <1>13, <1>15, <2>3
  <2>4. CASE ~s /\ t
    BY <1>3, <1>5, <1>11, <1>12, <1>14, <1>16, <2>4
  <2> QED BY <2>1, <2>2, <2>3, <2>4
<1>18. x + y \in Int /\ IF s \/ t THEN -G <= x + y /\ x + y < G ELSE 0 <= x + y /\ x + y < F
  <2>1. CASE s /\ t
    BY <1>3, <1>11, <1>12, <1>13, <1>14, <2>1
  <2>2. CASE ~s /\ ~t
    BY <1>3, <1>4, <1>5, <1>11, <1>12, <2>2
  <2>3. CASE s /\ ~t
    BY <1>3, <1>5, <1>11, <1>12, <1>13, <1>15, <2>3
  <2>4. CASE ~s /\ t
    BY <1>3, <1>5, <1>11, <1>12, <1>14, <1>16, <2>4
  <2> QED BY <2>1, <2>2, <2>3, <2>4
<1>19. x + y \in Bigints!Values(g+1, s \/ t)
  <2>1. CASE s \/ t
    BY <1>10, <1>18, <2>1
  <2>2. CASE ~(s \/ t)
    BY <1>10, <1>18, <2>2
  <2> QED BY <2>1, <2>2
<1> QED BY <1>10, <1>17, <1>19 DEF g

\* What is known of the intermediate result and of an operand.
LEMMA OperandsOK ==
  ASSUME BigInv, NEW y \in Bigints!Operands
  PROVE  /\ result.bits \in BitCounts /\ y.bits \in BitCounts
         /\ result.bits \in Nat /\ y.bits \in Nat
         /\ result.signed \in BOOLEAN /\ y.signed \in BOOLEAN
         /\ result.value \in Bigints!Values(result.bits, result.signed) /\ result.value \in Int
         /\ y.value \in Bigints!Values(y.bits, y.signed) /\ y.value \in Int
         /\ result.signed => result.bits > 0
         /\ y.signed => y.bits > 0
         /\ m = result.value
         /\ Bigints!Greater(result.bits, y.bits) + 1 \in BitCounts
<1>1. /\ y.bits \in 0..3 /\ y.signed \in BOOLEAN
      /\ y.value \in Bigints!Values(y.bits, y.signed)
      /\ y.signed => y.bits > 0
  BY OperandOK
<1>2. 0..3 \subseteq 0..ArithmeticBits /\ 0..ArithmeticBits \subseteq BitCounts
      /\ \A n \in 0..ArithmeticBits : n \in Nat /\ n + 1 \in BitCounts
  BY LibraryAssumption DEF BitCounts
<1>3. result.bits \in 0..ArithmeticBits /\ y.bits \in 0..ArithmeticBits
  BY <1>1, <1>2 DEF BigInv
<1>4. Bigints!Greater(result.bits, y.bits) \in 0..ArithmeticBits
  BY <1>3, GreaterOK DEF Bigints!Greater
<1>5. result.value \in Int /\ y.value \in Int
  BY <1>1, <1>2, <1>3, NumberOK, ValuesOK
<1> QED BY <1>1, <1>2, <1>3, <1>4, <1>5, NumberOK DEF BigInv

\* operator+: plus_bits has a bit for the carry.
LEMMA AddOK == ASSUME BigInv, NEW y \in Bigints!Operands, Bigints!Add(y) PROVE BigInv'
<1> DEFINE bits == Bigints!plus_bits(result, y)
           signed == result.signed \/ y.signed
           v == result.value + y.value
<1>1. /\ Bigints!Apply(Bigints!Big(bits, signed, v), m + y.value)
      /\ Bigints!HasRoom(y)
  BY DEF Bigints!Add, Bigints!Plus
<1>2. m + y.value = v
  BY OperandsOK
<1>3. bits \in Nat /\ signed \in BOOLEAN /\ v \in Bigints!Values(bits, signed)
  <2>1. CASE result.bits = 0
    <3>1. bits = y.bits /\ ~result.signed
      BY <2>1, OperandsOK DEF Bigints!plus_bits
    <3>2. result.value = 0
      BY <2>1, OperandsOK, ValuesOK
    <3>3. v = y.value
      BY <3>2, OperandsOK
    <3>4. signed = y.signed
      BY <3>1, OperandsOK
    <3> QED BY <3>1, <3>3, <3>4, OperandsOK
  <2>2. CASE result.bits # 0 /\ y.bits = 0
    <3>1. bits = result.bits /\ ~y.signed
      BY <2>2, OperandsOK DEF Bigints!plus_bits
    <3>2. y.value = 0
      BY <2>2, OperandsOK, ValuesOK
    <3>3. v = result.value
      BY <3>2, OperandsOK
    <3>4. signed = result.signed
      BY <3>1, OperandsOK
    <3> QED BY <3>1, <3>3, <3>4, OperandsOK
  <2>3. CASE result.bits # 0 /\ y.bits # 0
    <3>1. bits = Bigints!Greater(result.bits, y.bits) + 1
      BY <2>3 DEF Bigints!plus_bits
    <3>2. v \in Bigints!Values(Bigints!Greater(result.bits, y.bits) + 1, signed)
      BY <1>1, OperandsOK, SumRoom DEF Bigints!HasRoom
    <3>3. bits \in Nat
      BY <3>1, OperandsOK, LibraryAssumption DEF BitCounts
    <3> QED BY <3>1, <3>2, <3>3, OperandsOK
  <2> QED BY <2>1, <2>2, <2>3
<1> HIDE DEF bits, signed, v
<1> QED BY <1>1, <1>2, <1>3, ApplyOK

\* operator-: an unsigned number without bits is the only one that needs no bit for the sign.
LEMMA SubtractOK == ASSUME BigInv, NEW y \in Bigints!Operands, Bigints!Subtract(y) PROVE BigInv'
<1> DEFINE bits == Bigints!minus_bits(result, y)
           v == result.value - y.value
<1>1. /\ Bigints!Apply(Bigints!Big(bits, TRUE, v), m - y.value)
      /\ Bigints!HasRoom(y) /\ (y.bits = 0 => result.signed)
  BY DEF Bigints!Subtract, Bigints!Minus
<1>2. m - y.value = v
  BY OperandsOK
<1>3. bits \in Nat /\ v \in Bigints!Values(bits, TRUE)
  <2>1. CASE y.bits = 0
    <3>1. bits = result.bits /\ result.signed = TRUE
      BY <1>1, <2>1, OperandsOK DEF Bigints!minus_bits
    <3>2. y.value = 0
      BY <2>1, OperandsOK, ValuesOK
    <3>3. v = result.value
      BY <3>2, OperandsOK
    <3> QED BY <3>1, <3>3, OperandsOK
  <2>2. CASE y.bits # 0
    <3>1. bits = Bigints!Greater(result.bits, y.bits) + 1
      BY <2>2 DEF Bigints!minus_bits
    <3>2. v \in Bigints!Values(Bigints!Greater(result.bits, y.bits) + 1, TRUE)
      BY <1>1, OperandsOK, SumRoom DEF Bigints!HasRoom
    <3>3. bits \in Nat
      BY <3>1, OperandsOK, LibraryAssumption DEF BitCounts
    <3> QED BY <3>1, <3>2, <3>3
  <2> QED BY <2>1, <2>2
<1> HIDE DEF bits, v
<1> QED BY <1>1, <1>2, <1>3, ApplyOK

\* operator*: times_bits is the sum of the widths, or one of them if the other number is a bit.
LEMMA MultiplyOK == ASSUME BigInv, NEW y \in Bigints!Operands, Bigints!Multiply(y) PROVE BigInv'
<1> DEFINE bits == Bigints!times_bits(result, y)
           v == result.value * y.value
           a == result.value
           b == y.value
           P == 2^result.bits
           Q == 2^y.bits
<1>1. /\ Bigints!Apply(Bigints!Big(bits, FALSE, v), m * y.value)
      /\ ~result.signed /\ ~y.signed
  BY DEF Bigints!Multiply, Bigints!Times
<1>2. m * y.value = v
  BY OperandsOK
<1>3. /\ result.bits \in Nat /\ y.bits \in Nat /\ result.bits \in BitCounts /\ y.bits \in BitCounts
      /\ result.signed = FALSE /\ y.signed = FALSE
  BY <1>1, OperandsOK
<1>4. /\ P \in Nat \ {0} /\ Q \in Nat \ {0}
      /\ a \in Int /\ IF result.bits = 0 THEN a = 0 ELSE 0 <= a /\ a < P
      /\ b \in Int /\ IF y.bits = 0 THEN b = 0 ELSE 0 <= b /\ b < Q
  BY <1>1, <1>3, OperandsOK, ValuesOK
<1>5. bits \in Nat /\ v \in Bigints!Values(bits, FALSE)
  <2>1. CASE result.bits = 0 \/ y.bits = 0
    <3>1. bits = 0
      BY <2>1 DEF Bigints!times_bits
    <3> HIDE DEF a, b
    <3>2. a * b = 0
      BY <1>4, <2>1
    <3> QED BY <3>1, <3>2 DEF Bigints!Values, a, b
  <2>2. CASE result.bits = 1 /\ y.bits # 0
    <3>1. bits = y.bits
      BY <1>3, <2>2 DEF Bigints!times_bits
    <3>2. P = 2
      BY <2>2, TwoAssumption
    <3> HIDE DEF a, b, P, Q
    <3>3. a = 0 \/ a = 1
      <4>1. a \in Int /\ 0 <= a /\ a < 2
        BY <1>4, <2>2, <3>2
      <4> QED BY <4>1
    <3>4. a * b \in Int /\ 0 <= a * b /\ a * b < Q
      <4>1. b \in Int /\ 0 <= b /\ b < Q
        BY <1>4, <2>2
      <4>2. CASE a = 0
        <5>1. a * b = 0
          BY <4>1, <4>2
        <5> QED BY <1>4, <4>1, <5>1
      <4>3. CASE a = 1
        <5>1. a * b = b
          BY <4>1, <4>3
        <5> QED BY <4>1, <5>1
      <4> QED BY <3>3, <4>2, <4>3
    <3>5. v \in Bigints!Values(y.bits, FALSE) <=>
            v \in Int /\ IF y.bits = 0 THEN v = 0 ELSE 0 <= v /\ v < Q
      <4> HIDE DEF v
      <4> QED BY <1>3, ValuesOK DEF Q
    <3>6. v = a * b
      BY DEF a, b
    <3> HIDE DEF v, bits
    <3> QED BY <1>3, <2>2, <3>1, <3>4, <3>5, <3>6
  <2>3. CASE result.bits # 0 /\ result.bits # 1 /\ y.bits = 1
    <3>1. bits = result.bits
      BY <1>3, <2>3 DEF Bigints!times_bits
    <3>2. Q = 2
      BY <2>3, TwoAssumption
    <3> HIDE DEF a, b, P, Q
    <3>3. b = 0 \/ b = 1
      <4>1. b \in Int /\ 0 <= b /\ b < 2
        BY <1>4, <2>3, <3>2
      <4> QED BY <4>1
    <3>4. a * b \in Int /\ 0 <= a * b /\ a * b < P
      <4>1. a \in Int /\ 0 <= a /\ a < P
        BY <1>4, <2>3
      <4>2. CASE b = 0
        <5>1. a * b = 0
          BY <4>1, <4>2
        <5> QED BY <1>4, <4>1, <5>1
      <4>3. CASE b = 1
        <5>1. a * b = a
          BY <4>1, <4>3
        <5> QED BY <4>1, <5>1
      <4> QED BY <3>3, <4>2, <4>3
    <3>5. v \in Bigints!Values(result.bits, FALSE) <=>
            v \in Int /\ IF result.bits = 0 THEN v = 0 ELSE 0 <= v /\ v < P
      <4> HIDE DEF v
      <4> QED BY <1>3, ValuesOK DEF P
    <3>6. v = a * b
      BY DEF a, b
    <3> HIDE DEF v, bits
    <3> QED BY <1>3, <2>3, <3>1, <3>4, <3>5, <3>6
  <2>4. CASE result.bits # 0 /\ result.bits # 1 /\ y.bits # 0 /\ y.bits # 1
    <3>1. bits = result.bits + y.bits
      BY <1>3, <2>4 DEF Bigints!times_bits
    <3>2. bits \in BitCounts /\ result.bits \in 0..bits /\ bits - result.bits = y.bits /\ bits # 0
      <4>1. result.bits + y.bits \in BitCounts
        <5>1. result.bits \in 0..ArithmeticBits /\ y.bits \in 0..3
          BY OperandOK DEF BigInv
        <5>2. limb_bit_size \in Nat /\ ArithmeticBits \in Nat /\ DivisorBits \in Nat
          BY LibraryAssumption
        <5> QED BY <5>1, <5>2 DEF BitCounts
      <4> QED BY <1>3, <2>4, <3>1, <4>1
    <3>3. 2^bits = P * Q
      BY <3>2, TwoOK
    <3> HIDE DEF bits
    <3>4. a * b \in Int /\ 0 <= a * b /\ a * b < P * Q
      <4> HIDE DEF a, b, P, Q
      <4>1. a \in Nat /\ b \in Nat /\ a <= P - 1 /\ b <= Q - 1
        BY <1>4, <2>4
      <4>2. a * b <= (P-1) * b /\ (P-1) * b <= (P-1) * (Q-1)
        BY <1>4, <4>1
      <4>3. (P-1) * (Q-1) = P * Q - P - Q + 1 /\ P * Q \in Nat /\ a * b \in Nat
        BY <1>4, <4>1
      <4>4. (P-1) * b \in Int
        BY <1>4, <4>1
      <4> QED BY <1>4, <4>2, <4>3, <4>4
    <3>5. v \in Int /\ 0 <= v /\ v < 2^bits
      BY <3>3, <3>4
    <3> HIDE DEF v
    <3>6. bits \in Nat
      BY <1>3, <3>1
    <3>7. v \in Bigints!Values(bits, FALSE) <=>
            v \in Int /\ IF bits = 0 THEN v = 0
                         ELSE IF FALSE THEN -2^(bits-1) <= v /\ v < 2^(bits-1)
                              ELSE 0 <= v /\ v < 2^bits
      BY <3>2, ValuesOK
    <3> QED BY <3>2, <3>5, <3>6, <3>7
  <2> QED BY <2>1, <2>2, <2>3, <2>4
<1> HIDE DEF bits, v
<1> QED BY <1>1, <1>2, <1>5, ApplyOK

\* operator/ and operator% of numbers without signs.
LEMMA DivideOK ==
  ASSUME BigInv, NEW y \in Bigints!Operands, Bigints!Divide(y) \/ Bigints!Reduce(y) PROVE BigInv'
<1> DEFINE a == result.value
           b == y.value
           d == a \div b
           r == a % b
           P == 2^result.bits
           Q == 2^y.bits
<1>1. ~result.signed /\ ~y.signed /\ b # 0
  BY DEF Bigints!Divide, Bigints!Reduce
<1>2. /\ result.bits \in Nat /\ y.bits \in Nat /\ result.bits \in BitCounts /\ y.bits \in BitCounts
      /\ result.signed = FALSE /\ y.signed = FALSE /\ m = a
  BY <1>1, OperandsOK
<1>3. /\ P \in Nat \ {0} /\ Q \in Nat \ {0}
      /\ a \in Int /\ IF result.bits = 0 THEN a = 0 ELSE 0 <= a /\ a < P
      /\ b \in Int /\ IF y.bits = 0 THEN b = 0 ELSE 0 <= b /\ b < Q
  BY <1>1, <1>2, OperandsOK, ValuesOK
<1>4. y.bits # 0 /\ b \in Nat \ {0}
  BY <1>1, <1>3
<1>5. d \in Int /\ r \in 0..b-1 /\ a = b * d + r
  <2> HIDE DEF a, b
  <2> QED BY <1>3, <1>4, QuotientAndRemainder
<1>6. 0 <= d /\ d <= a
  <2> HIDE DEF a, b, d, r
  <2>1. a \in Nat /\ r \in Nat /\ r < b
    BY <1>3, <1>4, <1>5
  <2>2. ~(d < 0)
    <3> SUFFICES ASSUME d <= -1 PROVE FALSE
      BY <1>5
    <3>1. b * d <= b * (-1) /\ b * (-1) = -b /\ b * d \in Int
      BY <1>4, <1>5
    <3> QED BY <1>4, <1>5, <2>1, <3>1
  <2>3. b * d >= d /\ b * d \in Int
    BY <1>4, <1>5, <2>2
  <2> QED BY <1>3, <1>5, <2>1, <2>2, <2>3
<1>7. d \in Bigints!Values(result.bits, FALSE)
  <2> HIDE DEF a, b, d, r, P, Q
  <2>1. IF result.bits = 0 THEN d = 0 ELSE 0 <= d /\ d < P
    BY <1>3, <1>5, <1>6
  <2> QED BY <1>2, <1>5, <2>1, ValuesOK DEF P
<1>8. r \in Bigints!Values(y.bits, FALSE)
  <2> HIDE DEF a, b, d, r, P, Q
  <2>1. r \in Int /\ 0 <= r /\ r < Q
    BY <1>3, <1>4, <1>5
  <2> QED BY <1>2, <1>4, <2>1, ValuesOK DEF Q
<1>9. CASE Bigints!Divide(y)
  <2>1. Bigints!Apply(Bigints!Big(result.bits, FALSE, d), m \div y.value) /\ m \div y.value = d
    BY <1>2, <1>9 DEF Bigints!Divide, Bigints!Quotient
  <2> HIDE DEF d
  <2> QED BY <1>2, <1>7, <2>1, ApplyOK
<1>10. CASE Bigints!Reduce(y)
  <2>1. Bigints!Apply(Bigints!Big(y.bits, FALSE, r), m % y.value) /\ m % y.value = r
    BY <1>2, <1>10 DEF Bigints!Reduce, Bigints!Modulo
  <2> HIDE DEF r
  <2> QED BY <1>2, <1>8, <2>1, ApplyOK
<1> QED BY <1>9, <1>10

\* Numbers of bits after a shift.
LEMMA ShiftedOK ==
  ASSUME BigInv, NEW shift \in 0..3
  PROVE  /\ shift \in BitCounts /\ 2^shift \in Nat \ {0}
         /\ result.bits + shift \in BitCounts /\ 2^(result.bits + shift) = 2^result.bits * 2^shift
         /\ result.bits > 0 =>
              2^((result.bits + shift) - 1) = 2^(result.bits - 1) * 2^shift
<1>1. /\ shift \in Nat /\ shift <= 3 /\ limb_bit_size \in Nat /\ ArithmeticBits \in Nat
      /\ DivisorBits \in Nat
      /\ result.bits \in Nat /\ result.bits <= ArithmeticBits
  BY LibraryAssumption DEF BigInv
<1>2. shift \in BitCounts /\ shift \in 0..shift
  BY <1>1 DEF BitCounts
<1>3. /\ result.bits + shift \in BitCounts /\ result.bits \in 0 .. result.bits + shift
      /\ (result.bits + shift) - result.bits = shift
  BY <1>1 DEF BitCounts
<1>4. ASSUME result.bits > 0
      PROVE  /\ (result.bits + shift) - 1 \in BitCounts
             /\ result.bits - 1 \in 0 .. (result.bits + shift) - 1
             /\ ((result.bits + shift) - 1) - (result.bits - 1) = shift
  BY <1>1, <1>4 DEF BitCounts
<1>5. ASSUME result.bits > 0
      PROVE  2^((result.bits + shift) - 1) = 2^(result.bits - 1) * 2^shift
  BY <1>4, <1>5, TwoOK
<1> QED BY <1>2, <1>3, <1>5, TwoOK

\* operator<<: the result's type has as many bits more as it is shifted by.
LEMMA LeftOK == ASSUME BigInv, NEW shift \in 0..3, Bigints!Left(shift) PROVE BigInv'
<1> DEFINE bits == IF result.bits = 0 THEN 0 ELSE result.bits + shift
           a == result.value
           s == 2^shift
           v == a * s
           h == 2^(result.bits-1)
           P == 2^result.bits
<1>1. /\ Bigints!Apply(Bigints!Big(bits, result.signed, v), m * s) /\ m = a
  BY NumberOK DEF Bigints!Left, Bigints!ShiftLeft
<1>2. /\ result.bits \in Nat /\ result.bits \in BitCounts /\ result.signed \in BOOLEAN /\ a \in Int
      /\ a \in Bigints!Values(result.bits, result.signed)
  BY NumberOK DEF BigInv
<1>3. /\ P \in Nat \ {0} /\ (result.bits > 0 => h \in Nat \ {0})
      /\ IF result.bits = 0 THEN a = 0
         ELSE IF result.signed THEN -h <= a /\ a < h ELSE 0 <= a /\ a < P
  BY <1>2, ValuesOK
<1>4. s \in Nat \ {0} /\ shift \in Nat
  <2>1. 2^shift \in Nat \ {0}
    BY ShiftedOK
  <2> QED BY <2>1
<1>5. bits \in Nat
  BY <1>2, <1>4
<1>6. v \in Bigints!Values(bits, result.signed)
  <2>1. CASE result.bits = 0
    <3>1. bits = 0
      BY <2>1
    <3> HIDE DEF a, s, bits
    <3>2. v = 0
      BY <1>3, <1>4, <2>1
    <3> QED BY <3>1, <3>2 DEF Bigints!Values
  <2>2. CASE result.bits # 0
    <3>1. bits = result.bits + shift /\ bits # 0 /\ bits \in BitCounts
      BY <1>2, <1>4, <2>2, ShiftedOK
    <3>2. 2^bits = P * s /\ 2^(bits-1) = h * s
      <4>1. result.bits > 0
        BY <1>2, <2>2
      <4>2. 2^(result.bits + shift) = P * s
        BY ShiftedOK
      <4>3. 2^((result.bits + shift) - 1) = h * s
        BY <4>1, ShiftedOK
      <4> QED BY <3>1, <4>2, <4>3
    <3>3. v \in Bigints!Values(bits, result.signed) <=>
            v \in Int /\ IF bits = 0 THEN v = 0
                         ELSE IF result.signed THEN -2^(bits-1) <= v /\ v < 2^(bits-1)
                              ELSE 0 <= v /\ v < 2^bits
      BY <1>2, <3>1, ValuesOK
    <3> HIDE DEF a, s, h, P
    <3>4. a * s \in Int
      BY <1>2, <1>4
    <3>5. ASSUME result.signed PROVE -(h * s) <= a * s /\ a * s < h * s
      <4>1. -h <= a /\ a <= h - 1 /\ h \in Nat \ {0}
        BY <1>2, <1>3, <2>2, <3>5
      <4>2. (-h) * s <= a * s /\ a * s <= (h-1) * s
        BY <1>2, <1>4, <4>1
      <4>3. (-h) * s = -(h * s) /\ (h-1) * s = h * s - s /\ h * s \in Int
        BY <1>4, <4>1
      <4> QED BY <1>4, <3>4, <4>2, <4>3
    <3>6. ASSUME ~result.signed PROVE 0 <= a * s /\ a * s < P * s
      <4>1. 0 <= a /\ a <= P - 1
        BY <1>2, <1>3, <2>2, <3>6
      <4>2. 0 <= a * s /\ a * s <= (P-1) * s
        BY <1>2, <1>3, <1>4, <4>1
      <4>3. (P-1) * s = P * s - s /\ P * s \in Int
        BY <1>3, <1>4
      <4> QED BY <1>4, <3>4, <4>2, <4>3
    <3>7. v \in Int
      BY <3>4
    <3>8. result.signed => -2^(bits-1) <= v /\ v < 2^(bits-1)
      BY <3>2, <3>5
    <3>9. ~result.signed => 0 <= v /\ v < 2^bits
      BY <3>2, <3>6
    <3> HIDE DEF v, bits
    <3> QED BY <1>2, <3>1, <3>3, <3>7, <3>8, <3>9
  <2> QED BY <2>1, <2>2
<1>7. m * s = v
  BY <1>1
<1> HIDE DEF bits, v, s, a
<1> QED BY <1>1, <1>2, <1>5, <1>6, <1>7, ApplyOK

\* operator>>: as many bits less.
LEMMA RightOK == ASSUME BigInv, NEW shift \in 0..3, Bigints!Right(shift) PROVE BigInv'
<1> DEFINE bits == IF result.bits > shift THEN result.bits - shift ELSE 0
           a == result.value
           s == 2^shift
           v == a \div s
           r == a % s
<1>1. /\ Bigints!Apply(Bigints!Big(bits, result.signed, v), m \div s) /\ m = a
  BY NumberOK DEF Bigints!Right, Bigints!ShiftRight
<1>2. /\ result.bits \in Nat /\ result.bits \in BitCounts /\ result.signed \in BOOLEAN /\ a \in Int
      /\ a \in Bigints!Values(result.bits, result.signed)
  BY NumberOK DEF BigInv
<1>3. s \in Nat \ {0} /\ shift \in Nat /\ shift \in BitCounts
  <2>1. 2^shift \in Nat \ {0} /\ shift \in BitCounts
    BY ShiftedOK
  <2> QED BY <2>1
<1>4. v \in Int /\ r \in 0..s-1 /\ a = s * v + r
  <2> HIDE DEF a, s
  <2> QED BY <1>2, <1>3, QuotientAndRemainder
<1>5. bits \in Nat
  BY <1>2, <1>3
<1>6. \A n \in Int : (a < n * s => v < n) /\ (n * s <= a => n <= v)
  <2> HIDE DEF a, s, v, r
  <2> TAKE n \in Int
  <2>1. ASSUME a < n * s, v >= n PROVE FALSE
    <3>1. s * v >= s * n /\ s * n = n * s /\ s * v \in Int /\ s * n \in Int
      BY <1>3, <1>4, <2>1
    <3> QED BY <1>2, <1>3, <1>4, <2>1, <3>1
  <2>2. ASSUME n * s <= a, v <= n - 1 PROVE FALSE
    <3>1. s * v <= s * (n-1) /\ s * (n-1) = n * s - s /\ s * v \in Int /\ n * s \in Int
      BY <1>3, <1>4, <2>2
    <3> QED BY <1>2, <1>3, <1>4, <2>2, <3>1
  <2> QED BY <1>4, <2>1, <2>2
<1>7. v \in Bigints!Values(bits, result.signed)
  <2>1. CASE ~(result.bits > shift)
    <3>1. bits = 0 /\ ~result.signed
      <4>1. bits = 0
        BY <2>1
      <4>2. result.signed => Bigints!Big(bits, result.signed, v).bits > 0
        BY <1>1 DEF Bigints!Apply, Bigints!Big
      <4> QED BY <4>1, <4>2 DEF Bigints!Big
    <3>2. result.bits \in 0..shift /\ 2^result.bits <= s
      BY <1>2, <1>3, <2>1, TwoOK
    <3>3. 0 <= a /\ a < s
      BY <1>2, <1>3, <3>1, <3>2, ValuesOK
    <3>4. v = 0
      <4> HIDE DEF a, s, v
      <4>1. a < 1 * s /\ 0 * s <= a
        BY <1>2, <1>3, <3>3
      <4> QED BY <1>4, <1>6, <4>1
    <3> QED BY <3>1, <3>4 DEF Bigints!Values
  <2>2. CASE result.bits > shift
    <3>1. bits = result.bits - shift /\ bits # 0 /\ shift \in 0..result.bits
      BY <1>2, <1>3, <2>2
    <3> DEFINE P == 2^result.bits
               h == 2^(result.bits-1)
               Q == 2^bits
               l == 2^(bits-1)
    <3>2. P = s * Q /\ bits \in BitCounts /\ Q \in Nat \ {0}
      BY <1>2, <3>1, TwoOK
    <3>3. h = s * l /\ l \in Nat \ {0}
      <4>1. result.bits - 1 \in BitCounts /\ shift \in 0 .. result.bits-1
            /\ (result.bits - 1) - shift = bits - 1
        BY <1>2, <1>3, <2>2, <3>1, LibraryAssumption DEF BitCounts
      <4> QED BY <4>1, TwoOK
    <3>4. IF result.signed THEN -h <= a /\ a < h ELSE 0 <= a /\ a < P
      BY <1>2, <3>1, ValuesOK
    <3>5. v \in Bigints!Values(bits, result.signed) <=>
            v \in Int /\ IF bits = 0 THEN v = 0
                         ELSE IF result.signed THEN -l <= v /\ v < l
                              ELSE 0 <= v /\ v < Q
      <4> HIDE DEF v, bits
      <4> QED BY <1>2, <3>2, ValuesOK
    <3> HIDE DEF P, h, Q, l, a, s, v, bits
    <3>6. ASSUME result.signed PROVE -l <= v /\ v < l
      <4>1. (-l) * s <= a /\ a < l * s /\ -l \in Int
        BY <1>3, <3>3, <3>4, <3>6
      <4> QED BY <1>6, <3>3, <4>1
    <3>7. ASSUME ~result.signed PROVE 0 <= v /\ v < Q
      <4>1. 0 * s <= a /\ a < Q * s
        BY <1>2, <1>3, <3>2, <3>4, <3>7
      <4> QED BY <1>6, <3>2, <4>1
    <3> QED BY <1>4, <3>1, <3>5, <3>6, <3>7
  <2> QED BY <2>1, <2>2
<1>8. m \div s = v
  BY <1>1
<1> HIDE DEF bits, v, s, a
<1> QED BY <1>1, <1>2, <1>5, <1>7, <1>8, ApplyOK

\* Unary operators: minus, which gives a number with a sign, and the bitwise complement.
LEMMA NegateOK == ASSUME BigInv, Bigints!Negate \/ Bigints!Invert PROVE BigInv'
<1> DEFINE a == result.value
           b == result.bits
           h == 2^(b-1)
           P == 2^b
<1>1. /\ b \in Nat /\ b \in BitCounts /\ result.signed \in BOOLEAN /\ a \in Int /\ m = a
      /\ a \in Bigints!Values(b, result.signed) /\ (result.signed => b > 0)
  BY NumberOK DEF BigInv
<1>2. /\ P \in Nat \ {0} /\ (b > 0 => P = 2 * h /\ h \in Nat \ {0})
      /\ IF b = 0 THEN a = 0 ELSE IF result.signed THEN -h <= a /\ a < h ELSE 0 <= a /\ a < P
  BY <1>1, ValuesOK
<1>3. CASE Bigints!Negate
  <2> DEFINE bits == IF result.signed THEN b ELSE b + 1
             n == -a
             e == -m
  <2>1. /\ Bigints!Apply(Bigints!Big(bits, TRUE, n), e)
        /\ result.signed => a # -h
    BY <1>3 DEF Bigints!Negate, Bigints!Negation
  <2>2. n = e /\ n \in Int /\ n = 0 - a
    BY <1>1
  <2>3. bits \in BitCounts /\ bits \in Nat /\ bits > 0 /\ bits # 0
        /\ (~result.signed => 2^(bits-1) = P) /\ (result.signed => 2^(bits-1) = h)
    <3>1. b + 1 \in BitCounts /\ (b + 1) - 1 = b /\ b + 1 > 0 /\ b + 1 \in Nat /\ b + 1 # 0
      BY LibraryAssumption DEF BigInv, BitCounts
    <3> QED BY <1>1, <3>1
  <2> DEFINE l == 2^(bits-1)
  <2> HIDE DEF a, h, P, bits, n, e
  <2>4. n \in Bigints!Values(bits, TRUE) <=> n \in Int /\ -l <= n /\ n < l
    BY <2>3, ValuesOK DEF l
  <2>5. result.signed => l = h
    BY <2>3 DEF l
  <2>6. ~result.signed => l = P
    BY <2>3 DEF l
  <2> HIDE DEF l
  <2>7. CASE result.signed
    <3>1. l = h /\ -h <= a /\ a < h /\ a # -h /\ h \in Nat
      BY <1>1, <1>2, <2>1, <2>5, <2>7
    <3>2. -l <= n /\ n < l
      BY <1>1, <2>2, <3>1
    <3> QED BY <2>2, <2>3, <2>4, <3>2, <2>1, ApplyOK
  <2>8. CASE ~result.signed
    <3>1. l = P /\ 0 <= a /\ a < P /\ P \in Nat \ {0}
      BY <1>1, <1>2, <2>6, <2>8
    <3>2. -l <= n /\ n < l
      BY <1>1, <2>2, <3>1
    <3> QED BY <2>2, <2>3, <2>4, <3>2, <2>1, ApplyOK
  <2> QED BY <2>7, <2>8
<1>4. CASE Bigints!Invert
  <2> DEFINE n == -a - 1
             e == -m - 1
  <2>1. Bigints!Apply(Bigints!Big(b, result.signed, n), e) /\ result.signed
    BY <1>4 DEF Bigints!Invert, Bigints!Complement
  <2>2. n = e /\ n \in Int /\ n = 0 - a - 1
    BY <1>1
  <2> HIDE DEF n, e
  <2>3. b > 0 /\ b # 0 /\ h \in Nat /\ -h <= a /\ a < h
    BY <1>1, <1>2, <2>1
  <2>4. n \in Bigints!Values(b, TRUE) <=> n \in Int /\ -h <= n /\ n < h
    BY <1>1, <2>3, ValuesOK
  <2> HIDE DEF a, h, b
  <2>5. -h <= n /\ n < h
    BY <1>1, <2>2, <2>3
  <2>6. n \in Bigints!Values(b, result.signed)
    <3>1. result.signed = TRUE
      BY <1>1, <2>1
    <3> QED BY <2>2, <2>4, <2>5, <3>1
  <2> QED BY <1>1, <2>1, <2>2, <2>6, ApplyOK
<1> QED BY <1>3, <1>4

\* Negation wraps around for the least number: without a sign, its bits are what its absolute
\* value has.
LEMMA LeastOK ==
  ASSUME NEW b \in 1..ArithmeticBits
  PROVE  /\ Bigints!Stored(2^(b-1), b, TRUE) = -2^(b-1)
         /\ Bigints!Stored(-2^(b-1), b, FALSE) = 2^(b-1)
<1> DEFINE W == Bigints!limb_size_for(b) * limb_bit_size
           V == 2^W
           v == 2^b
           h == 2^(b-1)
           u == 2^(W-b)
<1>1. b \in 0..ArithmeticBits /\ b \in Nat /\ b # 0
  BY LibraryAssumption
<1>2. W \in BitCounts /\ b \in 0..W /\ b \in BitCounts
  BY <1>1, RoomOfLimbs, LibraryAssumption DEF BitCounts
<1>3. V \in Nat \ {0} /\ v \in Nat \ {0} /\ u \in Nat \ {0} /\ V = v * u /\ v <= V
  BY <1>2, TwoOK
<1>4. v = 2 * h /\ h \in Nat \ {0}
  BY <1>1, <1>2, TwoOK, b \in 0..b
<1>5. Bigints!Stored(h, b, TRUE) =
        IF ((h % V) \div h) % 2 = 1 THEN ((h % V) % v) - v ELSE h % V
  BY <1>1 DEF Bigints!Stored
<1>6. Bigints!Stored(-h, b, FALSE) = ((-h) % V) % v
  BY <1>1 DEF Bigints!Stored
<1> HIDE DEF W, V, v, h, u
<1>7. h % V = h
  <2>1. h \in Int /\ h \in 0..V-1 /\ h = V * 0 + h
    BY <1>3, <1>4
  <2> QED BY <1>3, <2>1, QuotientUnique
<1>8. h \div h = 1
  <2>1. h = h * 1 + 0
    BY <1>4
  <2>2. 0 \in 0..h-1 /\ h \in Int /\ 1 \in Int
    BY <1>4
  <2> QED BY <1>4, <2>1, <2>2, QuotientUnique
<1>9. h % v = h
  <2>1. h \in Int /\ h \in 0..v-1 /\ h = v * 0 + h
    BY <1>3, <1>4
  <2> QED BY <1>3, <2>1, QuotientUnique
<1>10. (-h) % V = V - h
  <2> DEFINE n == -h
             r == V - h
  <2>1. n \in Int /\ n = V * (-1) + r /\ r \in 0..V-1 /\ -1 \in Int
    BY <1>3, <1>4
  <2> HIDE DEF n, r
  <2>2. n % V = r
    BY <1>3, <2>1, QuotientUnique
  <2> QED BY <2>2 DEF n, r
<1>11. (V - h) % v = h
  <2>1. V - h = v * (u - 1) + h /\ V - h \in Int /\ h \in 0..v-1 /\ u - 1 \in Int
    BY <1>3, <1>4
  <2> QED BY <1>3, <2>1, QuotientUnique
<1>12. 1 % 2 = 1
  OBVIOUS
<1>13. Bigints!Stored(h, b, TRUE) = -h
  <2>1. Bigints!Stored(h, b, TRUE) = h - v
    BY <1>5, <1>7, <1>8, <1>9, <1>12
  <2>2. h - v = -h
    BY <1>3, <1>4
  <2> QED BY <2>1, <2>2
<1>14. Bigints!Stored(-h, b, FALSE) = h
  BY <1>6, <1>10, <1>11
<1> QED BY <1>13, <1>14 DEF h

\* abs has no sign and no other bit than the number: the least one has room, too.
LEMMA AbsOK == ASSUME BigInv, Bigints!Abs PROVE BigInv'
<1> DEFINE a == result.value
           b == result.bits
           h == 2^(b-1)
           P == 2^b
<1>1. /\ b \in Nat /\ b \in BitCounts /\ result.signed \in BOOLEAN /\ a \in Int /\ m = a
      /\ a \in Bigints!Values(b, result.signed) /\ (result.signed => b > 0)
      /\ b \in 0..ArithmeticBits
  BY NumberOK DEF BigInv
<1>2. /\ P \in Nat \ {0} /\ (b > 0 => P = 2 * h /\ h \in Nat \ {0})
      /\ IF b = 0 THEN a = 0 ELSE IF result.signed THEN -h <= a /\ a < h ELSE 0 <= a /\ a < P
  BY <1>1, ValuesOK
<1>3. Bigints!Apply(Bigints!Absolute(result), IF a < 0 THEN -a ELSE a)
  BY <1>1 DEF Bigints!Abs
<1>4. CASE ~result.signed
  <2>1. ~(a < 0)
    BY <1>1, <1>2, <1>4
  <2>2. result' = result /\ m' = a
    BY <1>3, <1>4, <2>1 DEF Bigints!Apply, Bigints!Absolute
  <2> QED BY <1>1, <2>2 DEF BigInv
<1>5. CASE result.signed /\ a >= 0
  <2>1. /\ Bigints!Absolute(result) = Bigints!Big(b, FALSE, a)
        /\ Bigints!Apply(Bigints!Big(b, FALSE, a), a)
    <3>1. ~(a < 0)
      BY <1>1, <1>5
    <3> QED BY <1>3, <1>5, <3>1 DEF Bigints!Absolute
  <2>2. a \in Bigints!Values(b, FALSE)
    <3>1. 0 <= a /\ a < P /\ b # 0
      BY <1>1, <1>2, <1>5
    <3> QED BY <1>1, <3>1, ValuesOK
  <2> HIDE DEF a
  <2> QED BY <1>1, <2>1, <2>2, ApplyOK
<1>6. CASE result.signed /\ a < 0 /\ a # -h
  <2>1. /\ Bigints!Absolute(result) = Bigints!Big(b, FALSE, Bigints!Stored(-a, b, TRUE))
        /\ Bigints!Apply(Bigints!Absolute(result), -a)
    BY <1>1, <1>3, <1>6 DEF Bigints!Absolute, Bigints!Negation, Bigints!Big
  <2>2. b # 0 /\ -h <= a /\ a < 0 /\ h \in Nat /\ P = 2 * h
    BY <1>1, <1>2, <1>6
  <2>3. -a \in Int /\ -h <= -a /\ -a < h /\ 0 <= -a /\ -a < P
    <3> HIDE DEF a, h, P
    <3> QED BY <1>1, <1>6, <2>2
  <2> DEFINE n == -a
  <2>4. n \in Int /\ -h <= n /\ n < h /\ 0 <= n /\ n < P
    BY <2>3
  <2>5. /\ Bigints!Absolute(result) = Bigints!Big(b, FALSE, Bigints!Stored(n, b, TRUE))
        /\ Bigints!Apply(Bigints!Absolute(result), n)
    BY <2>1
  <2> HIDE DEF n
  <2>6. n \in Bigints!Values(b, TRUE) /\ n \in Bigints!Values(b, FALSE)
    BY <1>1, <2>2, <2>4, ValuesOK
  <2>7. Bigints!Stored(n, b, TRUE) = n
    BY <1>1, <1>6, <2>6, StoredOK
  <2> QED BY <1>1, <2>5, <2>6, <2>7, ApplyOK
<1>7. CASE result.signed /\ a < 0 /\ a = -h
  <2>1. /\ Bigints!Absolute(result) = Bigints!Big(b, FALSE, Bigints!Stored(-a, b, TRUE))
        /\ Bigints!Apply(Bigints!Absolute(result), -a)
    BY <1>1, <1>3, <1>7 DEF Bigints!Absolute, Bigints!Negation, Bigints!Big
  <2>2. b \in 1..ArithmeticBits /\ h \in Nat \ {0} /\ P = 2 * h /\ b # 0
    BY <1>1, <1>2, <1>7
  <2>3. -a = h
    <3> HIDE DEF a, h
    <3> QED BY <1>1, <1>7, <2>2
  <2>4. Bigints!Stored(h, b, TRUE) = -h /\ Bigints!Stored(-h, b, FALSE) = h
    BY <2>2, LeastOK
  <2>5. Bigints!Absolute(result) = Bigints!Big(b, FALSE, -h)
    BY <2>1, <2>3, <2>4
  <2>6. Bigints!Big(b, FALSE, -h) = Bigints!Big(b, FALSE, h)
    <3>1. h \in Bigints!Values(b, FALSE)
      <4>1. h \in Int /\ 0 <= h /\ h < P
        <5> HIDE DEF h, P
        <5> QED BY <2>2
      <4> QED BY <1>1, <2>2, <4>1, ValuesOK
    <3>2. Bigints!Stored(h, b, FALSE) = h
      BY <1>1, <3>1, StoredOK
    <3> QED BY <2>4, <3>2 DEF Bigints!Big
  <2>7. h \in Bigints!Values(b, FALSE)
    <3>1. h \in Int /\ 0 <= h /\ h < P
      <4> HIDE DEF h, P
      <4> QED BY <2>2
    <3> QED BY <1>1, <2>2, <3>1, ValuesOK
  <2>8. Bigints!Apply(Bigints!Big(b, FALSE, h), h)
    BY <2>1, <2>3, <2>5, <2>6
  <2> HIDE DEF h
  <2> QED BY <1>1, <2>7, <2>8, ApplyOK
<1> QED BY <1>1, <1>4, <1>5, <1>6, <1>7

\* Conversions keep the value where the type has it.
LEMMA ConvertOK ==
  ASSUME BigInv, NEW bits \in 1..ArithmeticBits, NEW signed \in BOOLEAN,
         Bigints!Convert(bits, signed)
  PROVE  BigInv'
<1>1. /\ result.value \in Bigints!Values(bits, signed) /\ bits \in Nat
      /\ Bigints!Apply(Bigints!Big(bits, signed, result.value), m) /\ m = result.value
  BY DEF Bigints!Convert, Bigints!Cast, BigInv
<1> QED BY <1>1, ApplyOK

\* Every operator keeps the invariant.
LEMMA BigInvKept == BigInv /\ [Bigints!Next]_(Bigints!vars) => BigInv'
<1>1. BigInv /\ UNCHANGED Bigints!vars => BigInv'
  BY DEF BigInv, Bigints!vars
<1> QED
  BY <1>1, AddOK, SubtractOK, MultiplyOK, DivideOK, LeftOK, RightOK, NegateOK, AbsOK, ConvertOK
     DEF Bigints!Next

\* Integers with types: every intermediate result of an expression has the value that it has for
\* integers, whatever the operators, and its type is one for the value.
THEOREM ExactOK == Bigints!Spec => [](Bigints!TypeOK /\ Bigints!Exact)
<1>1. BigInv => Bigints!TypeOK /\ Bigints!Exact
  BY DEF BigInv, Bigints!TypeOK, Bigints!Exact
<1> QED BY <1>1, InitBigInv, BigInvKept, PTL DEF Bigints!Spec

------------------------------------------------------------------------------
(* Greatest common divisors *)

\* A set of natural numbers has a least one.
LEMMA LeastOfSet ==
  ASSUME NEW S \in SUBSET Nat, S # {}
  PROVE  \E n \in S : \A b \in S : n <= b
<1> DEFINE R == StrictSubsetOrdering(Nat)
           I == {0..n : n \in S}
<1>1. IsWellFoundedOn(R, FiniteSubsetsOf(Nat))
  BY FS_StrictSubsetOrderingWellFounded
<1>2. I \subseteq FiniteSubsetsOf(Nat)
  <2> SUFFICES ASSUME NEW n \in S PROVE 0..n \in FiniteSubsetsOf(Nat)
    OBVIOUS
  <2> QED BY FS_Interval DEF FiniteSubsetsOf
<1>3. I # {}
  OBVIOUS
<1>4. PICK X \in I : \A Y \in I : ~ (<<Y, X>> \in R)
  <2> HIDE DEF R, I
  <2> QED BY <1>1, <1>2, <1>3, WFMin
<1>5. PICK n \in S : X = 0..n
  OBVIOUS
<1>6. ASSUME NEW b \in S, b < n PROVE FALSE
  <2>1. ~(<<0..b, 0..n>> \in R)
    BY <1>4, <1>5
  <2>2. 0..b \subseteq 0..n /\ 0..b # 0..n
    <3>1. n \in 0..n /\ n \notin 0..b
      BY <1>6
    <3> QED BY <1>6, <3>1
  <2>3. 0..b \subseteq Nat /\ 0..n \subseteq Nat
    OBVIOUS
  <2> QED BY <2>1, <2>2, <2>3 DEF StrictSubsetOrdering
<1> QED BY <1>6

\* A quotient of natural numbers is one.
LEMMA QuotientNat ==
  ASSUME NEW a \in Nat, NEW b \in Nat \ {0}
  PROVE  a \div b \in Nat /\ a % b \in Nat /\ a % b < b /\ a = b * (a \div b) + (a % b)
<1> DEFINE times == a \div b
           c == a % b
<1>1. times \in Int /\ c \in 0..b-1 /\ a = b * times + c
  BY QuotientAndRemainder
<1> HIDE DEF times, c
<1>2. ASSUME times <= -1 PROVE FALSE
  <2>1. b * times <= b * (-1) /\ b * times \in Int
    BY <1>1, <1>2
  <2> QED BY <1>1, <2>1
<1>3. times >= 0
  BY <1>1, <1>2
<1> QED BY <1>1, <1>3 DEF times, c

\* A multiple leaves no remainder.
LEMMA MultipleOK ==
  ASSUME NEW d \in Nat \ {0}, NEW times \in Int
  PROVE  (d * times) \div d = times /\ (d * times) % d = 0
<1> DEFINE n == d * times
           s == 0
<1>1. n \in Int /\ s \in 0..d-1 /\ n = d * times + s
  OBVIOUS
<1>2. s = 0
  OBVIOUS
<1> HIDE DEF n, s
<1>3. n \div d = times /\ n % d = s
  BY <1>1, QuotientUnique
<1> QED BY <1>2, <1>3 DEF n

\* What divides means.
LEMMA DividesOK ==
  ASSUME NEW d \in Nat, NEW n \in Int
  PROVE  Divisors!Divides(d, n) <=> \E times \in Int : n = d * times
<1>1. CASE d = 0
  BY <1>1 DEF Divisors!Divides
<1>2. CASE d # 0
  <2>1. ASSUME NEW times \in Int, n = d * times PROVE n % d = 0
    <3>1. d \in Nat \ {0} /\ (d * times) % d = 0
      BY <1>2, MultipleOK
    <3> QED BY <2>1, <3>1
  <2>2. ASSUME n % d = 0 PROVE n = d * (n \div d) /\ n \div d \in Int
    <3>1. d \in Nat \ {0} /\ n = d * (n \div d) + (n % d) /\ n \div d \in Int
      BY <1>2, QuotientAndRemainder
    <3> DEFINE times == n \div d
    <3>2. n = d * times + 0 /\ times \in Int
      BY <2>2, <3>1
    <3> HIDE DEF times
    <3>3. n = d * times
      BY <3>1, <3>2
    <3> QED BY <3>2, <3>3 DEF times
  <2>3. n = 0 => n = d * 0
    BY <1>2
  <2>4. Divisors!Divides(d, n) <=> n = 0 \/ n % d = 0
    BY <1>2 DEF Divisors!Divides
  <2>5. Divisors!Divides(d, n) => \E times \in Int : n = d * times
    BY <2>2, <2>3, <2>4, 0 \in Int
  <2>6. (\E times \in Int : n = d * times) => Divisors!Divides(d, n)
    BY <2>1, <2>4
  <2> QED BY <2>5, <2>6
<1> QED BY <1>1, <1>2

\* Products of sums and differences, in the extended algorithm's equations.
LEMMA Products ==
  ASSUME NEW a \in Int, NEW b \in Int, NEW c \in Int
  PROVE  /\ a * b \in Int /\ a * b = b * a /\ (a * b) * c = a * (b * c)
         /\ a * (b + c) = a * b + a * c /\ (a + b) * c = a * c + b * c
         /\ a * (b - c) = a * b - a * c /\ (a - b) * c = a * c - b * c
OBVIOUS

\* What the extended algorithm has of remainders and coefficients
Combined(a, v, b, u)      == a * v + b * u
Identity(a, u, x, w, y)   == a = u * x - w * y
Divided(a, b, times, c)   == times \in Nat /\ c \in Nat /\ a = b * times + c
Increased(w, u, times, v) == w = u + times * v
Bounded(a, v, b, u, times, c) ==
  /\ times * v \in Nat /\ u + times * v \in Nat
  /\ times * v <= Combined(a, v, b, u) /\ u + times * v <= Combined(a, v, b, u)
  /\ Combined(b, u + times * v, c, v) = Combined(a, v, b, u)

\* One iteration of the extended algorithm: what remainders and coefficients have to do with each
\* other, once for each operand, bounds the new coefficient.
LEMMA CoefficientStep ==
  ASSUME NEW a \in Nat, NEW b \in Nat \ {0}, NEW u \in Nat, NEW v \in Nat,
         NEW times, NEW c, Divided(a, b, times, c)
  PROVE  Bounded(a, v, b, u, times, c)
<1> DEFINE p == times * v
           w == u + p
           cv == c * v
           bu == b * u
           bp == b * p
           av == a * v
<1>1. times \in Nat /\ c \in Nat /\ a = b * times + c
  BY DEF Divided
<1>2. p \in Nat /\ cv \in Nat /\ bu \in Nat
  BY <1>1
<1>3. av = bp + cv
  <2> DEFINE e == b * times
  <2>1. (e + c) * v = e * v + c * v
    BY <1>1
  <2>2. e * v = b * (times * v)
    BY <1>1
  <2> QED BY <1>1, <2>1, <2>2
<1> HIDE DEF p
<1>4. b * w = bu + bp /\ bp \in Nat /\ p <= bp /\ u <= bu
  BY <1>2
<1> HIDE DEF cv, bu, bp, av
<1>5. w \in Nat /\ bu + bp + cv = av + bu /\ p <= av + bu /\ w <= av + bu
  BY <1>2, <1>3, <1>4
<1>6. b * w + c * v = av + bu
  BY <1>4, <1>5 DEF cv
<1> QED BY <1>2, <1>5, <1>6 DEF Bounded, Combined, p, av, bu

\* And Bezout's identity goes on.
LEMMA BezoutStep ==
  ASSUME NEW u \in Nat, NEW v \in Nat, NEW x \in Nat, NEW w \in Nat, NEW z \in Nat,
         NEW y \in Nat, NEW a \in Nat, NEW b \in Nat \ {0}, NEW times, NEW c, NEW newU, NEW newW,
         Identity(a, u, x, w, y), Identity(b, z, y, v, x), Divided(a, b, times, c),
         Increased(newU, u, times, v), Increased(newW, w, times, z)
  PROVE  Identity(c, newU, x, newW, y)
<1> DEFINE ux == u * x
           wy == w * y
           zy == z * y
           vx == v * x
           g == times * v
           h == times * z
<1>1. times \in Nat /\ c \in Nat /\ a = b * times + c
  BY DEF Divided
<1>2. ux \in Nat /\ wy \in Nat /\ zy \in Nat /\ vx \in Nat /\ g \in Nat /\ h \in Nat
  BY <1>1
<1>3. a = ux - wy /\ b = zy - vx
  BY DEF Identity
<1>4. g * x = times * vx /\ h * y = times * zy
  BY <1>1
<1>5. (u + g) * x = ux + g * x /\ (w + h) * y = wy + h * y
  <2> HIDE DEF g, h
  <2> QED BY <1>2
<1> HIDE DEF ux, wy, zy, vx, g, h
<1>6. b * times = times * zy - times * vx /\ times * zy \in Nat /\ times * vx \in Nat
  BY <1>1, <1>2, <1>3
<1>7. c = (ux + times * vx) - (wy + times * zy)
  <2> DEFINE s == times * vx
             t == times * zy
  <2>1. b * times = t - s /\ t \in Nat /\ s \in Nat
    BY <1>6
  <2> HIDE DEF s, t
  <2>2. c = a - (t - s)
    <3> DEFINE f == b * times
    <3>1. f = t - s /\ a = f + c /\ f \in Int
      BY <1>1, <2>1
    <3> HIDE DEF f
    <3> QED BY <1>1, <2>1, <3>1
  <2>3. c = (ux + s) - (wy + t)
    BY <1>2, <1>3, <2>1, <2>2
  <2> QED BY <2>3 DEF s, t
<1>8. c = (u + g) * x - (w + h) * y
  BY <1>4, <1>5, <1>7
<1> QED BY <1>8 DEF Identity, Increased, g, h

\* Operands fit into their types, and so do they into the wider one.
CallInv ==
  /\ call.op \in {"greatest_common_divisor", "extended_euclidean"}
  /\ call.left \in Nat /\ call.right \in Nat
  /\ call.left <= DivisorGreatest /\ call.right <= DivisorGreatest
  /\ Divisors!width \in 0..DivisorBits
  /\ call.left < 2^Divisors!width /\ call.right < 2^Divisors!width

\* The extended algorithm, in its loop: remainders and coefficients give both operands; Bezout's
\* identity holds with alternating signs; and no coefficient is more than the other operand.
RemainderInv ==
  /\ numerator \in Nat /\ remainder \in Nat /\ window \in Nat /\ part \in Nat
  /\ offset \in Nat /\ over \in Nat /\ carry \in BOOLEAN
  /\ Divisors!width = 0 => numerator = 0 /\ remainder = 0
  /\ Divisors!width > 0 =>
       /\ call.left  = Combined(numerator, over, remainder, offset)
       /\ call.right = Combined(numerator, part, remainder, window)
       /\ ~carry => /\ Identity(numerator, window, call.left, offset, call.right)
                    /\ Identity(remainder, over, call.right, part, call.left)
       /\ carry  => /\ Identity(numerator, offset, call.right, window, call.left)
                    /\ Identity(remainder, part, call.left, over, call.right)
       /\ call.left # 0 /\ call.right # 0 =>
            /\ window <= call.right /\ part <= call.right
            /\ offset <= call.left /\ over <= call.left

\* The numbers of bits are ones that there are laws of exponents for.
LEMMA WidthOK ==
  ASSUME CallInv
  PROVE  /\ Divisors!width \in Nat /\ Divisors!width \in BitCounts
         /\ Divisors!width + 1 \in BitCounts
         /\ 2^Divisors!width \in Nat \ {0}
         /\ Divisors!width = 0 => call.left = 0 /\ call.right = 0
         /\ Divisors!width > 0 => 1 < 2^Divisors!width
<1> DEFINE W == Divisors!width
           V == 2^W
<1>1. W \in Nat /\ W \in BitCounts /\ W + 1 \in BitCounts /\ W \in 0..W
  BY LibraryAssumption DEF CallInv, BitCounts
<1>2. V \in Nat \ {0} /\ (0 < W => V = 2 * 2^(W-1) /\ 2^(W-1) \in Nat \ {0})
  BY <1>1, TwoOK
<1>3. W = 0 => V = 1
  BY TwoAssumption
<1>4. call.left < V /\ call.right < V /\ call.left \in Nat /\ call.right \in Nat
  BY DEF CallInv
<1> HIDE DEF V, W
<1>5. W = 0 => call.left = 0 /\ call.right = 0
  BY <1>3, <1>4
<1>6. W > 0 => 1 < V
  BY <1>1, <1>2
<1> QED BY <1>1, <1>2, <1>5, <1>6 DEF V, W

\* What fits is written as it is.
LEMMA FitOK ==
  ASSUME CallInv, NEW n \in Nat, n < 2^Divisors!width
  PROVE  Divisors!Fit(n) = n
<1> DEFINE V == 2^Divisors!width
<1>1. V \in Nat \ {0} /\ n < V
  BY WidthOK
<1> HIDE DEF V
<1>2. n = V * 0 + n /\ n \in 0..V-1
  BY <1>1
<1>3. n % V = n
  BY <1>1, <1>2, QuotientUnique
<1> QED BY <1>3 DEF V, Divisors!Fit

\* A call's operands fit into its types.
LEMMA InitCallInv == Divisors!Init => CallInv
<1> SUFFICES ASSUME Divisors!Init PROVE CallInv
  OBVIOUS
<1>1. PICK op \in {"greatest_common_divisor", "extended_euclidean"},
           left \in 0..DivisorGreatest, right \in 0..DivisorGreatest,
           left_bits \in 0..DivisorBits, right_bits \in 0..DivisorBits :
        /\ left < 2^left_bits /\ right < 2^right_bits
        /\ call = [op |-> op, left |-> left, right |-> right, left_bits |-> left_bits,
                   right_bits |-> right_bits]
  BY DEF Divisors!Init
<1> DEFINE W == Divisors!width
<1>2. W = IF left_bits > right_bits THEN left_bits ELSE right_bits
  BY <1>1 DEF Divisors!width, Divisors!Larger
<1>3. DivisorBits \in Nat /\ DivisorGreatest \in Nat
  BY LibraryAssumption
<1> HIDE DEF W
<1>4. W \in 0..DivisorBits /\ left_bits \in 0..W /\ right_bits \in 0..W /\ W \in BitCounts
  BY <1>2, <1>3, LibraryAssumption DEF BitCounts
<1>5. 2^left_bits <= 2^W /\ 2^right_bits <= 2^W
  BY <1>4, TwoOK
<1> DEFINE u == 2^left_bits
           v == 2^right_bits
           w == 2^W
<1>6. u \in Nat /\ v \in Nat /\ w \in Nat
  BY <1>4, TwoOK
<1>7. u <= w /\ v <= w /\ left < u /\ right < v /\ left \in Nat /\ right \in Nat
      /\ left <= DivisorGreatest /\ right <= DivisorGreatest
  BY <1>1, <1>3, <1>5
<1> HIDE DEF u, v, w
<1>8. left < w /\ right < w
  BY <1>6, <1>7
<1> QED BY <1>1, <1>4, <1>7, <1>8 DEF CallInv, W, w

\* The extended algorithm begins.
LEMMA BeginOK == ASSUME CallInv, carry = FALSE, Divisors!Begin PROVE RemainderInv'
<1>1. /\ numerator' = call.left /\ remainder' = call.right /\ part' = 0 /\ offset' = 0
      /\ window' = Divisors!Fit(1) /\ over' = Divisors!Fit(1) /\ call' = call /\ carry' = FALSE
      /\ Divisors!width' = Divisors!width
  BY DEF Divisors!Begin, Divisors!width
<1> DEFINE W == Divisors!width
<1>2. /\ call.left \in Nat /\ call.right \in Nat /\ W \in Nat
      /\ W = 0 => call.left = 0 /\ call.right = 0
  BY WidthOK DEF CallInv
<1>3. W > 0 => Divisors!Fit(1) = 1
  BY WidthOK, FitOK
<1>4. Divisors!Fit(1) \in Nat
  <2> DEFINE V == 2^W
  <2>1. V \in Nat \ {0}
    BY WidthOK
  <2> HIDE DEF V
  <2>2. 1 % V \in Nat
    BY <2>1, QuotientNat
  <2> QED BY <2>2 DEF V, Divisors!Fit
<1>5. /\ numerator' \in Nat /\ remainder' \in Nat /\ window' \in Nat /\ part' \in Nat
      /\ offset' \in Nat /\ over' \in Nat
  BY <1>1, <1>2, <1>4
<1>6. carry' \in BOOLEAN
  BY <1>1, Zenon
<1>7. Divisors!width' = 0 => numerator' = 0 /\ remainder' = 0
  BY <1>1, <1>2
<1>8. ASSUME Divisors!width' > 0
      PROVE  /\ call.left  = Combined(numerator', over', remainder', offset')
             /\ call.right = Combined(numerator', part', remainder', window')
             /\ Identity(numerator', window', call.left, offset', call.right)
             /\ Identity(remainder', over', call.right, part', call.left)
             /\ call.left # 0 /\ call.right # 0 =>
                  /\ window' <= call.right /\ part' <= call.right
                  /\ offset' <= call.left /\ over' <= call.left
  <2>1. window' = 1 /\ over' = 1
    BY <1>1, <1>3, <1>8
  <2> DEFINE x == call.left
             y == call.right
  <2>2. /\ x = Combined(x, 1, y, 0) /\ y = Combined(x, 0, y, 1)
        /\ Identity(x, 1, x, 0, y) /\ Identity(y, 1, y, 0, x)
    <3>1. x \in Nat /\ y \in Nat
      BY <1>2
    <3> HIDE DEF x, y
    <3> QED BY <3>1 DEF Combined, Identity
  <2>3. x # 0 /\ y # 0 => 1 <= y /\ 0 <= y /\ 0 <= x /\ 1 <= x
    BY <1>2
  <2> QED BY <1>1, <2>1, <2>2, <2>3, Zenon
<1>9. ~carry'
  BY <1>1, Zenon
<1> QED BY <1>1, <1>5, <1>6, <1>7, <1>8, <1>9, Zenon DEF RemainderInv

\* New coefficients fit, since they are at most the other operand.
LEMMA IterateFits ==
  ASSUME CallInv, RemainderInv, remainder # 0, Divisors!width > 0
  PROVE  LET times == numerator \div remainder
         IN  /\ times \in Nat /\ numerator % remainder \in Nat
             /\ Divisors!Coefficient(window, times, part) = window + times * part
             /\ Divisors!Coefficient(offset, times, over) = offset + times * over
             /\ window + times * part \in Nat /\ window + times * part <= call.right
             /\ offset + times * over \in Nat /\ offset + times * over <= call.left
             /\ Combined(remainder, offset + times * over, numerator % remainder, over) = call.left
             /\ Combined(remainder, window + times * part, numerator % remainder, part) = call.right
<1> DEFINE times == numerator \div remainder
           c == numerator % remainder
           V == 2^Divisors!width
<1>1. /\ numerator \in Nat /\ remainder \in Nat \ {0} /\ window \in Nat /\ part \in Nat
      /\ offset \in Nat /\ over \in Nat
      /\ call.left  = Combined(numerator, over, remainder, offset)
      /\ call.right = Combined(numerator, part, remainder, window)
      /\ call.left \in Nat /\ call.right \in Nat /\ call.left < V /\ call.right < V
      /\ V \in Nat
  BY WidthOK DEF RemainderInv, CallInv
<1>5. Divided(numerator, remainder, times, c)
  BY <1>1, QuotientNat DEF Divided
<1> HIDE DEF times, c
<1>2. /\ times * over \in Nat /\ offset + times * over \in Nat
      /\ times * over <= call.left /\ offset + times * over <= call.left
      /\ Combined(remainder, offset + times * over, c, over) = call.left
  <2>1. numerator \in Nat /\ remainder \in Nat \ {0} /\ offset \in Nat /\ over \in Nat
    BY <1>1
  <2>2. /\ times * over \in Nat /\ offset + times * over \in Nat
        /\ times * over <= Combined(numerator, over, remainder, offset)
        /\ offset + times * over <= Combined(numerator, over, remainder, offset)
        /\ Combined(remainder, offset + times * over, c, over)
             = Combined(numerator, over, remainder, offset)
    <3>1. Bounded(numerator, over, remainder, offset, times, c)
      BY <1>5, <2>1, CoefficientStep
    <3> QED BY <3>1 DEF Bounded
  <2>3. call.left = Combined(numerator, over, remainder, offset)
    BY <1>1
  <2> QED BY <2>2, <2>3, Zenon
<1>3. /\ times * part \in Nat /\ window + times * part \in Nat
      /\ times * part <= call.right /\ window + times * part <= call.right
      /\ Combined(remainder, window + times * part, c, part) = call.right
  <2>1. numerator \in Nat /\ remainder \in Nat \ {0} /\ window \in Nat /\ part \in Nat
    BY <1>1
  <2>2. /\ times * part \in Nat /\ window + times * part \in Nat
        /\ times * part <= Combined(numerator, part, remainder, window)
        /\ window + times * part <= Combined(numerator, part, remainder, window)
        /\ Combined(remainder, window + times * part, c, part)
             = Combined(numerator, part, remainder, window)
    <3>1. Bounded(numerator, part, remainder, window, times, c)
      BY <1>5, <2>1, CoefficientStep
    <3> QED BY <3>1 DEF Bounded
  <2>3. call.right = Combined(numerator, part, remainder, window)
    BY <1>1
  <2> QED BY <2>2, <2>3, Zenon
<1>4. times \in Nat /\ c \in Nat
  BY <1>5 DEF Divided
<1> DEFINE e == times * over
           f == offset + times * over
           g == times * part
           h == window + times * part
<1>6. e \in Nat /\ f \in Nat /\ g \in Nat /\ h \in Nat /\ e < V /\ f < V /\ g < V /\ h < V
  <2> HIDE DEF e, f, g, h, V
  <2>1. e \in Nat /\ e <= call.left /\ f \in Nat /\ f <= call.left
    BY <1>2 DEF e, f
  <2>2. g \in Nat /\ g <= call.right /\ h \in Nat /\ h <= call.right
    BY <1>3 DEF g, h
  <2> QED BY <1>1, <2>1, <2>2
<1>7. /\ Divisors!Fit(e) = e /\ Divisors!Fit(f) = f
      /\ Divisors!Fit(g) = g /\ Divisors!Fit(h) = h
  <2> HIDE DEF e, f, g, h
  <2> QED BY <1>6, FitOK
<1>8. Divisors!Coefficient(window, times, part) = h /\ Divisors!Coefficient(offset, times, over) = f
  BY <1>7 DEF Divisors!Coefficient
<1> QED BY <1>2, <1>3, <1>4, <1>8 DEF times, c

\* An iteration of the extended algorithm.
LEMMA IterateOK == ASSUME CallInv, RemainderInv, Divisors!Iterate PROVE RemainderInv'
<1> DEFINE times == numerator \div remainder
           c == numerator % remainder
           x == call.left
           y == call.right
           f == offset + times * over
           h == window + times * part
<1>1. /\ remainder # 0 /\ numerator' = remainder /\ remainder' = c
      /\ window' = part /\ part' = Divisors!Coefficient(window, times, part)
      /\ offset' = over /\ over' = Divisors!Coefficient(offset, times, over)
      /\ carry' = ~carry /\ call' = call
  BY DEF Divisors!Iterate
<1>2. Divisors!width' = Divisors!width
  BY <1>1 DEF Divisors!width
<1>3. Divisors!width > 0
  BY <1>1, WidthOK DEF RemainderInv
<1>4. /\ c \in Nat /\ times \in Nat /\ part' = h /\ over' = f
      /\ f \in Nat /\ f <= x /\ h \in Nat /\ h <= y
      /\ x = Combined(remainder, f, c, over) /\ y = Combined(remainder, h, c, part)
  BY <1>1, <1>3, IterateFits
<1>5. /\ numerator \in Nat /\ remainder \in Nat \ {0} /\ window \in Nat /\ part \in Nat
      /\ offset \in Nat /\ over \in Nat /\ x \in Nat /\ y \in Nat
      /\ x # 0 /\ y # 0 => part <= y /\ over <= x
      /\ ~carry => /\ Identity(numerator, window, x, offset, y)
                   /\ Identity(remainder, over, y, part, x)
      /\ carry  => /\ Identity(numerator, offset, y, window, x)
                   /\ Identity(remainder, part, x, over, y)
  BY <1>1, <1>3 DEF RemainderInv, CallInv
<1> HIDE DEF x, y
<1>16. /\ Divided(numerator, remainder, times, c)
       /\ Increased(h, window, times, part) /\ Increased(f, offset, times, over)
  BY <1>5, QuotientNat DEF Divided, Increased
<1> HIDE DEF times, c, f, h
<1>6. ASSUME ~carry PROVE Identity(c, h, x, f, y)
  <2>1. Identity(numerator, window, x, offset, y) /\ Identity(remainder, over, y, part, x)
    BY <1>5, <1>6
  <2> QED BY <1>5, <1>16, <2>1, BezoutStep
<1>7. ASSUME carry PROVE Identity(c, f, y, h, x)
  <2>1. Identity(numerator, offset, y, window, x) /\ Identity(remainder, part, x, over, y)
    BY <1>5, <1>7
  <2> QED BY <1>5, <1>16, <2>1, BezoutStep
<1>8. carry \in BOOLEAN
  BY DEF RemainderInv
<1> HIDE DEF times, c, x, y, f, h
<1>9. /\ x = Combined(numerator', over', remainder', offset')
      /\ y = Combined(numerator', part', remainder', window')
  BY <1>1, <1>4
<1>10. /\ ~carry' => /\ Identity(numerator', window', x, offset', y)
                      /\ Identity(remainder', over', y, part', x)
       /\ carry'  => /\ Identity(numerator', offset', y, window', x)
                      /\ Identity(remainder', part', x, over', y)
  <2>1. CASE carry
    <3>1. ~carry'
      BY <1>1, <2>1, Zenon
    <3> QED BY <1>1, <1>4, <1>5, <1>7, <2>1, <3>1, Zenon
  <2>2. CASE ~carry
    <3>1. carry'
      BY <1>1, <2>2, Zenon
    <3> QED BY <1>1, <1>4, <1>5, <1>6, <2>2, <3>1, Zenon
  <2> QED BY <2>1, <2>2
<1>11. x # 0 /\ y # 0 => window' <= y /\ part' <= y /\ offset' <= x /\ over' <= x
  BY <1>1, <1>4, <1>5
<1>12. /\ numerator' \in Nat /\ remainder' \in Nat /\ window' \in Nat /\ part' \in Nat
       /\ offset' \in Nat /\ over' \in Nat
  BY <1>1, <1>4, <1>5
<1>13. carry' \in BOOLEAN
  BY <1>1, <1>8, Zenon
<1>14. Divisors!width' # 0
  BY <1>2, <1>3
<1>15. x = call.left' /\ y = call.right'
  BY <1>1 DEF x, y
<1> QED BY <1>9, <1>10, <1>11, <1>12, <1>13, <1>14, <1>15, Zenon DEF RemainderInv

\* Greatest common divisors, by what they divide and by Bezout's identity.
LEMMA IsGcdOK ==
  ASSUME NEW a \in Nat, NEW x \in Nat, NEW y \in Nat,
         Divisors!Divides(a, x), Divisors!Divides(a, y),
         NEW u \in Int, NEW w \in Int, Identity(a, u, x, w, y), call.left = x, call.right = y
  PROVE  Divisors!IsGcd(a)
<1>2. ASSUME NEW c \in 1..DivisorGreatest, Divisors!Divides(c, x), Divisors!Divides(c, y)
      PROVE  Divisors!Divides(c, a)
  <2>1. c \in Nat
    BY LibraryAssumption
  <2>2. PICK e \in Int : x = c * e
    BY <1>2, <2>1, DividesOK
  <2>3. PICK f \in Int : y = c * f
    BY <1>2, <2>1, DividesOK
  <2>4. u * (c * e) = c * (u * e) /\ w * (c * f) = c * (w * f)
    BY <2>1
  <2>5. c * (u * e) - c * (w * f) = c * (u * e - w * f) /\ u * e - w * f \in Int
    <3> DEFINE g == u * e
               h == w * f
    <3>1. g \in Int /\ h \in Int
      OBVIOUS
    <3> HIDE DEF g, h
    <3>2. c * g - c * h = c * (g - h) /\ g - h \in Int
      BY <2>1, <3>1
    <3> QED BY <3>2 DEF g, h
  <2>6. a = c * (u * e - w * f)
    BY <2>2, <2>3, <2>4, <2>5 DEF Identity
  <2> QED BY <2>1, <2>5, <2>6, DividesOK
<1> QED BY <1>2 DEF Divisors!IsGcd

\* At the end the coefficient that is not below zero is one, and the other operand makes one of
\* the other coefficient.
LEMMA LeftPositive ==
  ASSUME NEW x \in Nat \ {0}, NEW y \in Nat \ {0}, NEW a \in Nat, NEW u \in Nat, NEW w \in Nat,
         Identity(a, u, x, w, y)
  PROVE  /\ (u * x - a) % y = 0 /\ ((x - w) * y - a) % x = 0
         /\ a = 1 /\ y > 1 => u # y
<1> DEFINE ux == u * x
           wy == w * y
           xy == x * y
<1>1. a = ux - wy /\ ux \in Nat /\ wy \in Nat /\ xy \in Nat
  BY DEF Identity
<1>2. ux - a = y * w
  <2>1. wy = y * w
    OBVIOUS
  <2> HIDE DEF ux, wy
  <2> QED BY <1>1, <2>1
<1>3. (y * w) % y = 0
  BY MultipleOK
<1>4. (x - w) * y - a = x * (y - u)
  <2>1. (x - w) * y = xy - wy /\ x * (y - u) = xy - ux
    OBVIOUS
  <2> HIDE DEF ux, wy, xy
  <2> QED BY <1>1, <2>1
<1>5. (x * (y - u)) % x = 0
  <2>1. y - u \in Int
    OBVIOUS
  <2> QED BY <2>1, MultipleOK
<1>6. ASSUME a = 1, y > 1, u = y PROVE FALSE
  <2>1. ux = y * x
    BY <1>6
  <2>2. y * x - w * y = y * (x - w)
    OBVIOUS
  <2> DEFINE d == x - w
  <2>3. y * d = 1 /\ d \in Int
    BY <1>1, <1>6, <2>1, <2>2
  <2> HIDE DEF d
  <2>4. d >= 1 \/ d <= 0
    BY <2>3
  <2>5. d >= 1 => y * d >= y
    BY <2>3
  <2>6. d <= 0 => y * d <= 0
    BY <2>3
  <2> QED BY <1>6, <2>3, <2>4, <2>5, <2>6
<1> QED BY <1>2, <1>3, <1>4, <1>5, <1>6

\* So with the operands the other way around.
LEMMA LeftNegative ==
  ASSUME NEW x \in Nat \ {0}, NEW y \in Nat \ {0}, NEW a \in Nat, NEW u \in Nat, NEW w \in Nat,
         Identity(a, w, y, u, x)
  PROVE  /\ ((y - u) * x - a) % y = 0 /\ (w * y - a) % x = 0
         /\ a = 1 /\ y > 1 => u # 0
<1>1. ((y - u) * x - a) % y = 0 /\ (w * y - a) % x = 0
  BY LeftPositive
<1>2. ASSUME a = 1, y > 1, u = 0 PROVE FALSE
  <2>1. w * y - 0 * x = w * y
    OBVIOUS
  <2>2. w * y = 1
    BY <1>2, <2>1 DEF Identity
  <2>3. w >= 1 => w * y >= y
    OBVIOUS
  <2>4. w = 0 => w * y = 0
    OBVIOUS
  <2> QED BY <1>2, <2>2, <2>3, <2>4
<1> QED BY <1>1, <1>2

\* The last remainder divides both operands.
LEMMA LastRemainder ==
  ASSUME CallInv, RemainderInv, remainder = 0
  PROVE  Divisors!IsGcd(numerator)
<1> DEFINE x == call.left
           y == call.right
<1>1. x \in Nat /\ y \in Nat /\ numerator \in Nat /\ Divisors!width \in Nat
  BY WidthOK DEF CallInv, RemainderInv
<1>2. CASE Divisors!width = 0
  <2>1. x = 0 /\ y = 0 /\ numerator = 0
    BY <1>2, WidthOK DEF RemainderInv
  <2> QED BY <2>1 DEF Divisors!IsGcd, Divisors!Divides
<1>3. CASE Divisors!width > 0
  <2>1. /\ x = Combined(numerator, over, remainder, offset)
        /\ y = Combined(numerator, part, remainder, window)
        /\ ~carry => Identity(numerator, window, x, offset, y)
        /\ carry  => Identity(numerator, offset, y, window, x)
        /\ over \in Nat /\ offset \in Nat /\ part \in Nat /\ window \in Nat
    BY <1>3 DEF RemainderInv
  <2>2. x = numerator * over /\ y = numerator * part
    <3>1. remainder * offset = 0 /\ remainder * window = 0
      BY <2>1
    <3> QED BY <1>1, <2>1, <3>1 DEF Combined
  <2>5. Divisors!Divides(numerator, x) /\ Divisors!Divides(numerator, y)
    <3>1. over \in Int /\ part \in Int
      BY <2>1
    <3> HIDE DEF x, y
    <3> QED BY <1>1, <2>2, <3>1, DividesOK
  <2>3. CASE ~carry
    <3>1. Identity(numerator, window, x, offset, y) /\ window \in Int /\ offset \in Int
      BY <2>1, <2>3
    <3> QED BY <1>1, <2>5, <3>1, IsGcdOK
  <2>4. CASE carry
    <3> DEFINE u == 0 - window
               w == 0 - offset
    <3>1. u \in Int /\ w \in Int
      BY <2>1
    <3>2. Identity(numerator, u, x, w, y)
      <4>1. numerator = offset * y - window * x
        BY <2>1, <2>4 DEF Identity
      <4>2. /\ u * x = 0 - window * x /\ w * y = 0 - offset * y
            /\ window * x \in Int /\ offset * y \in Int
        BY <1>1, <2>1
      <4> QED BY <4>1, <4>2 DEF Identity
    <3> HIDE DEF u, w
    <3> QED BY <1>1, <2>5, <3>1, <3>2, IsGcdOK
  <2> QED BY <2>3, <2>4
<1> QED BY <1>1, <1>2, <1>3

\* The end of the extended algorithm.
LEMMA EndCoefficients ==
  ASSUME CallInv, RemainderInv, Divisors!End
  PROVE  Divisors!GreatestDivisor' /\ Divisors!Coefficients'
<1> DEFINE x == call.left
           y == call.right
           V == 2^Divisors!width
<1>1. /\ remainder = 0 /\ call' = call /\ numerator' = numerator /\ pc' = "done"
      /\ carry  => window' = Divisors!Fit(y - window) /\ offset' = offset
      /\ ~carry => window' = window /\ offset' = Divisors!Fit(x - offset)
  BY DEF Divisors!End, Divisors!IsBelowZero
<1>2. Divisors!IsGcd(numerator)
  BY <1>1, LastRemainder
<1>3. Divisors!GreatestDivisor'
  BY <1>1, <1>2 DEF Divisors!GreatestDivisor, Divisors!IsGcd
<1>4. ASSUME x # 0, y # 0
      PROVE  /\ (window' * x - numerator) % y = 0
             /\ (offset' * y - numerator) % x = 0
             /\ numerator = 1 /\ y > 1 => window' < y
  <2>1. /\ x \in Nat \ {0} /\ y \in Nat \ {0} /\ numerator \in Nat /\ Divisors!width > 0
        /\ V \in Nat /\ x < V /\ y < V
    <3>1. x \in Nat /\ y \in Nat /\ x < V /\ y < V /\ numerator \in Nat
      BY DEF CallInv, RemainderInv
    <3>2. V \in Nat /\ Divisors!width \in Nat /\ (Divisors!width = 0 => x = 0)
      BY WidthOK
    <3> QED BY <1>4, <3>1, <3>2
  <2>2. /\ ~carry => Identity(numerator, window, x, offset, y)
        /\ carry  => Identity(numerator, offset, y, window, x)
        /\ offset \in Nat /\ window \in Nat /\ window <= y /\ offset <= x
    BY <1>4, <2>1 DEF RemainderInv
  <2> HIDE DEF x, y, V
  <2>3. CASE ~carry
    <3>1. x - offset \in Nat /\ x - offset < V
      BY <2>1, <2>2
    <3> DEFINE d == x - offset
    <3>2. Divisors!Fit(d) = d
      <4> HIDE DEF d
      <4> QED BY <3>1, FitOK DEF d, V
    <3>3. window' = window /\ offset' = x - offset
      BY <1>1, <2>3, <3>2
    <3>4. /\ (window * x - numerator) % y = 0 /\ ((x - offset) * y - numerator) % x = 0
          /\ numerator = 1 /\ y > 1 => window # y
      BY <2>1, <2>2, <2>3, LeftPositive
    <3>5. numerator = 1 /\ y > 1 => window < y
      BY <2>1, <2>2, <3>4
    <3> QED BY <3>3, <3>4, <3>5
  <2>4. CASE carry
    <3>1. y - window \in Nat /\ y - window < V
      BY <2>1, <2>2
    <3> DEFINE d == y - window
    <3>2. Divisors!Fit(d) = d
      <4> HIDE DEF d
      <4> QED BY <3>1, FitOK DEF d, V
    <3>3. window' = y - window /\ offset' = offset
      BY <1>1, <2>4, <3>2
    <3>4. /\ ((y - window) * x - numerator) % y = 0 /\ (offset * y - numerator) % x = 0
          /\ numerator = 1 /\ y > 1 => window # 0
      BY <2>1, <2>2, <2>4, LeftNegative
    <3>5. numerator = 1 /\ y > 1 => y - window < y
      BY <2>1, <2>2, <3>4
    <3> QED BY <3>3, <3>4, <3>5
  <2> QED BY <2>3, <2>4
<1>5. Divisors!Coefficients'
  BY <1>1, <1>4 DEF Divisors!Coefficients
<1> QED BY <1>3, <1>5

\* Odd numbers
Odd(n) == n \in Nat /\ n % 2 = 1

\* A divisor of a number is one of its multiples.
LEMMA DividesProduct ==
  ASSUME NEW d \in Nat, NEW a \in Nat, NEW b \in Nat, Divisors!Divides(d, a)
  PROVE  Divisors!Divides(d, a * b) /\ Divisors!Divides(d, b * a)
<1>1. PICK h \in Int : a = d * h
  BY DividesOK
<1>2. a * b = d * (h * b) /\ h * b \in Int /\ a * b \in Int /\ b * a = a * b
  BY <1>1
<1> DEFINE ab == a * b
           hb == h * b
<1>3. ab = d * hb /\ hb \in Int /\ ab \in Int
  BY <1>2
<1> HIDE DEF ab, hb
<1>4. Divisors!Divides(d, ab)
  BY <1>3, DividesOK
<1> QED BY <1>2, <1>4 DEF ab

\* What divides one of two numbers divides the other one if it divides their difference.
LEMMA DividesDifference ==
  ASSUME NEW d \in Nat, NEW a \in Nat, NEW b \in Nat, Divisors!Divides(d, b)
  PROVE  Divisors!Divides(d, a) <=> Divisors!Divides(d, a - b)
<1>1. PICK h \in Int : b = d * h
  BY DividesOK
<1>2. ASSUME NEW l \in Int, a = d * l PROVE a - b = d * (l - h) /\ l - h \in Int
  BY <1>1, <1>2
<1>3. ASSUME NEW l \in Int, a - b = d * l PROVE a = d * (l + h) /\ l + h \in Int
  <2> DEFINE dl == d * l
             dh == d * h
  <2>1. d * (l + h) = dl + dh /\ dl \in Int /\ dh \in Int
    OBVIOUS
  <2>2. b = dh /\ a - b = dl
    BY <1>1, <1>3
  <2> HIDE DEF dl, dh
  <2>3. a = dl + dh
    BY <2>1, <2>2
  <2> QED BY <2>1, <2>3
<1>4. a - b \in Int
  OBVIOUS
<1>5. Divisors!Divides(d, a) => Divisors!Divides(d, a - b)
  <2> SUFFICES ASSUME Divisors!Divides(d, a) PROVE \E l \in Int : a - b = d * l
    BY <1>4, DividesOK
  <2>1. PICK l \in Int : a = d * l
    BY DividesOK
  <2>2. a - b = d * (l - h) /\ l - h \in Int
    BY <1>2, <2>1
  <2> QED BY <2>2
<1>6. Divisors!Divides(d, a - b) => Divisors!Divides(d, a)
  <2> SUFFICES ASSUME Divisors!Divides(d, a - b) PROVE \E l \in Int : a = d * l
    BY DividesOK
  <2> DEFINE ab == a - b
  <2>1. ab \in Int /\ Divisors!Divides(d, ab)
    OBVIOUS
  <2> HIDE DEF ab
  <2>2. PICK l \in Int : ab = d * l
    BY <2>1, DividesOK
  <2>3. a - b = d * l
    BY <2>2 DEF ab
  <2>4. a = d * (l + h) /\ l + h \in Int
    BY <1>3, <2>3
  <2> DEFINE f == l + h
  <2>5. a = d * f /\ f \in Int
    BY <2>4
  <2> HIDE DEF f
  <2> QED BY <2>5
<1> QED BY <1>5, <1>6

\* An odd divisor of an even number divides its half.
LEMMA OddHalf ==
  ASSUME NEW d, Odd(d), NEW n \in Nat, Divisors!Divides(d, 2 * n)
  PROVE  Divisors!Divides(d, n)
<1> DEFINE h == d \div 2
<1>1. d \in Nat /\ h \in Nat /\ d = 2 * h + 1
  BY QuotientNat DEF Odd
<1> HIDE DEF h
<1>2. PICK l \in Int : 2 * n = d * l
  BY <1>1, DividesOK
<1> DEFINE hl == h * l
           e  == n - hl
<1>3. d * l = 2 * hl + l /\ hl \in Int
  BY <1>1
<1>4. l = 2 * e /\ e \in Int
  <2> DEFINE dl == d * l
  <2>1. 2 * n = dl /\ dl = 2 * hl + l /\ dl \in Int /\ hl \in Int
    BY <1>1, <1>2, <1>3
  <2> HIDE DEF dl, hl
  <2> QED BY <2>1
<1> HIDE DEF e
<1>5. n = d * e
  <2> DEFINE de == d * e
  <2>1. d * (2 * e) = 2 * de /\ de \in Int
    BY <1>1, <1>4
  <2>2. 2 * n = 2 * de
    BY <1>2, <1>4, <2>1
  <2> HIDE DEF de
  <2>3. n = de
    BY <2>1, <2>2
  <2> QED BY <2>3 DEF de
<1> QED BY <1>1, <1>4, <1>5, DividesOK

\* So an odd divisor of a number times a power of two divides that number: countr_zero leaves it.
LEMMA OddDivisor ==
  ASSUME NEW d, Odd(d), NEW n \in Nat, NEW b \in BitCounts, Divisors!Divides(d, 2^b * n)
  PROVE  Divisors!Divides(d, n)
<1> DEFINE S == {l \in 0..b : Divisors!Divides(d, 2^l * n)}
<1>1. b \in S /\ S \in SUBSET Nat
  BY LibraryAssumption DEF BitCounts
<1>2. PICK l \in S : \A f \in S : l <= f
  <2>1. S # {}
    BY <1>1
  <2> HIDE DEF S
  <2> QED BY <1>1, <2>1, LeastOfSet
<1>3. CASE l = 0
  <2>1. 2^0 * n = n
    BY TwoAssumption
  <2> QED BY <1>2, <1>3, <2>1
<1>4. CASE l # 0
  <2>1. l \in 0..b /\ l-1 \in 0..b /\ l \in BitCounts /\ l \in 0..l /\ 0 < l /\ b \in Nat
    BY <1>2, <1>4, LibraryAssumption DEF BitCounts
  <2>2. 2^l = 2 * 2^(l-1) /\ 2^(l-1) \in Nat
    BY <2>1, TwoOK
  <2> DEFINE h == 2^(l-1)
  <2>3. 2^l * n = 2 * (h * n) /\ h * n \in Nat
    BY <2>2
  <2> DEFINE hn == h * n
  <2>4. Divisors!Divides(d, 2 * hn) /\ hn \in Nat
    BY <1>2, <2>3
  <2>5. Divisors!Divides(d, hn)
    <3> HIDE DEF hn
    <3> QED BY <2>4, OddHalf
  <2>6. l-1 \in S
    BY <2>1, <2>5
  <2> QED BY <1>2, <2>1, <2>6
<1> QED BY <1>3, <1>4

\* countr_zero of numbers that fit counts the twos, and what it leaves is odd.
LEMMA TrailingZeros ==
  ASSUME CallInv, NEW n \in Nat \ {0}, n < 2^Divisors!width
  PROVE  /\ Divisors!countr_zero(n) \in 0..Divisors!width
         /\ Divisors!countr_zero(n) \in BitCounts
         /\ 2^Divisors!countr_zero(n) \in Nat \ {0}
         /\ Odd(n \div 2^Divisors!countr_zero(n))
         /\ n \div 2^Divisors!countr_zero(n) \in Nat \ {0}
         /\ n \div 2^Divisors!countr_zero(n) <= n
         /\ n = 2^Divisors!countr_zero(n) * (n \div 2^Divisors!countr_zero(n))
<1> DEFINE W == Divisors!width
           S == {b \in 0..W : n % 2^(b+1) # 0}
           Counted(b) == n % 2^b = 0 /\ n % 2^(b+1) # 0
<1>1. W \in Nat /\ W + 1 \in BitCounts /\ 2^(W+1) \in Nat \ {0} /\ n < 2^(W+1)
  <2>1. W \in Nat /\ W + 1 \in BitCounts
    BY WidthOK
  <2>2. W \in 0 .. W+1
    BY <2>1
  <2>3. 2^(W+1) \in Nat \ {0} /\ 2^W <= 2^(W+1) /\ 2^W \in Nat
    BY <2>1, <2>2, TwoOK
  <2> QED BY <2>1, <2>3
<1> HIDE DEF W
<1>2. \A b \in 0 .. W+1 : b \in BitCounts /\ 2^b \in Nat \ {0}
  <2> SUFFICES ASSUME NEW b \in 0 .. W+1 PROVE b \in BitCounts /\ 2^b \in Nat \ {0}
    OBVIOUS
  <2> QED BY <1>1, TwoOK
<1>3. W \in S
  <2> DEFINE V == 2^(W+1)
  <2>1. V \in Nat \ {0} /\ n < V
    BY <1>1
  <2> HIDE DEF V
  <2>2. n = V * 0 + n /\ n \in 0..V-1
    BY <2>1
  <2>3. n % V = n
    BY <2>1, <2>2, QuotientUnique
  <2>4. n % V # 0
    BY <2>3
  <2> QED BY <1>1, <2>4 DEF V
<1>4. PICK a \in S : \A b \in S : a <= b
  <2>1. S \in SUBSET Nat /\ S # {}
    BY <1>1, <1>3
  <2> HIDE DEF S
  <2> QED BY <2>1, LeastOfSet
<1>5. a \in 0..W /\ Counted(a)
  <2>1. CASE a = 0
    <3>1. 2^0 = 1 /\ n % 1 = 0
      BY TwoAssumption
    <3> QED BY <1>4, <2>1, <3>1
  <2>2. CASE a # 0
    <3>1. a-1 \in 0..W /\ (a-1)+1 = a /\ ~(a <= a-1)
      BY <1>1, <1>4, <2>2
    <3>2. a-1 \notin S
      BY <1>4, <3>1
    <3> QED BY <1>4, <3>1, <3>2
  <2> QED BY <2>1, <2>2
<1> DEFINE z == Divisors!countr_zero(n)
<1>6. z = CHOOSE b \in 0..W : Counted(b)
  BY DEF Divisors!countr_zero, W
<1>7. z \in 0..W /\ Counted(z)
  BY <1>5, <1>6
<1>8. z \in BitCounts /\ z+1 \in BitCounts /\ 2^z \in Nat \ {0} /\ 2^(z+1) = 2 * 2^z
  <2>1. z \in 0 .. W+1 /\ z+1 \in 0 .. W+1 /\ z+1 \in 0 .. z+1 /\ (z+1)-1 = z /\ 0 < z+1
    <3> HIDE DEF z
    <3> QED BY <1>1, <1>7
  <2>2. z+1 \in BitCounts /\ z \in BitCounts /\ 2^z \in Nat \ {0}
    BY <1>2, <2>1
  <2>3. 2^(z+1) = 2 * 2^((z+1)-1)
    <3> DEFINE l == z + 1
    <3>1. l \in BitCounts /\ l \in 0..l /\ 0 < l
      BY <2>1, <2>2
    <3> HIDE DEF l
    <3>2. 2^l = 2 * 2^(l-1)
      BY <3>1, TwoOK
    <3> QED BY <3>2 DEF l
  <2> QED BY <2>1, <2>2, <2>3
<1> HIDE DEF z
<1> DEFINE V == 2^z
           o == n \div V
<1>9. V \in Nat \ {0} /\ n % V = 0 /\ n % (2 * V) # 0
  BY <1>7, <1>8
<1> HIDE DEF V
<1>10. o \in Nat /\ n = V * o
  <2>1. o \in Nat /\ n = V * o + (n % V)
    BY <1>9, QuotientNat
  <2> DEFINE vo == V * o
  <2>2. n = vo + 0 /\ vo \in Nat
    BY <1>9, <2>1
  <2> HIDE DEF vo
  <2>3. n = vo
    BY <2>2
  <2> QED BY <2>1, <2>3 DEF vo
<1> HIDE DEF o
<1>11. o % 2 = 1
  <2> DEFINE h == o \div 2
             p == o % 2
  <2>1. h \in Nat /\ p \in Nat /\ p < 2 /\ o = 2 * h + p
    BY <1>10, QuotientNat
  <2> HIDE DEF h, p
  <2>2. ASSUME p = 0 PROVE FALSE
    <3>1. V * (2 * h) = (2 * V) * h
      BY <1>9, <2>1
    <3>2. o = 2 * h
      BY <2>1, <2>2
    <3> DEFINE f == 2 * V
    <3>3. n = f * h /\ f \in Nat \ {0}
      BY <1>9, <1>10, <3>1, <3>2
    <3> HIDE DEF f
    <3>4. (f * h) % f = 0
      BY <2>1, <3>3, MultipleOK
    <3> QED BY <1>9, <3>3, <3>4 DEF f
  <2>3. p = 1
    BY <2>1, <2>2
  <2> QED BY <2>3 DEF p
<1>12. o # 0 /\ o <= n
  <2>1. o = 0 => V * o = 0
    BY <1>9
  <2>2. V * o >= o
    BY <1>9, <1>10
  <2> QED BY <1>10, <2>1, <2>2
<1>13. Odd(o)
  BY <1>10, <1>11 DEF Odd
<1> QED BY <1>7, <1>8, <1>10, <1>12, <1>13 DEF z, V, o, W

\* greatest_common_divisor, in its loop: both numbers are odd, and odd numbers divide both of them
\* if they divide both operands.
BinaryInv ==
  /\ call.left # 0 /\ call.right # 0
  /\ Odd(numerator) /\ Odd(remainder)
  /\ numerator < 2^Divisors!width /\ remainder < 2^Divisors!width
  /\ \A d : Odd(d) =>
       (Divisors!Divides(d, numerator) /\ Divisors!Divides(d, remainder)
          <=> Divisors!Divides(d, call.left) /\ Divisors!Divides(d, call.right))

\* Odd numbers divide what countr_zero leaves of a number if they divide the number.
LEMMA OddPart ==
  ASSUME CallInv, NEW n \in Nat \ {0}, n < 2^Divisors!width, NEW d, Odd(d)
  PROVE  Divisors!Divides(d, n) <=> Divisors!Divides(d, n \div 2^Divisors!countr_zero(n))
<1> DEFINE z == Divisors!countr_zero(n)
           V == 2^z
           o == n \div V
<1>1. z \in BitCounts /\ V \in Nat \ {0} /\ o \in Nat /\ n = V * o
  BY TrailingZeros
<1>2. d \in Nat
  BY DEF Odd
<1> HIDE DEF o, z
<1>3. Divisors!Divides(d, n) => Divisors!Divides(d, o)
  BY <1>1, OddDivisor
<1> HIDE DEF V
<1>4. Divisors!Divides(d, o) => Divisors!Divides(d, n)
  BY <1>1, <1>2, DividesProduct
<1> QED BY <1>3, <1>4 DEF o, V, z

\* An operand that is zero has every divisor.
LEMMA GcdZeroOK == ASSUME CallInv, Divisors!GcdZero PROVE Divisors!GreatestDivisor'
<1>1. /\ call.left = 0 \/ call.right = 0
      /\ numerator' = IF call.left = 0 THEN call.right ELSE call.left
      /\ call' = call
  BY DEF Divisors!GcdZero
<1>2. call.left \in Nat /\ call.right \in Nat
  BY DEF CallInv
<1>3. \A n \in Nat : Divisors!Divides(n, n) /\ Divisors!Divides(n, 0)
  <2> SUFFICES ASSUME NEW n \in Nat PROVE Divisors!Divides(n, n) /\ Divisors!Divides(n, 0)
    OBVIOUS
  <2>1. n = n * 1 /\ 0 = n * 0
    OBVIOUS
  <2> QED BY <2>1, DividesOK
<1>4. Divisors!IsGcd(IF call.left = 0 THEN call.right ELSE call.left)
  BY <1>1, <1>2, <1>3 DEF Divisors!IsGcd
<1> QED BY <1>1, <1>4 DEF Divisors!GreatestDivisor, Divisors!IsGcd

\* Odd numbers are not zero.
LEMMA OddPositive == ASSUME NEW n, Odd(n) PROVE n \in Nat \ {0}
<1>1. 0 % 2 = 0
  OBVIOUS
<1> QED BY <1>1 DEF Odd

\* The loop begins with the odd parts of the operands.
LEMMA GcdBeginOK == ASSUME CallInv, Divisors!GcdBegin PROVE BinaryInv'
<1> DEFINE x == call.left
           y == call.right
           V == 2^Divisors!width
<1>1. /\ x # 0 /\ y # 0 /\ call' = call
      /\ numerator' = x \div 2^Divisors!countr_zero(x)
      /\ remainder' = y \div 2^Divisors!countr_zero(y)
  BY DEF Divisors!GcdBegin
<1>2. Divisors!width' = Divisors!width
  BY <1>1 DEF Divisors!width
<1>3. x \in Nat \ {0} /\ y \in Nat \ {0} /\ x < V /\ y < V /\ V \in Nat
  BY <1>1, WidthOK DEF CallInv
<1> HIDE DEF x, y
<1>4. Odd(numerator') /\ Odd(remainder') /\ numerator' <= x /\ remainder' <= y
  BY <1>1, <1>3, TrailingZeros
<1>5. numerator' \in Nat /\ remainder' \in Nat
  BY <1>4, OddPositive
<1> HIDE DEF V
<1>6. numerator' < V /\ remainder' < V
  BY <1>3, <1>4, <1>5
<1>7. ASSUME NEW d, Odd(d)
      PROVE  Divisors!Divides(d, numerator') /\ Divisors!Divides(d, remainder')
               <=> Divisors!Divides(d, x) /\ Divisors!Divides(d, y)
  BY <1>1, <1>3, <1>7, OddPart DEF V
<1> QED BY <1>1, <1>2, <1>4, <1>6, <1>7, Zenon DEF BinaryInv, V, x, y, Divisors!Divides, Odd

\* An iteration keeps the odd common divisors: those of the difference and the smaller number are
\* those of both.
LEMMA GcdIterateOK == ASSUME CallInv, BinaryInv, Divisors!GcdIterate PROVE BinaryInv'
<1> DEFINE x == call.left
           y == call.right
           V == 2^Divisors!width
           u == Divisors!Larger(numerator, remainder)
           v == IF numerator < remainder THEN numerator ELSE remainder
           l == Divisors!Fit(u - v)
           n == u - v
<1>1. /\ numerator # remainder /\ call' = call
      /\ numerator' = l \div 2^Divisors!countr_zero(l) /\ remainder' = v
  BY DEF Divisors!GcdIterate
<1>2. Divisors!width' = Divisors!width
  BY <1>1 DEF Divisors!width
<1>3. /\ numerator \in Nat /\ remainder \in Nat /\ numerator < V /\ remainder < V /\ V \in Nat
      /\ Odd(numerator) /\ Odd(remainder) /\ x # 0 /\ y # 0
  BY WidthOK DEF BinaryInv, Odd
<1>4. \/ u = numerator /\ v = remainder
      \/ u = remainder /\ v = numerator
  BY <1>3 DEF Divisors!Larger
<1>5. v < u
  BY <1>1, <1>3 DEF Divisors!Larger
<1> HIDE DEF x, y, V, u, v
<1>6. n \in Nat \ {0} /\ n < V /\ u \in Nat /\ v \in Nat /\ v < V /\ Odd(v)
  BY <1>3, <1>4, <1>5
<1>7. l = n
  <2> HIDE DEF n
  <2>1. Divisors!Fit(n) = n
    BY <1>6, FitOK DEF V
  <2> QED BY <2>1 DEF n
<1>8. l \in Nat \ {0} /\ l < V
  BY <1>6, <1>7
<1> HIDE DEF l
<1>9. Odd(numerator') /\ numerator' <= l /\ numerator' \in Nat
  BY <1>1, <1>8, TrailingZeros DEF V
<1>10. numerator' < V /\ remainder' < V /\ Odd(remainder')
  BY <1>1, <1>3, <1>6, <1>8, <1>9
<1>11. ASSUME NEW d, Odd(d)
       PROVE  Divisors!Divides(d, numerator') /\ Divisors!Divides(d, remainder')
                <=> Divisors!Divides(d, x) /\ Divisors!Divides(d, y)
  <2>1. d \in Nat
    BY <1>11 DEF Odd
  <2>2. Divisors!Divides(d, l) <=> Divisors!Divides(d, numerator')
    BY <1>1, <1>8, <1>11, OddPart DEF V
  <2>3. Divisors!Divides(d, v) => (Divisors!Divides(d, u) <=> Divisors!Divides(d, l))
    <3> SUFFICES ASSUME Divisors!Divides(d, v)
                 PROVE  Divisors!Divides(d, u) <=> Divisors!Divides(d, l)
      OBVIOUS
    <3>1. Divisors!Divides(d, u) <=> Divisors!Divides(d, u - v)
      BY <1>6, <2>1, DividesDifference
    <3> QED BY <1>7, <3>1
  <2>4. Divisors!Divides(d, numerator) /\ Divisors!Divides(d, remainder)
          <=> Divisors!Divides(d, x) /\ Divisors!Divides(d, y)
    BY <1>11 DEF BinaryInv, x, y
  <2>5. Divisors!Divides(d, u) /\ Divisors!Divides(d, v)
          <=> Divisors!Divides(d, numerator) /\ Divisors!Divides(d, remainder)
    BY <1>4
  <2> QED BY <1>1, <2>2, <2>3, <2>4, <2>5
<1> QED BY <1>1, <1>2, <1>3, <1>9, <1>10, <1>11, Zenon DEF BinaryInv, V, x, y, Divisors!Divides, Odd

\* A divisor has no more twos than its multiple.
LEMMA FewerTwos ==
  ASSUME NEW a \in BitCounts, NEW b \in BitCounts, NEW o, Odd(o), NEW p, Odd(p),
         Divisors!Divides(2^b * p, 2^a * o)
  PROVE  b <= a
<1> SUFFICES ASSUME ~(b <= a) PROVE FALSE
  OBVIOUS
<1>1. a \in Nat /\ b \in Nat /\ a < b /\ a \in 0..b /\ b-a \in Nat \ {0}
  BY LibraryAssumption DEF BitCounts
<1>2. /\ 2^b = 2^a * 2^(b-a) /\ 2^a \in Nat \ {0} /\ 2^(b-a) \in Nat \ {0} /\ b-a \in BitCounts
      /\ 2^b \in Nat
  BY <1>1, TwoOK
<1>3. 2^(b-a) = 2 * 2^((b-a)-1) /\ 2^((b-a)-1) \in Nat
  <2> DEFINE c == b - a
  <2>1. c \in BitCounts /\ c \in 0..c /\ 0 < c
    BY <1>1, <1>2
  <2> HIDE DEF c
  <2>2. 2^c = 2 * 2^(c-1) /\ 2^(c-1) \in Nat
    BY <2>1, TwoOK
  <2> QED BY <2>2 DEF c
<1> DEFINE V == 2^a
           h == 2^((b-a)-1)
           D == 2^b * p
<1>4. D \in Nat /\ o \in Nat /\ p \in Nat /\ V \in Nat \ {0} /\ h \in Nat
  BY <1>2, <1>3 DEF Odd
<1>5. V * o \in Nat
  BY <1>4
<1>6. PICK l \in Int : V * o = D * l
  <2> DEFINE vo == V * o
  <2>1. Divisors!Divides(D, vo) /\ vo \in Int
    BY <1>5
  <2> HIDE DEF vo, D
  <2>2. \E l \in Int : vo = D * l
    BY <1>4, <2>1, DividesOK
  <2> QED BY <2>2 DEF vo
<1>7. D = V * (2 * (h * p))
  <2>1. 2^b = V * (2 * h)
    BY <1>2, <1>3
  <2> HIDE DEF V, h
  <2>2. (V * (2 * h)) * p = V * (2 * (h * p))
    BY <1>4
  <2> QED BY <2>1, <2>2
<1> HIDE DEF V, h, D
<1> DEFINE hpl == (h * p) * l
<1>8. D * l = V * (2 * hpl) /\ hpl \in Int
  <2> DEFINE hp == h * p
  <2>1. hp \in Int
    BY <1>4
  <2> HIDE DEF hp
  <2>2. (V * (2 * hp)) * l = V * (2 * (hp * l)) /\ hp * l \in Int
    BY <1>4, <2>1
  <2> QED BY <1>7, <2>2 DEF hp
<1> HIDE DEF hpl
<1>9. o = 2 * hpl
  <2> DEFINE t == 2 * hpl
  <2>1. t \in Int /\ V * o = V * t
    BY <1>6, <1>8
  <2> HIDE DEF t
  <2>2. (V * o) \div V = o /\ (V * t) \div V = t
    BY <1>4, <2>1, MultipleOK
  <2> QED BY <2>1, <2>2 DEF t
<1>10. o % 2 = 0
  BY <1>8, <1>9, MultipleOK
<1> QED BY <1>10 DEF Odd

\* Divisors divide what their multiples divide.
LEMMA DividesTwice ==
  ASSUME NEW d \in Nat, NEW n \in Nat, NEW o \in Nat, Divisors!Divides(d, n),
         Divisors!Divides(n, o)
  PROVE  Divisors!Divides(d, o)
<1>1. PICK h \in Int : n = d * h
  BY DividesOK
<1>2. PICK l \in Int : o = n * l
  BY DividesOK
<1> DEFINE hl == h * l
<1>3. (d * h) * l = d * hl /\ hl \in Int
  OBVIOUS
<1> HIDE DEF hl
<1>4. o = d * hl
  BY <1>1, <1>2, <1>3
<1> QED BY <1>3, <1>4, DividesOK

\* Divisors of a number that is not zero are not more than it.
LEMMA DivisorSmaller ==
  ASSUME NEW d \in Nat, NEW n \in Nat \ {0}, Divisors!Divides(d, n)
  PROVE  d \in Nat \ {0} /\ d <= n
<1>1. PICK h \in Int : n = d * h
  BY DividesOK
<1>2. h <= 0 => d * h <= 0
  OBVIOUS
<1>3. h >= 1 => d * h >= d
  OBVIOUS
<1>4. d = 0 => d * h = 0
  OBVIOUS
<1> DEFINE dh == d * h
<1>5. dh \in Int /\ n = dh /\ (h <= 0 => dh <= 0) /\ (h >= 1 => dh >= d) /\ (d = 0 => dh = 0)
  BY <1>1, <1>2, <1>3, <1>4
<1> HIDE DEF dh
<1> QED BY <1>5

\* An odd divisor of a number times as many twos as the number has, or fewer, divides it.
LEMMA WithTwos ==
  ASSUME CallInv, NEW n \in Nat \ {0}, n < 2^Divisors!width, NEW u, Odd(u),
         Divisors!Divides(u, n), NEW l \in 0..Divisors!countr_zero(n)
  PROVE  /\ u * 2^l \in Nat \ {0} /\ u * 2^l <= n
         /\ Divisors!Divides(u * 2^l, n)
<1> DEFINE z == Divisors!countr_zero(n)
           o == n \div 2^z
           V == 2^l
           U == 2^(z-l)
<1>1. z \in BitCounts /\ o \in Nat \ {0} /\ n = 2^z * o /\ u \in Nat
  BY TrailingZeros DEF Odd
<1>2. Divisors!Divides(u, o)
  BY OddPart
<1> HIDE DEF o
<1>3. 2^z = V * U /\ V \in Nat /\ U \in Nat
  <2> HIDE DEF z
  <2>1. l \in 0..z
    BY DEF z
  <2> QED BY <1>1, <2>1, TwoOK
<1>8. u \in Nat /\ o \in Int
  BY <1>1
<1> HIDE DEF z, V, U
<1>4. PICK h \in Int : o = u * h
  BY <1>2, <1>8, DividesOK
<1> DEFINE uV == u * V
           Uh == U * h
<1>5. n = uV * Uh /\ uV \in Nat /\ Uh \in Int
  <2>1. (V * U) * (u * h) = (u * V) * (U * h)
    BY <1>1, <1>3
  <2> QED BY <1>1, <1>3, <1>4, <2>1
<1> HIDE DEF uV, Uh
<1>6. Divisors!Divides(uV, n)
  BY <1>5, DividesOK
<1>7. uV \in Nat \ {0} /\ uV <= n
  BY <1>5, <1>6, DivisorSmaller
<1> QED BY <1>6, <1>7 DEF uV, V

\* A common divisor has no more twos than either operand, and an odd part that divides both
\* operands, and so what the loop is left with.
LEMMA CommonDivisor ==
  ASSUME CallInv, BinaryInv, numerator = remainder, NEW d \in Nat,
         Divisors!Divides(d, call.left), Divisors!Divides(d, call.right),
         NEW l, l = Divisors!countr_zero(call.left) \/ l = Divisors!countr_zero(call.right)
  PROVE  Divisors!Divides(d, numerator * 2^l)
<1> DEFINE x == call.left
           y == call.right
           W == 2^Divisors!width
           e == Divisors!countr_zero(d)
           p == d \div 2^e
<1>1. x \in Nat \ {0} /\ y \in Nat \ {0} /\ x < W /\ y < W /\ W \in Nat
  BY WidthOK DEF CallInv, BinaryInv
<1>2. d \in Nat \ {0} /\ d <= x
  BY <1>1, DivisorSmaller
<1>3. d < W
  <2> HIDE DEF x, W
  <2> QED BY <1>1, <1>2
<1>4. e \in BitCounts /\ 2^e \in Nat /\ Odd(p) /\ d = 2^e * p
  BY <1>2, <1>3, TrailingZeros
<1> HIDE DEF e, p
<1>5. p \in Nat
  BY <1>4 DEF Odd
<1>6. Divisors!Divides(p, d)
  <2> DEFINE f == 2^e
  <2>1. d = p * f /\ f \in Int
    BY <1>4, <1>5
  <2> HIDE DEF f
  <2> QED BY <1>5, <2>1, DividesOK
<1>7. Divisors!Divides(p, x) /\ Divisors!Divides(p, y)
  BY <1>1, <1>5, <1>6, DividesTwice
<1>8. Divisors!Divides(p, numerator) /\ numerator \in Nat
  BY <1>4, <1>7 DEF BinaryInv, Odd
<1>9. e <= l /\ l \in BitCounts
  <2>1. CASE l = Divisors!countr_zero(x)
    <3> DEFINE o == x \div 2^l
    <3>1. l \in BitCounts /\ Odd(o) /\ x = 2^l * o
      BY <1>1, <2>1, TrailingZeros
    <3> HIDE DEF o
    <3>2. Divisors!Divides(2^e * p, 2^l * o)
      BY <1>4, <3>1
    <3> QED BY <1>4, <3>1, <3>2, FewerTwos
  <2>2. CASE l = Divisors!countr_zero(y)
    <3> DEFINE o == y \div 2^l
    <3>1. l \in BitCounts /\ Odd(o) /\ y = 2^l * o
      BY <1>1, <2>2, TrailingZeros
    <3> HIDE DEF o
    <3>2. Divisors!Divides(2^e * p, 2^l * o)
      BY <1>4, <3>1
    <3> QED BY <1>4, <3>1, <3>2, FewerTwos
  <2> QED BY <2>1, <2>2
<1>10. 2^l = 2^e * 2^(l-e) /\ 2^(l-e) \in Nat /\ 2^l \in Nat
  <2>1. e \in 0..l
    BY <1>4, <1>9, LibraryAssumption DEF BitCounts
  <2> QED BY <1>9, <2>1, TwoOK
<1>11. PICK h \in Int : numerator = p * h
  BY <1>5, <1>8, DividesOK
<1> DEFINE E == 2^e
           F == 2^(l-e)
           nl == numerator * 2^l
           hF == h * F
<1>12. nl = d * hF /\ nl \in Int /\ hF \in Int
  <2>1. (p * h) * (E * F) = (E * p) * (h * F) /\ E \in Nat /\ F \in Nat
    <3>1. E \in Nat /\ F \in Nat
      BY <1>4, <1>10
    <3> HIDE DEF E, F
    <3> QED BY <1>5, <1>11, <3>1
  <2> QED BY <1>4, <1>8, <1>10, <1>11, <2>1
<1> HIDE DEF nl, hF
<1>13. Divisors!Divides(d, nl)
  BY <1>12, DividesOK
<1> QED BY <1>13 DEF nl

\* Both numbers are the same, and with the twos that the operands have in common they make the
\* greatest common divisor, for which there is room.
LEMMA GcdEndOK == ASSUME CallInv, BinaryInv, Divisors!GcdEnd PROVE Divisors!GreatestDivisor'
<1> DEFINE x == call.left
           y == call.right
           W == 2^Divisors!width
           l == Divisors!CommonPower
           g == numerator * 2^l
<1>1. numerator = remainder /\ numerator' = Divisors!Fit(g) /\ call' = call
  BY DEF Divisors!GcdEnd
<1>2. x \in Nat \ {0} /\ y \in Nat \ {0} /\ x < W /\ y < W /\ W \in Nat
  BY WidthOK DEF CallInv, BinaryInv
<1>3. Odd(numerator) /\ Divisors!Divides(numerator, x) /\ Divisors!Divides(numerator, y)
  <2>1. numerator \in Nat /\ numerator = numerator * 1 /\ Odd(numerator)
    BY DEF BinaryInv, Odd
  <2>2. Divisors!Divides(numerator, numerator)
    BY <2>1, DividesOK
  <2> QED BY <1>1, <2>1, <2>2 DEF BinaryInv
<1>4. /\ l = Divisors!countr_zero(x) \/ l = Divisors!countr_zero(y)
      /\ l \in 0..Divisors!countr_zero(x) /\ l \in 0..Divisors!countr_zero(y)
  <2> DEFINE a == Divisors!countr_zero(x)
             b == Divisors!countr_zero(y)
  <2>1. a \in 0..Divisors!width /\ b \in 0..Divisors!width /\ Divisors!width \in Nat
    BY <1>2, TrailingZeros, WidthOK
  <2>2. l = IF a < b THEN a ELSE b
    BY DEF Divisors!CommonPower
  <2> HIDE DEF a, b, l
  <2>3. (l = a \/ l = b) /\ l \in 0..a /\ l \in 0..b
    BY <2>1, <2>2
  <2> QED BY <2>3 DEF a, b
<1> HIDE DEF x, y, l
<1>5. g \in Nat /\ g <= x /\ Divisors!Divides(g, x) /\ Divisors!Divides(g, y)
  BY <1>2, <1>3, <1>4, WithTwos
<1>6. g < W
  <2> HIDE DEF g, W
  <2> QED BY <1>2, <1>5
<1>7. \A d \in Nat : Divisors!Divides(d, x) /\ Divisors!Divides(d, y) => Divisors!Divides(d, g)
  BY <1>1, <1>4, CommonDivisor DEF x, y
<1> HIDE DEF g
<1>8. numerator' = g
  BY <1>1, <1>5, <1>6, FitOK
<1>9. 1..DivisorGreatest \subseteq Nat
  BY LibraryAssumption
<1>10. Divisors!IsGcd(g)
  BY <1>5, <1>7, <1>9 DEF Divisors!IsGcd, x, y
<1> QED BY <1>1, <1>8, <1>10 DEF Divisors!GreatestDivisor, Divisors!IsGcd

\* greatest_common_divisor and extended_euclidean, between two steps.
DivisorInv ==
  /\ CallInv
  /\ pc \in {"call", "loop", "done"}
  /\ pc = "call" => carry = FALSE
  /\ pc = "loop" /\ call.op = "extended_euclidean" => RemainderInv
  /\ pc = "loop" /\ call.op = "greatest_common_divisor" => BinaryInv
  /\ Divisors!GreatestDivisor
  /\ Divisors!Coefficients

\* A call begins with it.
LEMMA InitDivisorInv == Divisors!Init => DivisorInv
<1>1. Divisors!Init => pc = "call" /\ carry = FALSE
  BY DEF Divisors!Init
<1> QED
  BY <1>1, InitCallInv DEF DivisorInv, Divisors!GreatestDivisor, Divisors!Coefficients

\* No step changes the call.
LEMMA CallStays == CallInv /\ call' = call => CallInv'
BY DEF CallInv, Divisors!width

\* Every step of both algorithms keeps it.
LEMMA DivisorInvKept == DivisorInv /\ [Divisors!Next]_(Divisors!vars) => DivisorInv'
<1> SUFFICES ASSUME DivisorInv, [Divisors!Next]_(Divisors!vars) PROVE DivisorInv'
  OBVIOUS
<1> USE DEF Divisors!coefficients
<1>1. CallInv /\ pc \in {"call", "loop", "done"}
  BY DEF DivisorInv
<1>2. CASE Divisors!GcdZero
  <2>1. call' = call /\ pc' = "done" /\ call.op = "greatest_common_divisor"
    BY <1>2 DEF Divisors!GcdZero
  <2>2. CallInv' /\ Divisors!GreatestDivisor'
    BY <1>1, <1>2, <2>1, CallStays, GcdZeroOK
  <2> QED BY <2>1, <2>2 DEF DivisorInv, Divisors!Coefficients
<1>3. CASE Divisors!GcdBegin
  <2>1. call' = call /\ pc' = "loop" /\ call.op = "greatest_common_divisor"
    BY <1>3 DEF Divisors!GcdBegin
  <2>2. CallInv' /\ BinaryInv'
    BY <1>1, <1>3, <2>1, CallStays, GcdBeginOK
  <2> QED BY <2>1, <2>2 DEF DivisorInv, Divisors!GreatestDivisor, Divisors!Coefficients
<1>4. CASE Divisors!GcdIterate
  <2>1. call' = call /\ pc = "loop" /\ pc' = "loop" /\ call.op = "greatest_common_divisor"
    BY <1>4 DEF Divisors!GcdIterate
  <2>2. BinaryInv
    BY <2>1 DEF DivisorInv
  <2>3. CallInv' /\ BinaryInv'
    BY <1>1, <1>4, <2>1, <2>2, CallStays, GcdIterateOK
  <2> QED BY <2>1, <2>3 DEF DivisorInv, Divisors!GreatestDivisor, Divisors!Coefficients
<1>5. CASE Divisors!GcdEnd
  <2>1. call' = call /\ pc = "loop" /\ pc' = "done" /\ call.op = "greatest_common_divisor"
    BY <1>5 DEF Divisors!GcdEnd
  <2>2. BinaryInv
    BY <2>1 DEF DivisorInv
  <2>3. CallInv' /\ Divisors!GreatestDivisor'
    BY <1>1, <1>5, <2>1, <2>2, CallStays, GcdEndOK
  <2> QED BY <2>1, <2>3 DEF DivisorInv, Divisors!Coefficients
<1>6. CASE Divisors!Begin
  <2>1. call' = call /\ pc = "call" /\ pc' = "loop" /\ call.op = "extended_euclidean"
    BY <1>6 DEF Divisors!Begin
  <2>2. carry = FALSE
    BY <2>1 DEF DivisorInv
  <2>3. CallInv' /\ RemainderInv'
    BY <1>1, <1>6, <2>1, <2>2, CallStays, BeginOK
  <2> QED BY <2>1, <2>3 DEF DivisorInv, Divisors!GreatestDivisor, Divisors!Coefficients
<1>7. CASE Divisors!Iterate
  <2>1. call' = call /\ pc = "loop" /\ pc' = "loop" /\ call.op = "extended_euclidean"
    BY <1>7 DEF Divisors!Iterate
  <2>2. RemainderInv
    BY <2>1 DEF DivisorInv
  <2>3. CallInv' /\ RemainderInv'
    BY <1>1, <1>7, <2>1, <2>2, CallStays, IterateOK
  <2> QED BY <2>1, <2>3 DEF DivisorInv, Divisors!GreatestDivisor, Divisors!Coefficients
<1>8. CASE Divisors!End
  <2>1. call' = call /\ pc = "loop" /\ pc' = "done" /\ call.op = "extended_euclidean"
    BY <1>8 DEF Divisors!End
  <2>2. RemainderInv
    BY <2>1 DEF DivisorInv
  <2>3. CallInv' /\ Divisors!GreatestDivisor' /\ Divisors!Coefficients'
    BY <1>1, <1>8, <2>1, <2>2, CallStays, EndCoefficients
  <2> QED BY <2>1, <2>3 DEF DivisorInv
<1>9. CASE UNCHANGED Divisors!vars
  <2>1. /\ call' = call /\ pc' = pc /\ numerator' = numerator /\ remainder' = remainder
        /\ window' = window /\ part' = part /\ offset' = offset /\ over' = over /\ carry' = carry
    BY <1>9 DEF Divisors!vars
  <2>2. CallInv'
    BY <1>1, <2>1, CallStays
  <2>3. RemainderInv => RemainderInv'
    BY <2>1 DEF RemainderInv, Divisors!width, Combined, Identity
  <2>4. BinaryInv => BinaryInv'
    BY <2>1 DEF BinaryInv, Divisors!width, Odd, Divisors!Divides
  <2>5. Divisors!GreatestDivisor => Divisors!GreatestDivisor'
    BY <2>1 DEF Divisors!GreatestDivisor, Divisors!IsGcd, Divisors!Divides
  <2>6. Divisors!Coefficients => Divisors!Coefficients'
    BY <2>1 DEF Divisors!Coefficients
  <2> QED BY <2>1, <2>2, <2>3, <2>4, <2>5, <2>6 DEF DivisorInv
<1> QED
  BY <1>2, <1>3, <1>4, <1>5, <1>6, <1>7, <1>8, <1>9 DEF Divisors!Next

\* The identity as a sum.
LEMMA SignedIdentity ==
  ASSUME NEW x \in Nat, NEW y \in Nat, NEW u \in Nat, NEW w \in Nat, NEW a,
         Identity(a, u, x, w, y)
  PROVE  a = u * x + (-w) * y /\ a = (-w) * y + u * x
<1> DEFINE ux == u * x
           wy == w * y
           n  == -w
           ny == n * y
<1>1. a = ux - wy /\ ux \in Int /\ wy \in Int
  BY DEF Identity
<1>2. ny = -wy
  OBVIOUS
<1> HIDE DEF ux, wy, ny
<1>3. a = ux + ny /\ a = ny + ux
  BY <1>1, <1>2
<1> QED BY <1>3 DEF ux, ny, n

\* Bezout's identity with signs is the one of the invariant.
LEMMA BezoutOK == DivisorInv => Divisors!Bezout
<1> SUFFICES ASSUME DivisorInv, pc = "loop", call.op = "extended_euclidean", Divisors!width > 0
             PROVE  /\ numerator = Divisors!Signed(window, carry) * call.left
                                     + Divisors!Signed(offset, ~carry) * call.right
                    /\ remainder = Divisors!Signed(part, ~carry) * call.left
                                     + Divisors!Signed(over, carry) * call.right
  BY DEF Divisors!Bezout
<1> DEFINE x == call.left
           y == call.right
<1>1. CallInv /\ RemainderInv
  BY DEF DivisorInv
<1>2. /\ ~carry => /\ Identity(numerator, window, x, offset, y)
                   /\ Identity(remainder, over, y, part, x)
      /\ carry  => /\ Identity(numerator, offset, y, window, x)
                   /\ Identity(remainder, part, x, over, y)
  BY <1>1 DEF RemainderInv
<1>3. x \in Nat /\ y \in Nat /\ window \in Nat /\ offset \in Nat /\ part \in Nat /\ over \in Nat
  BY <1>1 DEF CallInv, RemainderInv
<1> HIDE DEF x, y
<1>4. CASE carry
  <2>1. /\ Identity(numerator, offset, y, window, x)
        /\ Identity(remainder, part, x, over, y)
    BY <1>2, <1>4
  <2>2. /\ numerator = (-window) * x + offset * y
        /\ remainder = part * x + (-over) * y
    BY <1>3, <2>1, SignedIdentity
  <2>3. /\ Divisors!Signed(window, carry) = -window /\ Divisors!Signed(offset, ~carry) = offset
        /\ Divisors!Signed(part, ~carry) = part /\ Divisors!Signed(over, carry) = -over
    BY <1>4, Zenon DEF Divisors!Signed
  <2> QED BY <2>2, <2>3, Zenon DEF x, y
<1>5. CASE ~carry
  <2>1. /\ Identity(numerator, window, x, offset, y)
        /\ Identity(remainder, over, y, part, x)
    BY <1>2, <1>5
  <2>2. /\ numerator = window * x + (-offset) * y
        /\ remainder = (-part) * x + over * y
    BY <1>3, <2>1, SignedIdentity
  <2>3. /\ Divisors!Signed(window, carry) = window /\ Divisors!Signed(offset, ~carry) = -offset
        /\ Divisors!Signed(part, ~carry) = -part /\ Divisors!Signed(over, carry) = over
    BY <1>5, Zenon DEF Divisors!Signed
  <2> QED BY <2>2, <2>3, Zenon DEF x, y
<1> QED BY <1>4, <1>5

\* greatest_common_divisor and extended_euclidean find the greatest common divisor, and the
\* coefficients fit and are ones modulo the other operand, whatever the operands and their types.
THEOREM DivisorsOK ==
  Divisors!Spec => [](Divisors!GreatestDivisor /\ Divisors!Coefficients /\ Divisors!Bezout)
<1>1. DivisorInv => Divisors!GreatestDivisor /\ Divisors!Coefficients /\ Divisors!Bezout
  BY BezoutOK DEF DivisorInv
<1> QED BY <1>1, InitDivisorInv, DivisorInvKept, PTL DEF Divisors!Spec

------------------------------------------------------------------------------
(* Division *)

\* Powers of two grow.
LEMMA TwoGrows ==
  ASSUME NEW n \in Exponents, NEW l \in 0..n, l < n
  PROVE  2^l < 2^n /\ 2 * 2^l <= 2^n
<1> DEFINE u == 2^l
           v == 2^(n-l)
<1>1. n \in Nat /\ n-l \in Exponents /\ n-l \in 0 .. n-l /\ 0 < n-l
  <2>1. n \in Nat
    BY LibraryAssumption, WordAssumption DEF Exponents
  <2> QED BY <2>1, ExponentOK
<1>2. u \in Nat \ {0} /\ v \in Nat \ {0} /\ 2^n = u * v
  BY ExponentOK
<1>3. v = 2 * 2^((n-l)-1) /\ 2^((n-l)-1) \in Nat \ {0}
  <2> DEFINE m0 == n - l
  <2>1. m0 \in Exponents /\ m0 \in 0..m0 /\ 0 < m0
    BY <1>1
  <2> HIDE DEF m0
  <2>2. 2^m0 = 2 * 2^(m0-1) /\ 2^(m0-1) \in Nat \ {0}
    BY <2>1, ExponentOK
  <2> QED BY <2>2 DEF m0
<1>4. v >= 2
  <2> DEFINE h == 2^((n-l)-1)
  <2>1. v = 2 * h /\ h \in Nat \ {0}
    BY <1>3
  <2> HIDE DEF v, h
  <2> QED BY <2>1
<1> HIDE DEF u, v
<1>5. u * v >= u * 2
  BY <1>2, <1>4
<1> DEFINE uv == u * v
<1>6. uv >= 2 * u /\ uv \in Nat
  BY <1>2, <1>5
<1> HIDE DEF uv
<1>7. u < uv /\ 2 * u <= uv
  BY <1>2, <1>6
<1> QED BY <1>2, <1>7 DEF u, uv

\* A number is less than its power of two.
LEMMA TwoAbove == ASSUME NEW n \in Exponents PROVE n \in Nat /\ n < 2^n
<1> DEFINE S == {l \in 0..n : ~(l < 2^l)}
<1>1. n \in Nat
  BY LibraryAssumption, WordAssumption DEF Exponents
<1>2. ASSUME S # {} PROVE FALSE
  <2>1. PICK l \in S : \A b \in S : l <= b
    <3>1. S \in SUBSET Nat
      BY <1>1
    <3> HIDE DEF S
    <3> QED BY <1>2, <3>1, LeastOfSet
  <2>2. l # 0
    <3>1. 2^0 = 1
      BY TwoAssumption
    <3>2. 0 < 2^0
      BY <3>1
    <3> QED BY <2>1, <3>2
  <2>3. l-1 \in 0..n /\ l-1 < l /\ l \in Exponents /\ l-1 \in 0..l /\ l \in Nat
    BY <1>1, <2>1, <2>2, ExponentOK
  <2>4. l-1 < 2^(l-1)
    <3>1. l-1 \notin S
      BY <2>1, <2>3
    <3> QED BY <2>3, <3>1
  <2>5. 2 * 2^(l-1) <= 2^l /\ 2^(l-1) \in Nat /\ 2^l \in Nat
    BY <2>3, TwoGrows, ExponentOK
  <2>6. ~(l < 2^l)
    BY <2>1
  <2> DEFINE u == 2^(l-1)
             v == 2^l
  <2>7. l-1 < u /\ 2 * u <= v /\ u \in Nat /\ v \in Nat /\ ~(l < v)
    BY <2>4, <2>5, <2>6
  <2> HIDE DEF u, v
  <2> QED BY <2>2, <2>3, <2>7
<1>3. n \notin S
  BY <1>2
<1> QED BY <1>1, <1>3

\* The number of bits that division finds in a limb is the number of them.
LEMMA BitsOK ==
  /\ Quotients!Bits = limb_bit_size /\ limb_bit_size \in Nat \ {0} /\ limb_bit_size \in Exponents
  /\ 2^limb_bit_size = B
<1>1. limb_bit_size \in Nat \ {0} /\ limb_bit_size \in Exponents /\ 2^limb_bit_size = B
  BY LibraryAssumption DEF Exponents
<1>2. limb_bit_size \in 1..B
  BY <1>1, TwoAbove, WordAssumption
<1>3. Quotients!Bits \in 1..B /\ 2^Quotients!Bits = B
  BY <1>1, <1>2 DEF Quotients!Bits
<1> DEFINE b == Quotients!Bits
<1>4. b \in Exponents /\ b \in Nat
  BY <1>3, WordAssumption DEF Exponents
<1> HIDE DEF b
<1>5. ~(b < limb_bit_size)
  BY <1>1, <1>3, <1>4, TwoGrows DEF b
<1>6. ~(limb_bit_size < b)
  BY <1>1, <1>3, <1>4, TwoGrows DEF b
<1>7. b = limb_bit_size
  BY <1>1, <1>4, <1>5, <1>6
<1> QED BY <1>1, <1>7 DEF b

\* Powers of B are powers of two.
LEMMA LimbPower ==
  ASSUME NEW k0 \in 0..QuotientLimbs
  PROVE  limb_bit_size * k0 \in Exponents /\ 2^(limb_bit_size * k0) = B^k0
<1> DEFINE w == limb_bit_size
           S == {l \in 0..QuotientLimbs : 2^(w * l) # B^l}
<1>1. QuotientLimbs \in Nat /\ QuotientLimbs <= Limbs /\ Limbs \in Nat
  BY LibraryAssumption, WordAssumption
<1>2. ASSUME NEW l \in 0..QuotientLimbs PROVE w * l \in Exponents /\ w * l \in Nat
  <2>1. w * l <= w * QuotientLimbs /\ w * l \in Nat /\ w * QuotientLimbs \in Nat
    BY <1>1, BitsOK
  <2> QED BY <2>1 DEF Exponents
<1>3. ASSUME S # {} PROVE FALSE
  <2>1. PICK l \in S : \A b \in S : l <= b
    <3>1. S \in SUBSET Nat
      BY <1>1
    <3> HIDE DEF S
    <3> QED BY <1>3, <3>1, LeastOfSet
  <2>2. CASE l = 0
    <3>1. w * l = 0
      BY <2>2, BitsOK
    <3> QED BY <2>1, <2>2, <3>1, TwoAssumption, PowerAssumption
  <2>3. CASE l # 0
    <3>1. l-1 \in 0..QuotientLimbs /\ ~(l <= l-1) /\ l \in Nat /\ l \in 0..Limbs /\ l-1 \in 0..Limbs
      BY <1>1, <2>1, <2>3
    <3>2. 2^(w * (l-1)) = B^(l-1)
      BY <2>1, <3>1
    <3>3. 2^(w * l) = 2^w * 2^(w * l - w)
      <4> DEFINE wl == w * l
      <4>1. w \in 0..wl /\ wl \in Exponents
        <5>1. w * l >= w /\ w * l \in Nat
          BY <3>1, <2>3, BitsOK
        <5> QED BY <1>2, <2>1, <5>1, BitsOK
      <4> HIDE DEF wl
      <4>2. 2^wl = 2^w * 2^(wl - w)
        BY <4>1, ExponentOK
      <4> QED BY <4>2 DEF wl
    <3>4. w * l - w = w * (l-1)
      BY <3>1, BitsOK
    <3>5. B^l = B * B^(l-1)
      <4>1. 1 \in 0..Limbs /\ 1 + (l-1) = l /\ 1 + (l-1) <= Limbs
        BY <1>1, <3>1
      <4> QED BY <3>1, <4>1, PowerAssumption
    <3>6. 2^(w * l) = B^l
      BY <3>2, <3>3, <3>4, <3>5, BitsOK
    <3> QED BY <2>1, <3>6
  <2> QED BY <2>2, <2>3
<1>4. k0 \notin S
  BY <1>3
<1> QED BY <1>2, <1>4

\* bit_width finds the number of bits that a number needs.
LEMMA WidthCount ==
  ASSUME NEW x \in Nat, x < B^QuotientLimbs
  PROVE  /\ Quotients!bit_width(x) \in 0 .. limb_bit_size * QuotientLimbs
         /\ Quotients!bit_width(x) \in Exponents
         /\ x < 2^Quotients!bit_width(x)
         /\ Quotients!bit_width(x) > 0 => 2^(Quotients!bit_width(x) - 1) <= x
<1> DEFINE most == limb_bit_size * QuotientLimbs
           Width(n) == x < 2^n /\ (n > 0 => 2^(n-1) <= x)
           S == {n \in 0..most : x < 2^n}
<1>1. QuotientLimbs \in 0..QuotientLimbs /\ limb_bit_size \in Nat \ {0}
  BY LibraryAssumption, WordAssumption
<1>2. most \in Nat /\ x < 2^most /\ \A n \in 0..most : n \in Exponents /\ 2^n \in Nat
  <2>1. most \in Nat
    BY <1>1
  <2>2. most \in Exponents /\ 2^most = B^QuotientLimbs
    BY <1>1, LimbPower
  <2> HIDE DEF most
  <2>3. \A n \in 0..most : n \in Exponents /\ 2^n \in Nat
    BY <2>2, ExponentOK
  <2> QED BY <2>1, <2>2, <2>3
<1>3. PICK n \in S : \A l \in S : n <= l
  <2>1. S # {} /\ S \in SUBSET Nat
    BY <1>2
  <2> HIDE DEF S
  <2> QED BY <2>1, LeastOfSet
<1> HIDE DEF most
<1>4. n \in 0..most /\ Width(n)
  <2>1. n \in 0..most /\ x < 2^n /\ n \in Nat
    BY <1>2, <1>3
  <2>2. ASSUME n > 0 PROVE 2^(n-1) <= x
    <3>1. n-1 \in 0..most /\ ~(n <= n-1)
      BY <1>2, <2>1, <2>2
    <3>2. ~(x < 2^(n-1))
      BY <1>3, <3>1
    <3>3. 2^(n-1) \in Nat
      BY <1>2, <3>1
    <3> QED BY <3>2, <3>3
  <2> QED BY <2>1, <2>2
<1>5. Quotients!bit_width(x) = CHOOSE l \in 0..most : Width(l)
  BY BitsOK DEF Quotients!bit_width, most
<1>6. Quotients!bit_width(x) \in 0..most /\ Width(Quotients!bit_width(x))
  BY <1>4, <1>5
<1> QED BY <1>2, <1>6 DEF most

\* limb_size_for rounds up.
LEMMA LimbsForBits ==
  ASSUME NEW n \in Nat
  PROVE  /\ Quotients!limb_size_for(n) \in Nat
         /\ n <= limb_bit_size * Quotients!limb_size_for(n)
         /\ limb_bit_size * Quotients!limb_size_for(n) < n + limb_bit_size
<1> DEFINE w == limb_bit_size
           a == n + w - 1
           c == a \div w
<1>1. w \in Nat \ {0} /\ a \in Nat
  BY BitsOK
<1>2. c \in Nat /\ a % w \in Nat /\ a % w < w /\ a = w * c + (a % w)
  <2> HIDE DEF a, w
  <2> QED BY <1>1, QuotientNat
<1>3. Quotients!limb_size_for(n) = c
  BY BitsOK DEF Quotients!limb_size_for
<1> DEFINE wc == w * c
           r == a % w
<1>4. wc \in Nat /\ r \in Nat /\ r < w /\ a = wc + r /\ a = n + w - 1
  BY <1>1, <1>2
<1> HIDE DEF wc, r, a, c, w
<1>5. n <= wc /\ wc < n + w
  BY <1>1, <1>4
<1> QED BY <1>2, <1>3, <1>5 DEF wc, w

\* Size is the number of limbs that a number needs.
LEMMA SizeOK ==
  ASSUME NEW x \in Nat, x < B^QuotientLimbs
  PROVE  /\ Quotients!Size(x) \in 0..QuotientLimbs
         /\ x < B^Quotients!Size(x)
         /\ Quotients!Size(x) > 0 => B^(Quotients!Size(x) - 1) <= x
<1> DEFINE w == limb_bit_size
           b == Quotients!bit_width(x)
           c == Quotients!Size(x)
           L == QuotientLimbs
<1>1. b \in 0..w*L /\ b \in Exponents /\ x < 2^b /\ (b > 0 => 2^(b-1) <= x)
  BY WidthCount
<1>2. w \in Nat \ {0} /\ L \in Nat
  BY BitsOK, LibraryAssumption, WordAssumption
<1> HIDE DEF b
<1>3. c \in Nat /\ b <= w * c /\ w * c < b + w /\ b \in Nat /\ b <= w * L
  <2>1. b \in Nat /\ b <= w * L
    BY <1>1, <1>2
  <2> QED BY <2>1, LimbsForBits DEF Quotients!Size, b
<1> HIDE DEF c, w, L
<1>4. c <= L
  <2>1. SUFFICES ASSUME c >= L + 1 PROVE FALSE
    BY <1>2, <1>3
  <2>2. w * c >= w * (L + 1) /\ w * (L + 1) = w * L + w
    BY <1>2, <1>3, <2>1
  <2> DEFINE wc == w * c
             wL == w * L
  <2>3. wc \in Nat /\ wL \in Nat /\ wc >= wL + w /\ wc < b + w /\ b <= wL
    BY <1>2, <1>3, <2>2
  <2> HIDE DEF wc, wL
  <2> QED BY <1>2, <1>3, <2>3
<1>5. c \in 0..L
  BY <1>2, <1>3, <1>4
<1>6. x < B^c
  <2>1. w * c \in Exponents /\ 2^(w * c) = B^c
    BY <1>5, LimbPower DEF w, L
  <2> DEFINE wc == w * c
  <2>2. b \in 0..wc /\ wc \in Exponents
    BY <1>2, <1>3, <2>1
  <2> HIDE DEF wc
  <2>3. 2^b <= 2^wc /\ 2^b \in Nat /\ 2^wc \in Nat
    BY <2>2, ExponentOK
  <2> DEFINE u == 2^b
             v == 2^wc
  <2>4. x < u /\ u <= v /\ u \in Nat /\ v \in Nat
    BY <1>1, <2>3
  <2> HIDE DEF u, v
  <2>5. x < v
    BY <2>4
  <2> QED BY <2>1, <2>5 DEF v, wc
<1>7. ASSUME c > 0 PROVE B^(c-1) <= x
  <2>1. c-1 \in 0..L
    BY <1>5, <1>7, <1>2
  <2>2. 2^(w * (c-1)) = B^(c-1) /\ w * (c-1) \in Exponents
    BY <2>1, LimbPower DEF w, L
  <2> DEFINE e == w * (c-1)
             f == b - 1
  <2>3. e \in Nat /\ e <= f /\ f \in Nat /\ b > 0
    <3>1. w * (c-1) = w * c - w /\ w * (c-1) \in Nat /\ w * c \in Nat
      BY <1>2, <1>3, <1>7
    <3> DEFINE wc == w * c
    <3>2. e = wc - w /\ e \in Nat /\ wc \in Nat /\ wc < b + w
      BY <1>3, <3>1
    <3> HIDE DEF wc, e
    <3> QED BY <1>2, <1>3, <3>2
  <2>4. f \in Exponents /\ 2^f <= x
    <3>1. b \in Exponents /\ f \in 0..b
      BY <1>1, <2>3
    <3>2. f \in Exponents
      BY <3>1, ExponentOK
    <3> QED BY <1>1, <2>3, <3>2
  <2> HIDE DEF e, f
  <2>5. 2^e <= 2^f /\ 2^e \in Nat /\ 2^f \in Nat
    <3>1. e \in 0..f
      BY <2>3
    <3> QED BY <2>4, <3>1, ExponentOK
  <2> DEFINE u == 2^e
             v == 2^f
  <2>6. u <= v /\ v <= x /\ u \in Nat /\ v \in Nat
    BY <2>4, <2>5
  <2> HIDE DEF u, v
  <2>7. u <= x
    BY <2>6
  <2> QED BY <2>2, <2>7 DEF u, e
<1> QED BY <1>5, <1>6, <1>7 DEF c, L

\* Powers of B grow.
LEMMA LimbsGrow ==
  ASSUME NEW j \in 0..Limbs, NEW l \in 0..j
  PROVE  /\ B^l \in Nat \ {0} /\ B^j \in Nat \ {0} /\ B^l <= B^j
         /\ B^j = B^l * B^(j-l) /\ B^(j-l) \in Nat \ {0}
<1> DEFINE u == B^l
           v == B^(j-l)
<1>1. l \in 0..Limbs /\ j-l \in 0..Limbs /\ l + (j-l) = j /\ l + (j-l) <= Limbs
  BY WordAssumption
<1>2. u \in Nat \ {0} /\ v \in Nat \ {0} /\ B^j \in Nat \ {0} /\ B^j = u * v
  BY <1>1, PowerAssumption
<1> HIDE DEF u, v
<1>3. u * v >= u
  BY <1>2
<1> QED BY <1>2, <1>3 DEF u, v

\* A number is as long as its bounds say.
LEMMA SizeIs ==
  ASSUME NEW x \in Nat, NEW n \in 1..QuotientLimbs, B^(n-1) <= x, x < B^n
  PROVE  Quotients!Size(x) = n
<1> DEFINE L == QuotientLimbs
           c == Quotients!Size(x)
<1>1. L \in Nat /\ L <= Limbs /\ Limbs \in Nat
  BY LibraryAssumption, WordAssumption
<1>2. x < B^L
  <2>1. B^n \in Nat /\ B^L \in Nat /\ B^n <= B^L
    <3>1. L \in 0..Limbs /\ n \in 0..L
      BY <1>1
    <3> HIDE DEF L
    <3> QED BY <3>1, LimbsGrow
  <2> DEFINE u == B^n
             v == B^L
  <2>2. u \in Nat /\ v \in Nat /\ u <= v /\ x < u
    BY <2>1
  <2> HIDE DEF u, v
  <2> QED BY <2>2 DEF v
<1>3. c \in 0..L /\ x < B^c /\ (c > 0 => B^(c-1) <= x)
  BY <1>2, SizeOK
<1> HIDE DEF c
<1>4. ASSUME NEW a \in 0..L, NEW b \in 0..L, a < b, x < B^a, B^(b-1) <= x PROVE FALSE
  <2>1. b-1 \in 0..Limbs /\ a \in 0 .. b-1
    BY <1>1, <1>4
  <2>2. B^a <= B^(b-1) /\ B^a \in Nat /\ B^(b-1) \in Nat
    BY <2>1, LimbsGrow
  <2> QED BY <1>4, <2>2
<1>5. ~(c < n)
  BY <1>1, <1>3, <1>4
<1>6. ~(n < c)
  BY <1>1, <1>3, <1>4
<1>7. c = n
  BY <1>1, <1>3, <1>5, <1>6
<1> QED BY <1>7 DEF c

\* The shift fills the last limb.
LEMMA ShiftFills ==
  ASSUME NEW b \in Nat
  PROVE  LET s == (limb_bit_size - (b % limb_bit_size)) % limb_bit_size
         IN  s \in 0 .. limb_bit_size-1 /\ \E h \in Nat : b + s = limb_bit_size * h
<1> DEFINE w == limb_bit_size
           r == b % w
           g == b \div w
           s == (w - r) % w
<1>1. w \in Nat \ {0}
  BY BitsOK
<1> HIDE DEF w
<1>2. g \in Nat /\ r \in Nat /\ r < w /\ b = w * g + r
  BY <1>1, QuotientNat
<1> HIDE DEF r, g
<1>3. CASE r = 0
  <2>1. w - r = w * 1 + 0 /\ w - r \in Int /\ 0 \in 0..w-1
    BY <1>1, <1>2, <1>3
  <2> DEFINE f == w - r
             z == 0
  <2>2. f = w * 1 + z /\ f \in Int /\ z \in 0..w-1
    BY <2>1
  <2> HIDE DEF f, z
  <2>3. f % w = z
    BY <1>1, <2>2, QuotientUnique
  <2>4. s = 0
    BY <2>3 DEF f, z
  <2>5. b + s = w * g
    BY <1>1, <1>2, <1>3, <2>4
  <2>6. s \in 0..w-1
    BY <1>1, <2>4
  <2> QED BY <1>2, <2>5, <2>6 DEF w, r
<1>4. CASE r # 0
  <2> DEFINE f == w - r
  <2>1. f = w * 0 + f /\ f \in Int /\ f \in 0..w-1
    BY <1>1, <1>2, <1>4
  <2> HIDE DEF f
  <2>2. f % w = f
    BY <1>1, <2>1, QuotientUnique
  <2>3. s = w - r
    BY <2>2 DEF f
  <2>4. w * (g + 1) = w * g + w /\ w * g \in Nat
    BY <1>1, <1>2
  <2> DEFINE wg == w * g
  <2>5. b = wg + r /\ wg \in Nat /\ w * (g + 1) = wg + w
    BY <1>2, <2>4
  <2> HIDE DEF wg
  <2>6. b + s = w * (g + 1) /\ g + 1 \in Nat
    BY <1>1, <1>2, <2>3, <2>5
  <2>7. s \in 0..w-1
    BY <1>1, <1>2, <1>4, <2>3
  <2> QED BY <2>6, <2>7 DEF w, r
<1> QED BY <1>3, <1>4

\* A denominator is shifted until it is half of what its limbs hold at least.
LEMMA ScaledOK ==
  ASSUME NEW d \in Nat \ {0}, d < B^(QuotientLimbs-1)
  PROVE  LET V == 2^Quotients!Shift(d)
             D == d * V
             n == Quotients!Size(D)
         IN  /\ V \in Nat \ {0} /\ 2 * V <= B /\ D \in Nat \ {0}
             /\ n \in 1..QuotientLimbs-1 /\ D < B^n /\ B^n <= 2 * D
<1> DEFINE w == limb_bit_size
           L == QuotientLimbs
           b == Quotients!bit_width(d)
           s == Quotients!Shift(d)
           V == 2^s
           D == d * V
<1>1. w \in Nat \ {0} /\ L \in Nat \ {0} /\ L <= Limbs /\ Limbs \in Nat /\ w \in Exponents
      /\ 2^w = B /\ B \in Nat
  BY BitsOK, LibraryAssumption, WordAssumption
<1>2. d < B^L
  <2>1. B^(L-1) <= B^L /\ B^(L-1) \in Nat /\ B^L \in Nat
    BY <1>1, LimbsGrow
  <2> QED BY <2>1
<1>3. b \in Exponents /\ d < 2^b /\ (b > 0 => 2^(b-1) <= d) /\ b \in Nat
  <2>1. b \in Exponents /\ d < 2^b /\ (b > 0 => 2^(b-1) <= d)
    BY <1>2, WidthCount
  <2> HIDE DEF b
  <2> QED BY <2>1, TwoAbove
<1>4. b > 0
  <2>1. b = 0 => 2^b = 1
    BY TwoAssumption
  <2> QED BY <1>3, <2>1
<1>5. s \in 0..w-1 /\ \E h \in Nat : b + s = w * h
  <2>1. s = (w - (b % w)) % w
    BY BitsOK DEF Quotients!Shift
  <2> HIDE DEF b, s
  <2> QED BY <1>3, <2>1, ShiftFills
<1> HIDE DEF b, s
<1>6. PICK h \in Nat : b + s = w * h
  BY <1>5
<1> HIDE DEF w
<1>7. b <= w * (L-1)
  <2>1. SUFFICES ASSUME b > w * (L-1) PROVE FALSE
    <3>1. w * (L-1) \in Nat
      BY <1>1
    <3> QED BY <1>3, <2>1, <3>1
  <2> DEFINE e == w * (L-1)
             f == b - 1
  <2>2. e \in Exponents /\ 2^e = B^(L-1)
    <3>1. L-1 \in 0..QuotientLimbs
      BY <1>1
    <3> QED BY <3>1, LimbPower DEF w
  <2>3. e \in Nat /\ f \in 0..b /\ e \in 0..f
    <3>1. e \in Nat
      BY <1>1
    <3>2. b > e
      BY <2>1
    <3> HIDE DEF e
    <3> QED BY <1>3, <1>4, <3>1, <3>2
  <2>4. f \in Exponents /\ 2^f <= d
    <3>1. f \in Exponents
      BY <1>3, <2>3, ExponentOK
    <3> QED BY <1>3, <1>4, <3>1
  <2> HIDE DEF e, f
  <2>5. 2^e <= 2^f /\ 2^e \in Nat /\ 2^f \in Nat
    BY <2>3, <2>4, ExponentOK
  <2> QED BY <2>2, <2>4, <2>5
<1>8. h \in 1..L-1
  <2> DEFINE wh == w * h
             e  == w * (L-1)
  <2>1. wh = b + s /\ b <= e /\ wh \in Nat /\ e \in Nat
    BY <1>1, <1>6, <1>7
  <2> HIDE DEF wh, e
  <2>2. wh < e + w /\ wh > 0
    BY <1>1, <1>3, <1>4, <1>5, <2>1
  <2>3. h # 0
    <3>1. h = 0 => wh = 0
      BY <1>1 DEF wh
    <3> QED BY <2>2, <3>1
  <2>4. h >= L => w * h >= w * L
    BY <1>1
  <2>5. w * L = e + w
    BY <1>1 DEF e
  <2>6. ~(h >= L)
    BY <1>1, <2>1, <2>2, <2>4, <2>5 DEF wh
  <2> QED BY <1>1, <2>3, <2>6
<1>9. /\ V \in Nat \ {0} /\ 2 * V <= B
  <2>1. s \in 0..w /\ s < w
    BY <1>1, <1>5
  <2> QED BY <1>1, <2>1, TwoGrows, ExponentOK
<1>10. B^h = 2^b * V /\ 2^b \in Nat \ {0}
  <2>1. w * h \in Exponents /\ 2^(w * h) = B^h
    <3>1. h \in 0..QuotientLimbs
      BY <1>1, <1>8
    <3> QED BY <3>1, LimbPower DEF w
  <2> DEFINE e == b + s
  <2>2. e \in Exponents /\ 2^e = B^h /\ b \in 0..e /\ e - b = s
    BY <1>1, <1>3, <1>5, <1>6, <2>1
  <2> HIDE DEF e
  <2>3. 2^e = 2^b * 2^(e-b) /\ 2^b \in Nat \ {0}
    BY <2>2, ExponentOK
  <2> QED BY <2>2, <2>3
<1>11. 2^b <= 2 * d
  <2>1. 2^b = 2 * 2^(b-1) /\ 2^(b-1) \in Nat
    <3>1. b \in 0..b
      BY <1>3
    <3> QED BY <1>3, <1>4, <3>1, ExponentOK
  <2> DEFINE u == 2^(b-1)
  <2>2. u <= d /\ u \in Nat /\ 2^b = 2 * u
    BY <1>3, <1>4, <2>1
  <2> HIDE DEF u
  <2> QED BY <2>2
<1> DEFINE T0 == 2^b
<1>12. T0 \in Nat \ {0} /\ d < T0 /\ T0 <= 2 * d /\ B^h = T0 * V
  BY <1>3, <1>10, <1>11
<1> HIDE DEF V, T0
<1>13. D \in Nat \ {0} /\ D < T0 * V /\ T0 * V <= 2 * D
  <2>1. d * V >= d /\ d * V \in Nat
    BY <1>9
  <2>2. d * V < T0 * V
    <3>1. (d + 1) * V <= T0 * V
      BY <1>9, <1>12
    <3>2. (d + 1) * V = d * V + V
      BY <1>9
    <3> DEFINE TV == T0 * V
    <3>3. D + V <= TV /\ TV \in Nat /\ D \in Nat
      BY <1>9, <1>12, <2>1, <3>1, <3>2
    <3> HIDE DEF TV, D
    <3>4. D < TV
      BY <1>9, <3>3
    <3> QED BY <3>4 DEF TV, D
  <2>3. T0 * V <= (2 * d) * V
    BY <1>9, <1>12
  <2>4. (2 * d) * V = 2 * (d * V)
    BY <1>9
  <2>5. D \in Nat \ {0}
    BY <2>1
  <2> QED BY <2>2, <2>3, <2>4, <2>5
<1>14. Quotients!Size(D) = h
  <2>1. /\ h \in 1..QuotientLimbs /\ h \in 0..Limbs /\ h-1 \in 0..h /\ 1 \in 0..Limbs
        /\ h-1 \in 0..Limbs
    BY <1>1, <1>8
  <2>2. B^h = B * B^(h-1) /\ B^(h-1) \in Nat \ {0}
    <3>1. 1 + (h-1) = h /\ 1 + (h-1) <= Limbs
      BY <1>1, <2>1
    <3> QED BY <2>1, <3>1, PowerAssumption
  <2> DEFINE u == B^(h-1)
             v == B^h
  <2>3. u \in Nat \ {0} /\ v = B * u /\ D < v /\ v <= 2 * D
    BY <1>12, <1>13, <2>2
  <2> HIDE DEF u, v, D
  <2>4. u <= D
    <3>1. B * u >= 2 * u
      BY <2>3, WordAssumption
    <3> DEFINE Bu == B * u
    <3>2. Bu >= 2 * u /\ Bu <= 2 * D /\ Bu \in Nat
      BY <1>1, <2>3, <3>1
    <3> HIDE DEF Bu
    <3> QED BY <1>13, <2>3, <3>2
  <2> QED BY <1>13, <2>1, <2>3, <2>4, SizeIs DEF u, v
<1> QED BY <1>8, <1>9, <1>12, <1>13, <1>14 DEF V, s, L

\* The digit that is estimated from the upper limbs of the denominator and the part is not too
\* small, and too large by at most two, since the denominator is half of what its limbs hold.
LEMMA DigitEstimate ==
  ASSUME NEW G \in Nat \ {0}, NEW D \in Nat \ {0}, NEW P \in Nat,
         B * G <= 2 * D, D < B * G, P < D * B
  PROVE  /\ D \div G \in 1..B-1 /\ P \div D \in 0..B-1
         /\ (P \div G) \div (D \div G) \in Nat
         /\ P \div D <= (P \div G) \div (D \div G)
         /\ \A e \in 0..B-1 : e <= (P \div G) \div (D \div G) => e <= P \div D + 2
<1> DEFINE u == D \div G
           v == D % G
           t == P \div D
           r == P % D
           f == P \div G
           g == P % G
           h == f \div u
           o == f % u
<1>1. B \in Nat /\ B >= 2
  BY WordAssumption
<1>2. u \in Nat /\ v \in Nat /\ v < G /\ D = G * u + v
  BY QuotientNat
<1>3. t \in Nat /\ r \in Nat /\ r < D /\ P = D * t + r
  BY QuotientNat
<1>4. f \in Nat /\ g \in Nat /\ g < G /\ P = G * f + g
  BY QuotientNat
<1> HIDE DEF u, v, t, r, f, g
<1>5. B <= 2 * u + 1
  <2>1. SUFFICES ASSUME B >= 2 * u + 2 PROVE FALSE
    BY <1>1, <1>2
  <2>2. B * G >= (2 * u + 2) * G /\ (2 * u + 2) * G = 2 * (G * u) + 2 * G
    BY <1>1, <1>2, <2>1
  <2> DEFINE Gu == G * u
             BG == B * G
  <2>3. Gu \in Nat /\ BG \in Nat /\ BG >= 2 * Gu + 2 * G /\ BG <= 2 * D /\ D = Gu + v
    BY <1>1, <1>2, <2>2
  <2> HIDE DEF Gu, BG
  <2> QED BY <1>2, <2>3
<1>6. u \in 1..B-1
  <2>1. u >= B => G * u >= G * B
    BY <1>1, <1>2
  <2> DEFINE Gu == G * u
             BG == G * B
  <2>2. Gu \in Nat /\ BG \in Nat /\ (u >= B => Gu >= BG) /\ D < BG /\ D = Gu + v
    BY <1>1, <1>2, <2>1
  <2> HIDE DEF Gu, BG
  <2>3. u < B
    BY <1>1, <1>2, <2>2
  <2> QED BY <1>1, <1>2, <1>5, <2>3
<1>7. t \in 0..B-1
  <2>1. t >= B => D * t >= D * B
    BY <1>1, <1>3
  <2> DEFINE Dt == D * t
             DB == D * B
  <2>2. Dt \in Nat /\ DB \in Nat /\ (t >= B => Dt >= DB) /\ P < DB /\ P = Dt + r
    BY <1>1, <1>3, <2>1
  <2> HIDE DEF Dt, DB
  <2> QED BY <1>1, <1>3, <2>2
<1>8. h \in Nat /\ o \in Nat /\ o < u /\ f = u * h + o
  <2>1. u \in Nat \ {0}
    BY <1>6
  <2> QED BY <1>4, <2>1, QuotientNat
<1> HIDE DEF h, o
<1>9. t <= h
  <2>1. SUFFICES ASSUME t >= h + 1 PROVE FALSE
    BY <1>3, <1>8
  \* Otherwise the multiple of the denominator is more than the part.
  <2>2. u * t >= u * (h + 1) /\ u * (h + 1) = u * h + u
    BY <1>6, <1>3, <1>8, <2>1
  <2> DEFINE ut == u * t
             uh == u * h
  <2>3. ut \in Nat /\ ut >= f + 1
    <3>1. ut \in Nat /\ uh \in Nat /\ ut >= uh + u /\ f = uh + o
      BY <1>3, <1>6, <1>8, <2>2
    <3> HIDE DEF ut, uh
    <3> QED BY <1>8, <3>1, <1>6
  <2>4. G * ut = (G * u) * t
    BY <1>2, <1>3
  <2> HIDE DEF ut
  <2>5. G * ut >= G * (f + 1) /\ G * (f + 1) = G * f + G
    BY <1>4, <2>3
  <2>6. D * t >= (G * u) * t
    <3> DEFINE Gu == G * u
    <3>1. Gu \in Nat /\ D = Gu + v
      BY <1>2
    <3> HIDE DEF Gu
    <3>2. (Gu + v) * t = Gu * t + v * t /\ v * t \in Nat /\ Gu * t \in Nat
      BY <1>2, <1>3, <3>1
    <3> DEFINE Gut == Gu * t
               vt == v * t
    <3>3. D * t = Gut + vt /\ vt \in Nat /\ Gut \in Nat
      BY <3>1, <3>2
    <3> HIDE DEF Gut, vt
    <3>4. D * t >= Gut
      BY <3>3
    <3> QED BY <3>4 DEF Gut, Gu
  <2> DEFINE Dt == D * t
             Gf == G * f
             Gut == (G * u) * t
  <2>7. Dt \in Nat /\ Gf \in Nat /\ Gut \in Nat /\ P = Dt + r /\ P = Gf + g /\ Dt >= Gut
        /\ Gut >= Gf + G
    BY <1>2, <1>3, <1>4, <2>4, <2>5, <2>6
  <2> HIDE DEF Dt, Gf, Gut
  <2> QED BY <1>3, <1>4, <2>7
<1>10. ASSUME NEW e \in 0..B-1, e <= h PROVE e <= t + 2
  <2>1. SUFFICES ASSUME e >= t + 3 PROVE FALSE
    BY <1>1, <1>3
  <2>2. e \in Nat /\ t + 3 <= B-1 /\ t + 3 <= h
    BY <1>1, <1>3, <1>8, <1>10, <2>1
  <2>3. t < 2 * u - 1
    BY <1>1, <1>3, <1>5, <1>6, <2>2
  \* The estimate's multiple of the upper limbs is not more than those of the part.
  <2>4. G * (u * (t + 3)) <= P
    <3>1. u * (t + 3) <= u * h
      BY <1>3, <1>6, <1>8, <2>2
    <3> DEFINE a == u * (t + 3)
               uh == u * h
    <3>2. a \in Nat /\ uh \in Nat /\ a <= uh /\ f = uh + o
      BY <1>3, <1>6, <1>8, <3>1
    <3> HIDE DEF a, uh
    <3>3. a <= f
      BY <1>8, <3>2
    <3>4. G * a <= G * f
      BY <1>4, <3>2, <3>3
    <3> DEFINE Ga == G * a
               Gf == G * f
    <3>5. Ga \in Nat /\ Gf \in Nat /\ Ga <= Gf /\ P = Gf + g
      BY <1>4, <3>2, <3>4
    <3> HIDE DEF Ga, Gf
    <3>6. Ga <= P
      BY <1>4, <3>5
    <3> QED BY <3>6 DEF Ga, a
  \* The part is less than one multiple more of the denominator.
  <2>5. P < D * (t + 1)
    <3>1. D * (t + 1) = D * t + D
      BY <1>3
    <3> DEFINE Dt == D * t
    <3>2. Dt \in Nat /\ P = Dt + r /\ D * (t + 1) = Dt + D
      BY <1>3, <3>1
    <3> HIDE DEF Dt
    <3> QED BY <1>3, <3>2
  <2>6. D * (t + 1) <= (G * (u + 1)) * (t + 1)
    <3> DEFINE Gu == G * u
               a  == G * (u + 1)
               b  == t + 1
    <3>1. Gu \in Nat /\ D = Gu + v /\ a = Gu + G /\ b \in Nat
      BY <1>2, <1>3
    <3> HIDE DEF Gu, a, b
    <3>2. D <= a /\ a \in Nat
      BY <1>2, <3>1
    <3>3. D * b <= a * b
      BY <3>1, <3>2
    <3> QED BY <3>3 DEF a, b
  <2> DEFINE a == u * (t + 3)
             b == (u + 1) * (t + 1)
  <2>7. G * a < G * b
    <3>1. (G * (u + 1)) * (t + 1) = G * b
      BY <1>2, <1>3
    <3> DEFINE Ga == G * a
               Gb == G * b
               Dt == D * (t + 1)
    <3>2. Ga \in Nat /\ Gb \in Nat /\ Dt \in Nat /\ Ga <= P /\ P < Dt /\ Dt <= Gb
      BY <1>2, <1>3, <2>4, <2>5, <2>6, <3>1
    <3> HIDE DEF Ga, Gb, Dt
    <3>3. Ga < Gb
      BY <3>2
    <3> QED BY <3>3 DEF Ga, Gb
  <2>8. a < b
    <3>1. a \in Nat /\ b \in Nat
      BY <1>2, <1>3
    <3> HIDE DEF a, b
    <3>2. a >= b => G * a >= G * b
      BY <3>1
    <3> QED BY <2>7, <3>1, <3>2
  <2>9. a = u * t + 3 * u /\ b = u * t + u + t + 1
    BY <1>2, <1>3
  <2> DEFINE ut == u * t
  <2>10. ut \in Nat /\ ut + 3 * u < ut + u + t + 1
    BY <1>2, <1>3, <2>8, <2>9
  <2> HIDE DEF ut, a, b
  <2> QED BY <1>2, <1>3, <2>3, <2>10
<1> QED BY <1>6, <1>7, <1>8, <1>9, <1>10 DEF u, t, f, h

\* A number, divided
Split(n, t, d, x) == n = t * d + x

\* A digit of the quotient: what it takes away, and what is left.
LEMMA DigitStep ==
  ASSUME NEW D \in Nat \ {0}, NEW E \in Nat \ {0}, NEW value \in Nat, NEW left \in Nat, left < D,
         NEW low \in Nat, low < E, NEW n \in Nat, NEW t \in Nat, NEW x \in Nat,
         Split(x, E, D * value + left, low), Split(n, t, D, x)
  PROVE  /\ Split(n, t + value * E, D, left * E + low)
         /\ left * E + low \in Nat /\ left * E + low <= x /\ left * E + low < D * E
         /\ (D * value) * E <= x
<1> DEFINE Dv  == D * value
           vE  == value * E
           lE  == left * E
           tD  == t * D
           vED == vE * D
<1>1. x = E * (Dv + left) + low /\ n = tD + x
  BY DEF Split
<1>2. Dv \in Nat /\ vE \in Nat /\ lE \in Nat /\ tD \in Nat /\ vED \in Nat
  OBVIOUS
<1>3. E * (Dv + left) = vED + lE
  <2>1. E * (Dv + left) = E * Dv + lE
    OBVIOUS
  <2>2. E * Dv = vED
    OBVIOUS
  <2> QED BY <2>1, <2>2
<1>4. (t + vE) * D = tD + vED
  <2> HIDE DEF vE
  <2> QED BY <1>2
<1>5. lE + E <= D * E
  <2>1. (left + 1) * E <= D * E
    OBVIOUS
  <2>2. (left + 1) * E = lE + E
    OBVIOUS
  <2> QED BY <2>1, <2>2
<1>6. Dv * E = vED
  OBVIOUS
<1> DEFINE DE == D * E
           a  == E * (Dv + left)
           b  == (t + vE) * D
<1>7. DE \in Nat /\ a = vED + lE /\ x = a + low /\ lE + E <= DE /\ b = tD + vED
  BY <1>1, <1>3, <1>4, <1>5
<1> HIDE DEF DE, a, b, Dv, vE, lE, tD, vED
<1>8. n = b + (lE + low) /\ lE + low \in Nat /\ lE + low <= x /\ lE + low < DE /\ vED <= x
  BY <1>1, <1>2, <1>7
<1> QED BY <1>6, <1>8 DEF Split, b, lE, DE, vE, Dv

\* A number x with a value written from E on, below W
Written(x, E, W, value) == (x % E) + value * E + (x \div W) * W

\* The upper limbs of x and the value are those of y.
Replaced(y, x, E, W, value) == y \in Nat /\ (y \div E) * E = (x \div W) * W + value * E

\* Writing a digit: the lower limbs do not count yet, the upper ones stay.
LEMMA PutStep ==
  ASSUME NEW x \in Nat, NEW E \in Nat \ {0}, NEW F \in Nat \ {0}, NEW W, W = E * F,
         NEW value \in Nat, value < F
  PROVE  Replaced(Written(x, E, W, value), x, E, W, value)
<1> DEFINE low  == x % E
           h    == x \div W
           y    == low + value * E + h * W
           hF   == h * F
           vE   == value * E
<1>1. W \in Nat \ {0}
  OBVIOUS
<1>2. low \in 0..E-1 /\ h \in Nat
  BY <1>1, QuotientNat
<1> HIDE DEF low, h
<1>3. vE \in Nat /\ hF \in Nat /\ h * W = E * hF /\ vE = E * value
  BY <1>2
<1>4. E * (value + hF) = E * value + E * hF /\ E * hF \in Nat
  BY <1>3
<1> DEFINE EhF == E * hF
           g   == value + hF
           Eg  == E * g
           Ev  == E * value
<1>5. Ev = vE /\ Eg = Ev + EhF /\ EhF \in Nat /\ g \in Int /\ h * W = EhF /\ y = low + vE + h * W
  BY <1>3, <1>4
<1> HIDE DEF vE, hF, EhF, g, y, Ev
<1>6. y = E * g + low /\ y \in Nat
  <2> DEFINE hW == h * W
  <2>1. hW = EhF /\ y = low + vE + hW
    BY <1>5
  <2> HIDE DEF hW, Eg
  <2> USE DEF Eg
  <2>2. Eg = Ev + EhF
    BY <1>5
  <2> HIDE DEF Eg
  <2>3. y = Eg + low /\ y \in Nat
    BY <1>2, <1>3, <1>5, <2>1, <2>2
  <2> QED BY <2>3 DEF Eg
<1>7. y \div E = g
  BY <1>2, <1>5, <1>6, QuotientUnique
<1>8. g * E = h * W + vE
  <2>1. g * E = Eg
    BY <1>5
  <2> HIDE DEF Eg
  <2> DEFINE hW == h * W
  <2>2. hW = EhF /\ Eg = Ev + EhF /\ Ev = vE
    BY <1>5
  <2> HIDE DEF hW
  <2>3. Eg = hW + vE
    BY <1>3, <1>5, <2>2
  <2> QED BY <2>1, <2>3 DEF hW
<1>9. Written(x, E, W, value) = y
  BY DEF Written, y, low, h, vE
<1> QED BY <1>6, <1>7, <1>8, <1>9 DEF Replaced, h, vE

\* The estimate is the digit as soon as its product is not more than the part, and at the latest
\* when it has been corrected twice.
LEMMA CorrectedOK ==
  ASSUME NEW D \in Nat \ {0}, NEW P \in Nat, NEW e \in Nat, P \div D <= e,
         D * e <= P \/ e <= P \div D
  PROVE  e = P \div D /\ D * e <= P /\ P - D * e = P % D /\ P % D \in Nat /\ P % D < D
<1> DEFINE t == P \div D
           r == P % D
           De == D * e
           Dt == D * t
<1>1. t \in Nat /\ r \in Nat /\ r < D /\ P = Dt + r
  BY QuotientNat
<1> HIDE DEF t, r
<1>2. De \in Nat /\ Dt \in Nat /\ (e >= t + 1 => De >= Dt + D)
  <2>1. e >= t + 1 => D * e >= D * (t + 1)
    BY <1>1
  <2>2. D * (t + 1) = Dt + D
    BY <1>1
  <2> QED BY <1>1, <2>1, <2>2
<1> HIDE DEF De, Dt
<1>3. ~(e >= t + 1)
  BY <1>1, <1>2 DEF De, t
<1>4. e = t
  BY <1>1, <1>3 DEF t
<1>5. De = Dt
  BY <1>4 DEF De, Dt
<1> QED BY <1>1, <1>2, <1>4, <1>5 DEF De, t, r

\* A number, scaled
Scaled(n, a, v) == n = a * v

\* A quotient and a remainder stay the same when both numbers are scaled.
LEMMA Unscaled ==
  ASSUME NEW a \in Nat, NEW d \in Nat \ {0}, NEW V \in Nat \ {0}, NEW t \in Nat, NEW x \in Nat,
         NEW N, Scaled(N, a, V), NEW D, Scaled(D, d, V), x < D, Split(N, t, D, x)
  PROVE  a \div d = t /\ a % d = x \div V
<1>0. x < d * V /\ Split(a * V, t, d * V, x)
  BY DEF Scaled
<1> DEFINE td == t * d
           y  == a - td
           aV == a * V
           tdV == td * V
           yV == V * y
<1>1. td \in Nat /\ aV \in Nat /\ tdV \in Nat /\ y \in Int
  OBVIOUS
<1>2. t * (d * V) = tdV
  OBVIOUS
<1>3. yV = aV - tdV
  <2> HIDE DEF td
  <2> QED BY <1>1
<1>4. x = yV
  <2> DEFINE b == t * (d * V)
  <2>1. aV = b + x /\ b = tdV
    BY <1>0, <1>2 DEF Split
  <2> HIDE DEF aV, tdV, b, yV
  <2> QED BY <1>1, <1>3, <2>1
<1> HIDE DEF y
<1>5. y >= 0 /\ y < d
  <2>1. y < 0 => V * y < 0
    BY <1>1
  <2>2. y >= d => V * y >= V * d
    BY <1>1
  <2>3. V * d = d * V
    OBVIOUS
  <2> DEFINE dV == d * V
  <2>4. (y < 0 => yV < 0) /\ (y >= d => yV >= dV) /\ x < dV /\ dV \in Nat /\ yV \in Int
    BY <1>0, <1>1, <2>1, <2>2, <2>3
  <2> HIDE DEF yV, dV
  <2> QED BY <1>1, <1>4, <2>4
<1>6. x \div V = y
  <2>1. y \in Int /\ x = V * y
    BY <1>1, <1>4
  <2>2. (V * y) \div V = y
    BY <2>1, MultipleOK
  <2> QED BY <2>1, <2>2
<1>7. a = d * t + y /\ y \in 0..d-1
  <2>1. td = d * t
    OBVIOUS
  <2> HIDE DEF td
  <2>2. a = td + y
    BY <1>1 DEF y
  <2> QED BY <1>1, <1>5, <2>1, <2>2
<1> HIDE DEF td, aV, tdV, yV
<1>8. a \div d = t /\ a % d = y
  <2>1. a \in Int /\ d \in Nat \ {0} /\ t \in Int
    OBVIOUS
  <2> QED BY <1>7, <2>1, QuotientUnique
<1> QED BY <1>6, <1>8

\* What is divided fits, with a limb to spare.
OperandsInv ==
  /\ call.numerator \in Nat /\ call.denominator \in Nat \ {0}
  /\ call.numerator < B^(QuotientLimbs-1) /\ call.denominator < B^(QuotientLimbs-1)
  /\ call.quotient_size \in 0..QuotientLimbs-1
  /\ call.quotient_size > 0 => call.numerator < B^call.quotient_size

ScaledNumerator == call.numerator * Quotients!Scale
Denominator     == Quotients!denominator
DenominatorSize == Quotients!Size(Quotients!denominator)

\* What is left, x, and the quotient's limbs from w on make the numerator; those below w have room
\* for the rest.  Without a quotient only what is left counts.
LeftOver(x, w) ==
  \E t \in Nat :
    /\ Split(ScaledNumerator, t, Denominator, x)
    /\ call.quotient_size > 0 =>
         t = (quotient \div B^w) * B^w /\ x < Denominator * B^w

\* The part is the upper limbs, one more than the denominator has, less B times the denominator
\* if that has been taken away.
PartInv ==
  /\ offset \in Nat /\ DenominatorSize + offset + 1 <= QuotientLimbs
  /\ B^(DenominatorSize + offset) <= numerator /\ numerator < B^(DenominatorSize + offset + 1)
  /\ part \in Nat /\ numerator \div B^offset = part + over * (Denominator * B)

\* The estimate is not too small, and too large by as many as are left to correct at most.
EstimateInv ==
  /\ part < Denominator * B
  /\ q \in 0..B-1 /\ intermediate = Denominator * q /\ corrections \in 0..2
  /\ part \div Denominator <= q /\ q <= part \div Denominator + 2 - corrections

\* The quotient is there, and the remainder before it is shifted back.
ShiftInv ==
  /\ remainder \in Nat /\ remainder < Denominator
  /\ \E t \in Nat : /\ Split(ScaledNumerator, t, Denominator, remainder)
                    /\ call.quotient_size > 0 => t = quotient

DivisionInv ==
  /\ OperandsInv
  /\ pc \in {"start", "normalized", "similar", "correct", "shift", "done", "failed"}
  /\ quotient \in Nat /\ over \in {0, 1}
  /\ pc = "start" => over = 0 /\ quotient \div B^call.quotient_size = 0
  /\ pc = "normalized" => over = 0
  /\ pc \in {"normalized", "similar", "correct"} =>
       /\ numerator \in Nat /\ numerator < B^QuotientLimbs
       /\ window \in 0..call.quotient_size
       /\ LeftOver(numerator, window)
  /\ pc \in {"similar", "correct"} => PartInv
  /\ pc = "similar" /\ over = 1 => part < Denominator * B
  /\ pc = "correct" => EstimateInv
  /\ pc = "shift" => ShiftInv
  /\ Quotients!QuotientRemainder

\* The denominator, as it is while dividing.
LEMMA DenominatorOK ==
  ASSUME OperandsInv
  PROVE  /\ Quotients!Scale \in Nat \ {0}
         /\ Denominator = call.denominator * Quotients!Scale /\ Denominator \in Nat \ {0}
         /\ DenominatorSize \in 1..QuotientLimbs-1
         /\ Denominator < B^DenominatorSize /\ B^DenominatorSize <= 2 * Denominator
         /\ ScaledNumerator \in Nat /\ ScaledNumerator < B^QuotientLimbs
<1> DEFINE V == Quotients!Scale
<1>1. /\ V \in Nat \ {0} /\ 2 * V <= B
      /\ Denominator = call.denominator * V /\ Denominator \in Nat \ {0}
      /\ DenominatorSize \in 1..QuotientLimbs-1
      /\ Denominator < B^DenominatorSize /\ B^DenominatorSize <= 2 * Denominator
  <2>1. call.denominator \in Nat \ {0} /\ call.denominator < B^(QuotientLimbs-1)
    BY DEF OperandsInv
  <2> QED
    BY <2>1, ScaledOK
       DEF Denominator, DenominatorSize, Quotients!Scale, Quotients!denominator
<1>2. ScaledNumerator \in Nat /\ ScaledNumerator < B^QuotientLimbs
  <2> DEFINE n == call.numerator
             u == B^(QuotientLimbs-1)
             w == B^QuotientLimbs
  <2>1. QuotientLimbs \in 1..Limbs /\ Limbs \in Nat
    BY LibraryAssumption, WordAssumption
  <2>2. u \in Nat \ {0} /\ w = B * u
    <3>1. 1 \in 0..Limbs /\ QuotientLimbs-1 \in 0..Limbs /\ 1 + (QuotientLimbs-1) = QuotientLimbs
          /\ 1 + (QuotientLimbs-1) <= Limbs
      BY <2>1
    <3> QED BY <3>1, PowerAssumption
  <2>3. n \in Nat /\ n < u
    BY DEF OperandsInv
  <2> HIDE DEF V, n, u, w
  <2>4. V <= B /\ B \in Nat
    BY <1>1, WordAssumption
  <2>5. n * V \in Nat /\ n * V <= n * B /\ n * B < u * B
    <3>1. n * V <= n * B
      BY <1>1, <2>3, <2>4
    <3>2. n * B < u * B
      <4>1. (n + 1) * B <= u * B /\ (n + 1) * B = n * B + B
        BY <2>2, <2>3, <2>4
      <4> DEFINE nB == n * B
                 uB == u * B
      <4>2. nB \in Nat /\ uB \in Nat /\ nB + B <= uB
        BY <2>2, <2>3, <2>4, <4>1
      <4> HIDE DEF nB, uB
      <4>3. nB < uB
        BY <2>4, <4>2, WordAssumption
      <4> QED BY <4>3 DEF nB, uB
    <3> QED BY <1>1, <2>3, <3>1, <3>2
  <2>6. w = u * B
    BY <2>2, <2>4
  <2> DEFINE nV == n * V
             nB == n * B
  <2>7. nV \in Nat /\ nB \in Nat /\ nV <= nB /\ nB < w
    BY <2>3, <2>4, <2>5, <2>6
  <2> HIDE DEF nV, nB
  <2>8. nV \in Nat /\ nV < w
    BY <2>2, <2>4, <2>6, <2>7
  <2> QED BY <2>8 DEF nV, n, V, w, ScaledNumerator
<1> QED BY <1>1, <1>2

\* Nothing is written while the call stays the same.
LEMMA SameDenominator ==
  ASSUME call' = call
  PROVE  /\ (OperandsInv => OperandsInv') /\ ScaledNumerator' = ScaledNumerator
         /\ Denominator' = Denominator /\ DenominatorSize' = DenominatorSize
BY DEF OperandsInv, ScaledNumerator, Denominator, DenominatorSize, Quotients!Scale,
       Quotients!denominator, Quotients!Shift, Quotients!Size, Quotients!bit_width,
       Quotients!limb_size_for, Quotients!Bits

\* A call begins with numbers that fit.
LEMMA InitDivisionInv == Quotients!Init => DivisionInv
<1> SUFFICES ASSUME Quotients!Init PROVE DivisionInv
  OBVIOUS
<1>1. /\ call \in Quotients!Calls /\ Quotients!Allowed(call) /\ pc = "start" /\ over = 0
  BY DEF Quotients!Init
<1>2. OperandsInv
  BY <1>1 DEF Quotients!Calls, Quotients!Allowed, OperandsInv
<1>3. quotient \in Nat /\ quotient \div B^call.quotient_size = 0
  <2> DEFINE W == B^call.quotient_size
  <2>1. W \in Nat \ {0}
    <3>1. QuotientLimbs \in 1..Limbs
      BY LibraryAssumption
    <3>2. call.quotient_size \in 0..Limbs
      BY <1>2, <3>1, WordAssumption DEF OperandsInv
    <3> QED BY <3>2, PowerAssumption
  <2>2. PICK garbage \in {0, -1} : quotient = garbage % W
    BY DEF Quotients!Init, Quotients!FirstLimbs
  <2> HIDE DEF W
  <2>3. quotient \in 0..W-1
    BY <2>1, <2>2, QuotientAndRemainder
  <2>4. quotient = W * 0 + quotient /\ quotient \in Int
    BY <2>1, <2>3
  <2>5. quotient \div W = 0
    BY <2>1, <2>3, <2>4, QuotientUnique
  <2> QED BY <2>1, <2>3, <2>5 DEF W
<1> QED BY <1>1, <1>2, <1>3 DEF DivisionInv, Quotients!QuotientRemainder

\* Limbs of a quotient are limbs that there are powers of B for.
LEMMA WindowOK ==
  ASSUME OperandsInv, NEW w \in 0..call.quotient_size
  PROVE  /\ w \in 0..Limbs /\ w \in Nat /\ w \in 0..QuotientLimbs /\ w <= QuotientLimbs-1
         /\ B^w \in Nat \ {0}
         /\ B^0 = 1 /\ (w > 0 => 1 < B^w)
<1>1. QuotientLimbs \in 1..Limbs /\ Limbs \in Nat
  BY LibraryAssumption, WordAssumption
<1>2. w \in 0..Limbs /\ w \in Nat /\ w \in 0..QuotientLimbs /\ w <= QuotientLimbs-1
  BY <1>1 DEF OperandsInv
<1>3. B^w \in Nat \ {0} /\ B^0 = 1 /\ B^1 = B
  BY <1>2, PowerAssumption
<1>4. ASSUME w > 0 PROVE 1 < B^w
  <2>1. 1 \in 0..w
    BY <1>2, <1>4
  <2>2. B^1 <= B^w
    BY <1>2, <2>1, LimbsGrow
  <2> QED BY <1>3, <2>2, WordAssumption
<1> QED BY <1>2, <1>3, <1>4

\* The loop begins with all of the numerator, and no limb of the quotient.
LEMMA NormalizeOK == ASSUME DivisionInv, Quotients!Normalize PROVE DivisionInv'
<1>1. /\ pc = "start" /\ numerator' = ScaledNumerator /\ window' = call.quotient_size
      /\ pc' = "normalized" /\ call' = call /\ over' = over /\ quotient' = quotient
  BY DEF Quotients!Normalize, ScaledNumerator
<1>2. OperandsInv /\ over = 0 /\ quotient \in Nat /\ quotient \div B^call.quotient_size = 0
  BY <1>1 DEF DivisionInv
<1> DEFINE V == Quotients!Scale
           D == Denominator
           N == ScaledNumerator
           s == call.quotient_size
           W == B^s
           d == call.denominator
           n == call.numerator
<1>3. /\ V \in Nat \ {0} /\ D = d * V /\ D \in Nat \ {0} /\ N \in Nat /\ N < B^QuotientLimbs
      /\ N = n * V
  BY <1>2, DenominatorOK DEF ScaledNumerator
<1>4. /\ s \in Nat /\ s \in 0..s /\ d \in Nat \ {0} /\ n \in Nat /\ (s > 0 => n < W)
      /\ W \in Nat \ {0}
  <2>1. s \in Nat /\ s \in 0..s
    BY <1>2, LibraryAssumption DEF OperandsInv
  <2> QED BY <1>2, <2>1, WindowOK DEF OperandsInv
<1>5. Split(N, 0, D, N)
  <2> HIDE DEF N, D
  <2>1. 0 * D = 0
    BY <1>3
  <2> QED BY <1>3, <2>1 DEF Split
<1>6. ASSUME s > 0 PROVE N < D * W
  <2> HIDE DEF V, D, N, W, d, n
  <2>1. n * V < W * V
    <3>1. (n + 1) * V <= W * V /\ (n + 1) * V = n * V + V
      BY <1>3, <1>4, <1>6
    <3> DEFINE nV == n * V
               WV == W * V
    <3>2. nV \in Nat /\ WV \in Nat /\ nV + V <= WV
      BY <1>3, <1>4, <3>1
    <3> HIDE DEF nV, WV
    <3>3. nV < WV
      BY <1>3, <3>2
    <3> QED BY <3>3 DEF nV, WV
  <2>2. W * V <= D * W
    <3>1. V <= D
      <4>1. d * V >= V
        BY <1>3, <1>4
      <4> QED BY <1>3, <4>1
    <3>2. V * W <= D * W /\ V * W = W * V
      BY <1>3, <1>4, <3>1
    <3> QED BY <3>2
  <2> DEFINE nV == n * V
             WV == W * V
             DW == D * W
  <2>3. nV \in Nat /\ WV \in Nat /\ DW \in Nat /\ nV < WV /\ WV <= DW /\ N = nV
    BY <1>3, <1>4, <2>1, <2>2
  <2> HIDE DEF nV, WV, DW
  <2>4. N < DW
    BY <2>3
  <2> QED BY <2>4 DEF DW
<1>7. OperandsInv' /\ ScaledNumerator' = N /\ Denominator' = D
  BY <1>1, <1>2, SameDenominator
<1>8. 0 = (quotient \div W) * W
  <2> DEFINE h == quotient \div W
  <2>1. h = 0
    BY <1>2
  <2> HIDE DEF h, W
  <2> QED BY <1>4, <2>1 DEF h
<1> HIDE DEF V, D, N, W, d, n
<1>9. LeftOver(numerator, window)'
  <2>1. /\ Split(ScaledNumerator', 0, Denominator', numerator')
        /\ call'.quotient_size > 0 =>
             0 = (quotient' \div B^window') * B^window' /\ numerator' < Denominator' * B^window'
    <3>1. Split(ScaledNumerator', 0, Denominator', numerator')
      BY <1>1, <1>5, <1>7 DEF N
    <3>2. B^window' = W
      BY <1>1 DEF W
    <3>3. numerator' = N /\ call' = call /\ quotient' = quotient
      BY <1>1 DEF N
    <3> QED BY <1>6, <1>7, <1>8, <3>1, <3>2, <3>3
  <2>2. 0 \in Nat
    OBVIOUS
  <2> QED BY <2>1, <2>2 DEF LeftOver
<1>10. numerator' \in Nat /\ numerator' < B^QuotientLimbs /\ window' \in 0..call'.quotient_size
  BY <1>1, <1>3, <1>4 DEF N
<1>11. /\ pc' = "normalized" /\ over' = 0 /\ quotient' \in Nat
  BY <1>1, <1>2
<1>12. Quotients!QuotientRemainder'
  BY <1>11 DEF Quotients!QuotientRemainder
<1> QED
  BY <1>7, <1>9, <1>10, <1>11, <1>12, Zenon DEF DivisionInv

\* The last digit is zero or one.
LEMMA ShortOK ==
  ASSUME OperandsInv, numerator \in Nat, window \in 0..call.quotient_size, quotient \in Nat,
         LeftOver(numerator, window), NEW digit \in {0, 1}, digit * Denominator <= numerator,
         numerator - digit * Denominator < Denominator,
         remainder' = numerator - digit * Denominator,
         quotient' = Quotients!Put(quotient, 0, window, digit), call' = call
  PROVE  ShiftInv' /\ quotient' \in Nat
<1> DEFINE D == Denominator
           N == ScaledNumerator
           W == B^window
           x == numerator - digit * D
<1>1. D \in Nat \ {0} /\ N \in Nat
  BY DenominatorOK
<1>2. /\ W \in Nat \ {0} /\ window \in Nat /\ window \in 0..Limbs /\ B^0 = 1
      /\ window > 0 => 1 < W
  BY WindowOK
<1>3. PICK t \in Nat : /\ Split(N, t, D, numerator)
                       /\ call.quotient_size > 0 => t = (quotient \div W) * W /\ numerator < D * W
  BY DEF LeftOver
<1>4. x \in Nat /\ x < D /\ remainder' = x
  <2>1. digit * D \in Nat
    BY <1>1
  <2> DEFINE dD == digit * D
  <2>2. dD \in Nat /\ dD <= numerator /\ x = numerator - dD
    BY <2>1
  <2> HIDE DEF dD
  <2>3. x \in Nat
    BY <2>2
  <2> QED BY <2>3
<1>5. Split(N, t + digit, D, x)
  <2> DEFINE dD == digit * D
             tD == t * D
  <2>1. (t + digit) * D = tD + dD /\ tD \in Nat /\ dD \in Nat
    BY <1>1
  <2>2. N = tD + numerator /\ x = numerator - dD
    BY <1>3 DEF Split
  <2> HIDE DEF dD, tD, N, x
  <2>3. N = (tD + dD) + x
    BY <1>1, <2>1, <2>2
  <2> QED BY <2>1, <2>3 DEF Split
<1> HIDE DEF D, N, x
<1>6. CASE window > 0
  <2> DEFINE y == (quotient % B^0) + digit * B^0 + (quotient \div W) * W
  <2>1. quotient' = y
    <3>1. digit % B^(window-0) = digit
      <4>1. window - 0 = window
        BY <1>2
      <4>2. digit = W * 0 + digit /\ digit \in 0..W-1
        BY <1>2, <1>6
      <4> HIDE DEF W
      <4>3. digit % W = digit
        BY <1>2, <4>2, QuotientUnique
      <4> QED BY <4>1, <4>3 DEF W
    <3> QED BY <1>2, <1>6, <3>1 DEF Quotients!Put, Quotients!FirstLimbs, Quotients!Subspan
  <2>2. y \in Nat /\ (y \div 1) * 1 = (quotient \div W) * W + digit * 1
    <3>1. 1 \in Nat \ {0} /\ W = 1 * W /\ digit \in Nat /\ digit < W
      BY <1>2, <1>6
    <3> HIDE DEF W
    <3>2. Replaced(Written(quotient, 1, W, digit), quotient, 1, W, digit)
      BY <1>2, <3>1, PutStep
    <3> QED BY <1>2, <3>2 DEF Written, Replaced
  <2> HIDE DEF y
  <2>3. y = (y \div 1) * 1
    <3>1. y = 1 * y + 0 /\ y \in Int
      BY <2>2
    <3> QED BY <2>2, <3>1
  <2>4. call.quotient_size > 0 => t + digit = quotient'
    BY <1>3, <2>1, <2>2, <2>3
  <2>5. ShiftInv'
    <3>1. ScaledNumerator' = N /\ Denominator' = D
      BY SameDenominator DEF N, D
    <3>2. t + digit \in Nat
      OBVIOUS
    <3> QED BY <1>4, <1>5, <2>4, <3>1, <3>2 DEF ShiftInv, Split
  <2> QED BY <2>1, <2>2, <2>5
<1>7. CASE window = 0
  <2>1. quotient' = quotient
    BY <1>7 DEF Quotients!Put
  <2>2. ASSUME call.quotient_size > 0 PROVE t + digit = quotient'
    <3>1. W = 1
      BY <1>2, <1>7
    <3>2. t = (quotient \div 1) * 1 /\ numerator < D * 1
      BY <1>3, <2>2, <3>1
    <3>3. t = quotient /\ numerator < D
      BY <1>1, <3>2
    <3>4. digit = 0
      <4>1. digit = 1 => digit * D = D
        BY <1>1
      <4> QED BY <1>1, <3>3, <4>1 DEF D
    <3> QED BY <2>1, <3>3, <3>4
  <2>5. ShiftInv'
    <3>1. ScaledNumerator' = N /\ Denominator' = D
      BY SameDenominator DEF N, D
    <3>2. t + digit \in Nat
      OBVIOUS
    <3> QED BY <1>4, <1>5, <2>2, <3>1, <3>2 DEF ShiftInv, Split
  <2> QED BY <2>1, <2>5
<1> QED BY <1>2, <1>6, <1>7

\* The division is over, but for shifting back.
LEMMA LastDigit ==
  ASSUME DivisionInv, pc = "normalized", NEW digit \in {0, 1}, digit * Denominator <= numerator,
         numerator - digit * Denominator < Denominator, Quotients!Short(digit)
  PROVE  DivisionInv'
<1>1. /\ OperandsInv /\ numerator \in Nat /\ window \in 0..call.quotient_size
      /\ quotient \in Nat /\ LeftOver(numerator, window) /\ over = 0
  BY DEF DivisionInv
<1>2. /\ remainder' = numerator - digit * Denominator /\ pc' = "shift" /\ call' = call
      /\ quotient' = Quotients!Put(quotient, 0, window, digit) /\ over' = over
  BY DEF Quotients!Short, Denominator
<1>3. ShiftInv' /\ quotient' \in Nat
  BY <1>1, <1>2, ShortOK
<1>4. OperandsInv'
  BY <1>1, <1>2, SameDenominator
<1>5. Quotients!QuotientRemainder'
  BY <1>2 DEF Quotients!QuotientRemainder
<1>6. over' = 0
  BY <1>1, <1>2
<1> QED BY <1>2, <1>3, <1>4, <1>5, <1>6, Zenon DEF DivisionInv

\* What is left is less than the denominator,
LEMMA ZeroOK == ASSUME DivisionInv, Quotients!Zero PROVE DivisionInv'
<1>1. pc = "normalized" /\ numerator < Denominator /\ Quotients!Short(0)
  BY DEF Quotients!Zero, Denominator
<1>2. numerator \in Nat /\ OperandsInv
  BY <1>1 DEF DivisionInv
<1>3. Denominator \in Nat
  BY <1>2, DenominatorOK
<1>4. 0 * Denominator <= numerator /\ numerator - 0 * Denominator < Denominator
  BY <1>1, <1>2, <1>3
<1> QED BY <1>1, <1>4, LastDigit

\* or less than two of it, which fills its limbs by half at least.
LEMMA OneOK == ASSUME DivisionInv, Quotients!One PROVE DivisionInv'
<1> DEFINE D == Denominator
           n == DenominatorSize
           c == Quotients!Size(numerator)
           u == B^n
           v == B^c
<1>1. pc = "normalized" /\ numerator >= D /\ Quotients!Short(1) /\ c <= n
  BY DEF Quotients!One, Denominator, DenominatorSize
<1>2. numerator \in Nat /\ OperandsInv /\ numerator < B^QuotientLimbs
  BY <1>1 DEF DivisionInv
<1>3. D \in Nat \ {0} /\ n \in 1..QuotientLimbs-1 /\ u <= 2 * D
  BY <1>2, DenominatorOK
<1>4. c \in 0..QuotientLimbs /\ numerator < v
  BY <1>2, SizeOK
<1> HIDE DEF D, n, c
<1>5. n \in 0..Limbs /\ c \in 0..n
  <2>1. QuotientLimbs \in 1..Limbs
    BY LibraryAssumption
  <2> QED BY <1>1, <1>3, <1>4, <2>1, WordAssumption
<1>6. u \in Nat /\ v \in Nat /\ v <= u
  BY <1>5, LimbsGrow
<1> HIDE DEF u, v
<1>7. 1 * D <= numerator /\ numerator - 1 * D < D
  BY <1>1, <1>2, <1>3, <1>4, <1>6
<1> QED BY <1>1, <1>7, LastDigit DEF D

\* The upper limbs are the part.
LEMMA UpperOK == ASSUME DivisionInv, Quotients!Upper PROVE DivisionInv'
<1> DEFINE n == DenominatorSize
           c == Quotients!Size(numerator)
           o == c - n - 1
<1>1. /\ pc = "normalized" /\ c > n /\ offset' = o
      /\ part' = numerator \div B^offset'
      /\ pc' = "similar" /\ call' = call /\ numerator' = numerator /\ window' = window
      /\ over' = over /\ quotient' = quotient
  BY DEF Quotients!Upper, Quotients!Subspan, DenominatorSize
<1>2. /\ OperandsInv /\ numerator \in Nat /\ numerator < B^QuotientLimbs
      /\ window \in 0..call.quotient_size /\ LeftOver(numerator, window)
      /\ quotient \in Nat /\ over = 0
  BY <1>1 DEF DivisionInv
<1>3. n \in 1..QuotientLimbs-1 /\ Denominator \in Nat
  BY <1>2, DenominatorOK
<1>4. c \in 0..QuotientLimbs /\ numerator < B^c /\ (c > 0 => B^(c-1) <= numerator)
  BY <1>2, SizeOK
<1> HIDE DEF n, c
<1>5. /\ o \in Nat /\ n + o + 1 = c /\ n + o = c - 1 /\ c <= QuotientLimbs /\ o \in 0..Limbs
      /\ c > 0
  <2>1. QuotientLimbs \in 1..Limbs
    BY LibraryAssumption
  <2> QED BY <1>1, <1>3, <1>4, <2>1, WordAssumption
<1>6. B^(n + o) <= numerator /\ numerator < B^(n + o + 1)
  BY <1>4, <1>5
<1>7. B^o \in Nat \ {0}
  BY <1>5, PowerAssumption
<1>8. part' \in Nat /\ part' = numerator \div B^o
  BY <1>1, <1>2, <1>7, QuotientNat
<1>9. OperandsInv' /\ DenominatorSize' = n /\ Denominator' = Denominator
      /\ ScaledNumerator' = ScaledNumerator
  BY <1>1, <1>2, SameDenominator DEF n
<1> HIDE DEF o
<1>10. numerator' \div B^offset' = part' + over' * (Denominator' * B)
  <2> DEFINE x == Denominator * B
  <2>1. x \in Nat
    BY <1>3, WordAssumption
  <2> HIDE DEF x
  <2>2. part' + 0 * x = part'
    BY <1>8, <2>1
  <2> QED BY <1>1, <1>2, <1>8, <1>9, <2>2 DEF x
<1>11. PartInv'
  <2>1. offset' \in Nat /\ DenominatorSize' + offset' + 1 <= QuotientLimbs
    BY <1>1, <1>5, <1>9
  <2>2. /\ B^(DenominatorSize' + offset') <= numerator'
        /\ numerator' < B^(DenominatorSize' + offset' + 1)
    BY <1>1, <1>6, <1>9
  <2> QED BY <1>8, <1>10, <2>1, <2>2, Zenon DEF PartInv
<1>12. LeftOver(numerator, window)'
  BY <1>1, <1>2, <1>9 DEF LeftOver
<1>13. /\ numerator' \in Nat /\ numerator' < B^QuotientLimbs
       /\ window' \in 0..call'.quotient_size /\ quotient' \in Nat /\ over' = 0
  BY <1>1, <1>2
<1>14. Quotients!QuotientRemainder'
  BY <1>1 DEF Quotients!QuotientRemainder
<1>15. ~(over' = 1)
  BY <1>13
<1> QED BY <1>1, <1>9, <1>11, <1>12, <1>13, <1>14, <1>15, Zenon DEF DivisionInv

\* The part has one limb more than the denominator.
LEMMA PartFits ==
  ASSUME OperandsInv, PartInv, numerator \in Nat
  PROVE  /\ B^offset \in Nat \ {0} /\ offset \in 0..Limbs
         /\ numerator \div B^offset \in Nat
         /\ numerator \div B^offset < B^(DenominatorSize + 1)
         /\ B^(DenominatorSize + 1) = B^DenominatorSize * B
         /\ B^DenominatorSize \in Nat \ {0}
<1> DEFINE n == DenominatorSize
           o == offset
           E == B^o
           F == B^(n + 1)
           x == numerator \div E
           r == numerator % E
<1>1. n \in 1..QuotientLimbs-1
  BY DenominatorOK
<1>2. o \in Nat /\ n + o + 1 <= QuotientLimbs /\ numerator < B^(n + o + 1)
  BY DEF PartInv
<1>3. QuotientLimbs \in 1..Limbs /\ Limbs \in Nat
  BY LibraryAssumption, WordAssumption
<1> HIDE DEF n, o
<1>4. /\ n \in 0..Limbs /\ 1 \in 0..Limbs /\ n + 1 \in 0..Limbs /\ o \in 0..Limbs
      /\ o + (n + 1) = n + o + 1 /\ o + (n + 1) <= Limbs /\ n + 1 <= Limbs
  BY <1>1, <1>2, <1>3
<1>5. /\ E \in Nat \ {0} /\ F \in Nat \ {0} /\ B^(o + (n + 1)) = E * F
      /\ F = B^n * B^1 /\ B^1 = B /\ B^n \in Nat \ {0}
  BY <1>4, PowerAssumption
<1> HIDE DEF E, F
<1>6. numerator < E * F
  BY <1>2, <1>4, <1>5
<1>7. x \in Nat /\ r \in Nat /\ numerator = E * x + r
  BY <1>5, QuotientNat
<1> HIDE DEF x, r
<1>8. ~(x >= F)
  <2>1. x >= F => E * x >= E * F
    BY <1>5, <1>7
  <2> DEFINE Ex == E * x
             EF == E * F
  <2>2. Ex \in Nat /\ EF \in Nat /\ (x >= F => Ex >= EF) /\ numerator = Ex + r /\ numerator < EF
    BY <1>5, <1>6, <1>7, <2>1
  <2> HIDE DEF Ex, EF
  <2> QED BY <1>7, <2>2
<1>9. x < F
  BY <1>5, <1>7, <1>8
<1> QED BY <1>4, <1>5, <1>7, <1>9 DEF E, F, x, n, o

\* A quotient of two limbs begins with one.
LEMMA OverOK == ASSUME DivisionInv, Quotients!Over PROVE DivisionInv'
<1> DEFINE D == Denominator
           DB == D * B
           x == numerator \div B^offset
           u == B^DenominatorSize
<1>1. /\ pc = "similar" /\ part >= DB /\ part' = part - DB /\ over' = over + 1
      /\ pc' = pc /\ call' = call /\ numerator' = numerator /\ window' = window
      /\ offset' = offset /\ quotient' = quotient
  BY DEF Quotients!Over, Denominator
<1>2. /\ OperandsInv /\ numerator \in Nat /\ numerator < B^QuotientLimbs
      /\ window \in 0..call.quotient_size /\ LeftOver(numerator, window)
      /\ quotient \in Nat /\ over \in {0, 1} /\ PartInv /\ (over = 1 => part < DB)
  BY <1>1 DEF DivisionInv
<1>3. D \in Nat \ {0} /\ u <= 2 * D
  BY <1>2, DenominatorOK
<1>4. DB \in Nat
  BY <1>3, WordAssumption
<1>5. part \in Nat /\ x = part + over * DB
  BY <1>2 DEF PartInv
<1>6. x \in Nat /\ x < B^(DenominatorSize + 1) /\ B^(DenominatorSize + 1) = u * B /\ u \in Nat
  BY <1>2, PartFits
<1>7. u * B <= 2 * DB
  <2> HIDE DEF D, u
  <2>1. u * B <= (2 * D) * B /\ (2 * D) * B = 2 * (D * B)
    BY <1>3, <1>6, WordAssumption
  <2> QED BY <2>1
<1> DEFINE uB == u * B
<1>8. uB \in Nat /\ x < uB /\ uB <= 2 * DB
  BY <1>6, <1>7, WordAssumption
<1> HIDE DEF DB, x, u, uB
<1>9. over = 0
  BY <1>1, <1>2, <1>4, <1>5
<1>10. part' \in Nat /\ part' < DB /\ over' = 1 /\ x = part' + over' * DB
  BY <1>1, <1>4, <1>5, <1>8, <1>9
<1>11. OperandsInv' /\ DenominatorSize' = DenominatorSize /\ Denominator' = D
       /\ ScaledNumerator' = ScaledNumerator
  BY <1>1, <1>2, SameDenominator
<1>12. PartInv'
  <2>1. /\ offset' \in Nat /\ DenominatorSize' + offset' + 1 <= QuotientLimbs
        /\ B^(DenominatorSize' + offset') <= numerator'
        /\ numerator' < B^(DenominatorSize' + offset' + 1)
    BY <1>1, <1>2, <1>11 DEF PartInv
  <2>2. numerator' \div B^offset' = part' + over' * (Denominator' * B)
    BY <1>1, <1>10, <1>11 DEF x, DB
  <2> QED BY <1>10, <2>1, <2>2, Zenon DEF PartInv
<1>13. LeftOver(numerator, window)'
  BY <1>1, <1>2, <1>11 DEF LeftOver
<1>14. /\ numerator' \in Nat /\ numerator' < B^QuotientLimbs /\ pc' = "similar"
       /\ window' \in 0..call'.quotient_size /\ quotient' \in Nat
  BY <1>1, <1>2
<1>15. Quotients!QuotientRemainder'
  BY <1>14 DEF Quotients!QuotientRemainder
<1>16. part' < Denominator' * B
  BY <1>10, <1>11 DEF DB
<1> QED BY <1>10, <1>11, <1>12, <1>13, <1>14, <1>15, <1>16, Zenon DEF DivisionInv

\* A number that is less than a product, divided by a factor
LEMMA QuotientLess ==
  ASSUME NEW a \in Nat, NEW b \in Nat \ {0}, NEW w \in Nat, a < b * w
  PROVE  a \div b \in Nat /\ a \div b < w
<1> DEFINE c == a \div b
           r == a % b
<1>1. c \in Nat /\ r \in Nat /\ a = b * c + r
  BY QuotientNat
<1> HIDE DEF c, r
<1>2. c >= w => b * c >= b * w
  BY <1>1
<1> DEFINE bc == b * c
           bw == b * w
<1>3. bc \in Nat /\ bw \in Nat /\ (c >= w => bc >= bw) /\ a = bc + r /\ a < bw
  BY <1>1, <1>2
<1> HIDE DEF bc, bw
<1>4. c < w
  BY <1>1, <1>3
<1> QED BY <1>1, <1>4 DEF c

\* Two limbs are put together.
LEMMA TwoLimbs ==
  ASSUME NEW a \in Nat, NEW G \in Nat \ {0}, a < (G * B) * B
  PROVE  /\ a \div G \in Nat
         /\ ((a \div G) % B) + ((a \div (G * B)) % B) * B = a \div G
<1> DEFINE f == a \div G
           h == f \div B
           l == f % B
           F == G * B
<1>1. f \in Nat
  BY QuotientNat
<1>2. B \in Nat \ {0} /\ F \in Nat \ {0}
  BY WordAssumption
<1>3. a \div F = h
  <2>1. a \in Int /\ G \in Nat \ {0} /\ B \in Nat \ {0}
    BY <1>2
  <2>2. a \div (G * B) = (a \div G) \div B
    BY ONLY <2>1, QuotientOfQuotient
  <2> QED BY <2>2
<1> HIDE DEF f
<1>4. h \in Nat /\ l \in Nat /\ f = B * h + l
  BY <1>1, <1>2, QuotientNat
<1> HIDE DEF l
<1>5. h < B
  <2>1. a \div F < B
    <3> HIDE DEF F
    <3>1. a < F * B
      BY DEF F
    <3> QED BY <1>2, <3>1, QuotientLess
  <2> QED BY <1>3, <2>1
<1> HIDE DEF h, F
<1>6. h % B = h
  <2>1. h = B * 0 + h /\ h \in 0..B-1 /\ h \in Int
    BY <1>2, <1>4, <1>5
  <2> QED BY <1>2, <2>1, QuotientUnique
<1>7. l + h * B = f
  <2>1. B * h = h * B
    BY <1>2, <1>4
  <2> DEFINE hB == h * B
  <2>2. f = hB + l /\ hB \in Nat
    BY <1>2, <1>4, <2>1
  <2> HIDE DEF hB
  <2>3. l + hB = f
    BY <1>4, <2>2
  <2> QED BY <2>3 DEF hB
<1>8. (a \div F) % B = h
  BY <1>3, <1>6
<1> HIDE DEF l
<1>9. l + ((a \div F) % B) * B = f
  BY <1>7, <1>8
<1> QED BY <1>1, <1>9 DEF f, l, F

\* A small number is what its limbs say.
LEMMA SmallOK ==
  ASSUME NEW a \in Nat, NEW b \in Nat \ {0}, a < b
  PROVE  a % b = a /\ a \div b = 0
<1>1. a \in Int /\ 0 \in Int /\ a \in 0..b-1 /\ a = b * 0 + a
  OBVIOUS
<1> QED BY <1>1, QuotientUnique

\* The digit is estimated.
LEMMA EstimateOK == ASSUME DivisionInv, Quotients!Estimate PROVE DivisionInv'
<1> DEFINE D == Denominator
           DB == D * B
           n == DenominatorSize
           G == B^(n-1)
           F == B^n
           f == part \div G
           u == D \div G
           h == f \div u
           t == part \div D
<1>1. /\ pc = "similar" /\ part < DB
      /\ q' = Quotients!clamped_divide(Quotients!Limb(part, n-1), Quotients!Limb(part, n),
                                       Quotients!Limb(D, n-1))
      /\ intermediate' = (D * q') % B^(n+1)
      /\ corrections' = 0 /\ pc' = "correct" /\ call' = call /\ numerator' = numerator
      /\ window' = window /\ offset' = offset /\ part' = part /\ over' = over
      /\ quotient' = quotient
  BY DEF Quotients!Estimate, Quotients!FirstLimbs, Denominator, DenominatorSize
<1>2. /\ OperandsInv /\ numerator \in Nat /\ numerator < B^QuotientLimbs
      /\ window \in 0..call.quotient_size /\ LeftOver(numerator, window)
      /\ quotient \in Nat /\ over \in {0, 1} /\ PartInv /\ part \in Nat
  BY <1>1 DEF DivisionInv, PartInv
<1>3. /\ D \in Nat \ {0} /\ n \in 1..QuotientLimbs-1 /\ F <= 2 * D /\ D < F
  BY <1>2, DenominatorOK
<1>4. B \in Nat /\ B >= 2 /\ DB \in Nat
  BY <1>3, WordAssumption
<1> HIDE DEF D, n
<1>5. /\ G \in Nat \ {0} /\ F \in Nat \ {0} /\ F = G * B /\ B^(n+1) = F * B
      /\ B^(n+1) \in Nat \ {0}
  <2>1. QuotientLimbs \in 1..Limbs /\ Limbs \in Nat
    BY LibraryAssumption, WordAssumption
  <2>2. /\ n-1 \in 0..Limbs /\ 1 \in 0..Limbs /\ n \in 0..Limbs /\ n+1 \in 0..Limbs
        /\ (n-1) + 1 = n /\ (n-1) + 1 <= Limbs /\ n + 1 <= Limbs
    BY <1>3, <2>1
  <2> QED BY <2>2, PowerAssumption
<1> HIDE DEF G, F
<1>6. F = B * G
  BY <1>4, <1>5
<1>7. /\ u \in 1..B-1 /\ t \in 0..B-1 /\ h \in Nat /\ t <= h
      /\ \A e \in 0..B-1 : e <= h => e <= t + 2
  <2>1. B * G <= 2 * D /\ D < B * G /\ part < D * B
    BY <1>1, <1>3, <1>6
  <2> QED BY <1>2, <1>3, <1>5, <2>1, DigitEstimate
<1>8. Quotients!Limb(D, n-1) = u
  <2>1. u \in Nat /\ u < B /\ B \in Nat \ {0}
    BY <1>4, <1>7
  <2> HIDE DEF u
  <2>2. u % B = u
    BY <2>1, SmallOK
  <2> QED BY <2>2 DEF Quotients!Limb, u, G
<1>9. Quotients!Limb(part, n-1) + Quotients!Limb(part, n) * B = f
  <2>1. part < (G * B) * B
    <3>1. D * B < F * B
      <4>1. (D + 1) * B <= F * B /\ (D + 1) * B = D * B + B
        BY <1>3, <1>4, <1>5
      <4> DEFINE FB == F * B
      <4>2. DB + B <= FB /\ FB \in Nat
        BY <1>4, <1>5, <4>1
      <4> HIDE DEF DB, FB
      <4>3. DB < FB
        BY <1>4, <4>2
      <4> QED BY <4>3 DEF DB, FB
    <3> DEFINE FB == F * B
    <3>2. part < DB /\ DB < FB /\ FB \in Nat
      BY <1>1, <1>4, <1>5, <3>1
    <3> HIDE DEF DB, FB
    <3>3. part < FB
      BY <1>2, <1>4, <3>2
    <3> QED BY <1>5, <3>3 DEF FB
  <2>2. ((part \div G) % B) + ((part \div (G * B)) % B) * B = part \div G
    BY <1>2, <1>5, <2>1, TwoLimbs
  <2>3. ((part \div G) % B) + ((part \div F) % B) * B = part \div G
    BY <1>5, <2>2
  <2> QED BY <2>3 DEF Quotients!Limb, G, F
<1> HIDE DEF f, u
<1>10. q' = Quotients!Least(B - 1, h)
  <2> DEFINE a == Quotients!Limb(part, n-1)
             b == Quotients!Limb(part, n)
             c == Quotients!Limb(D, n-1)
  <2>1. q' = Quotients!Least(B - 1, (a + b * B) \div c)
    BY <1>1 DEF Quotients!clamped_divide
  <2>2. a + b * B = f /\ c = u
    BY <1>8, <1>9
  <2> HIDE DEF a, b, c
  <2> QED BY <2>1, <2>2
<1> HIDE DEF h, t
<1>11. q' \in 0..B-1 /\ t <= q' /\ q' <= h
  <2>1. q' = IF B - 1 < h THEN B - 1 ELSE h
    BY <1>10 DEF Quotients!Least
  <2>2. CASE B - 1 < h
    BY <1>4, <1>7, <2>1, <2>2
  <2>3. CASE ~(B - 1 < h)
    BY <1>4, <1>7, <2>1, <2>3
  <2> QED BY <2>2, <2>3
<1>12. q' <= t + 2
  BY <1>7, <1>11
<1>13. intermediate' = D * q'
  <2> DEFINE x == q'
             Dx == D * x
             FB == F * B
  <2>1. x \in 0..B-1
    BY <1>11
  <2> HIDE DEF x
  <2>2. Dx <= D * B /\ Dx \in Nat
    BY <1>3, <1>4, <2>1
  <2>3. D * B < F * B
    <3>1. (D + 1) * B <= F * B /\ (D + 1) * B = D * B + B
      BY <1>3, <1>4, <1>5
    <3>2. DB + B <= FB /\ FB \in Nat
      BY <1>4, <1>5, <3>1
    <3> HIDE DEF DB, FB
    <3>3. DB < FB
      BY <1>4, <3>2
    <3> QED BY <3>3 DEF DB, FB
  <2>4. FB \in Nat \ {0} /\ B^(n+1) = FB
    BY <1>5
  <2>5. Dx \in Nat /\ Dx < FB
    <3>1. Dx <= DB /\ DB < FB /\ Dx \in Nat
      BY <2>2, <2>3
    <3> HIDE DEF DB, FB, Dx
    <3> QED BY <1>4, <2>4, <3>1
  <2> HIDE DEF Dx, FB
  <2>6. Dx % FB = Dx
    BY <2>4, <2>5, SmallOK
  <2> QED BY <1>1, <2>4, <2>6 DEF x, Dx
<1>14. OperandsInv' /\ DenominatorSize' = n /\ Denominator' = D
       /\ ScaledNumerator' = ScaledNumerator
  BY <1>1, <1>2, SameDenominator DEF D, n
<1>15. PartInv'
  BY <1>1, <1>2, <1>14 DEF PartInv, D, n
<1>16. LeftOver(numerator, window)'
  BY <1>1, <1>2, <1>14 DEF LeftOver, D
<1>17. EstimateInv'
  <2>1. part' < Denominator' * B
    BY <1>1, <1>14
  <2>2. intermediate' = Denominator' * q' /\ corrections' \in 0..2 /\ q' \in 0..B-1
    BY <1>1, <1>11, <1>13, <1>14
  <2>3. part' \div Denominator' = t
    BY <1>1, <1>14 DEF t
  <2>4. part' \div Denominator' <= q' /\ q' <= part' \div Denominator' + 2 - corrections'
    <3>1. t + 2 - corrections' = t + 2
      BY <1>1, <1>7
    <3> QED BY <1>11, <1>12, <2>3, <3>1
  <2> QED BY <2>1, <2>2, <2>4, Zenon DEF EstimateInv
<1>18. /\ numerator' \in Nat /\ numerator' < B^QuotientLimbs /\ over' \in {0, 1}
       /\ window' \in 0..call'.quotient_size /\ quotient' \in Nat
  BY <1>1, <1>2
<1>19. Quotients!QuotientRemainder'
  BY <1>1 DEF Quotients!QuotientRemainder
<1> QED BY <1>1, <1>14, <1>15, <1>16, <1>17, <1>18, <1>19, Zenon DEF DivisionInv

\* An estimate whose product is more than the part is too large.
LEMMA CorrectOK == ASSUME DivisionInv, Quotients!Correct PROVE DivisionInv'
<1> DEFINE D == Denominator
           t == part \div D
           r == part % D
           Dt == D * t
           Dq == D * q
<1>1. /\ pc = "correct" /\ ~(intermediate <= part) /\ corrections # 2
      /\ q' = (q - 1) % B /\ intermediate' = intermediate - D /\ corrections' = corrections + 1
      /\ pc' = pc /\ call' = call /\ numerator' = numerator
      /\ window' = window /\ offset' = offset /\ part' = part /\ over' = over
      /\ quotient' = quotient
  BY DEF Quotients!Correct, Quotients!Estimated, Quotients!Minus, Denominator
<1>2. /\ OperandsInv /\ numerator \in Nat /\ numerator < B^QuotientLimbs
      /\ window \in 0..call.quotient_size /\ LeftOver(numerator, window)
      /\ quotient \in Nat /\ over \in {0, 1} /\ PartInv /\ part \in Nat /\ EstimateInv
  BY <1>1 DEF DivisionInv, PartInv
<1>3. D \in Nat \ {0} /\ B \in Nat \ {0}
  BY <1>2, DenominatorOK, WordAssumption
<1>4. /\ part < D * B /\ q \in 0..B-1 /\ intermediate = Dq /\ corrections \in 0..2
      /\ t <= q /\ q <= t + 2 - corrections
  BY <1>2 DEF EstimateInv
<1> HIDE DEF D
<1>5. t \in Nat /\ r \in Nat /\ part = Dt + r
  BY <1>2, <1>3, QuotientNat
<1> HIDE DEF t, r
<1>6. q <= t => Dq <= Dt
  BY <1>3, <1>4, <1>5
<1>7. Dq \in Nat /\ Dt \in Nat
  BY <1>3, <1>4, <1>5
<1>8. D * (q - 1) = Dq - D
  BY <1>3, <1>4
<1> HIDE DEF Dq, Dt
<1>9. q >= t + 1
  BY <1>1, <1>4, <1>5, <1>6, <1>7
<1>10. q' = q - 1
  <2> DEFINE x == q - 1
  <2>1. x \in Nat /\ x < B
    BY <1>3, <1>4, <1>5, <1>9
  <2> HIDE DEF x
  <2>2. x % B = x
    BY <1>3, <2>1, SmallOK
  <2> QED BY <1>1, <2>2 DEF x
<1>11. /\ q' \in 0..B-1 /\ intermediate' = D * q' /\ corrections' \in 0..2
       /\ t <= q' /\ q' <= t + 2 - corrections'
  <2>1. intermediate' = D * q'
    BY <1>1, <1>4, <1>8, <1>10
  <2>2. q - 1 \in 0..B-1 /\ corrections + 1 \in 0..2 /\ t <= q - 1
        /\ q - 1 <= t + 2 - (corrections + 1)
    BY <1>1, <1>3, <1>4, <1>5, <1>9
  <2> QED BY <1>1, <1>10, <2>1, <2>2
<1>12. OperandsInv' /\ DenominatorSize' = DenominatorSize /\ Denominator' = D
       /\ ScaledNumerator' = ScaledNumerator
  BY <1>1, <1>2, SameDenominator DEF D
<1>13. PartInv'
  BY <1>1, <1>2, <1>12 DEF PartInv, D
<1>14. LeftOver(numerator, window)'
  BY <1>1, <1>2, <1>12 DEF LeftOver, D
<1>15. EstimateInv'
  <2>1. part' < Denominator' * B
    BY <1>1, <1>4, <1>12
  <2>2. part' \div Denominator' = t
    BY <1>1, <1>12 DEF t
  <2>3. part' \div Denominator' <= q' /\ q' <= part' \div Denominator' + 2 - corrections'
    BY <1>11, <2>2
  <2>4. intermediate' = Denominator' * q' /\ corrections' \in 0..2 /\ q' \in 0..B-1
    BY <1>11, <1>12
  <2> QED BY <2>1, <2>3, <2>4, Zenon DEF EstimateInv
<1>16. /\ numerator' \in Nat /\ numerator' < B^QuotientLimbs /\ over' \in {0, 1}
       /\ window' \in 0..call'.quotient_size /\ quotient' \in Nat /\ pc' = "correct"
  BY <1>1, <1>2
<1>17. Quotients!QuotientRemainder'
  BY <1>16 DEF Quotients!QuotientRemainder
<1> QED BY <1>12, <1>13, <1>14, <1>15, <1>16, <1>17, Zenon DEF DivisionInv

\* No third correction is needed.
LEMMA CorrectionsOK == DivisionInv => Quotients!TwoCorrections
<1> SUFFICES ASSUME DivisionInv PROVE Quotients!TwoCorrections
  OBVIOUS
<1>1. over <= 1
  BY DEF DivisionInv
<1>2. ASSUME pc = "correct", Quotients!Estimated
      PROVE  intermediate <= part /\ part - intermediate < Quotients!denominator
  <2>1. OperandsInv /\ part \in Nat /\ EstimateInv
    BY <1>2 DEF DivisionInv, PartInv
  <2> DEFINE D == Denominator
             Dq == D * q
             t == part \div D
             r == part % D
  <2>2. D \in Nat \ {0}
    BY <2>1, DenominatorOK
  <2>3. /\ q \in Nat /\ intermediate = Dq /\ t <= q
        /\ q <= t + 2 - corrections /\ corrections \in 0..2
    BY <2>1, WordAssumption DEF EstimateInv
  <2> HIDE DEF D
  <2>4. t \in Nat
    BY <2>1, <2>2, QuotientNat
  <2> HIDE DEF t
  <2>5. Dq <= part \/ q <= t
    BY <1>2, <2>3, <2>4 DEF Quotients!Estimated
  <2>6. Dq <= part /\ part - Dq = r /\ r < D
    BY <2>1, <2>2, <2>3, <2>5, CorrectedOK DEF t
  <2> QED BY <2>3, <2>6 DEF D, Denominator
<1> QED BY <1>1, <1>2 DEF Quotients!TwoCorrections

\* What divide_similar_sized finds: the quotient of the part and what is over, and what is left
DigitValue == q + over * B
DigitLeft  == part - intermediate
LowerLimbs == numerator % B^offset

\* The quotient of the part that is divided now makes the upper limbs with what is left.
LEMMA DigitKnown ==
  ASSUME DivisionInv, pc = "correct", Quotients!Estimated
  PROVE  /\ DigitValue \in Nat /\ DigitLeft \in Nat /\ DigitLeft < Denominator
         /\ LowerLimbs \in Nat /\ LowerLimbs < B^offset
         /\ Split(numerator, B^offset, Denominator * DigitValue + DigitLeft, LowerLimbs)
         /\ Quotients!Left = DigitLeft
<1> DEFINE D == Denominator
           E == B^offset
           x == numerator \div E
           low == numerator % E
           left == DigitLeft
           value == DigitValue
           Dq == D * q
           oDB == over * (D * B)
           u == B^DenominatorSize
           F == B^(DenominatorSize + 1)
<1>1. /\ OperandsInv /\ numerator \in Nat /\ PartInv /\ EstimateInv /\ part \in Nat
      /\ over \in {0, 1}
  BY DEF DivisionInv, PartInv
<1>2. intermediate <= part /\ part - intermediate < D
  BY CorrectionsOK DEF Quotients!TwoCorrections, Denominator
<1>3. D \in Nat \ {0} /\ D < u
  BY <1>1, DenominatorOK
<1>4. E \in Nat \ {0} /\ F = u * B /\ u \in Nat \ {0}
  BY <1>1, PartFits
<1>5. B \in Nat \ {0}
  BY WordAssumption
<1>6. q \in Nat /\ intermediate = Dq /\ x = part + oDB
  BY <1>1, <1>5 DEF EstimateInv, PartInv
<1> HIDE DEF D, E, u, F
<1>7. Dq \in Nat /\ oDB \in Nat
  BY <1>1, <1>3, <1>5, <1>6
<1>8. value \in Nat
  BY <1>1, <1>5, <1>6 DEF DigitValue
<1>9. D * value = Dq + oDB
  <2> DEFINE oB == over * B
  <2>1. oB \in Nat
    BY <1>1, <1>5
  <2>2. D * oB = oDB
    BY <1>1, <1>3, <1>5
  <2>3. value = q + oB
    BY DEF DigitValue
  <2> HIDE DEF oB, oDB, value
  <2>4. D * (q + oB) = Dq + D * oB
    BY <1>3, <1>6, <2>1
  <2> QED BY <2>2, <2>3, <2>4
<1>10. left \in Nat /\ left < D /\ left = part - Dq
  <2> HIDE DEF Dq
  <2> QED BY <1>1, <1>2, <1>3, <1>6, <1>7 DEF DigitLeft
<1>11. x \in Nat /\ low \in Nat /\ low < E /\ numerator = E * x + low
  BY <1>1, <1>4, QuotientNat
<1> HIDE DEF x, low, left, value
<1>12. x = D * value + left
  <2> DEFINE Dv == D * value
  <2>1. Dv = Dq + oDB
    BY <1>9
  <2> HIDE DEF Dq, oDB, Dv
  <2>2. x = Dv + left
    BY <1>1, <1>6, <1>7, <1>10, <2>1
  <2> QED BY <2>2 DEF Dv
<1>13. Quotients!Left = left
  <2>1. Quotients!Left = left % F
    <3>1. Quotients!Left = (part - intermediate) % F
      BY DEF Quotients!Left, Quotients!FirstLimbs, F, DenominatorSize
    <3> QED BY <3>1 DEF left, DigitLeft
  <2>2. F \in Nat \ {0} /\ u <= F
    <3>1. u <= u * B /\ u * B \in Nat \ {0}
      BY <1>4, <1>5
    <3> QED BY <1>4, <3>1
  <2>3. left < F
    BY <1>3, <1>4, <1>10, <2>2
  <2> QED BY <1>10, <2>1, <2>2, <2>3, SmallOK
<1>14. numerator = E * (D * value + left) + low
  BY <1>11, <1>12
<1>15. DigitValue \in Nat /\ DigitLeft \in Nat /\ DigitLeft < Denominator
  BY <1>8, <1>10 DEF value, left, D
<1>16. LowerLimbs \in Nat /\ LowerLimbs < B^offset
  BY <1>11 DEF low, E, LowerLimbs
<1>17. Split(numerator, B^offset, Denominator * DigitValue + DigitLeft, LowerLimbs)
  BY <1>14 DEF Split, low, E, D, value, left, LowerLimbs
<1> QED BY <1>13, <1>15, <1>16, <1>17 DEF left

\* The quotient's limbs that are not there yet have room for what is found.
LEMMA DigitRoom ==
  ASSUME DivisionInv, pc = "correct", Quotients!Estimated, call.quotient_size > 0
  PROVE  /\ offset < window /\ window - offset \in Nat
         /\ B^window = B^offset * B^(window - offset) /\ B^(window - offset) \in Nat \ {0}
         /\ DigitValue < B^(window - offset)
<1> DEFINE D == Denominator
           E == B^offset
           W == B^window
           F == B^(window - offset)
           u == B^DenominatorSize
           value == DigitValue
           DW == D * W
           uW == u * W
<1>1. /\ OperandsInv /\ numerator \in Nat /\ PartInv /\ LeftOver(numerator, window)
      /\ window \in 0..call.quotient_size
  BY DEF DivisionInv
<1>2. D \in Nat \ {0} /\ D < u /\ DenominatorSize \in 1..QuotientLimbs-1
  BY <1>1, DenominatorOK
<1>3. E \in Nat \ {0} /\ u \in Nat \ {0} /\ offset \in 0..Limbs
  BY <1>1, PartFits
<1>4. W \in Nat \ {0} /\ window \in 0..Limbs /\ window \in Nat
  BY <1>1, WindowOK
<1>5. numerator < DW
  BY <1>1 DEF LeftOver
<1>6. u * E <= numerator
  <2>1. QuotientLimbs \in 1..Limbs /\ Limbs \in Nat
    BY LibraryAssumption, WordAssumption
  <2>2. DenominatorSize + offset + 1 <= QuotientLimbs /\ offset \in Nat
        /\ B^(DenominatorSize + offset) <= numerator
    BY <1>1 DEF PartInv
  <2>3. DenominatorSize \in 0..Limbs /\ offset \in 0..Limbs /\ DenominatorSize + offset <= Limbs
    BY <1>2, <2>1, <2>2
  <2>4. B^(DenominatorSize + offset) = u * E
    BY <2>3, PowerAssumption
  <2> QED BY <2>2, <2>4
<1>7. value \in Nat /\ (D * value) * E <= numerator
  <2> DEFINE left == DigitLeft
             low == LowerLimbs
  <2>1. /\ value \in Nat /\ left \in Nat /\ left < D /\ low \in Nat /\ low < E
        /\ Split(numerator, E, D * value + left, low)
    BY DigitKnown
  <2> HIDE DEF D, E, value, left, low
  <2> DEFINE zero == 0
  <2>2. Split(numerator, zero, D, numerator) /\ zero \in Nat
    <3>1. 0 * D = 0
      BY <1>2
    <3> QED BY <1>1, <3>1 DEF Split
  <2> HIDE DEF zero
  <2>3. (D * value) * E <= numerator
    BY <1>1, <1>2, <1>3, <2>1, <2>2, DigitStep
  <2> QED BY <2>1, <2>3
<1>8. offset < window
  <2>1. SUFFICES ASSUME window <= offset PROVE FALSE
    BY <1>3, <1>4, WordAssumption
  <2>2. window \in 0..offset
    BY <1>3, <1>4, <2>1, WordAssumption
  <2>3. W <= E
    BY <1>3, <2>2, LimbsGrow
  <2> DEFINE uE == u * E
  <2> HIDE DEF D, E, W, u
  <2>4. uW <= uE /\ DW + W <= uW /\ uW \in Nat /\ uE \in Nat /\ DW \in Nat
    <3>1. u * W <= u * E
      BY <1>3, <1>4, <2>3
    <3>2. (D + 1) * W <= u * W /\ (D + 1) * W = D * W + W
      BY <1>2, <1>3, <1>4
    <3> QED BY <1>2, <1>3, <1>4, <3>1, <3>2
  <2>5. uE <= numerator
    BY <1>6
  <2> HIDE DEF uW, uE, DW
  <2> QED BY <1>1, <1>4, <1>5, <2>4, <2>5
<1>9. window - offset \in Nat /\ offset \in 0..window
  BY <1>3, <1>4, <1>8, WordAssumption
<1>10. W = E * F /\ F \in Nat \ {0}
  BY <1>4, <1>9, LimbsGrow
<1> HIDE DEF D, E, W, F, u, value
<1>11. value < F
  <2>1. SUFFICES ASSUME value >= F PROVE FALSE
    BY <1>7, <1>10
  <2>2. (D * value) * E >= (D * F) * E
    <3>1. D * value >= D * F
      BY <1>2, <1>7, <1>10, <2>1
    <3> DEFINE a == D * value
               b == D * F
    <3>2. a \in Nat /\ b \in Nat /\ a >= b
      BY <1>2, <1>7, <1>10, <3>1
    <3> HIDE DEF a, b
    <3>3. a * E >= b * E
      BY <1>3, <3>2
    <3> QED BY <3>3 DEF a, b
  <2>3. (D * F) * E = D * (E * F)
    BY <1>2, <1>3, <1>10
  <2>4. (D * F) * E = DW
    BY <1>10, <2>3
  <2> DEFINE a == (D * value) * E
  <2>5. a \in Nat /\ a >= DW /\ a <= numerator /\ DW \in Nat
    BY <1>2, <1>3, <1>4, <1>7, <2>2, <2>4
  <2> HIDE DEF a, DW
  <2> QED BY <1>1, <1>5, <2>5
<1> QED BY <1>8, <1>9, <1>10, <1>11 DEF E, W, F, value

\* The digit is written: the quotient's limbs from the offset on are there.
LEMMA DigitWritten ==
  ASSUME OperandsInv, window \in 0..call.quotient_size, quotient \in Nat, offset \in 0..Limbs,
         offset < window, NEW value \in Nat, value < B^(window - offset),
         quotient' = Quotients!Put(quotient, offset, window, value)
  PROVE  /\ quotient' \in Nat
         /\ (quotient' \div B^offset) * B^offset
              = (quotient \div B^window) * B^window + value * B^offset
<1> DEFINE E == B^offset
           W == B^window
           F == B^(window - offset)
           y == (quotient % E) + value * E + (quotient \div W) * W
<1>1. window \in 0..Limbs /\ offset \in 0..window
  BY WindowOK, WordAssumption
<1>2. E \in Nat \ {0} /\ W \in Nat \ {0} /\ W = E * F /\ F \in Nat \ {0}
  BY <1>1, LimbsGrow
<1>3. value < F
  OBVIOUS
<1>4. quotient' = (quotient % E) + (value % F) * E + (quotient \div W) * W
  BY DEF Quotients!Put, Quotients!FirstLimbs, Quotients!Subspan
<1> HIDE DEF E, W, F
<1>5. value % F = value
  BY <1>2, <1>3, SmallOK
<1>6. quotient' = y
  BY <1>4, <1>5
<1>7. y \in Nat /\ (y \div E) * E = (quotient \div W) * W + value * E
  <2>1. Replaced(Written(quotient, E, W, value), quotient, E, W, value)
    <3> HIDE DEF y
    <3> QED BY <1>2, <1>3, PutStep
  <2> QED BY <2>1, Zenon DEF Written, Replaced
<1> HIDE DEF y
<1> QED BY <1>6, <1>7 DEF E, W

\* A number divided by one
LEMMA DividedByOne == \A a \in Nat : a \div 1 = a /\ (a \div 1) * 1 = a
<1> SUFFICES ASSUME NEW a \in Nat PROVE a \div 1 = a /\ (a \div 1) * 1 = a
  OBVIOUS
<1> DEFINE c == a \div 1
<1>1. a \in Int /\ 0 \in 0 .. 1-1 /\ 1 \in Nat \ {0} /\ a = 1 * a + 0
  OBVIOUS
<1>2. c = a
  BY <1>1, QuotientUnique
<1> HIDE DEF c
<1>3. c * 1 = a
  BY <1>2
<1> QED BY <1>2, <1>3 DEF c

\* The quotient's limbs from the offset on are there, and the rest of the numerator is divided next.
LEMMA DigitOK == ASSUME DivisionInv, Quotients!Digit PROVE DivisionInv'
<1> DEFINE D == Denominator
           N == ScaledNumerator
           E == B^offset
           W == B^window
           s == call.quotient_size
           value == DigitValue
           left == DigitLeft
           low == LowerLimbs
           y == left * E + low
<1>1. /\ pc = "correct" /\ Quotients!Estimated
      /\ quotient' = Quotients!Put(quotient, offset, window, value) /\ over' = 0 /\ call' = call
      /\ IF offset = 0
         THEN remainder' = Quotients!Left /\ pc' = "shift"
         ELSE /\ numerator' = Quotients!Left * E + low
              /\ window' = Quotients!NextWindow /\ pc' = "normalized"
  BY DEF Quotients!Digit, Quotients!FirstLimbs, DigitValue, LowerLimbs
<1>2. /\ OperandsInv /\ numerator \in Nat /\ numerator < B^QuotientLimbs
      /\ window \in 0..s /\ LeftOver(numerator, window) /\ quotient \in Nat /\ PartInv
  BY <1>1 DEF DivisionInv
<1>3. D \in Nat \ {0} /\ N \in Nat
  BY <1>2, DenominatorOK
<1>4. E \in Nat \ {0} /\ offset \in 0..Limbs /\ B^QuotientLimbs \in Nat
  <2>1. QuotientLimbs \in 0..Limbs
    BY LibraryAssumption
  <2> QED BY <1>2, <2>1, PartFits, PowerAssumption
<1>5. /\ value \in Nat /\ left \in Nat /\ left < D /\ low \in Nat /\ low < E
      /\ Split(numerator, E, D * value + left, low) /\ Quotients!Left = left
  BY <1>1, DigitKnown
<1>6. PICK t \in Nat : /\ Split(N, t, D, numerator)
                       /\ s > 0 => t = (quotient \div W) * W /\ numerator < D * W
  BY <1>2 DEF LeftOver
<1>7. s > 0 => offset < window /\ value < B^(window - offset)
  BY <1>1, DigitRoom
<1>8. s \in Nat /\ window \in Nat /\ offset \in Nat
  BY <1>2, <1>4, LibraryAssumption, WordAssumption DEF OperandsInv
<1> HIDE DEF D, N, E, W, value, left, low
<1>9. /\ Split(N, t + value * E, D, y) /\ y \in Nat /\ y <= numerator /\ y < D * E
  BY <1>2, <1>3, <1>4, <1>5, <1>6, DigitStep
<1>10. t + value * E \in Nat
  BY <1>4, <1>5
<1>11. quotient' \in Nat /\ (s > 0 => (quotient' \div E) * E = t + value * E)
  <2>1. CASE s > 0
    <3>1. /\ quotient' \in Nat
          /\ (quotient' \div E) * E = (quotient \div W) * W + value * E
      BY <1>1, <1>2, <1>4, <1>5, <1>7, <2>1, DigitWritten DEF E, W
    <3> QED BY <1>6, <2>1, <3>1
  <2>2. CASE s = 0
    <3>1. ~(offset < window)
      BY <1>2, <1>8, <2>2
    <3>2. quotient' = quotient
      BY <1>1, <3>1 DEF Quotients!Put
    <3> QED BY <1>2, <2>2, <3>2
  <2> QED BY <1>8, <2>1, <2>2
<1>12. OperandsInv' /\ Denominator' = D /\ ScaledNumerator' = N
  BY <1>1, <1>2, SameDenominator DEF D, N
<1>13. CASE offset = 0
  <2>1. remainder' = left /\ pc' = "shift"
    BY <1>1, <1>5, <1>13
  <2>2. E = 1 /\ low = 0
    <3>1. E = 1
      BY <1>13, PowerAssumption DEF E
    <3> QED BY <1>5, <3>1
  <2>3. y = left
    BY <1>5, <2>2
  <2>4. s > 0 => t + value * E = quotient'
    <3>1. ASSUME s > 0 PROVE (quotient' \div E) * E = quotient'
      <4>1. (quotient' \div 1) * 1 = quotient'
        BY <1>11, DividedByOne, Zenon
      <4>2. E = 1
        BY <2>2
      <4> HIDE DEF E
      <4> QED BY <4>1, <4>2, Zenon
    <3> QED BY <1>11, <3>1
  <2>5. ShiftInv'
    <3> DEFINE v == t + value * E
    <3>1. v \in Nat /\ Split(N, v, D, left) /\ (s > 0 => v = quotient')
      BY <1>9, <1>10, <2>3, <2>4
    <3> HIDE DEF v
    <3>2. Split(ScaledNumerator', v, Denominator', remainder')
      BY <1>12, <2>1, <3>1
    <3>3. call'.quotient_size > 0 => v = quotient'
      BY <1>1, <3>1
    <3>4. remainder' \in Nat /\ remainder' < Denominator'
      BY <1>5, <1>12, <2>1
    <3> QED BY <3>1, <3>2, <3>3, <3>4 DEF ShiftInv
  <2>6. Quotients!QuotientRemainder'
    BY <2>1 DEF Quotients!QuotientRemainder
  <2> QED BY <1>1, <1>11, <1>12, <2>1, <2>5, <2>6, Zenon DEF DivisionInv
<1>14. CASE offset # 0
  <2>1. numerator' = y /\ window' = Quotients!NextWindow /\ pc' = "normalized"
    BY <1>1, <1>5, <1>14
  <2>2. window' = (IF window < offset THEN window ELSE offset)
    BY <2>1 DEF Quotients!NextWindow, Quotients!Least
  <2>3. window' \in 0..s /\ (s > 0 => window' = offset)
    BY <1>2, <1>7, <1>8, <2>2
  <2>4. numerator' \in Nat /\ numerator' < B^QuotientLimbs
    <3> HIDE DEF y
    <3> QED BY <1>2, <1>4, <1>9, <2>1
  <2>5. LeftOver(numerator, window)'
    <3> DEFINE v == t + value * E
    <3>1. /\ v \in Nat /\ Split(N, v, D, numerator')
          /\ s > 0 => v = (quotient' \div E) * E /\ numerator' < D * E
      BY <1>9, <1>10, <1>11, <2>1
    <3> HIDE DEF v
    <3>2. Split(ScaledNumerator', v, Denominator', numerator')
      BY <1>12, <3>1
    <3>3. s > 0 => B^window' = E
      BY <2>3 DEF E
    <3>4. call'.quotient_size > 0 =>
            v = (quotient' \div B^window') * B^window' /\ numerator' < Denominator' * B^window'
      BY <1>1, <1>12, <3>1, <3>3
    <3> QED BY <3>1, <3>2, <3>4 DEF LeftOver
  <2>6. Quotients!QuotientRemainder'
    BY <2>1 DEF Quotients!QuotientRemainder
  <2>7. window' \in 0..call'.quotient_size
    BY <1>1, <2>3
  <2> QED BY <1>1, <1>11, <1>12, <2>1, <2>4, <2>5, <2>6, <2>7, Zenon DEF DivisionInv
<1> QED BY <1>13, <1>14

\* Only without a quotient there is no limb for what is over.
LEMMA FailOK == ASSUME DivisionInv, Quotients!Fail PROVE DivisionInv'
<1>1. /\ pc = "correct" /\ Quotients!Estimated /\ offset >= window /\ pc' = "failed"
      /\ call' = call /\ over' = over /\ quotient' = quotient
  BY DEF Quotients!Fail
<1>2. OperandsInv /\ quotient \in Nat /\ over \in {0, 1} /\ PartInv
      /\ window \in 0..call.quotient_size
  BY <1>1 DEF DivisionInv
<1>3. call.quotient_size = 0
  <2>1. call.quotient_size \in Nat /\ window \in Nat /\ offset \in Nat
    BY <1>2, LibraryAssumption DEF OperandsInv, PartInv
  <2>2. ~(call.quotient_size > 0)
    <3>1. ~(offset < window)
      BY <1>1, <2>1
    <3> QED BY <1>1, <3>1, DigitRoom
  <2> QED BY <2>1, <2>2
<1>4. Quotients!QuotientRemainder'
  BY <1>1, <1>3 DEF Quotients!QuotientRemainder
<1>5. OperandsInv'
  BY <1>1, <1>2, SameDenominator
<1>6. quotient' \in Nat /\ over' \in {0, 1}
  BY <1>1, <1>2
<1> QED BY <1>1, <1>4, <1>5, <1>6, Zenon DEF DivisionInv

\* The remainder is shifted back.
LEMMA ShiftBackOK == ASSUME DivisionInv, Quotients!ShiftBack PROVE DivisionInv'
<1> DEFINE V == Quotients!Scale
           n == call.numerator
           d == call.denominator
           N == ScaledNumerator
           D == Denominator
<1>1. /\ pc = "shift" /\ remainder' = remainder \div V /\ pc' = "done" /\ call' = call
      /\ over' = over /\ quotient' = quotient
  BY DEF Quotients!ShiftBack
<1>2. OperandsInv /\ quotient \in Nat /\ over \in {0, 1} /\ ShiftInv
  BY <1>1 DEF DivisionInv
<1>3. V \in Nat \ {0} /\ D = d * V /\ N = n * V /\ n \in Nat /\ d \in Nat \ {0}
  BY <1>2, DenominatorOK DEF ScaledNumerator, OperandsInv
<1>4. remainder \in Nat /\ remainder < D
  BY <1>2 DEF ShiftInv
<1>5. PICK t \in Nat : /\ Split(N, t, D, remainder)
                       /\ call.quotient_size > 0 => t = quotient
  BY <1>2 DEF ShiftInv
<1> HIDE DEF V, n, d, N, D
<1>6. n \div d = t /\ n % d = remainder \div V
  <2>1. /\ n \in Nat /\ d \in Nat \ {0} /\ V \in Nat \ {0} /\ t \in Nat /\ remainder \in Nat
        /\ Scaled(N, n, V) /\ Scaled(D, d, V) /\ remainder < D /\ Split(N, t, D, remainder)
    BY <1>3, <1>4, <1>5, Zenon DEF Scaled
  <2> QED BY <2>1, Unscaled
<1>7. Quotients!QuotientRemainder'
  <2>1. remainder' = call'.numerator % call'.denominator
    BY <1>1, <1>6 DEF n, d
  <2>2. call'.quotient_size > 0 => quotient' = call'.numerator \div call'.denominator
    BY <1>1, <1>5, <1>6 DEF n, d
  <2> QED BY <1>1, <2>1, <2>2 DEF Quotients!QuotientRemainder
<1>8. OperandsInv'
  BY <1>1, <1>2, SameDenominator
<1>9. quotient' \in Nat /\ over' \in {0, 1}
  BY <1>1, <1>2
<1> QED BY <1>1, <1>7, <1>8, <1>9, Zenon DEF DivisionInv

\* Nothing happens.
LEMMA DivisionWaits == ASSUME DivisionInv, UNCHANGED Quotients!vars PROVE DivisionInv'
BY SameDenominator
   DEF DivisionInv, OperandsInv, LeftOver, PartInv, EstimateInv, ShiftInv, Quotients!vars,
       Quotients!QuotientRemainder

\* divide, one step at a time
LEMMA DivisionInvKept == ASSUME DivisionInv, [Quotients!Next]_(Quotients!vars) PROVE DivisionInv'
<1>1. CASE Quotients!Normalize
  BY <1>1, NormalizeOK
<1>2. CASE Quotients!Zero
  BY <1>2, ZeroOK
<1>3. CASE Quotients!One
  BY <1>3, OneOK
<1>4. CASE Quotients!Upper
  BY <1>4, UpperOK
<1>5. CASE Quotients!Over
  BY <1>5, OverOK
<1>6. CASE Quotients!Estimate
  BY <1>6, EstimateOK
<1>7. CASE Quotients!Correct
  BY <1>7, CorrectOK
<1>8. CASE Quotients!Digit
  BY <1>8, DigitOK
<1>9. CASE Quotients!Fail
  BY <1>9, FailOK
<1>10. CASE Quotients!ShiftBack
  BY <1>10, ShiftBackOK
<1>11. CASE UNCHANGED Quotients!vars
  BY <1>11, DivisionWaits
<1> QED
  BY <1>1, <1>2, <1>3, <1>4, <1>5, <1>6, <1>7, <1>8, <1>9, <1>10, <1>11 DEF Quotients!Next

\* Division gives the quotient and the remainder, whatever the size of limbs and the numbers, and
\* no estimate of a digit needs a third correction.
THEOREM DivisionOK == Quotients!Spec => [](Quotients!QuotientRemainder /\ Quotients!TwoCorrections)
<1>1. DivisionInv => Quotients!QuotientRemainder /\ Quotients!TwoCorrections
  BY CorrectionsOK DEF DivisionInv
<1> QED BY <1>1, InitDivisionInv, DivisionInvKept, PTL DEF Quotients!Spec

------------------------------------------------------------------------------
(* Functions on bits *)

\* Powers of B are powers of two also where a shift looks beyond the end of a span.
LEMMA SpanPower ==
  ASSUME NEW j \in 0 .. 2 * BitLimbs, NEW l \in 0..j
  PROVE  /\ limb_bit_size * j \in Exponents /\ B^j = 2^(limb_bit_size * j)
         /\ limb_bit_size * l \in 0 .. limb_bit_size * j
         /\ B^j \in Nat \ {0} /\ B^l \in Nat \ {0} /\ B^(j-l) \in Nat \ {0}
         /\ B^j = B^l * B^(j-l) /\ B^l <= B^j
<1> DEFINE w == limb_bit_size
           L == 2 * BitLimbs
<1>1. w \in Nat \ {0} /\ BitLimbs \in Nat /\ L \in Nat
  BY LibraryAssumption, WordAssumption
<1>2. ASSUME NEW a \in 0..L PROVE w * a \in Exponents /\ w * a \in Nat /\ B^a = 2^(w * a)
  <2>1. w * a <= w * L /\ w * a \in Nat /\ w * L \in Nat
    BY <1>1
  <2>2. w * a \in Exponents
    BY <2>1 DEF Exponents
  <2>3. B^a = 2^(w * a)
    BY TwoAssumption
  <2> QED BY <2>1, <2>2, <2>3
<1>3. l \in 0..L /\ j-l \in 0..L /\ j \in 0..L /\ l \in Nat /\ j \in Nat
  BY <1>1
<1>4. w * j - w * l = w * (j-l) /\ w * l <= w * j
  BY <1>1, <1>3
<1> DEFINE wj == w * j
           wl == w * l
<1>5. wj \in Exponents /\ wl \in 0..wj /\ wj \in Nat /\ wl \in Nat
  BY <1>2, <1>3, <1>4
<1>6. B^j = 2^wj /\ B^l = 2^wl /\ B^(j-l) = 2^(wj - wl)
  <2>1. B^(j-l) = 2^(w * (j-l))
    BY <1>2, <1>3
  <2> QED BY <1>2, <1>3, <1>4, <2>1
<1> HIDE DEF wj, wl
<1>7. /\ 2^wj \in Nat \ {0} /\ 2^wl \in Nat \ {0} /\ 2^(wj - wl) \in Nat \ {0}
      /\ 2^wj = 2^wl * 2^(wj - wl) /\ 2^wl <= 2^wj
  BY <1>5, ExponentOK
<1>8. /\ B^j \in Nat \ {0} /\ B^l \in Nat \ {0} /\ B^(j-l) \in Nat \ {0}
      /\ B^j = B^l * B^(j-l) /\ B^l <= B^j
  BY <1>6, <1>7, Zenon
<1> QED BY <1>5, <1>6, <1>8 DEF wj, wl

\* The limb at B^k
Digit(x, P) == (x \div P) % B

\* A limb changes: the lower ones stay, the upper ones have it below them.
LEMMA DigitStored ==
  ASSUME NEW x \in Int, NEW P \in Nat \ {0}, NEW word \in Word, NEW y,
         y = x + (word - Digit(x, P)) * P
  PROVE  /\ y \in Int /\ y % P = x % P /\ y \div P = B * (x \div (P * B)) + word
         /\ y \div (P * B) = x \div (P * B)
<1> DEFINE h == x \div P
           s == x % P
           g == h \div B
           l == h % B
           e == B * g + word
<1>1. B \in Nat \ {0} /\ word \in Int /\ word \in 0..B-1
  BY WordAssumption DEF Word
<1>2. h \in Int /\ s \in 0..P-1 /\ x = P * h + s
  BY QuotientAndRemainder
<1>3. x \div (P * B) = g
  BY <1>1, QuotientOfQuotient
<1>4. Digit(x, P) = l
  BY DEF Digit
<1> HIDE DEF h, s
<1>5. g \in Int /\ l \in 0..B-1 /\ h = B * g + l
  BY <1>1, <1>2, QuotientAndRemainder
<1> HIDE DEF g, l
<1>6. e \in Int /\ e = h + (word - l)
  <2> DEFINE Bg == B * g
  <2>1. Bg \in Int /\ h = Bg + l /\ e = Bg + word
    BY <1>1, <1>5
  <2> HIDE DEF Bg, e
  <2> QED BY <1>1, <1>5, <2>1
<1>7. y = P * e + s /\ y \in Int
  <2> DEFINE d == word - l
             Ph == P * h
             Pd == P * d
  <2>1. d \in Int /\ Ph \in Int /\ Pd \in Int /\ d * P = Pd /\ P * (h + d) = Ph + Pd
    BY <1>1, <1>2, <1>5
  <2>2. y = x + d * P /\ x = Ph + s /\ e = h + d
    BY <1>2, <1>4, <1>6
  <2> HIDE DEF d, Ph, Pd, e
  <2>3. P * e = Ph + Pd
    BY <2>1, <2>2
  <2> DEFINE Pe == P * e
  <2>4. Pe = Ph + Pd /\ y = (Ph + s) + Pd
    BY <2>1, <2>2, <2>3
  <2> HIDE DEF Pe
  <2>5. y = Pe + s /\ y \in Int
    BY <1>2, <2>1, <2>4
  <2> QED BY <2>5 DEF Pe
<1> HIDE DEF e
<1>8. y \div P = e /\ y % P = s
  BY <1>2, <1>6, <1>7, QuotientUnique
<1>9. y \div (P * B) = (y \div P) \div B
  BY <1>1, <1>7, QuotientOfQuotient
<1>10. e \div B = g
  BY <1>1, <1>5, <1>6, QuotientUnique DEF e
<1> QED BY <1>3, <1>7, <1>8, <1>9, <1>10 DEF e, s

\* Bits of two limbs are put together by a sum.
LEMMA BitsJoined ==
  ASSUME NEW a \in Int, NEW S \in Nat \ {0}, NEW U \in Nat \ {0}, B = S * U, NEW c \in 0..S-1
  PROVE  (S * a + c) % B = (((a % B) * S) % B) + c
<1> DEFINE h == a \div U
           s == a % U
           g == a \div B
           u == a % B
           d == S * s
<1>1. B \in Nat \ {0}
  BY WordAssumption
<1>2. h \in Int /\ s \in 0..U-1 /\ a = U * h + s
  BY QuotientAndRemainder
<1>3. g \in Int /\ u \in 0..B-1 /\ a = B * g + u
  BY <1>1, QuotientAndRemainder
<1> HIDE DEF h, s, g, u
<1>4. S * a = B * h + d /\ d \in Nat /\ d + S <= B
  <2>1. S * (U * h + s) = (S * U) * h + S * s
    BY <1>2
  <2>2. S * s + S <= S * U
    <3>1. S * (s + 1) <= S * U /\ S * (s + 1) = S * s + S
      BY <1>2
    <3> QED BY <3>1
  <2>3. S * s \in Nat
    BY <1>2
  <2> QED BY <1>2, <2>1, <2>2, <2>3
<1> HIDE DEF d
<1>5. (S * a + c) % B = d + c
  <2> DEFINE x == S * a + c
             r == d + c
  <2>1. r \in 0..B-1
    BY <1>1, <1>4
  <2>2. x = B * h + r /\ x \in Int
    <3> DEFINE Bh == B * h
               Sa == S * a
    <3>1. Bh \in Int /\ Sa = Bh + d
      BY <1>1, <1>2, <1>4
    <3> HIDE DEF Bh, Sa
    <3>2. Sa + c = Bh + (d + c) /\ Sa + c \in Int
      BY <1>4, <3>1
    <3> QED BY <3>2 DEF Bh, Sa
  <2> HIDE DEF x, r
  <2>3. x % B = r
    BY <1>1, <1>2, <2>1, <2>2, QuotientUnique
  <2> QED BY <2>3 DEF x, r
<1>6. (u * S) % B = d
  <2> DEFINE x == u * S
             f == h - S * g
  <2>1. x = S * a - B * (S * g)
    <3>1. S * (B * g + u) = B * (S * g) + u * S
      BY <1>1, <1>3
    <3> DEFINE a1 == B * (S * g)
    <3>2. a1 \in Int /\ S * a = a1 + x /\ x \in Int
      BY <1>1, <1>3, <3>1
    <3> HIDE DEF a1, x
    <3>3. x = S * a - a1
      BY <3>2
    <3> QED BY <3>3 DEF a1
  <2>2. x \in Int /\ f \in Int /\ B * f = B * h - B * (S * g)
    BY <1>1, <1>2, <1>3
  <2> DEFINE a1 == B * (S * g)
             Bh == B * h
             Bf == B * f
  <2>3. a1 \in Int /\ Bh \in Int /\ Bf = Bh - a1 /\ x = (Bh + d) - a1
    BY <1>1, <1>2, <1>3, <1>4, <2>1, <2>2
  <2> HIDE DEF a1, Bh, Bf
  <2>4. x = Bf + d
    BY <1>4, <2>3
  <2>5. d \in 0..B-1 /\ x = B * f + d
    BY <1>1, <1>4, <2>4 DEF Bf
  <2> HIDE DEF x, f
  <2>6. x % B = d
    BY <1>1, <2>2, <2>5, QuotientUnique
  <2> QED BY <2>6 DEF x
<1> QED BY <1>5, <1>6 DEF u

\* A limb and those above it are divided by a part of B.
LEMMA LimbDivided ==
  ASSUME NEW a \in Int, NEW l \in 0..B-1, NEW S \in Nat \ {0}, NEW U \in Nat \ {0}, B = S * U
  PROVE  (B * a + l) \div U = S * a + (l \div U) /\ l \div U \in 0..S-1
<1> DEFINE h == l \div U
           s == l % U
           x == B * a + l
           e == S * a + h
<1>1. B \in Nat \ {0} /\ l \in Nat
  BY WordAssumption
<1>2. h \in Nat /\ s \in 0..U-1 /\ l = U * h + s
  BY <1>1, QuotientNat
<1>3. h \in 0..S-1
  <2>1. l < U * S
    BY <1>1
  <2>2. h < S
    BY <1>1, <2>1, QuotientLess
  <2> HIDE DEF h
  <2> QED BY <1>2, <2>2
<1> HIDE DEF h, s
<1>4. x = U * e + s /\ x \in Int /\ e \in Int
  <2>1. U * (S * a + h) = (S * U) * a + U * h
    BY <1>2
  <2> DEFINE Ue == U * e
             Ba == B * a
             Uh == U * h
  <2>2. Ue = Ba + Uh /\ Ba \in Int /\ Uh \in Int /\ l = Uh + s /\ x = Ba + l
    BY <1>1, <1>2, <2>1
  <2>3. e \in Int
    BY <1>2
  <2> HIDE DEF Ue, Ba, Uh, x, e
  <2>4. x = Ue + s /\ x \in Int
    BY <1>1, <1>2, <2>2
  <2> QED BY <2>3, <2>4 DEF Ue
<1> HIDE DEF x, e
<1>5. x \div U = e
  BY <1>2, <1>4, QuotientUnique
<1> QED BY <1>3, <1>5 DEF x, e, h

\* A limb of y is written over x's, and the others are the same.
Stored(y, x, word, P) == y = x + (word - Digit(x, P)) * P

\* The limbs below P are the same, or those from P on.
SameBelow(x, R, P) == x % P = R % P
SameFrom(x, R, P)  == x \div P = R \div P

\* The lower limbs stay.
LEMMA LowerStay ==
  ASSUME NEW x \in Int, NEW R \in Int, NEW P \in Nat \ {0}, NEW y, Stored(y, x, Digit(R, P), P)
  PROVE  SameBelow(y, x, P)
<1> DEFINE word == Digit(R, P)
<1>1. B \in Nat \ {0} /\ R \div P \in Int
  BY WordAssumption, QuotientAndRemainder
<1>2. word \in Word
  BY <1>1, QuotientAndRemainder DEF Digit, Word
<1> HIDE DEF word
<1> QED BY <1>2, DigitStored DEF word, Stored, SameBelow

\* A limb is written from the lowest on.
LEMMA Ascending ==
  ASSUME NEW x \in Int, NEW R \in Int, NEW P \in Nat \ {0}, NEW y,
         SameBelow(x, R, P), Stored(y, x, Digit(R, P), P)
  PROVE  y \in Int /\ SameBelow(y, R, P * B) /\ SameFrom(y, x, P * B)
<1> DEFINE word == Digit(R, P)
           g == x \div (P * B)
           Bg == B * g
<1>1. B \in Nat \ {0} /\ R \div P \in Int
  BY WordAssumption, QuotientAndRemainder
<1>2. word \in Word
  BY <1>1, QuotientAndRemainder DEF Digit, Word
<1> HIDE DEF word
<1>3. y \in Int /\ y % P = x % P /\ y \div P = Bg + word /\ y \div (P * B) = g
  BY <1>2, DigitStored DEF word, Stored
<1>4. g \in Int
  <2>1. P * B \in Nat \ {0}
    BY <1>1
  <2> QED BY <2>1, QuotientAndRemainder
<1>5. (y \div P) % B = word
  <2> DEFINE h == y \div P
  <2>1. h \in Int /\ h = B * g + word /\ word \in 0..B-1
    BY <1>2, <1>3, QuotientAndRemainder DEF Word
  <2> HIDE DEF h, g
  <2>2. h % B = word
    BY <1>1, <1>4, <2>1, QuotientUnique
  <2> QED BY <2>2 DEF h
<1>6. y % (P * B) = (y % P) + ((y \div P) % B) * P
  BY <1>1, <1>3, QuotientOfQuotient
<1>7. R % (P * B) = (R % P) + ((R \div P) % B) * P
  BY <1>1, QuotientOfQuotient
<1>8. (R \div P) % B = word
  BY DEF word, Digit
<1>9. x % P = R % P
  BY DEF SameBelow
<1>10. y % (P * B) = R % (P * B)
  BY <1>3, <1>5, <1>6, <1>7, <1>8, <1>9
<1> QED BY <1>3, <1>10 DEF SameBelow, SameFrom

\* The limbs from P on that have weights up to Q are the same.
SameAbove(x, R, P, Q) == (x \div P) % Q = (R \div P) % Q

\* A limb is written from the highest on.
LEMMA Descending ==
  ASSUME NEW x \in Int, NEW R \in Int, NEW P \in Nat \ {0}, NEW Q \in Nat \ {0}, NEW y,
         SameAbove(x, R, P * B, Q),
         Stored(y, x, Digit(R, P), P)
  PROVE  y \in Int /\ SameAbove(y, R, P, B * Q)
<1> DEFINE word == Digit(R, P)
           g == x \div (P * B)
           Bg == B * g
           h == y \div P
           f == R \div P
<1>1. B \in Nat \ {0} /\ f \in Int
  BY WordAssumption, QuotientAndRemainder
<1>2. word \in Word
  BY <1>1, QuotientAndRemainder DEF Digit, Word
<1> HIDE DEF word
<1>3. y \in Int /\ y % P = x % P /\ h = Bg + word /\ y \div (P * B) = g
  BY <1>2, DigitStored DEF word, Stored
<1>4. g \in Int /\ h \in Int
  <2>1. P * B \in Nat \ {0}
    BY <1>1
  <2> QED BY <1>3, <2>1, QuotientAndRemainder
<1>5. h \div B = g /\ f \div B = R \div (P * B)
  BY <1>1, <1>3, QuotientOfQuotient
<1>6. h % B = word /\ f % B = word
  <2>1. h = B * g + word /\ word \in 0..B-1
    BY <1>2, <1>3 DEF Word
  <2>2. f % B = word
    BY DEF word, Digit
  <2> HIDE DEF h, g, f
  <2>3. h % B = word
    BY <1>1, <1>4, <2>1, QuotientUnique
  <2> QED BY <2>2, <2>3
<1> HIDE DEF h, f
<1>7. h % (B * Q) = (h % B) + ((h \div B) % Q) * B
  BY <1>1, <1>4, QuotientOfQuotient
<1>8. f % (B * Q) = (f % B) + ((f \div B) % Q) * B
  BY <1>1, QuotientOfQuotient
<1>9. h % (B * Q) = f % (B * Q)
  <2>1. g % Q = (R \div (P * B)) % Q
    BY DEF SameAbove
  <2> QED BY <1>5, <1>6, <1>7, <1>8, <2>1
<1> QED BY <1>3, <1>9 DEF h, f, SameAbove

\* All bits are inverted.
LEMMA Inverted ==
  ASSUME NEW x \in Int, NEW P \in Nat \ {0}
  PROVE  /\ (-x - 1) \div P = -(x \div P) - 1 /\ (-x - 1) % P = P - 1 - (x % P)
<1> DEFINE h == x \div P
           s == x % P
           y == -x - 1
           e == -h - 1
           t == P - 1 - s
<1>1. h \in Int /\ s \in 0..P-1 /\ x = P * h + s
  BY QuotientAndRemainder
<1> HIDE DEF h, s
<1>2. y = P * e + t
  <2> DEFINE Ph == P * h
             Pe == P * e
  <2>1. Ph \in Int /\ Pe = -Ph - P /\ x = Ph + s
    BY <1>1
  <2> HIDE DEF Ph, Pe
  <2>2. y = Pe + t
    BY <1>1, <2>1
  <2> QED BY <2>2 DEF Pe
<1>3. y \in Int /\ e \in Int /\ t \in 0..P-1
  BY <1>1
<1> HIDE DEF y, e, t
<1>4. y \div P = e /\ y % P = t
  BY <1>2, <1>3, QuotientUnique
<1> QED BY <1>4 DEF y, e, t, h, s

\* So are those of a limb.
LEMMA InvertedDigit ==
  ASSUME NEW x \in Int, NEW P \in Nat \ {0}
  PROVE  Digit(-x - 1, P) = B - 1 - Digit(x, P)
<1> DEFINE h == x \div P
<1>1. h \in Int /\ B \in Nat \ {0}
  BY WordAssumption, QuotientAndRemainder
<1>2. (-x - 1) \div P = -h - 1
  BY Inverted
<1> HIDE DEF h
<1>3. (-h - 1) % B = B - 1 - (h % B)
  BY <1>1, Inverted
<1> QED BY <1>2, <1>3 DEF Digit, h

\* One is added to what is the same in the lowest limbs.
LEMMA OneMore ==
  ASSUME NEW x \in Int, NEW R \in Int, NEW Q \in Nat \ {0}, x % Q = R % Q
  PROVE  ((x + 1) % Q) % Q = (R + 1) % Q /\ (x + 1) % Q \in Int
<1> DEFINE a == x \div Q
           b == R \div Q
           s == x % Q
           c == (x + 1) \div Q
           d == (x + 1) % Q
<1>1. /\ a \in Int /\ b \in Int /\ s \in 0..Q-1 /\ c \in Int /\ d \in 0..Q-1
      /\ x = Q * a + s /\ R = Q * b + s /\ x + 1 = Q * c + d
  <2>1. x + 1 \in Int
    OBVIOUS
  <2> QED BY <2>1, QuotientAndRemainder
<1> HIDE DEF a, b, s, c, d
<1>2. d % Q = d
  BY <1>1, d = Q * 0 + d, QuotientUnique
<1> DEFINE y == R + 1
           e == c + b - a
<1>3. y = Q * e + d
  <2> DEFINE Qa == Q * a
             Qb == Q * b
             Qc == Q * c
             Qe == Q * e
  <2>1. /\ Qa \in Int /\ Qb \in Int /\ Qc \in Int /\ Qe = Qc + Qb - Qa
        /\ x = Qa + s /\ R = Qb + s /\ x + 1 = Qc + d
    BY <1>1
  <2> HIDE DEF Qa, Qb, Qc, Qe
  <2>2. y = Qe + d
    BY <1>1, <2>1
  <2> QED BY <2>2 DEF Qe
<1>4. y \in Int /\ e \in Int
  BY <1>1
<1> HIDE DEF y, e
<1>5. y % Q = d
  BY <1>1, <1>3, <1>4, QuotientUnique
<1> QED BY <1>1, <1>2, <1>5 DEF y, d

\* A limb and those above it, divided by a part of B.
LEMMA DigitsDivided ==
  ASSUME NEW h \in Int, NEW S \in Nat \ {0}, NEW U \in Nat \ {0}, B = S * U
  PROVE  (h \div U) % B = ((((h \div B) % B) * S) % B) + ((h % B) \div U)
<1> DEFINE a == h \div B
           l == h % B
           c == l \div U
           Ba == B * a
<1>1. B \in Nat \ {0}
  BY WordAssumption
<1>2. a \in Int /\ l \in 0..B-1 /\ h = Ba + l
  BY <1>1, QuotientAndRemainder
<1> HIDE DEF a, l
<1>3. h \div U = S * a + c /\ c \in 0..S-1
  BY <1>2, LimbDivided
<1> HIDE DEF c
<1>4. (S * a + c) % B = (((a % B) * S) % B) + c
  BY <1>2, <1>3, BitsJoined
<1> QED BY <1>3, <1>4 DEF a, l, c

\* A limb of a number that is shifted to the right: W is two to the number of bits, M the part of
\* it that limbs account for and U the other.
LEMMA RightDigit ==
  ASSUME NEW v \in Int, NEW S \in Nat \ {0}, NEW U \in Nat \ {0}, B = S * U,
         NEW M \in Nat \ {0}, NEW K \in Nat \ {0}, NEW W, W = M * U, NEW P, P = M * K
  PROVE  /\ v \div W \in Int
         /\ Digit(v \div W, K) = ((Digit(v, P * B) * S) % B) + (Digit(v, P) \div U)
<1> DEFINE h == v \div P
           R == v \div W
<1>1. B \in Nat \ {0} /\ W \in Nat \ {0} /\ P \in Nat \ {0}
  BY WordAssumption
<1>2. h \in Int /\ R \in Int
  BY <1>1, QuotientAndRemainder
<1>3. R \div K = h \div U
  <2>1. R \div K = v \div (W * K)
    BY ONLY v \in Int, K \in Nat \ {0}, <1>1, QuotientOfQuotient
  <2>2. h \div U = v \div (P * U)
    BY ONLY v \in Int, U \in Nat \ {0}, <1>1, QuotientOfQuotient
  <2>3. (M * U) * K = (M * K) * U
    OBVIOUS
  <2> QED BY <2>1, <2>2, <2>3
<1>4. h \div B = v \div (P * B)
  BY ONLY v \in Int, <1>1, QuotientOfQuotient
<1> HIDE DEF h
<1>5. (h \div U) % B = ((((h \div B) % B) * S) % B) + ((h % B) \div U)
  BY <1>2, DigitsDivided
<1> QED BY <1>2, <1>3, <1>4, <1>5 DEF h, Digit

\* A multiple is divided by its factor.
LEMMA Undone ==
  ASSUME NEW x \in Int, NEW n \in Nat \ {0}
  PROVE  (x * n) \div n = x /\ (x * n) % n = 0 /\ x * n \in Int
<1> DEFINE y == x * n
<1>1. y = n * x + 0 /\ y \in Int /\ 0 \in 0..n-1
  OBVIOUS
<1> HIDE DEF y
<1>2. y \div n = x /\ y % n = 0
  BY <1>1, QuotientUnique
<1> QED BY <1>1, <1>2 DEF y

\* W is two to the number of bits that a number is shifted to the left by, M the part of it that
\* limbs account for and S the other.
Parted(S, U, M, W) == B = S * U /\ W = M * S

\* Limb P is shifted to the one below K.
Moved(P, M, K) == K = M * (P * B)

\* A limb of a number that is shifted to the left, above the lowest one that is not zero.
LEMMA LeftDigit ==
  ASSUME NEW v \in Int, NEW S \in Nat \ {0}, NEW U \in Nat \ {0}, NEW M \in Nat \ {0},
         NEW P \in Nat \ {0}, NEW W, Parted(S, U, M, W), NEW K, Moved(P, M, K),
         NEW R, Scaled(R, v, W)
  PROVE  Digit(R, K) = ((Digit(v, P * B) * S) % B) + (Digit(v, P) \div U)
<1> DEFINE h == v \div P
           x == v * S
           N == P * B
           O == P * U
<1>0. B = S * U /\ W = M * S /\ K = M * (P * B) /\ R = v * W
  BY DEF Parted, Moved, Scaled
<1>1. B \in Nat \ {0} /\ N \in Nat \ {0} /\ x \in Int /\ O \in Nat \ {0}
  BY WordAssumption
<1>2. h \in Int
  BY QuotientAndRemainder
<1>3. R \div K = h \div U
  <2>1. R = x * M
    BY <1>0, v * (M * S) = (v * S) * M
  <2>2. (x * M) \div (M * N) = ((x * M) \div M) \div N
    <3>1. x * M \in Int
      BY <1>1
    <3> HIDE DEF x, N
    <3> QED BY <1>1, <3>1, QuotientOfQuotient
  <2>3. (x * M) \div M = x
    <3> HIDE DEF x
    <3> QED BY <1>1, Undone
  <2>4. N = S * O
    BY <1>0, P * (S * U) = S * (P * U)
  <2>5. x \div (S * O) = (x \div S) \div O
    <3> HIDE DEF x, O
    <3> QED BY <1>1, QuotientOfQuotient
  <2>6. x \div S = v
    BY Undone
  <2>7. v \div O = h \div U
    BY QuotientOfQuotient
  <2> HIDE DEF x, N, O, h
  <2> QED BY <1>0, <2>1, <2>2, <2>3, <2>4, <2>5, <2>6, <2>7 DEF N
<1>4. h \div B = v \div N
  BY <1>1, QuotientOfQuotient
<1> HIDE DEF h
<1>5. (h \div U) % B = ((((h \div B) % B) * S) % B) + ((h % B) \div U)
  BY <1>0, <1>2, DigitsDivided
<1> QED BY <1>3, <1>4, <1>5 DEF h, N, Digit

\* The lowest one that is not zero
LEMMA LeftLowest ==
  ASSUME NEW v \in Int, NEW S \in Nat \ {0}, NEW U \in Nat \ {0}, NEW M \in Nat \ {0},
         NEW W, Parted(S, U, M, W), NEW R, Scaled(R, v, W)
  PROVE  Digit(R, M) = ((v % B) * S) % B
<1> DEFINE x == v * S
<1>0. B = S * U /\ W = M * S /\ R = v * W
  BY DEF Parted, Scaled
<1>1. R = x * M /\ x \in Int
  BY <1>0, v * (M * S) = (v * S) * M
<1>2. (x * M) \div M = x
  <2> HIDE DEF x
  <2> QED BY <1>1, Undone
<1>3. (S * v + 0) % B = (((v % B) * S) % B) + 0
  BY <1>0, 0 \in 0..S-1, BitsJoined
<1>4. S * v + 0 = x /\ ((v % B) * S) % B \in Int
  <2>1. B \in Nat \ {0}
    BY WordAssumption
  <2>2. v % B \in Int
    BY <2>1, QuotientAndRemainder
  <2>3. (v % B) * S \in Int
    BY <2>2
  <2> QED BY <2>1, <2>3, QuotientAndRemainder
<1> DEFINE z == ((v % B) * S) % B
<1>5. x % B = z
  <2> HIDE DEF x, z
  <2>1. z + 0 = z
    BY <1>4 DEF z
  <2> QED BY <1>3, <1>4, <2>1 DEF z
<1> HIDE DEF x, z
<1> QED BY <1>1, <1>2, <1>5 DEF Digit, z

\* Those that are zero
LEMMA LeftZero ==
  ASSUME NEW v \in Int, NEW K \in Nat \ {0}, NEW O \in Nat, NEW W, W = (K * B) * O
  PROVE  Digit(v * W, K) = 0
<1> DEFINE x == v * O
           y == x * B
<1>1. B \in Nat \ {0} /\ x \in Int /\ y \in Int
  BY WordAssumption
<1>2. v * W = y * K
  <2>1. B \in Nat
    BY <1>1
  <2> QED BY <2>1, v * ((K * B) * O) = ((v * O) * B) * K
<1>3. (y * K) \div K = y
  <2> HIDE DEF y
  <2> QED BY <1>1, Undone
<1>4. y % B = 0
  <2> HIDE DEF x
  <2> QED BY <1>1, Undone
<1> HIDE DEF y
<1> QED BY <1>2, <1>3, <1>4 DEF Digit

\* Weights of limbs multiply.
LEMMA SpanSum ==
  ASSUME NEW j \in Nat, NEW l \in Nat, j + l <= 2 * BitLimbs
  PROVE  /\ B^(j+l) = B^j * B^l /\ B^(j+l) \in Nat \ {0} /\ B^j \in Nat \ {0}
         /\ B^l \in Nat \ {0}
<1> DEFINE n == j + l
<1>1. BitLimbs \in Nat
  BY LibraryAssumption, WordAssumption
<1>2. n \in 0 .. 2 * BitLimbs /\ j \in 0..n /\ n - j = l
  BY <1>1
<1> HIDE DEF n
<1>3. B^n = B^j * B^(n-j) /\ B^n \in Nat \ {0} /\ B^j \in Nat \ {0} /\ B^(n-j) \in Nat \ {0}
  BY <1>2, SpanPower
<1> QED BY <1>2, <1>3 DEF n

\* The weight of the next limb
LEMMA SpanNext ==
  ASSUME NEW j \in Nat, j < 2 * BitLimbs
  PROVE  B^(j+1) = B^j * B /\ B^j \in Nat \ {0} /\ B^(j+1) \in Nat \ {0}
<1>1. BitLimbs \in Nat
  BY LibraryAssumption, WordAssumption
<1>2. j + 1 <= 2 * BitLimbs
  BY <1>1
<1> QED BY <1>2, SpanSum, PowerAssumption

\* The lowest limbs have the lower ones among them.
LEMMA FewerLimbs ==
  ASSUME NEW x \in Int, NEW y \in Int, NEW n \in Nat \ {0}, NEW m0 \in Nat \ {0},
         x % (n * m0) = y % (n * m0)
  PROVE  x % n = y % n
<1> DEFINE s == x % n
           t == y % n
           a == (x \div n) % m0
           b == (y \div n) % m0
           c == x % (n * m0)
<1>1. c = s + a * n /\ c = t + b * n
  BY QuotientOfQuotient
<1>2. s \in 0..n-1 /\ t \in 0..n-1 /\ a \in Int /\ b \in Int
  <2>1. x \div n \in Int /\ y \div n \in Int
    BY QuotientAndRemainder
  <2> QED BY <2>1, QuotientAndRemainder
<1> HIDE DEF s, t, a, b, c
<1>3. c = n * a + s /\ c = n * b + t /\ c \in Int
  BY <1>1, <1>2
<1>4. c % n = s
  BY <1>2, <1>3, QuotientUnique
<1>5. c % n = t
  BY <1>2, <1>3, QuotientUnique
<1> QED BY <1>4, <1>5 DEF s, t

\* Numbers with the same lowest limbs have the same limbs.
LEMMA SameDigit ==
  ASSUME NEW x \in Int, NEW y \in Int, NEW P \in Nat \ {0}, x % (P * B) = y % (P * B)
  PROVE  Digit(x, P) = Digit(y, P)
<1> DEFINE s == x % P
           t == y % P
           a == Digit(x, P)
           b == Digit(y, P)
           c == x % (P * B)
<1>1. c = s + a * P /\ c = t + b * P
  <2>1. B \in Nat \ {0}
    BY WordAssumption
  <2> QED BY <2>1, QuotientOfQuotient DEF Digit
<1>2. s \in 0..P-1 /\ t \in 0..P-1 /\ a \in Int /\ b \in Int
  <2>1. x \div P \in Int /\ y \div P \in Int /\ B \in Nat \ {0}
    BY WordAssumption, QuotientAndRemainder
  <2> QED BY <2>1, QuotientAndRemainder DEF Digit
<1> HIDE DEF s, t, a, b, c
<1>3. c = P * a + s /\ c = P * b + t /\ c \in Int
  BY <1>1, <1>2
<1>4. c \div P = a
  BY <1>2, <1>3, QuotientUnique
<1>5. c \div P = b
  BY <1>2, <1>3, QuotientUnique
<1> QED BY <1>4, <1>5 DEF a, b

\* Numbers that are the same without their lowest limbs have the same limbs.
LEMMA SameUpper ==
  ASSUME NEW x \in Int, NEW y \in Int, NEW P \in Nat \ {0}, NEW Q \in Nat \ {0},
         x \div P = y \div P
  PROVE  Digit(x, P * Q) = Digit(y, P * Q)
<1>1. x \div (P * Q) = (x \div P) \div Q /\ y \div (P * Q) = (y \div P) \div Q
  BY QuotientOfQuotient
<1> QED BY <1>1 DEF Digit

\* What is asked for
BitCall ==
  /\ call.op \in Bits!Writers \cup Bits!Scans
  /\ call.value \in Int /\ call.signed \in BOOLEAN /\ call.in_place \in BOOLEAN
  /\ call.value_limbs \in 0..BitLimbs /\ call.limbs \in 0..BitLimbs
  /\ call.bits \in 0 .. BitLimbs * limb_bit_size /\ call.shift \in 0 .. BitLimbs * limb_bit_size
  /\ Bits!Allowed(call)

\* The number whose limbs are written: for the negation, one less than it.
Wanted ==
  CASE call.op = "shift_left"  -> call.value * 2^call.shift
    [] call.op = "shift_right" -> call.value \div 2^call.shift
    [] call.op = "bit_copy"    -> call.value
    [] call.op = "negate"      -> -call.value - 1
    [] OTHER -> 0

\* What bit_width looks at instead of a number below zero has the same width without its sign.
Magnitude == IF call.value < 0 THEN -call.value - 1 ELSE call.value

\* Functions that begin at the lowest limb have written the limbs before, and those from it on
\* are as they were.
UpwardInv ==
  call.op \in {"shift_right", "bit_copy", "negate"} =>
    /\ memory % B^i = Wanted % B^i
    /\ call.in_place => memory \div B^i = call.value \div B^i

\* shift_left begins at the highest.
DownwardInv ==
  call.op = "shift_left" =>
    /\ (memory \div B^(call.limbs - i)) % B^i = (Wanted \div B^(call.limbs - i)) % B^i
    /\ call.in_place => memory % B^(call.limbs - i) = call.value % B^(call.limbs - i)

\* bit_width has seen only zeros, or the highest limb that is none.
WidthInv ==
  call.op = "bit_width" =>
    /\ result \in 0 .. limb_bit_size * call.limbs
    /\ result = 0 => Magnitude < B^(call.limbs - i)
    /\ result > 0 => 2^(result - 1) <= Magnitude /\ Magnitude < 2^result

\* countr_zero has seen only zeros, or the lowest bit that is none.
ZerosInv ==
  call.op = "countr_zero" =>
    /\ result \in 0 .. limb_bit_size * i
    /\ result = limb_bit_size * i => call.value % B^i = 0
    /\ result # limb_bit_size * i =>
         call.value % 2^result = 0 /\ call.value % 2^(result + 1) # 0

BitsInv ==
  /\ BitCall
  /\ pc \in {"scan", "done"} /\ i \in 0..call.limbs /\ memory \in Int /\ result \in Nat
  /\ pc = "scan" => UpwardInv /\ DownwardInv /\ WidthInv /\ ZerosInv
  /\ Bits!BitsWritten /\ Bits!Counted

\* The number of a function
LEMMA WantedIs ==
  /\ call.op = "shift_left"  => Wanted = call.value * 2^call.shift
  /\ call.op = "shift_right" => Wanted = call.value \div 2^call.shift
  /\ call.op = "bit_copy"    => Wanted = call.value
  /\ call.op = "negate"      => Wanted = -call.value - 1
BY DEF Wanted

\* The bits of a shift: those of whole limbs and the rest.
LEMMA ShiftParts ==
  ASSUME BitCall
  PROVE  /\ Bits!limb_shift \in 0..BitLimbs /\ Bits!bit_shift \in 0 .. limb_bit_size - 1
         /\ 2^Bits!bit_shift \in Nat \ {0} /\ 2^(limb_bit_size - Bits!bit_shift) \in Nat \ {0}
         /\ B^Bits!limb_shift \in Nat \ {0}
         /\ 2^call.shift = B^Bits!limb_shift * 2^Bits!bit_shift
         /\ 2^call.shift \in Nat \ {0}
         /\ B = 2^Bits!bit_shift * 2^(limb_bit_size - Bits!bit_shift)
         /\ Bits!bit_shift = 0 => 2^Bits!bit_shift = 1
<1> DEFINE w == limb_bit_size
           n == call.shift
           ls == n \div w
           bs == n % w
           wl == w * ls
           L == BitLimbs
           most == w * (2 * L)
<1>1. w \in Nat \ {0} /\ L \in Nat /\ n \in 0 .. L * w
  <2>1. w \in Nat \ {0} /\ L \in Nat
    BY LibraryAssumption, WordAssumption
  <2>2. n \in 0 .. L * w
    BY DEF BitCall
  <2> QED BY <2>1, <2>2
<1>2. ls \in Nat /\ bs \in 0..w-1 /\ n = wl + bs
  <2>1. n \in Nat
    BY <1>1
  <2> HIDE DEF n, w
  <2>2. ls \in Nat /\ bs \in Nat /\ bs < w /\ n = w * ls + bs
    BY <1>1, <2>1, QuotientNat
  <2> QED BY <1>1, <2>2
<1>3. Bits!limb_shift = ls /\ Bits!bit_shift = bs
  BY DEF Bits!limb_shift, Bits!bit_shift
<1> HIDE DEF n, ls, bs
<1>4. ls \in 0..L
  <2> SUFFICES ASSUME ls > L PROVE FALSE
    BY <1>1, <1>2
  <2>1. w * ls >= w * (L+1) /\ w * (L+1) = L * w + w
    BY <1>1, <1>2
  <2> QED BY <1>1, <1>2, <2>1
<1>5. wl \in Nat /\ n \in Exponents /\ wl \in 0..n /\ n - wl = bs
  <2>1. most \in Nat /\ L * w <= most /\ w * ls \in Nat
    BY <1>1, <1>2
  <2> HIDE DEF most, wl
  <2>2. n \in 0..most
    BY <1>1, <2>1
  <2>3. n \in Exponents
    BY <2>2 DEF Exponents, most
  <2> QED BY <1>1, <1>2, <2>1, <2>3 DEF wl
<1>6. B^ls = 2^wl /\ B^ls \in Nat \ {0}
  <2>1. ls \in 0 .. 2 * L /\ ls \in 0..ls
    BY <1>1, <1>4
  <2> QED BY <2>1, SpanPower
<1> HIDE DEF wl
<1>7. 2^n = 2^wl * 2^(n - wl) /\ 2^n \in Nat \ {0}
  BY <1>5, ExponentOK
<1>8. /\ 2^bs \in Nat \ {0} /\ 2^(w - bs) \in Nat \ {0} /\ 2^w = 2^bs * 2^(w - bs)
  BY <1>1, <1>2, BitsOK, ExponentOK
<1>9. 2^0 = 1 /\ B = 2^w
  BY LibraryAssumption, TwoAssumption
<1> QED BY <1>2, <1>3, <1>4, <1>5, <1>6, <1>7, <1>8, <1>9 DEF n

\* The call stays, and so does what it means.
LEMMA SameBitCall ==
  ASSUME call' = call
  PROVE  (BitCall => BitCall') /\ Wanted' = Wanted /\ Magnitude' = Magnitude
<1>1. BitCall => BitCall'
  BY DEF BitCall, Bits!Allowed
<1>2. Wanted' = Wanted
  BY DEF Wanted
<1>3. Magnitude' = Magnitude
  BY DEF Magnitude
<1> QED BY <1>1, <1>2, <1>3

\* What is written is a number.
LEMMA WantedInt == BitCall => Wanted \in Int
<1> SUFFICES ASSUME BitCall PROVE Wanted \in Int
  OBVIOUS
<1> DEFINE n == 2^call.shift
           v == call.value
<1>1. n \in Nat \ {0} /\ v \in Int
  BY ShiftParts DEF BitCall
<1>2. v * n \in Int /\ v \div n \in Int /\ -v - 1 \in Int
  <2> HIDE DEF n, v
  <2> QED BY <1>1, QuotientAndRemainder
<1> QED BY <1>1, <1>2 DEF Wanted

\* Numbers of limbs and what is written are numbers.
LEMMA BitTypes ==
  ASSUME BitsInv
  PROVE  /\ BitCall /\ call.limbs \in Nat /\ call.limbs <= BitLimbs /\ BitLimbs \in Nat
         /\ i \in Nat /\ i <= call.limbs /\ memory \in Int /\ call.value \in Int /\ Wanted \in Int
<1>1. BitLimbs \in Nat /\ limb_bit_size \in Nat
  BY LibraryAssumption, WordAssumption
<1>2. /\ BitCall /\ call.limbs \in 0..BitLimbs /\ i \in 0..call.limbs /\ memory \in Int
      /\ call.value \in Int
  BY DEF BitsInv, BitCall
<1> QED BY <1>1, <1>2, WantedInt

\* The size of limbs
LEMMA BWord == B \in Nat \ {0}
BY WordAssumption

\* Limbs that are read from the lowest on, also where they are written
LEMMA ReadUp ==
  ASSUME BitsInv, pc = "scan", call.op \in {"shift_right", "bit_copy", "negate"},
         NEW j \in Nat, i <= j, j <= 2 * BitLimbs
  PROVE  Bits!Limb(Bits!Value, j) = Digit(call.value, B^j)
<1>1. CASE call.in_place
  <2> DEFINE P == B^i
             Q == B^(j-i)
  <2>1. Bits!Value = memory /\ memory \div P = call.value \div P
    BY <1>1 DEF BitsInv, UpwardInv, Bits!Value
  <2>2. memory \in Int /\ call.value \in Int /\ i \in Nat
    BY BitTypes
  <2>3. j-i \in Nat /\ i + (j-i) = j
    BY <2>2
  <2>4. P \in Nat \ {0} /\ Q \in Nat \ {0} /\ B^j = P * Q
    BY <2>2, <2>3, SpanSum
  <2> HIDE DEF P, Q
  <2>5. Digit(memory, P * Q) = Digit(call.value, P * Q)
    BY <2>1, <2>2, <2>4, SameUpper
  <2> QED BY <2>1, <2>4, <2>5 DEF Digit, Bits!Limb
<1>2. CASE ~call.in_place
  BY <1>2 DEF Bits!Value, Bits!Limb, Digit
<1> QED BY <1>1, <1>2

\* Limbs that are read from the highest on
LEMMA ReadDown ==
  ASSUME BitsInv, pc = "scan", call.op = "shift_left", NEW j \in Nat, j < call.limbs - i
  PROVE  Bits!Limb(Bits!Value, j) = Digit(call.value, B^j)
<1>1. CASE call.in_place
  <2> DEFINE e == call.limbs - i
             P == B^j
             Q == B^(e - (j+1))
  <2>1. Bits!Value = memory /\ memory % B^e = call.value % B^e
    BY <1>1 DEF BitsInv, DownwardInv, Bits!Value
  <2>2. /\ memory \in Int /\ call.value \in Int /\ i \in Nat /\ call.limbs \in Nat
        /\ call.limbs <= BitLimbs /\ BitLimbs \in Nat
    BY BitTypes
  <2>3. e - (j+1) \in Nat /\ (j+1) + (e - (j+1)) = e /\ j+1 \in Nat /\ e <= 2 * BitLimbs
        /\ j < 2 * BitLimbs
    BY <2>2
  <2> HIDE DEF e
  <2>4. P \in Nat \ {0} /\ B^(j+1) = P * B
    BY <2>3, SpanNext
  <2>5. Q \in Nat \ {0} /\ B^e = B^(j+1) * Q /\ B^(j+1) \in Nat \ {0}
    BY <2>3, SpanSum
  <2> HIDE DEF P, Q
  <2>6. memory % (P * B) = call.value % (P * B)
    BY <2>1, <2>2, <2>4, <2>5, FewerLimbs
  <2>7. Digit(memory, P) = Digit(call.value, P)
    BY <2>2, <2>4, <2>6, SameDigit
  <2> QED BY <2>1, <2>7 DEF Digit, Bits!Limb, P
<1>2. CASE ~call.in_place
  BY <1>2 DEF Bits!Value, Bits!Limb, Digit
<1> QED BY <1>1, <1>2

\* One more limb is written, from the lowest on.
LEMMA UpStep ==
  ASSUME BitsInv, pc = "scan", call.op \in {"shift_right", "bit_copy", "negate"},
         i < call.limbs, Bits!Written(Digit(Wanted, B^i))
  PROVE  BitsInv'
<1> DEFINE P == B^i
           R == Wanted
           x == memory
           y == memory'
           v == call.value
<1>1. /\ BitCall /\ call.limbs \in Nat /\ call.limbs <= BitLimbs /\ BitLimbs \in Nat
      /\ i \in Nat /\ x \in Int /\ v \in Int /\ R \in Int
  BY BitTypes
<1>2. /\ Stored(y, x, Digit(R, P), P) /\ i' = i+1
      /\ call' = call /\ pc' = pc /\ result' = result
  BY DEF Stored, Bits!Written, Bits!Store, Bits!Limb, Digit, Bits!Index
<1>3. x % P = R % P /\ (call.in_place => x \div P = v \div P) /\ result \in Nat
  BY DEF BitsInv, UpwardInv
<1>4. B^(i+1) = P * B /\ P \in Nat \ {0}
  BY <1>1, SpanNext
<1> HIDE DEF P, R, x, y, v
<1>5. y \in Int /\ y % (P * B) = R % (P * B) /\ y \div (P * B) = x \div (P * B)
  <2>1. x \in Int /\ R \in Int /\ P \in Nat \ {0} /\ SameBelow(x, R, P)
    BY <1>1, <1>3, <1>4 DEF SameBelow
  <2>2. Stored(y, x, Digit(R, P), P)
    BY <1>2
  <2>3. y \in Int /\ SameBelow(y, R, P * B) /\ SameFrom(y, x, P * B)
    BY ONLY <2>1, <2>2, Ascending
  <2> QED BY <2>3 DEF SameBelow, SameFrom
<1>6. ASSUME call.in_place PROVE y \div (P * B) = v \div (P * B)
  <2>1. x \div (P * B) = (x \div P) \div B /\ v \div (P * B) = (v \div P) \div B
    BY <1>1, <1>4, BWord, QuotientOfQuotient
  <2> QED BY <1>3, <1>5, <1>6, <2>1
<1>7. BitCall' /\ Wanted' = R
  BY <1>1, <1>2, SameBitCall DEF R
<1>8. UpwardInv'
  BY <1>2, <1>4, <1>5, <1>6, <1>7 DEF UpwardInv, y, v
<1>9. DownwardInv' /\ WidthInv' /\ ZerosInv'
  BY <1>2 DEF DownwardInv, WidthInv, ZerosInv
<1>10. Bits!BitsWritten' /\ Bits!Counted'
  BY <1>2 DEF Bits!BitsWritten, Bits!Counted
<1>11. pc' \in {"scan", "done"} /\ i' \in 0..call'.limbs /\ memory' \in Int /\ result' \in Nat
  BY <1>1, <1>2, <1>3, <1>5 DEF y
<1> QED BY <1>7, <1>8, <1>9, <1>10, <1>11, Zenon DEF BitsInv

\* One more limb is written, from the highest on.
LEMMA DownStep ==
  ASSUME BitsInv, pc = "scan", call.op = "shift_left", i < call.limbs,
         Bits!Written(Digit(Wanted, B^(call.limbs - 1 - i)))
  PROVE  BitsInv'
<1> DEFINE e == call.limbs - i
           k0 == call.limbs - 1 - i
           P == B^k0
           Q == B^i
           R == Wanted
           x == memory
           y == memory'
           v == call.value
<1>1. /\ BitCall /\ call.limbs \in Nat /\ call.limbs <= BitLimbs /\ BitLimbs \in Nat
      /\ i \in Nat /\ x \in Int /\ v \in Int /\ R \in Int
  BY BitTypes
<1>2. /\ Stored(y, x, Digit(R, P), P) /\ i' = i+1
      /\ call' = call /\ pc' = pc /\ result' = result
  BY DEF Stored, Bits!Written, Bits!Store, Bits!Limb, Digit, Bits!Index
<1>3. /\ (x \div B^e) % Q = (R \div B^e) % Q /\ (call.in_place => x % B^e = v % B^e)
      /\ result \in Nat
  BY DEF BitsInv, DownwardInv
<1>4. /\ k0 \in Nat /\ k0 < 2 * BitLimbs /\ i < 2 * BitLimbs /\ k0 + 1 = e
      /\ call.limbs - (i+1) = k0
  BY <1>1
<1>5. /\ B^e = P * B /\ P \in Nat \ {0} /\ Q \in Nat \ {0} /\ B^(i+1) = Q * B
  <2> HIDE DEF k0, e
  <2> QED BY <1>1, <1>4, SpanNext
<1> HIDE DEF e, k0, P, Q, R, x, y, v
<1>6. y \in Int /\ SameAbove(y, R, P, B * Q) /\ y % P = x % P
  <2>1. x \in Int /\ R \in Int /\ P \in Nat \ {0} /\ Q \in Nat \ {0}
    BY <1>1, <1>5
  <2>2. SameAbove(x, R, P * B, Q)
    BY <1>3, <1>5 DEF SameAbove
  <2>3. Stored(y, x, Digit(R, P), P)
    BY <1>2
  <2>4. y \in Int /\ SameAbove(y, R, P, B * Q)
    BY <2>1, <2>2, <2>3, Descending
  <2>5. SameBelow(y, x, P)
    BY <2>1, <2>3, LowerStay
  <2> QED BY <2>4, <2>5 DEF SameBelow
<1>7. ASSUME call.in_place PROVE y % P = v % P
  <2>1. x % (P * B) = v % (P * B)
    BY <1>3, <1>5, <1>7
  <2>2. x % P = v % P
    BY <1>1, <1>5, <2>1, BWord, FewerLimbs
  <2> QED BY <1>6, <2>2
<1>8. BitCall' /\ Wanted' = R
  BY <1>1, <1>2, SameBitCall DEF R
<1>9. B * Q = B^(i+1)
  BY <1>5, WordAssumption
<1>10. DownwardInv'
  BY <1>2, <1>4, <1>6, <1>7, <1>8, <1>9 DEF DownwardInv, SameAbove, y, v, P
<1>11. UpwardInv' /\ WidthInv' /\ ZerosInv'
  BY <1>2 DEF UpwardInv, WidthInv, ZerosInv
<1>12. Bits!BitsWritten' /\ Bits!Counted'
  BY <1>2 DEF Bits!BitsWritten, Bits!Counted
<1>13. pc' \in {"scan", "done"} /\ i' \in 0..call'.limbs /\ memory' \in Int /\ result' \in Nat
  BY <1>1, <1>2, <1>3, <1>6 DEF y
<1> QED BY <1>8, <1>10, <1>11, <1>12, <1>13, Zenon DEF BitsInv

\* Without bits besides those of whole limbs, a limb is one of the number's.
LEMMA NoBits ==
  ASSUME NEW a \in 0..B-1, NEW b \in 0..B-1
  PROVE  ((a * 1) % B) + (b \div B) = a /\ ((b * B) % B) + (a \div 1) = a
<1>1. B \in Nat \ {0} /\ a \in Int /\ b \in Int
  BY WordAssumption
<1>2. a % B = a
  BY <1>1, a = B * 0 + a, QuotientUnique
<1>3. b \div B = 0
  BY <1>1, b = B * 0 + b, QuotientUnique
<1>4. (b * B) % B = 0
  BY <1>1, Undone
<1>5. a \div 1 = a
  BY <1>1, a = 1 * a + 0, 0 \in 0 .. 1-1, QuotientUnique
<1> QED BY <1>1, <1>2, <1>3, <1>4, <1>5

\* A limb is a word.
LEMMA DigitWord == \A v \in Int, P \in Nat \ {0} : Digit(v, P) \in 0..B-1
<1> SUFFICES ASSUME NEW v \in Int, NEW P \in Nat \ {0} PROVE Digit(v, P) \in 0..B-1
  OBVIOUS
<1>1. v \div P \in Int
  BY QuotientAndRemainder
<1> QED BY <1>1, BWord, QuotientAndRemainder DEF Digit

\* shift_right
LEMMA ShiftRightOK == ASSUME BitsInv, Bits!ShiftRight PROVE BitsInv'
<1> DEFINE v == call.value
           ls == Bits!limb_shift
           bs == Bits!bit_shift
           w == limb_bit_size
           S == 2^(w - bs)
           U == 2^bs
           M == B^ls
           K == B^i
           W == 2^call.shift
           P == B^(i + ls)
           current == Bits!Limb(Bits!Value, i + ls)
           next == Bits!Limb(Bits!Value, i + ls + 1)
           word == IF bs = 0 THEN current ELSE ((next * S) % B) + (current \div U)
<1>1. pc = "scan" /\ call.op = "shift_right" /\ i < call.limbs /\ Bits!Written(word)
  BY DEF Bits!ShiftRight, Bits!Scanning, Bits!Index, Bits!combined_shift_right
<1>2. /\ BitCall /\ call.limbs \in Nat /\ call.limbs <= BitLimbs /\ BitLimbs \in Nat
      /\ i \in Nat /\ v \in Int
  BY BitTypes
<1>3. /\ ls \in 0..BitLimbs /\ U \in Nat \ {0} /\ S \in Nat \ {0} /\ W = M * U
      /\ B = S * U /\ M \in Nat \ {0} /\ W \in Nat \ {0} /\ (bs = 0 => U = 1)
  <2>1. /\ ls \in 0..BitLimbs /\ U \in Nat \ {0} /\ S \in Nat \ {0} /\ W = M * U
        /\ B = U * S /\ M \in Nat \ {0} /\ W \in Nat \ {0} /\ (bs = 0 => U = 1)
    BY <1>2, ShiftParts
  <2> HIDE DEF U, S, M, W
  <2> QED BY <2>1
<1>4. Wanted = v \div W
  BY <1>1, WantedIs
<1>5. /\ i + ls \in Nat /\ i <= i + ls /\ i + ls < 2 * BitLimbs
      /\ i + ls + 1 \in Nat /\ i <= i + ls + 1 /\ i + ls + 1 <= 2 * BitLimbs /\ ls \in Nat
  <2> HIDE DEF ls
  <2> QED BY <1>1, <1>2, <1>3
<1>6. /\ P \in Nat \ {0} /\ B^(i + ls + 1) = P * B
  <2> HIDE DEF ls
  <2> QED BY <1>5, SpanNext
<1>7. P = M * K /\ K \in Nat \ {0}
  <2> DEFINE n == i + ls
  <2>1. n <= 2 * BitLimbs
    BY <1>2, <1>5
  <2>2. P = K * M /\ K \in Nat \ {0}
    <3> HIDE DEF ls
    <3> QED BY <1>2, <1>5, <2>1, SpanSum
  <2> HIDE DEF P, K, M
  <2> QED BY <1>3, <2>2
<1>8. current = Digit(v, P)
  <2> HIDE DEF ls
  <2> QED BY <1>1, <1>2, <1>5, ReadUp
<1>9. next = Digit(v, P * B)
  <2>1. next = Digit(v, B^(i + ls + 1))
    <3> HIDE DEF ls
    <3> QED BY <1>1, <1>2, <1>5, ReadUp
  <2> QED BY <1>6, <2>1
<1> HIDE DEF v, S, U, M, K, W, P, current, next
<1>10. Digit(v \div W, K) = ((next * S) % B) + (current \div U)
  <2>1. /\ v \in Int /\ S \in Nat \ {0} /\ U \in Nat \ {0} /\ M \in Nat \ {0} /\ K \in Nat \ {0}
    BY <1>2, <1>3, <1>7
  <2>2. B = S * U /\ W = M * U /\ P = M * K
    BY <1>3, <1>7
  <2>3. Digit(v \div W, K) = ((Digit(v, P * B) * S) % B) + (Digit(v, P) \div U)
    BY ONLY <2>1, <2>2, RightDigit
  <2> QED BY <1>8, <1>9, <2>3
<1>11. bs = 0 => Digit(v \div W, K) = current
  <2> SUFFICES ASSUME bs = 0 PROVE Digit(v \div W, K) = current
    OBVIOUS
  <2>1. U = 1
    BY <1>3
  <2>2. S = B
    BY <1>3, <2>1
  <2>3. current \in 0..B-1 /\ next \in 0..B-1
    <3>1. P * B \in Nat \ {0}
      BY <1>6, BWord
    <3> QED BY <1>2, <1>6, <1>8, <1>9, <3>1, DigitWord
  <2>4. ((next * B) % B) + (current \div 1) = current
    BY <2>3, NoBits
  <2> QED BY <1>10, <2>1, <2>2, <2>4
<1>12. word = Digit(Wanted, B^i)
  <2>1. word = Digit(v \div W, K)
    BY <1>10, <1>11
  <2> QED BY <1>4, <2>1 DEF K
<1> HIDE DEF word
<1> QED BY <1>1, <1>12, UpStep

\* bit_copy
LEMMA BitCopyOK == ASSUME BitsInv, Bits!BitCopy PROVE BitsInv'
<1>1. /\ pc = "scan" /\ call.op = "bit_copy" /\ i < call.limbs
      /\ Bits!Written(Bits!Limb(Bits!Value, i))
  BY DEF Bits!BitCopy, Bits!Scanning, Bits!Index
<1>2. call.limbs \in Nat /\ call.limbs <= BitLimbs /\ BitLimbs \in Nat /\ i \in Nat
  BY BitTypes
<1>3. i <= i /\ i <= 2 * BitLimbs
  BY <1>1, <1>2
<1>4. Bits!Limb(Bits!Value, i) = Digit(call.value, B^i)
  BY <1>1, <1>2, <1>3, ReadUp
<1>5. Wanted = call.value
  BY <1>1, WantedIs
<1> QED BY <1>1, <1>4, <1>5, UpStep

\* bit_not
LEMMA BitNotOK == ASSUME BitsInv, Bits!BitNot PROVE BitsInv'
<1>1. /\ pc = "scan" /\ call.op = "negate" /\ i < call.limbs
      /\ Bits!Written(B - 1 - Bits!Limb(Bits!Value, i))
  BY DEF Bits!BitNot, Bits!Scanning, Bits!Index
<1>2. /\ call.limbs \in Nat /\ call.limbs <= BitLimbs /\ BitLimbs \in Nat /\ i \in Nat
      /\ call.value \in Int
  BY BitTypes
<1>3. i <= i /\ i <= 2 * BitLimbs /\ i < 2 * BitLimbs
  BY <1>1, <1>2
<1>4. Bits!Limb(Bits!Value, i) = Digit(call.value, B^i)
  BY <1>1, <1>2, <1>3, ReadUp
<1>5. Wanted = -call.value - 1
  BY <1>1, WantedIs
<1>6. B^i \in Nat \ {0}
  BY <1>2, <1>3, SpanNext
<1>7. Digit(-call.value - 1, B^i) = B - 1 - Digit(call.value, B^i)
  BY <1>2, <1>6, InvertedDigit
<1>8. B - 1 - Bits!Limb(Bits!Value, i) = Digit(Wanted, B^i)
  BY <1>4, <1>5, <1>7
<1> QED BY <1>1, <1>8, UpStep

\* shift_left: limbs below the lowest one that is not zero
LEMMA LeftBelow ==
  ASSUME BitCall, NEW k0 \in Nat, k0 < Bits!limb_shift
  PROVE  Digit(call.value * 2^call.shift, B^k0) = 0
<1> DEFINE v == call.value
           ls == Bits!limb_shift
           S == 2^Bits!bit_shift
           M == B^ls
           K == B^k0
           N == B^(ls - (k0+1))
           W == 2^call.shift
           O == N * S
<1>1. v \in Int
  BY DEF BitCall
<1>2. ls \in 0..BitLimbs /\ BitLimbs \in Nat
  BY ShiftParts, LibraryAssumption, WordAssumption
<1>3. W = M * S /\ S \in Nat \ {0}
  BY ShiftParts
<1>4. /\ ls - (k0+1) \in Nat /\ k0+1 \in Nat /\ (k0+1) + (ls - (k0+1)) = ls
      /\ ls <= 2 * BitLimbs /\ k0 < 2 * BitLimbs
  <2> HIDE DEF ls
  <2> QED BY <1>2 DEF ls
<1>5. K \in Nat \ {0} /\ B^(k0+1) = K * B
  BY <1>4, SpanNext
<1>6. N \in Nat \ {0} /\ M = B^(k0+1) * N
  <2> DEFINE n == ls - (k0+1)
             m1 == k0+1
  <2>1. n \in Nat /\ m1 \in Nat /\ m1 + n = ls /\ ls <= 2 * BitLimbs
    BY <1>4
  <2> HIDE DEF n, m1, ls
  <2>2. B^ls = B^m1 * B^n /\ B^n \in Nat \ {0}
    BY <2>1, SpanSum
  <2> QED BY <2>2 DEF n, m1
<1> HIDE DEF v, S, M, K, N, W, ls
<1>7. W = (K * B) * O /\ O \in Nat
  <2>1. ((K * B) * N) * S = (K * B) * (N * S)
    BY <1>3, <1>5, <1>6, BWord
  <2> QED BY <1>3, <1>5, <1>6, <2>1
<1> HIDE DEF O
<1>8. Digit(v * W, K) = 0
  BY <1>1, <1>5, <1>7, LeftZero
<1> QED BY <1>8 DEF v, W, K

\* The lowest one
LEMMA LeftAt ==
  ASSUME BitCall, NEW current, current = Digit(call.value, B^0)
  PROVE  /\ Digit(call.value * 2^call.shift, B^Bits!limb_shift)
              = Bits!combined_shift_left(0, current, Bits!bit_shift)
         /\ Bits!bit_shift = 0 =>
              current = Bits!combined_shift_left(0, current, Bits!bit_shift)
<1> DEFINE v == call.value
           bs == Bits!bit_shift
           S == 2^bs
           U == 2^(limb_bit_size - bs)
           M == B^Bits!limb_shift
           W == 2^call.shift
           z == (current * S) % B
<1>1. v \in Int
  BY DEF BitCall
<1>2. /\ W = M * S /\ S \in Nat \ {0} /\ U \in Nat \ {0} /\ M \in Nat \ {0}
      /\ B = S * U /\ (bs = 0 => S = 1)
  BY ShiftParts
<1>3. current = v % B /\ current \in 0..B-1
  <2>1. B^0 = 1 /\ v \div 1 = v
    <3>1. v \div 1 = v
      BY <1>1, v = 1 * v + 0, 0 \in 0 .. 1-1, QuotientUnique
    <3> QED BY <3>1, PowerAssumption
  <2> HIDE DEF v
  <2>2. current = v % B
    BY <2>1 DEF Digit, v
  <2> QED BY <1>1, <2>2, BWord, QuotientAndRemainder
<1>4. Bits!combined_shift_left(0, current, bs) = z + (0 \div U)
  BY DEF Bits!combined_shift_left
<1> HIDE DEF v, S, U, M, W, bs
<1>5. 0 \div U = 0
  BY <1>2, 0 = U * 0 + 0, 0 \in 0 .. U-1, QuotientUnique
<1>6. z \in Int
  <2>1. current * S \in Int
    BY <1>2, <1>3
  <2> QED BY <2>1, BWord, QuotientAndRemainder
<1>7. Digit(v * W, M) = z
  <2> DEFINE R == v * W
  <2>1. Parted(S, U, M, W) /\ Scaled(R, v, W)
    BY <1>2 DEF Parted, Scaled
  <2> HIDE DEF R
  <2>2. Digit(R, M) = ((v % B) * S) % B
    BY <1>1, <1>2, <2>1, LeftLowest
  <2> QED BY <1>3, <2>2 DEF R
<1>8. bs = 0 => current = z
  <2> SUFFICES ASSUME bs = 0 PROVE current = z
    OBVIOUS
  <2>1. S = 1 /\ current * 1 = current /\ current % B = current
    BY <1>2, <1>3, BWord, current = B * 0 + current, QuotientUnique
  <2> QED BY <2>1
<1> HIDE DEF z
<1> QED BY <1>4, <1>5, <1>6, <1>7, <1>8 DEF v, M, W, bs

\* Those above
LEMMA LeftAbove ==
  ASSUME BitCall, NEW k0 \in Nat, Bits!limb_shift < k0, k0 < BitLimbs,
         NEW current, current = Digit(call.value, B^(k0 - Bits!limb_shift)),
         NEW previous, previous = Digit(call.value, B^(k0 - Bits!limb_shift - 1))
  PROVE  /\ Digit(call.value * 2^call.shift, B^k0)
              = Bits!combined_shift_left(previous, current, Bits!bit_shift)
         /\ Bits!bit_shift = 0 =>
              current = Bits!combined_shift_left(previous, current, Bits!bit_shift)
<1> DEFINE v == call.value
           ls == Bits!limb_shift
           bs == Bits!bit_shift
           S == 2^bs
           U == 2^(limb_bit_size - bs)
           M == B^ls
           W == 2^call.shift
           n == k0 - ls - 1
           P == B^n
           K == B^k0
           z == ((current * S) % B) + (previous \div U)
<1>1. v \in Int
  BY DEF BitCall
<1>2. /\ W = M * S /\ S \in Nat \ {0} /\ U \in Nat \ {0} /\ M \in Nat \ {0}
      /\ B = S * U /\ (bs = 0 => S = 1) /\ ls \in 0..BitLimbs /\ BitLimbs \in Nat
  <2>1. BitLimbs \in Nat
    BY LibraryAssumption, WordAssumption
  <2> QED BY <2>1, ShiftParts
<1>3. Bits!combined_shift_left(previous, current, bs) = z
  BY DEF Bits!combined_shift_left
<1>4. /\ n \in Nat /\ n < 2 * BitLimbs /\ n + 1 = k0 - ls /\ ls + (n+1) = k0 /\ ls \in Nat
      /\ k0 <= 2 * BitLimbs /\ n+1 \in Nat
  <2> HIDE DEF ls
  <2> QED BY <1>2 DEF ls
<1> HIDE DEF n
<1>5. P \in Nat \ {0} /\ B^(n+1) = P * B
  BY <1>4, SpanNext
<1>6. K = M * (P * B) /\ K \in Nat \ {0}
  <2> DEFINE m1 == n + 1
  <2>1. m1 \in Nat /\ ls + m1 = k0 /\ ls \in Nat /\ ls + m1 <= 2 * BitLimbs
    BY <1>4
  <2> HIDE DEF m1, ls
  <2>2. B^(ls + m1) = B^ls * B^m1 /\ B^(ls + m1) \in Nat \ {0}
    BY ONLY <2>1, SpanSum
  <2>3. B^m1 = P * B
    BY <1>5 DEF m1
  <2> QED BY <2>1, <2>2, <2>3
<1>7. current = Digit(v, P * B) /\ previous = Digit(v, P)
  BY <1>4, <1>5 DEF n
<1> HIDE DEF v, S, U, M, W, P, K, bs, ls
<1>8. Digit(v * W, K) = z
  <2>1. v \in Int /\ S \in Nat \ {0} /\ U \in Nat \ {0} /\ M \in Nat \ {0} /\ P \in Nat \ {0}
    BY <1>1, <1>2, <1>5
  <2> DEFINE R == v * W
  <2>2. Parted(S, U, M, W) /\ Moved(P, M, K) /\ Scaled(R, v, W)
    BY <1>2, <1>6 DEF Parted, Moved, Scaled
  <2> HIDE DEF R
  <2>3. Digit(R, K) = ((Digit(v, P * B) * S) % B) + (Digit(v, P) \div U)
    BY <2>1, <2>2, LeftDigit
  <2> QED BY <1>7, <2>3 DEF R
<1>9. bs = 0 => current = z
  <2> SUFFICES ASSUME bs = 0 PROVE current = z
    OBVIOUS
  <2>1. S = 1
    BY <1>2
  <2>2. U = B
    BY <1>2, <2>1
  <2>3. current \in 0..B-1 /\ previous \in 0..B-1
    <3>1. P * B \in Nat \ {0}
      BY <1>5, BWord
    <3> QED BY <1>1, <1>5, <1>7, <3>1, DigitWord
  <2>4. ((current * 1) % B) + (previous \div B) = current
    BY <2>3, NoBits
  <2> QED BY <2>1, <2>2, <2>4
<1> HIDE DEF z
<1> QED BY <1>3, <1>8, <1>9 DEF v, K, W, bs

\* shift_left
LEMMA ShiftLeftOK == ASSUME BitsInv, Bits!ShiftLeft PROVE BitsInv'
<1> DEFINE v == call.value
           ls == Bits!limb_shift
           bs == Bits!bit_shift
           W == 2^call.shift
           k0 == call.limbs - 1 - i
           current == Bits!Limb(Bits!Value, k0 - ls)
           previous == IF k0 > ls THEN Bits!Limb(Bits!Value, k0 - ls - 1) ELSE 0
           word == IF k0 < ls THEN 0
                   ELSE IF bs = 0 THEN current
                   ELSE Bits!combined_shift_left(previous, current, bs)
<1>1. pc = "scan" /\ call.op = "shift_left" /\ i < call.limbs /\ Bits!Written(word)
  BY DEF Bits!ShiftLeft, Bits!Scanning, Bits!Index
<1>2. /\ BitCall /\ call.limbs \in Nat /\ call.limbs <= BitLimbs /\ BitLimbs \in Nat
      /\ i \in Nat /\ v \in Int
  BY BitTypes
<1>3. Wanted = v * W
  BY <1>1, WantedIs
<1>4. k0 \in Nat /\ k0 < BitLimbs /\ k0 < call.limbs - i
  BY <1>1, <1>2
<1>5. ls \in Nat
  BY <1>2, ShiftParts
<1> HIDE DEF k0
<1>6. word = Digit(Wanted, B^k0)
  <2>1. CASE k0 < ls
    <3>1. Digit(v * W, B^k0) = 0
      BY <1>2, <1>4, <2>1, LeftBelow
    <3> QED BY <1>3, <2>1, <3>1
  <2>2. CASE k0 = ls
    <3>1. k0 - ls = 0 /\ ~(k0 > ls) /\ ~(k0 < ls)
      BY <1>4, <1>5, <2>2
    <3>2. current = Digit(v, B^0)
      <4>1. 0 \in Nat /\ 0 < call.limbs - i
        BY <1>1, <1>2
      <4>2. Bits!Limb(Bits!Value, 0) = Digit(v, B^0)
        BY <1>1, <4>1, ReadDown
      <4> QED BY <3>1, <4>2
    <3>3. previous = 0
      BY <3>1
    <3> HIDE DEF current, previous, bs
    <3>4. /\ Digit(v * W, B^ls) = Bits!combined_shift_left(0, current, bs)
          /\ bs = 0 => current = Bits!combined_shift_left(0, current, bs)
      BY <1>2, <3>2, LeftAt DEF bs
    <3> QED BY <1>3, <2>2, <3>1, <3>3, <3>4
  <2>3. CASE k0 > ls
    <3>1. k0 - ls \in Nat /\ k0 - ls < call.limbs - i /\ ~(k0 < ls)
      BY <1>2, <1>4, <1>5, <2>3
    <3>2. k0 - ls - 1 \in Nat /\ k0 - ls - 1 < call.limbs - i
      BY <1>2, <1>4, <1>5, <2>3
    <3>3. current = Digit(v, B^(k0 - ls))
      BY <1>1, <3>1, ReadDown
    <3>4. previous = Digit(v, B^(k0 - ls - 1))
      BY <1>1, <2>3, <3>2, ReadDown
    <3> HIDE DEF current, previous, bs
    <3>5. /\ Digit(v * W, B^k0) = Bits!combined_shift_left(previous, current, bs)
          /\ bs = 0 => current = Bits!combined_shift_left(previous, current, bs)
      BY <1>2, <1>4, <2>3, <3>3, <3>4, LeftAbove DEF bs
    <3> QED BY <1>3, <3>1, <3>5
  <2> QED BY <1>4, <1>5, <2>1, <2>2, <2>3
<1> HIDE DEF word
<1>7. Bits!Written(Digit(Wanted, B^(call.limbs - 1 - i)))
  BY <1>1, <1>6 DEF k0
<1> QED BY <1>1, <1>7, DownStep

\* Numbers of bits of a span
LEMMA SpanBits ==
  ASSUME NEW n \in 0..BitLimbs
  PROVE  /\ limb_bit_size * n \in Exponents /\ limb_bit_size * n \in Nat
         /\ limb_bit_size * n + 1 \in Exponents
         /\ B^n = 2^(limb_bit_size * n) /\ B^n \in Nat \ {0}
<1> DEFINE w == limb_bit_size
           wn == w * n
           most == w * (2 * BitLimbs)
<1>1. w \in Nat \ {0} /\ BitLimbs \in Nat \ {0}
  BY LibraryAssumption, WordAssumption
<1>2. wn \in Nat /\ most \in Nat /\ wn + 1 <= most
  <2>1. w * n <= w * BitLimbs /\ w * BitLimbs >= 1 /\ w * n \in Nat /\ w * BitLimbs \in Nat
    <3>1. w * BitLimbs >= w * 1
      BY <1>1
    <3> QED BY <1>1, <3>1
  <2>2. w * (2 * BitLimbs) = w * BitLimbs + w * BitLimbs
    BY <1>1
  <2> DEFINE wb == w * BitLimbs
  <2> HIDE DEF wn, most, wb
  <2>3. wn <= wb /\ wb >= 1 /\ wn \in Nat /\ wb \in Nat /\ most = wb + wb
    BY <2>1, <2>2 DEF wn, most, wb
  <2> QED BY <2>3
<1>3. n \in 0 .. 2 * BitLimbs /\ n \in 0..n
  BY <1>1
<1>4. wn \in Exponents /\ B^n = 2^wn /\ B^n \in Nat \ {0}
  BY <1>3, SpanPower
<1>5. wn + 1 \in Exponents
  <2> HIDE DEF wn
  <2>1. wn + 1 \in 0..most
    BY <1>2
  <2> QED BY <2>1 DEF Exponents, most
<1> QED BY <1>2, <1>4, <1>5 DEF wn

\* Numbers have the sizes that they are said to have.
LEMMA BitsFit ==
  ASSUME BitCall, call.op \in Bits!Scans
  PROVE  /\ call.bits \in Exponents /\ call.bits \in Nat /\ 2^call.bits \in Nat \ {0}
         /\ Magnitude \in Nat /\ Magnitude < 2^call.bits
         /\ 2^call.bits <= B^call.limbs /\ call.bits <= limb_bit_size * call.limbs
         /\ Bits!HasWidth(call.value, call.bits)
         /\ call.op = "countr_zero" => call.value \in Nat /\ Magnitude = call.value
<1> DEFINE w == limb_bit_size
           wn == w * call.limbs
           n == call.bits
           v == call.value
<1>1. /\ call.limbs \in 0..BitLimbs /\ n \in Nat /\ v \in Int /\ n <= call.limbs * w
      /\ w \in Nat \ {0} /\ BitLimbs \in Nat
      /\ call.op = "countr_zero" => ~call.signed
      /\ IF call.signed THEN n > 0 /\ v \in -2^(n - 1) .. 2^(n - 1) - 1 ELSE v \in 0 .. 2^n - 1
  <2>1. w \in Nat \ {0} /\ BitLimbs \in Nat
    BY LibraryAssumption, WordAssumption
  <2>2. call.limbs \in 0..BitLimbs /\ n \in 0 .. BitLimbs * w /\ v \in Int /\ Bits!Allowed(call)
    BY DEF BitCall
  <2>3. n <= call.limbs * w
    BY <2>2 DEF Bits!Allowed
  <2>4. /\ call.op = "countr_zero" => ~call.signed
        /\ IF call.signed THEN n > 0 /\ v \in -2^(n - 1) .. 2^(n - 1) - 1 ELSE v \in 0 .. 2^n - 1
    BY <2>2 DEF Bits!Allowed
  <2> QED BY <2>1, <2>2, <2>3, <2>4
<1>2. wn \in Exponents /\ wn \in Nat /\ B^call.limbs = 2^wn
  BY <1>1, SpanBits
<1>3. n <= wn /\ n \in 0..wn
  BY <1>1, <1>2
<1> HIDE DEF n, wn, v
<1>4. /\ n \in Exponents /\ n \in 0..n /\ 2^n \in Nat \ {0} /\ 2^n <= 2^wn
  BY <1>1, <1>2, <1>3, ExponentOK
<1>5. n > 0 => 2^n = 2 * 2^(n-1) /\ 2^(n-1) \in Nat \ {0}
  BY <1>4, ExponentOK
<1> DEFINE Y == 2^n
           Z == 2^(n-1)
<1>6. /\ Y \in Nat \ {0} /\ (n > 0 => Y = 2 * Z /\ Z \in Nat \ {0})
      /\ IF call.signed THEN n > 0 /\ v \in -Z .. Z - 1 ELSE v \in 0 .. Y - 1
  BY <1>1, <1>4, <1>5
<1> HIDE DEF Y, Z
<1>7. Magnitude = IF v < 0 THEN -v - 1 ELSE v
  BY DEF Magnitude, v
<1>8. Magnitude \in Nat /\ Magnitude < Y /\ (IF v < 0 THEN 2 * v >= -Y ELSE v < Y)
  BY <1>1, <1>6, <1>7
<1>9. call.op = "countr_zero" => v \in Nat /\ Magnitude = v
  BY <1>1, <1>6, <1>7
<1> QED BY <1>1, <1>2, <1>3, <1>4, <1>8, <1>9 DEF Bits!HasWidth, n, v, wn, Y

\* In the beginning
LEMMA InitBitsInv == Bits!Init => BitsInv
<1> SUFFICES ASSUME Bits!Init PROVE BitsInv
  OBVIOUS
<1>1. BitNumbers \subseteq Int
  BY LibraryAssumption
<1>2. BitCall /\ i = 0 /\ result = 0 /\ pc = "scan" /\ call.limbs \in 0..BitLimbs
  BY <1>1 DEF Bits!Init, BitCall
<1>3. memory = (IF call.in_place THEN call.value ELSE 0) /\ call.value \in Int
  BY <1>2 DEF Bits!Init, BitCall
<1>4. BitLimbs \in Nat /\ limb_bit_size \in Nat
  BY LibraryAssumption, WordAssumption
<1>5. call.limbs \in Nat /\ call.limbs - 0 = call.limbs
  BY <1>2, <1>4
<1>6. Wanted \in Int
  BY <1>2, WantedInt
<1>7. memory \in Int
  BY <1>3
<1>8. ASSUME NEW x \in Int PROVE x % B^0 = 0
  <2>1. x % 1 = 0
    BY x = 1 * x + 0, 0 \in 0 .. 1-1, QuotientUnique
  <2> QED BY <2>1, PowerAssumption
<1>9. UpwardInv
  BY <1>2, <1>3, <1>6, <1>7, <1>8 DEF UpwardInv
<1>10. DownwardInv
  <2> DEFINE Q == B^call.limbs
  <2>1. Q \in Nat \ {0}
    BY <1>2, SpanBits
  <2> HIDE DEF Q
  <2>2. memory \div Q \in Int /\ Wanted \div Q \in Int
    BY <1>6, <1>7, <2>1, QuotientAndRemainder
  <2>3. (memory \div Q) % B^0 = 0 /\ (Wanted \div Q) % B^0 = 0
    BY <1>8, <2>2
  <2> QED BY <1>2, <1>3, <1>5, <2>3 DEF DownwardInv, Q
<1>11. WidthInv
  <2> SUFFICES ASSUME call.op = "bit_width"
               PROVE result \in 0 .. limb_bit_size * call.limbs /\ Magnitude < B^call.limbs
    BY <1>2, <1>5 DEF WidthInv
  <2>1. call.op \in Bits!Scans
    BY DEF Bits!Scans
  <2> DEFINE a == 2^call.bits
             b == B^call.limbs
             c == limb_bit_size * call.limbs
  <2>2. Magnitude \in Nat /\ Magnitude < a /\ a <= b /\ a \in Nat
    BY <1>2, <2>1, BitsFit
  <2>3. b \in Nat /\ c \in Nat
    BY <1>2, SpanBits
  <2> HIDE DEF a, b, c
  <2>4. Magnitude < b /\ result \in 0..c
    BY <1>2, <2>2, <2>3
  <2> QED BY <2>4 DEF b, c
<1>12. ZerosInv
  BY <1>2, <1>3, <1>4, <1>8 DEF ZerosInv
<1>13. Bits!BitsWritten /\ Bits!Counted
  BY <1>2 DEF Bits!BitsWritten, Bits!Counted
<1> QED
  BY <1>2, <1>5, <1>7, <1>9, <1>10, <1>11, <1>12, <1>13 DEF BitsInv

\* One is added to what is inverted.
LEMMA EndNegateOK == ASSUME BitsInv, Bits!EndNegate PROVE BitsInv'
<1> DEFINE Q == B^call.limbs
           R == -call.value - 1
<1>1. /\ pc = "scan" /\ call.op = "negate" /\ i = call.limbs
      /\ memory' = (memory + 1) % Q
      /\ pc' = "done" /\ call' = call /\ i' = i /\ result' = result
  BY DEF Bits!EndNegate, Bits!FirstLimbs
<1>2. /\ BitCall /\ call.limbs \in Nat /\ memory \in Int /\ call.value \in Int
      /\ call.limbs \in 0..BitLimbs
  BY BitTypes DEF BitCall
<1>3. memory % Q = R % Q /\ result \in Nat /\ i \in 0..call.limbs
  <2>1. memory % B^i = Wanted % B^i
    BY <1>1 DEF BitsInv, UpwardInv
  <2>2. Wanted = R
    BY <1>1, WantedIs
  <2> QED BY <1>1, <2>1, <2>2 DEF BitsInv
<1>4. Q \in Nat \ {0}
  BY <1>2, SpanBits
<1>5. R \in Int /\ R + 1 = -call.value
  BY <1>2
<1> HIDE DEF Q, R
<1>6. ((memory + 1) % Q) % Q = (R + 1) % Q /\ (memory + 1) % Q \in Int
  BY <1>2, <1>3, <1>4, <1>5, OneMore
<1>7. memory' % Q = (-call.value) % Q /\ memory' \in Int
  BY <1>1, <1>5, <1>6
<1>8. Bits!BitsWritten'
  BY <1>1, <1>7 DEF Bits!BitsWritten, Bits!FirstLimbs, Q
<1>9. Bits!Counted'
  BY <1>1 DEF Bits!Counted
<1>10. BitCall'
  BY <1>1, <1>2, SameBitCall
<1> QED BY <1>1, <1>3, <1>7, <1>8, <1>9, <1>10 DEF BitsInv

\* Shifts and copies have written all limbs.
LEMMA EndWriters ==
  ASSUME BitsInv, Bits!End, call.op \in {"shift_left", "shift_right", "bit_copy"}
  PROVE  BitsInv'
<1> DEFINE Q == B^call.limbs
<1>1. /\ pc = "scan" /\ i = call.limbs /\ memory' = memory /\ result' = result
      /\ pc' = "done" /\ call' = call /\ i' = i
  BY DEF Bits!End
<1>2. /\ BitCall /\ call.limbs \in Nat /\ memory \in Int /\ Wanted \in Int
      /\ call.limbs \in 0..BitLimbs
  BY BitTypes DEF BitCall
<1>3. result \in Nat /\ i \in 0..call.limbs
  BY DEF BitsInv
<1>4. memory % Q = Wanted % Q
  <2>1. CASE call.op = "shift_left"
    <3>1. (memory \div B^(call.limbs - i)) % Q = (Wanted \div B^(call.limbs - i)) % Q
      BY <1>1, <2>1 DEF BitsInv, DownwardInv
    <3>2. call.limbs - i = 0
      BY <1>1, <1>2
    <3>3. B^(call.limbs - i) = 1
      BY <3>2, PowerAssumption
    <3>4. memory \div 1 = memory /\ Wanted \div 1 = Wanted
      BY <1>2, memory = 1 * memory + 0, Wanted = 1 * Wanted + 0, 0 \in 0 .. 1-1, QuotientUnique
    <3> HIDE DEF Q
    <3> QED BY <3>1, <3>3, <3>4
  <2>2. CASE call.op \in {"shift_right", "bit_copy"}
    BY <1>1, <2>2 DEF BitsInv, UpwardInv
  <2> QED BY <2>1, <2>2
<1>5. Bits!BitsWritten'
  BY <1>1, <1>4, WantedIs DEF Bits!BitsWritten, Bits!FirstLimbs
<1>6. Bits!Counted'
  BY <1>1 DEF Bits!Counted
<1>7. BitCall'
  BY <1>1, <1>2, SameBitCall
<1> QED BY <1>1, <1>2, <1>3, <1>5, <1>6, <1>7 DEF BitsInv

\* core::bit_width: the number of bits that a limb needs
LEMMA CoreWidth ==
  ASSUME NEW d \in 0..B-1
  PROVE  /\ Bits!core_bit_width(d) \in 0..limb_bit_size
         /\ d < 2^Bits!core_bit_width(d)
         /\ Bits!core_bit_width(d) > 0 => 2^(Bits!core_bit_width(d) - 1) <= d
<1> DEFINE w == limb_bit_size
           Width(n) == d < 2^n /\ (n > 0 => 2^(n-1) <= d)
           S == {n \in 0..w : d < 2^n}
<1>1. w \in Nat \ {0} /\ w \in Exponents /\ 2^w = B /\ d \in Int
  BY BitsOK, BWord
<1>2. \A n \in 0..w : 2^n \in Nat
  BY <1>1, ExponentOK
<1>3. PICK n \in S : \A l \in S : n <= l
  <2>1. S # {} /\ S \in SUBSET Nat
    BY <1>1, BWord
  <2> HIDE DEF S
  <2> QED BY <2>1, LeastOfSet
<1>4. n \in 0..w /\ Width(n)
  <2>1. n \in 0..w /\ d < 2^n /\ n \in Nat
    BY <1>1, <1>3
  <2>2. ASSUME n > 0 PROVE 2^(n-1) <= d
    <3>1. n-1 \in 0..w /\ ~(n <= n-1)
      BY <1>1, <2>1, <2>2
    <3>2. ~(d < 2^(n-1))
      BY <1>3, <3>1
    <3>3. 2^(n-1) \in Nat
      BY <1>2, <3>1
    <3> QED BY <1>1, <3>2, <3>3
  <2> QED BY <2>1, <2>2
<1>5. Bits!core_bit_width(d) = CHOOSE l \in 0..w : Width(l)
  BY DEF Bits!core_bit_width
<1> QED BY <1>4, <1>5

\* core::countr_zero: how often two divides a limb
LEMMA CoreZeros ==
  ASSUME NEW d \in 1..B-1
  PROVE  /\ Bits!core_countr_zero(d) \in 0 .. limb_bit_size - 1
         /\ d % 2^Bits!core_countr_zero(d) = 0
         /\ d % 2^(Bits!core_countr_zero(d) + 1) # 0
<1> DEFINE w == limb_bit_size
           Zeros(n) == d % 2^n = 0 /\ d % 2^(n+1) # 0
           S == {n \in 0..w : d % 2^n # 0}
           z == CHOOSE l \in 0..w : Zeros(l)
<1>1. w \in Nat \ {0} /\ 2^w = B /\ d \in Int /\ d # 0
  BY BitsOK, BWord
<1>2. d % 2^w = d
  BY <1>1, BWord, d = B * 0 + d, QuotientUnique
<1>3. d % 2^0 = 0
  <2>1. d % 1 = 0
    BY <1>1, d = 1 * d + 0, 0 \in 0 .. 1-1, QuotientUnique
  <2> QED BY <2>1, TwoAssumption
<1>4. PICK n \in S : \A l \in S : n <= l
  <2>0. w \in 0..w /\ 0..w \subseteq Nat
    BY <1>1
  <2>1. S # {} /\ S \in SUBSET Nat
    <3>1. w \in S
      BY <1>1, <1>2, <2>0
    <3> QED BY <2>0, <3>1
  <2> HIDE DEF S
  <2> QED BY <2>1, LeastOfSet
<1>5. n-1 \in 0..w /\ Zeros(n-1)
  <2>1. n \in 0..w /\ d % 2^n # 0
    BY <1>4
  <2>4. n # 0
    BY <1>3, <2>1
  <2>5. n \in Nat
    BY <1>1, <2>1
  <2>2. n-1 \in 0..w /\ ~(n <= n-1) /\ (n-1) + 1 = n
    BY <1>1, <2>1, <2>4, <2>5
  <2>3. n-1 \notin S
    BY <1>4, <2>2
  <2> QED BY <2>1, <2>2, <2>3
<1>6. z \in 0..w /\ Zeros(z)
  BY <1>5
<1> HIDE DEF z
<1>7. z # w
  BY <1>1, <1>2, <1>6
<1>8. Bits!core_countr_zero(d) = z
  BY <1>1 DEF Bits!core_countr_zero, z
<1> QED BY <1>1, <1>6, <1>7, <1>8

\* Bits of a limb as bits of a span
LEMMA BitsAbove ==
  ASSUME NEW k0 \in Nat, k0 < BitLimbs, NEW b \in 0..limb_bit_size
  PROVE  /\ limb_bit_size * k0 + b \in Exponents /\ b \in Exponents
         /\ limb_bit_size * k0 \in Nat
         /\ limb_bit_size * (k0+1) = limb_bit_size * k0 + limb_bit_size
         /\ 2^(limb_bit_size * k0 + b) = B^k0 * 2^b
         /\ 2^b \in Nat \ {0} /\ B^k0 \in Nat \ {0}
<1> DEFINE w == limb_bit_size
           wk == w * k0
           n == wk + b
<1>1. w \in Nat \ {0} /\ BitLimbs \in Nat /\ b \in Nat /\ b <= w
  BY LibraryAssumption, WordAssumption
<1>2. k0 \in 0..BitLimbs /\ k0+1 \in 0..BitLimbs
  BY <1>1
<1>3. wk \in Exponents /\ wk \in Nat /\ B^k0 = 2^wk /\ B^k0 \in Nat \ {0}
  BY <1>2, SpanBits
<1>4. w * (k0+1) \in Exponents /\ w * (k0+1) = wk + w
  <2>1. w * (k0+1) \in Exponents
    BY <1>2, SpanBits
  <2>2. w * (k0+1) = wk + w
    BY <1>1
  <2> QED BY <2>1, <2>2
<1> HIDE DEF wk
<1>5. n \in 0 .. wk + w /\ wk \in 0..n /\ n - wk = b
  BY <1>1, <1>3
<1>6. n \in Exponents
  BY <1>4, <1>5, ExponentOK
<1> HIDE DEF n
<1>7. 2^n = 2^wk * 2^(n - wk) /\ 2^(n - wk) \in Nat \ {0} /\ n - wk \in Exponents
  BY <1>5, <1>6, ExponentOK
<1> QED BY <1>3, <1>4, <1>5, <1>6, <1>7 DEF n, wk

\* A limb of a number that has no higher ones
LEMMA HighestLimb ==
  ASSUME NEW x \in Nat, NEW P \in Nat \ {0}, x < P * B
  PROVE  /\ Digit(x, P) \in 0..B-1 /\ P * Digit(x, P) <= x /\ x < P * (Digit(x, P) + 1)
<1> DEFINE h == x \div P
           s == x % P
<1>1. h \in Nat /\ s \in Nat /\ s < P /\ x = P * h + s
  BY QuotientNat
<1>2. h < B
  BY BWord, QuotientLess
<1> HIDE DEF h, s
<1>3. h % B = h
  BY <1>1, <1>2, BWord, h = B * 0 + h, QuotientUnique
<1>4. P * h <= x /\ x < P * (h + 1)
  <2>1. P * (h + 1) = P * h + P /\ P * h \in Nat
    BY <1>1
  <2> DEFINE Ph == P * h
             Pn == P * (h + 1)
  <2>2. Pn = Ph + P /\ Ph \in Nat /\ x = Ph + s
    BY <1>1, <2>1
  <2> HIDE DEF Ph, Pn
  <2>3. Ph <= x /\ x < Pn
    BY <1>1, <2>2
  <2> QED BY <2>3 DEF Ph, Pn
<1> QED BY <1>1, <1>2, <1>3, <1>4, BWord DEF Digit, h

\* The bits that a number needs are those of its highest limb and those of the limbs below.
LEMMA WidthPlaced ==
  ASSUME NEW x \in Nat, NEW k0 \in Nat, k0 < BitLimbs, x < B^k0 * B,
         NEW b \in 1..limb_bit_size, 2^(b-1) <= Digit(x, B^k0), Digit(x, B^k0) < 2^b
  PROVE  2^((limb_bit_size * k0 + b) - 1) <= x /\ x < 2^(limb_bit_size * k0 + b)
<1> DEFINE P == B^k0
           d == Digit(x, P)
           u == 2^(b-1)
           v == 2^b
           n == limb_bit_size * k0
<1>1. b-1 \in 0..limb_bit_size /\ b \in 0..limb_bit_size /\ limb_bit_size \in Nat
  BY BitsOK
<1>2. 2^(n + b) = P * v /\ v \in Nat \ {0} /\ P \in Nat \ {0} /\ n \in Nat
  BY <1>1, BitsAbove
<1>3. 2^((n + b) - 1) = P * u /\ u \in Nat \ {0}
  <2>1. 2^(n + (b-1)) = P * u /\ u \in Nat \ {0}
    BY <1>1, BitsAbove
  <2>2. n + (b-1) = (n + b) - 1
    <3> HIDE DEF n
    <3> QED BY <1>1, <1>2
  <2> QED BY <2>1, <2>2
<1>4. d \in 0..B-1 /\ P * d <= x /\ x < P * (d+1)
  BY <1>2, HighestLimb
<1>5. u <= d /\ d + 1 <= v /\ d \in Nat
  <2>1. u <= d /\ d < v
    OBVIOUS
  <2> HIDE DEF d, u, v
  <2> QED BY <1>2, <1>3, <1>4, <2>1, BWord
<1> HIDE DEF P, d, u, v
<1>6. P * u <= P * d /\ P * (d+1) <= P * v
  BY <1>2, <1>3, <1>5
<1> DEFINE Pu == P * u
           Pd == P * d
           Pn == P * (d+1)
           Pv == P * v
<1>7. Pu <= Pd /\ Pn <= Pv /\ Pd <= x /\ x < Pn /\ Pu \in Nat /\ Pd \in Nat /\ Pn \in Nat
      /\ Pv \in Nat
  BY <1>2, <1>3, <1>4, <1>5, <1>6
<1> HIDE DEF Pu, Pd, Pn, Pv
<1>8. Pu <= x /\ x < Pv
  BY <1>7
<1> QED BY <1>2, <1>3, <1>8 DEF Pu, Pv

\* Functions that only look at a number do not write it.
LEMMA ScanValue ==
  ASSUME BitCall, call.op \in Bits!Scans
  PROVE  Bits!Value = call.value
BY DEF BitCall, Bits!Allowed, Bits!Value

\* bit_width
LEMMA BitWidthOK == ASSUME BitsInv, Bits!BitWidth PROVE BitsInv'
<1> DEFINE v == call.value
           x == Magnitude
           w == limb_bit_size
           k0 == call.limbs - 1 - i
           P == B^k0
           wk == w * k0
           d == IF v < 0 THEN B - 1 - Bits!Limb(v, k0) ELSE Bits!Limb(v, k0)
           width == Bits!core_bit_width(d)
           placed == wk + width
           wl == w * call.limbs
<1>1. /\ BitCall /\ call.limbs \in Nat /\ call.limbs <= BitLimbs /\ BitLimbs \in Nat
      /\ i \in Nat /\ v \in Int /\ w \in Nat \ {0}
  BY BitTypes, BitsOK
<1>2. /\ pc = "scan" /\ call.op = "bit_width" /\ i < call.limbs /\ call.op \in Bits!Scans
  BY DEF Bits!BitWidth, Bits!Scanning, Bits!Scans
<1>3. /\ i' = i+1 /\ call' = call /\ pc' = pc /\ memory' = memory
      /\ result' = IF result = 0 /\ width # 0 THEN placed ELSE result
  <2>1. Bits!Value = v
    BY <1>1, <1>2, ScanValue
  <2>2. /\ i' = i+1 /\ call' = call /\ pc' = pc /\ memory' = memory
        /\ result' = IF result = 0 /\ width # 0 THEN width + k0 * w ELSE result
    BY <1>2, <2>1 DEF Bits!BitWidth, Bits!Index
  <2>3. width + k0 * w = placed
    <3>1. k0 \in Int
      BY <1>1
    <3>2. k0 * w = wk /\ wk \in Int
      <4> HIDE DEF k0
      <4> QED BY <1>1, <3>1
    <3> HIDE DEF wk, d
    <3>3. d \in 0..B-1
      <4>1. B^k0 \in Nat \ {0}
        <5>1. k0 \in Nat /\ k0 < 2 * BitLimbs
          BY <1>1, <1>2
        <5> HIDE DEF k0
        <5> QED BY <5>1, SpanNext
      <4>2. Bits!Limb(v, k0) \in 0..B-1
        <5> HIDE DEF k0, v
        <5> QED BY <1>1, <4>1, DigitWord DEF Bits!Limb, Digit
      <4> DEFINE l == Bits!Limb(v, k0)
      <4>3. l \in 0..B-1 /\ d = IF v < 0 THEN B - 1 - l ELSE l
        BY <4>2 DEF d
      <4> HIDE DEF l
      <4> QED BY <4>3, BWord
    <3>4. width \in Int
      BY <1>1, <3>3, CoreWidth
    <3> HIDE DEF width
    <3> QED BY <3>2, <3>4
  <2> QED BY <2>2, <2>3
<1>4. /\ k0 \in Nat /\ k0 < BitLimbs /\ k0 < 2 * BitLimbs /\ k0+1 = call.limbs - i
      /\ call.limbs - (i+1) = k0 /\ k0+1 <= call.limbs
  BY <1>1, <1>2
<1>5. x \in Nat
  BY <1>1, <1>2, BitsFit
<1>6. /\ result \in Nat /\ result \in 0..wl /\ memory \in Int
      /\ result = 0 => x < B^(k0+1)
      /\ result > 0 => 2^(result - 1) <= x /\ x < 2^result
  BY <1>2, <1>4 DEF BitsInv, WidthInv
<1> HIDE DEF k0
<1>7. P \in Nat \ {0} /\ B^(k0+1) = P * B
  BY <1>4, SpanNext
<1>8. d = Digit(x, P)
  <2>1. Digit(-v - 1, P) = B - 1 - Digit(v, P)
    BY <1>1, <1>7, InvertedDigit
  <2> QED BY <2>1 DEF Magnitude, Digit, Bits!Limb
<1> HIDE DEF x, d
<1>9. d \in 0..B-1
  BY <1>5, <1>7, <1>8, DigitWord
<1>10. width \in 0..w /\ d < 2^width /\ (width > 0 => 2^(width - 1) <= d)
  BY <1>9, CoreWidth
<1> HIDE DEF width
<1>11. wk \in Nat /\ wk + w <= wl /\ wl \in Nat
  <2>1. w * (k0+1) <= w * call.limbs /\ w * (k0+1) = w * k0 + w /\ w * k0 \in Nat
    BY <1>1, <1>4
  <2>2. w * call.limbs \in Nat
    BY <1>1
  <2> QED BY <2>1, <2>2
<1> HIDE DEF wl
<1>12. /\ result' \in 0..wl
       /\ result' = 0 => x < P
       /\ result' > 0 => 2^(result' - 1) <= x /\ x < 2^result'
  <2>1. CASE result = 0 /\ width # 0
    <3>1. result' = placed /\ width \in 1..w /\ x < P * B
      BY <1>1, <1>3, <1>6, <1>7, <1>10, <2>1
    <3>2. 2^(placed - 1) <= x /\ x < 2^placed
      <4>1. 2^(width - 1) <= Digit(x, P) /\ Digit(x, P) < 2^width
        BY <1>8, <1>10, <3>1
      <4> QED BY <1>4, <1>5, <3>1, <4>1, WidthPlaced
    <3> HIDE DEF wk
    <3>3. placed \in 0..wl /\ placed > 0
      BY <1>1, <1>11, <3>1
    <3> HIDE DEF placed
    <3> QED BY <3>1, <3>2, <3>3
  <2>2. CASE result = 0 /\ width = 0
    <3>1. result' = 0
      BY <1>3, <2>2
    <3>2. d = 0
      <4>1. d < 2^0
        BY <1>10, <2>2
      <4>2. 2^0 = 1
        BY TwoAssumption
      <4>3. d < 1
        BY <4>1, <4>2
      <4> QED BY <1>9, <4>3
    <3>3. x < P
      <4>1. x < P * B
        BY <1>6, <1>7, <2>2
      <4>2. x < P * (d+1)
        BY <1>5, <1>7, <1>8, <4>1, HighestLimb
      <4>3. P * (d+1) = P
        BY <1>7, <3>2
      <4> QED BY <4>2, <4>3
    <3> QED BY <1>11, <3>1, <3>3
  <2>3. CASE result # 0
    BY <1>3, <1>6, <2>3
  <2> QED BY <2>1, <2>2, <2>3
<1>13. WidthInv'
  <2>1. Magnitude' = x
    BY <1>3, SameBitCall DEF x
  <2>2. B^(call'.limbs - i') = P /\ wl = w * call'.limbs
    BY <1>3, <1>4 DEF wl
  <2> HIDE DEF P, w
  <2> QED BY <1>12, <2>1, <2>2 DEF WidthInv, w
<1>14. UpwardInv' /\ DownwardInv' /\ ZerosInv'
  BY <1>2, <1>3 DEF UpwardInv, DownwardInv, ZerosInv
<1>15. Bits!BitsWritten' /\ Bits!Counted'
  BY <1>2, <1>3 DEF Bits!BitsWritten, Bits!Counted
<1>16. BitCall'
  BY <1>1, <1>3, SameBitCall
<1>17. pc' \in {"scan", "done"} /\ i' \in 0..call'.limbs /\ memory' \in Int /\ result' \in Nat
  BY <1>1, <1>2, <1>3, <1>6, <1>11, <1>12
<1> QED BY <1>13, <1>14, <1>15, <1>16, <1>17, Zenon DEF BitsInv

\* The least size is the one that is chosen.
LEMMA WidthFound ==
  ASSUME BitCall, call.op \in Bits!Scans, NEW s \in Nat, s <= limb_bit_size * call.limbs,
         s = 0 => Magnitude = 0,
         s > 0 => 2^(s-1) <= Magnitude /\ Magnitude < 2^s,
         NEW b, b = IF call.value < 0 THEN s + 1 ELSE s
  PROVE  b = CHOOSE n \in 0..call.bits : /\ Bits!HasWidth(call.value, n)
                                         /\ \A c \in 0 .. n-1 : ~Bits!HasWidth(call.value, c)
<1> DEFINE v == call.value
           x == Magnitude
           bits == call.bits
           wl == limb_bit_size * call.limbs
           Found(n) == Bits!HasWidth(v, n) /\ \A c \in 0 .. n-1 : ~Bits!HasWidth(v, c)
           Y == 2^s
<1>1. v \in Int /\ x = (IF v < 0 THEN -v - 1 ELSE v) /\ call.limbs \in 0..BitLimbs
  BY DEF BitCall, Magnitude
<1>2. /\ bits \in Nat /\ bits <= wl /\ bits \in Exponents /\ x \in Nat /\ Bits!HasWidth(v, bits)
  BY BitsFit
<1>3. wl + 1 \in Exponents /\ wl \in Nat
  BY <1>1, SpanBits
<1> HIDE DEF v, x, bits, wl
<1>4. s \in Exponents /\ s+1 \in Exponents /\ s+1 \in 0 .. s+1 /\ s \in 0..s /\ s \in 0 .. s+1
  <2>1. s \in 0 .. wl+1 /\ s+1 \in 0 .. wl+1
    BY <1>3 DEF wl
  <2> QED BY <1>3, <2>1, ExponentOK
<1>5. /\ Y \in Nat \ {0} /\ 2^(s+1) = 2 * Y /\ 2^0 = 1
      /\ s > 0 => Y = 2 * 2^(s-1) /\ 2^(s-1) \in Nat \ {0}
  <2>1. 2^(s+1) = 2 * 2^((s+1)-1) /\ (s+1) - 1 = s
    BY <1>4, ExponentOK
  <2> QED BY <1>4, <2>1, ExponentOK, TwoAssumption
<1>6. b \in Nat /\ Bits!HasWidth(v, b)
  <2>1. x < Y
    <3>1. CASE s = 0
      BY <1>5, <3>1 DEF x
    <3>2. CASE s > 0
      BY <3>2 DEF x
    <3> QED BY <3>1, <3>2
  <2>2. CASE v < 0
    <3>1. b = s+1 /\ 2^b = 2 * Y
      BY <1>5, <2>2 DEF v
    <3> HIDE DEF Y
    <3>2. 2 * v >= -(2 * Y)
      BY <1>1, <1>5, <2>1, <2>2
    <3> QED BY <2>2, <3>1, <3>2 DEF Bits!HasWidth
  <2>3. CASE ~(v < 0)
    <3>1. b = s /\ 2^b = Y /\ v < Y
      BY <1>1, <2>1, <2>3 DEF v
    <3> QED BY <2>3, <3>1 DEF Bits!HasWidth
  <2> QED BY <2>2, <2>3
<1>7. ASSUME NEW c \in 0 .. b-1 PROVE ~Bits!HasWidth(v, c)
  <2> DEFINE C == 2^c
  <2>1. CASE ~(v < 0)
    <3>1. b = s /\ s > 0 /\ c \in 0 .. s-1 /\ s-1 \in 0..s
      BY <1>6, <2>1 DEF v
    <3>2. C <= 2^(s-1)
      BY <1>4, <3>1, ExponentOK
    <3> DEFINE Z == 2^(s-1)
    <3>3. Z <= x /\ C <= Z /\ Z \in Nat /\ x = v
      BY <1>1, <1>5, <2>1, <3>1, <3>2 DEF x
    <3>4. C \in Nat
      BY <1>4, <3>1, ExponentOK
    <3> HIDE DEF C, Z
    <3>5. ~(v < C)
      BY <1>1, <3>3, <3>4
    <3> QED BY <2>1, <3>5 DEF Bits!HasWidth, C
  <2>2. CASE v < 0
    <3>1. b = s+1 /\ c \in 0..s
      BY <2>2 DEF v
    <3>2. C <= Y /\ C \in Nat
      BY <1>4, <3>1, ExponentOK
    <3>3. 2 * (x + 1) > Y
      <4>1. CASE s = 0
        <5>1. Y = 1
          BY <1>5, <4>1
        <5> QED BY <1>2, <5>1
      <4>2. CASE s > 0
        <5> DEFINE Z == 2^(s-1)
        <5>1. Y = 2 * Z /\ Z <= x /\ Z \in Nat
          BY <1>5, <4>2 DEF x
        <5> HIDE DEF Y, Z
        <5> QED BY <1>2, <5>1
      <4> QED BY <4>1, <4>2
    <3>4. x + 1 = -v
      BY <1>1, <2>2
    <3> HIDE DEF Y, C
    <3>5. ~(2 * v >= -C)
      BY <1>1, <1>2, <1>5, <3>2, <3>3, <3>4
    <3> QED BY <2>2, <3>5 DEF Bits!HasWidth, C
  <2> QED BY <2>1, <2>2
<1>8. b \in 0..bits
  <2> SUFFICES ASSUME bits < b PROVE FALSE
    BY <1>2, <1>6
  <2>1. bits \in 0 .. b-1
    BY <1>2, <1>6
  <2> QED BY <1>2, <1>7, <2>1
<1>9. Found(b)
  BY <1>6, <1>7
<1>10. ASSUME NEW n \in 0..bits, Found(n) PROVE n = b
  <2>1. n \in Nat
    BY <1>2
  <2>2. ~(n < b)
    <3> SUFFICES ASSUME n < b PROVE FALSE
      OBVIOUS
    <3>1. n \in 0 .. b-1
      BY <1>6, <2>1
    <3> QED BY <1>7, <1>10, <3>1
  <2>3. ~(b < n)
    <3> SUFFICES ASSUME b < n PROVE FALSE
      OBVIOUS
    <3>1. b \in 0 .. n-1
      BY <1>6, <2>1
    <3> QED BY <1>6, <1>10, <3>1
  <2> QED BY <1>6, <2>1, <2>2, <2>3
<1> DEFINE chosen == CHOOSE n \in 0..bits : Found(n)
<1>11. chosen \in 0..bits /\ Found(chosen)
  BY <1>8, <1>9
<1>12. chosen = b
  BY <1>10, <1>11
<1> QED BY <1>12 DEF bits, v

\* The lowest bits of a limb are those of the number from it on.
LEMMA LowestBits ==
  ASSUME NEW h \in Int, NEW b \in 0..limb_bit_size
  PROVE  (h % B) % 2^b = h % 2^b
<1> DEFINE n == 2^b
           m0 == 2^(limb_bit_size - b)
           l == h % B
<1>1. n \in Nat \ {0} /\ m0 \in Nat \ {0} /\ B = n * m0
  BY BitsOK, ExponentOK
<1>2. l \in 0..B-1
  BY BWord, QuotientAndRemainder
<1>3. l % B = h % B
  <2> HIDE DEF l
  <2>1. l % B = l
    BY <1>2, BWord, l = B * 0 + l, QuotientUnique
  <2> QED BY <2>1 DEF l
<1> HIDE DEF n, m0, l
<1>4. l \in Int /\ l % (n * m0) = h % (n * m0)
  BY <1>1, <1>2, <1>3, BWord
<1>5. l % n = h % n
  BY <1>1, <1>4, FewerLimbs
<1> QED BY <1>5 DEF l, n

\* Two divides a number as often as the lowest limb that is not zero, and all the bits below it.
LEMMA ZerosPlaced ==
  ASSUME NEW v \in Int, NEW k0 \in Nat, k0 < BitLimbs, v % B^k0 = 0, NEW b \in 0..limb_bit_size
  PROVE  v % 2^(limb_bit_size * k0 + b) = 0 <=> Digit(v, B^k0) % 2^b = 0
<1> DEFINE P == B^k0
           n == 2^b
           h == v \div P
           s == h % n
<1>1. 2^(limb_bit_size * k0 + b) = P * n /\ n \in Nat \ {0} /\ P \in Nat \ {0}
  BY BitsAbove
<1> HIDE DEF P, n
<1>2. v % (P * n) = (v % P) + s * P
  BY <1>1, QuotientOfQuotient
<1>3. h \in Int
  BY <1>1, QuotientAndRemainder
<1>4. v % P = 0
  BY DEF P
<1>5. s \in Nat /\ (h % B) % n = s
  <2> HIDE DEF h
  <2>1. (h % B) % 2^b = h % 2^b
    BY <1>3, LowestBits
  <2>2. h % n \in 0..n-1
    BY <1>1, <1>3, QuotientAndRemainder
  <2> QED BY <1>1, <2>1, <2>2 DEF n
<1> HIDE DEF h, s
<1>6. (s * P = 0) <=> (s = 0)
  BY <1>1, <1>5
<1>7. (v % P) + s * P = s * P
  BY <1>1, <1>4, <1>5
<1> QED BY <1>1, <1>2, <1>5, <1>6, <1>7 DEF Digit, h, P, n

\* countr_zero
LEMMA CountrZeroOK == ASSUME BitsInv, Bits!CountrZero PROVE BitsInv'
<1> DEFINE v == call.value
           w == limb_bit_size
           P == B^i
           wi == w * i
           d == Bits!Limb(v, i)
           z == Bits!core_countr_zero(d)
           wn == w * (i+1)
<1>1. /\ BitCall /\ call.limbs \in Nat /\ call.limbs <= BitLimbs /\ BitLimbs \in Nat
      /\ i \in Nat /\ v \in Int /\ w \in Nat \ {0}
  BY BitTypes, BitsOK
<1>2. /\ pc = "scan" /\ call.op = "countr_zero" /\ i < call.limbs /\ call.op \in Bits!Scans
  BY DEF Bits!CountrZero, Bits!Scanning, Bits!Scans
<1>3. /\ i' = i+1 /\ call' = call /\ pc' = pc /\ memory' = memory
      /\ result' = IF result = wi THEN result + z ELSE result
  <2>1. Bits!Value = v
    BY <1>1, <1>2, ScanValue
  <2>2. i * w = wi
    BY <1>1
  <2>3. /\ i' = i+1 /\ call' = call /\ pc' = pc /\ memory' = memory
        /\ result' = IF result = i * w THEN result + z ELSE result
    BY <1>2, <2>1 DEF Bits!CountrZero, Bits!Index
  <2> QED BY <2>2, <2>3
<1>4. i < BitLimbs /\ i < 2 * BitLimbs
  BY <1>1, <1>2
<1>5. /\ result \in 0..wi /\ memory \in Int
      /\ result = wi => v % P = 0
      /\ result # wi => v % 2^result = 0 /\ v % 2^(result + 1) # 0
  BY <1>2 DEF BitsInv, ZerosInv
<1>6. P \in Nat \ {0} /\ B^(i+1) = P * B
  BY <1>1, <1>4, SpanNext
<1>7. d = Digit(v, P) /\ d \in 0..B-1
  <2>1. d = Digit(v, P)
    BY DEF Digit, Bits!Limb
  <2> QED BY <1>1, <1>6, <2>1, DigitWord
<1>8. wi \in Nat /\ wn = wi + w
  BY <1>1
<1> HIDE DEF d, wi, wn, v
<1>9. /\ result' \in 0..wn
      /\ result' = wn => v % B^(i+1) = 0
      /\ result' # wn => v % 2^result' = 0 /\ v % 2^(result' + 1) # 0
  <2>1. CASE result = wi /\ d = 0
    <3>1. z = w
      BY <2>1 DEF Bits!core_countr_zero
    <3>2. result' = wn
      BY <1>3, <1>8, <2>1, <3>1
    <3>3. v % (P * B) = (v % P) + Digit(v, P) * P
      BY <1>1, <1>6, BWord, QuotientOfQuotient DEF Digit
    <3>4. v % (P * B) = 0
      BY <1>5, <1>6, <1>7, <2>1, <3>3
    <3> QED BY <1>1, <1>6, <1>8, <3>2, <3>4
  <2>2. CASE result = wi /\ d # 0
    <3>1. d \in 1..B-1
      BY <1>7, <2>2, BWord
    <3>2. z \in 0 .. w-1 /\ d % 2^z = 0 /\ d % 2^(z+1) # 0
      BY <3>1, CoreZeros
    <3> HIDE DEF z
    <3>3. result' = wi + z /\ z \in 0..w /\ z+1 \in 0..w /\ (wi + z) + 1 = wi + (z+1)
      BY <1>1, <1>3, <1>8, <2>2, <3>2
    <3>4. v % P = 0
      BY <1>5, <2>2
    <3>5. v % 2^(wi + z) = 0
      BY <1>1, <1>4, <1>7, <3>2, <3>3, <3>4, ZerosPlaced DEF wi
    <3>6. v % 2^(wi + (z+1)) # 0
      BY <1>1, <1>4, <1>7, <3>2, <3>3, <3>4, ZerosPlaced DEF wi
    <3>7. result' \in 0..wn /\ result' # wn
      BY <1>1, <1>8, <3>2, <3>3
    <3> QED BY <3>3, <3>5, <3>6, <3>7
  <2>3. CASE result # wi
    BY <1>1, <1>3, <1>5, <1>8, <2>3
  <2> QED BY <2>1, <2>2, <2>3
<1>10. ZerosInv'
  BY <1>3, <1>9 DEF ZerosInv, wn, v
<1>11. UpwardInv' /\ DownwardInv' /\ WidthInv'
  BY <1>2, <1>3 DEF UpwardInv, DownwardInv, WidthInv
<1>12. Bits!BitsWritten' /\ Bits!Counted'
  BY <1>2, <1>3 DEF Bits!BitsWritten, Bits!Counted
<1>13. BitCall'
  BY <1>1, <1>3, SameBitCall
<1>14. pc' \in {"scan", "done"} /\ i' \in 0..call'.limbs /\ memory' \in Int /\ result' \in Nat
  BY <1>1, <1>2, <1>3, <1>5, <1>8, <1>9
<1> QED BY <1>10, <1>11, <1>12, <1>13, <1>14, Zenon DEF BitsInv

\* The highest of the bits that are counted
LEMMA ZerosFound ==
  ASSUME BitCall, call.op = "countr_zero", NEW s \in 0 .. limb_bit_size * call.limbs,
         s = limb_bit_size * call.limbs => call.value % B^call.limbs = 0,
         s # limb_bit_size * call.limbs => call.value % 2^s = 0 /\ call.value % 2^(s+1) # 0,
         NEW b \in 0..call.bits
  PROVE  (call.value % 2^b = 0) = (b <= s)
<1> DEFINE v == call.value
           bits == call.bits
           wl == limb_bit_size * call.limbs
<1>1. /\ bits \in Nat /\ bits <= wl /\ bits \in Exponents /\ v \in Nat /\ v < 2^bits
      /\ 2^bits \in Nat \ {0} /\ 2^bits <= B^call.limbs
  <2>1. call.op \in Bits!Scans
    BY DEF Bits!Scans
  <2> QED BY <2>1, BitsFit
<1>2. call.limbs \in 0..BitLimbs
  BY DEF BitCall
<1>3. wl \in Nat /\ wl \in Exponents /\ B^call.limbs \in Nat \ {0} /\ B^call.limbs = 2^wl
  BY <1>2, SpanBits
<1> DEFINE Q == B^call.limbs
<1> HIDE DEF v, bits, wl
<1>4. b \in Nat /\ s \in Nat /\ b <= bits /\ s <= wl /\ b <= wl
  BY <1>1, <1>3 DEF wl, bits
<1>5. v % 2^b = 0 <=> b <= s
  <2>1. CASE s = wl
    <3>1. v % Q = 0
      BY <2>1 DEF wl, v
    <3>2. v < Q
      <4> DEFINE Y == 2^bits
      <4>1. v \in Nat /\ v < Y /\ Y <= Q /\ Y \in Nat /\ Q \in Nat
        BY <1>1, <1>3
      <4> HIDE DEF Y, Q
      <4> QED BY <4>1
    <3>3. v % Q = v
      <4> HIDE DEF Q
      <4>1. v \in 0..Q-1 /\ v \in Int /\ Q \in Nat \ {0}
        BY <1>1, <1>3, <3>2 DEF Q
      <4> QED BY <4>1, v = Q * 0 + v, QuotientUnique
    <3>4. v = 0
      BY <3>1, <3>3
    <3>5. 2^b \in Nat \ {0}
      BY <1>3, <1>4, ExponentOK
    <3>6. v % 2^b = 0
      <4> DEFINE n == 2^b
      <4> HIDE DEF n
      <4>1. 0 = n * 0 + 0 /\ 0 \in 0..n-1 /\ n \in Nat \ {0}
        BY <3>5 DEF n
      <4>2. 0 % n = 0
        BY <4>1, QuotientUnique
      <4> QED BY <3>4, <4>2 DEF n
    <3> QED BY <1>4, <2>1, <3>6
  <2>2. CASE s # wl
    <3>1. v % 2^s = 0 /\ v % 2^(s+1) # 0
      BY <2>2 DEF v, wl
    <3>2. ASSUME NEW l \in Nat, NEW g \in Nat, l <= g, g <= wl, v % 2^g = 0 PROVE v % 2^l = 0
      <4> DEFINE n == 2^l
                 m0 == 2^(g - l)
      <4>1. g \in Exponents
        <5>1. g \in 0..wl
          BY <1>3, <3>2
        <5> QED BY <1>3, <5>1, ExponentOK
      <4>2. n \in Nat \ {0} /\ m0 \in Nat \ {0} /\ 2^g = n * m0
        <5>1. l \in 0..g /\ g \in 0..g
          BY <3>2
        <5> QED BY <4>1, <5>1, ExponentOK
      <4>3. v % (n * m0) = 0
        BY <3>2, <4>2
      <4> HIDE DEF n, m0
      <4>4. 0 % (n * m0) = 0 /\ 0 % n = 0
        <5>1. n * m0 \in Nat \ {0}
          BY <4>2
        <5>2. ASSUME NEW t \in Nat \ {0} PROVE 0 % t = 0
          BY <5>2, 0 = t * 0 + 0, 0 \in 0 .. t-1, QuotientUnique
        <5> QED BY <4>2, <5>1, <5>2
      <4>5. v % n = 0 % n
        <5>1. v \in Int /\ 0 \in Int /\ v % (n * m0) = 0 % (n * m0)
          BY <1>1, <4>3, <4>4
        <5> QED BY <4>2, <5>1, FewerLimbs
      <4> QED BY <4>4, <4>5 DEF n
    <3>3. CASE b <= s
      BY <1>4, <3>1, <3>2, <3>3
    <3>4. CASE ~(b <= s)
      <4>1. s+1 <= b /\ s+1 \in Nat
        BY <1>4, <3>4
      <4>2. ~(v % 2^b = 0)
        BY <1>4, <3>1, <3>2, <4>1
      <4> QED BY <3>4, <4>2
    <3> QED BY <3>3, <3>4
  <2> QED BY <2>1, <2>2
<1> QED BY <1>5 DEF v

\* The width is the least one, and trailing zeros are counted.
LEMMA EndScans == ASSUME BitsInv, Bits!End, call.op \in Bits!Scans PROVE BitsInv'
<1> DEFINE v == call.value
           wl == limb_bit_size * call.limbs
<1>1. /\ pc = "scan" /\ i = call.limbs /\ memory' = memory /\ pc' = "done" /\ call' = call
      /\ i' = i
      /\ call.op = "bit_width" => result' = IF v < 0 THEN result + 1 ELSE result
      /\ call.op = "countr_zero" => result' = IF result > call.bits THEN call.bits ELSE result
  BY DEF Bits!End
<1>2. /\ BitCall /\ call.limbs \in Nat /\ memory \in Int /\ call.limbs \in 0..BitLimbs
      /\ call.limbs - i = 0
  BY <1>1, BitTypes DEF BitCall
<1>3. result \in Nat /\ i \in 0..call.limbs
  BY DEF BitsInv
<1>4. call.bits \in Nat /\ Magnitude \in Nat
  BY <1>2, BitsFit
<1>5. wl \in Nat
  BY <1>2, SpanBits
<1>6. call.op = "bit_width" \/ call.op = "countr_zero"
  BY DEF Bits!Scans
<1>7. Bits!Counted' /\ result' \in Nat
  <2>1. CASE call.op = "bit_width"
    <3>1. /\ result \in 0..wl
          /\ result = 0 => Magnitude < 1
          /\ result > 0 => 2^(result - 1) <= Magnitude /\ Magnitude < 2^result
      <4>1. B^(call.limbs - i) = 1
        BY <1>2, PowerAssumption
      <4> QED BY <1>1, <2>1, <4>1 DEF BitsInv, WidthInv
    <3>2. result <= wl /\ (result = 0 => Magnitude = 0)
      BY <1>4, <1>5, <3>1
    <3>3. result' = IF v < 0 THEN result + 1 ELSE result
      BY <1>1, <2>1
    <3> HIDE DEF wl
    <3>4. result' = CHOOSE n \in 0..call.bits :
                      /\ Bits!HasWidth(v, n)
                      /\ \A c \in 0 .. n-1 : ~Bits!HasWidth(v, c)
      BY <1>2, <1>3, <3>1, <3>2, <3>3, WidthFound DEF wl
    <3>5. Bits!Counted'
      BY <1>1, <2>1, <3>4 DEF Bits!Counted, Bits!HasWidth
    <3> QED BY <1>3, <3>3, <3>5
  <2>2. CASE call.op = "countr_zero"
    <3>1. /\ result \in 0..wl
          /\ result = wl => v % B^call.limbs = 0
          /\ result # wl => v % 2^result = 0 /\ v % 2^(result + 1) # 0
      BY <1>1, <2>2 DEF BitsInv, ZerosInv
    <3>2. result' = IF result > call.bits THEN call.bits ELSE result
      BY <1>1, <2>2
    <3> HIDE DEF wl
    <3>3. ASSUME NEW b \in 0..call.bits PROVE (v % 2^b = 0) = (b <= result')
      <4>1. (v % 2^b = 0) = (b <= result)
        BY <1>2, <2>2, <3>1, ZerosFound DEF wl
      <4>2. (b <= result) = (b <= result')
        BY <1>3, <1>4, <3>2
      <4> QED BY <4>1, <4>2
    <3>4. Bits!Counted'
      BY <1>1, <2>2, <3>3 DEF Bits!Counted
    <3> QED BY <1>3, <1>4, <3>2, <3>4
  <2> QED BY <1>6, <2>1, <2>2
<1>8. Bits!BitsWritten'
  BY <1>1 DEF Bits!BitsWritten, Bits!Writers, Bits!Scans
<1>9. BitCall'
  BY <1>1, <1>2, SameBitCall
<1> QED BY <1>1, <1>2, <1>3, <1>7, <1>8, <1>9 DEF BitsInv

\* Nothing happens.
LEMMA BitsWait == ASSUME BitsInv, UNCHANGED Bits!vars PROVE BitsInv'
<1>1. call' = call /\ pc' = pc /\ i' = i /\ memory' = memory /\ result' = result
  BY DEF Bits!vars
<1>2. BitCall' /\ Wanted' = Wanted /\ Magnitude' = Magnitude
  BY <1>1, SameBitCall DEF BitsInv
<1> QED
  BY <1>1, <1>2 DEF BitsInv, UpwardInv, DownwardInv, WidthInv, ZerosInv, Bits!BitsWritten,
       Bits!Counted

\* The functions on bits, one step at a time
LEMMA BitsInvKept == BitsInv /\ [Bits!Next]_(Bits!vars) => BitsInv'
<1> SUFFICES ASSUME BitsInv, [Bits!Next]_(Bits!vars) PROVE BitsInv'
  OBVIOUS
<1>1. CASE Bits!ShiftLeft
  BY <1>1, ShiftLeftOK
<1>2. CASE Bits!ShiftRight
  BY <1>2, ShiftRightOK
<1>3. CASE Bits!BitCopy
  BY <1>3, BitCopyOK
<1>4. CASE Bits!BitNot
  BY <1>4, BitNotOK
<1>5. CASE Bits!EndNegate
  BY <1>5, EndNegateOK
<1>6. CASE Bits!BitWidth
  BY <1>6, BitWidthOK
<1>7. CASE Bits!CountrZero
  BY <1>7, CountrZeroOK
<1>8. CASE Bits!End
  <2>1. call.op \in {"shift_left", "shift_right", "bit_copy"} \/ call.op \in Bits!Scans
    BY <1>8 DEF Bits!End, Bits!Writers, BitsInv, BitCall
  <2> QED BY <1>8, <2>1, EndWriters, EndScans
<1>9. CASE UNCHANGED Bits!vars
  BY <1>9, BitsWait
<1> QED
  BY <1>1, <1>2, <1>3, <1>4, <1>5, <1>6, <1>7, <1>8, <1>9 DEF Bits!Next

\* Shifts, copies and negations write the limbs of the number that they should, also where they
\* read; bit_width finds the least size, and countr_zero the trailing zeros.
THEOREM BitFunctionsOK == Bits!Spec => [](Bits!BitsWritten /\ Bits!Counted)
<1>1. BitsInv => Bits!BitsWritten /\ Bits!Counted
  BY DEF BitsInv
<1> QED BY <1>1, InitBitsInv, BitsInvKept, PTL DEF Bits!Spec

------------------------------------------------------------------------------
(* The functions as parts of the library *)

MP == INSTANCE LongMultiplicationProofs WITH Limbs <- ProductLimbs, Numbers <- Factors

RP == INSTANCE MontgomeryProofs WITH Numbers <- Reduced

\* What the modules with those proofs assume.
LEMMA ProductAssumptions ==
  MP!WordAssumption /\ MP!NumberAssumption /\ MP!PowerAssumption
<1>1. ProductLimbs \in Nat \ {0} /\ Limbs \in Nat \ {0} /\ ProductLimbs <= Limbs
  BY LibraryAssumption, WordAssumption
<1>2. MP!WordAssumption
  BY <1>1, WordAssumption DEF MP!WordAssumption
<1>3. MP!NumberAssumption
  BY LibraryAssumption DEF MP!NumberAssumption
<1>4. MP!PowerAssumption
  <2>1. \A j \in 0..ProductLimbs : j \in 0..Limbs
    BY <1>1
  <2>2. \A j \in 0..ProductLimbs, h \in 0..ProductLimbs : j + h <= ProductLimbs => j + h <= Limbs
    BY <1>1
  <2> QED BY <2>1, <2>2, PowerAssumption, Zenon DEF MP!PowerAssumption
<1> QED BY <1>2, <1>3, <1>4

\* So are those of montgomery_reduce.
LEMMA ReducedAssumptions ==
  RP!WordAssumption /\ RP!NumberAssumption /\ RP!PowerAssumption
BY LibraryAssumption, WordAssumption, PowerAssumption
   DEF RP!WordAssumption, RP!NumberAssumption, RP!PowerAssumption

\* A behaviour is one of the function that it begins with.
LEMMA FunctionStays == [Next]_vars => function' = function
BY DEF Next, vars, NextAddition, NextMultiplication, NextReduction, NextQuotients, NextComparisons,
       NextBits, NextDivisors, NextIntegers, NextResidues, NextTransforming, NextQueue

\* A behaviour that begins with add and subtract takes only steps of it.
LEMMA AdditionSteps ==
  /\ Init /\ function = "add" => Addition!Init
  /\ function = "add" /\ [Next]_vars => [Addition!Next]_(Addition!vars)
<1>1. Init /\ function = "add" => Addition!Init
  BY DEF Init, InitAddition, InitMultiplication, InitReduction, InitQuotients,
       InitComparisons, InitBits, InitDivisors, InitIntegers, InitResidues, InitTransforming,
       InitQueue
<1>2. ASSUME function = "add", [Next]_vars PROVE [Addition!Next]_(Addition!vars)
  <2>1. CASE UNCHANGED vars
    BY <2>1 DEF vars, sumVars, productVars, divisionVars, divisorVars, quotientVars, queueVars,
                programVars, planVars, Addition!vars
  <2> QED
    BY <1>2, <2>1 DEF Next, NextAddition, NextMultiplication, NextReduction, NextQuotients,
         NextComparisons, NextBits, NextDivisors, NextIntegers, NextResidues, NextTransforming,
         NextQueue
<1> QED BY <1>1, <1>2

\* A behaviour that begins with multiply takes only steps of it.
LEMMA MultiplicationSteps ==
  /\ Init /\ function = "multiply" => Multiplication!Init
  /\ function = "multiply" /\ [Next]_vars => [Multiplication!Next]_(Multiplication!vars)
<1>1. Init /\ function = "multiply" => Multiplication!Init
  BY DEF Init, InitAddition, InitMultiplication, InitReduction, InitQuotients,
       InitComparisons, InitBits, InitDivisors, InitIntegers, InitResidues, InitTransforming,
       InitQueue
<1>2. ASSUME function = "multiply", [Next]_vars PROVE [Multiplication!Next]_(Multiplication!vars)
  <2>1. CASE UNCHANGED vars
    BY <2>1 DEF vars, sumVars, productVars, divisionVars, divisorVars, quotientVars, queueVars,
                programVars, planVars, Multiplication!vars
  <2> QED
    BY <1>2, <2>1 DEF Next, NextAddition, NextMultiplication, NextReduction, NextQuotients,
         NextComparisons, NextBits, NextDivisors, NextIntegers, NextResidues, NextTransforming,
         NextQueue
<1> QED BY <1>1, <1>2

\* A behaviour that begins with montgomery_reduce takes only steps of it.
LEMMA ReductionSteps ==
  /\ Init /\ function = "montgomery_reduce" => Reduction!Init
  /\ function = "montgomery_reduce" /\ [Next]_vars => [Reduction!Next]_(Reduction!vars)
<1>1. Init /\ function = "montgomery_reduce" => Reduction!Init
  BY DEF Init, InitAddition, InitMultiplication, InitReduction, InitQuotients,
       InitComparisons, InitBits, InitDivisors, InitIntegers, InitResidues, InitTransforming,
       InitQueue
<1>2. ASSUME function = "montgomery_reduce", [Next]_vars PROVE [Reduction!Next]_(Reduction!vars)
  <2>1. CASE UNCHANGED vars
    BY <2>1 DEF vars, sumVars, productVars, divisionVars, divisorVars, quotientVars, queueVars,
                programVars, planVars, Reduction!vars
  <2> QED
    BY <1>2, <2>1 DEF Next, NextAddition, NextMultiplication, NextReduction, NextQuotients,
         NextComparisons, NextBits, NextDivisors, NextIntegers, NextResidues, NextTransforming,
         NextQueue
<1> QED BY <1>1, <1>2

\* A behaviour that begins with the comparisons takes only steps of it.
LEMMA ComparisonsSteps ==
  /\ Init /\ function = "compare" => Comparisons!Init
  /\ function = "compare" /\ [Next]_vars => [Comparisons!Next]_(Comparisons!vars)
<1>1. Init /\ function = "compare" => Comparisons!Init
  BY DEF Init, InitAddition, InitMultiplication, InitReduction, InitQuotients,
       InitComparisons, InitBits, InitDivisors, InitIntegers, InitResidues, InitTransforming,
       InitQueue
<1>2. ASSUME function = "compare", [Next]_vars PROVE [Comparisons!Next]_(Comparisons!vars)
  <2>1. CASE UNCHANGED vars
    BY <2>1 DEF vars, sumVars, productVars, divisionVars, divisorVars, quotientVars, queueVars,
                programVars, planVars, Comparisons!vars
  <2> QED
    BY <1>2, <2>1 DEF Next, NextAddition, NextMultiplication, NextReduction, NextQuotients,
         NextComparisons, NextBits, NextDivisors, NextIntegers, NextResidues, NextTransforming,
         NextQueue
<1> QED BY <1>1, <1>2

\* A behaviour that begins with the computation queue takes only steps of it.
LEMMA QueueSteps ==
  /\ Init /\ function = "queue" => Queue!Init
  /\ function = "queue" /\ [Next]_vars => [Queue!Next]_(Queue!vars)
<1>1. Init /\ function = "queue" => Queue!Init
  BY DEF Init, InitAddition, InitMultiplication, InitReduction, InitQuotients,
       InitComparisons, InitBits, InitDivisors, InitIntegers, InitResidues, InitTransforming,
       InitQueue
<1>2. ASSUME function = "queue", [Next]_vars PROVE [Queue!Next]_(Queue!vars)
  <2>1. CASE UNCHANGED vars
    BY <2>1 DEF vars, sumVars, productVars, divisionVars, divisorVars, quotientVars, queueVars,
                programVars, planVars, Queue!vars
  <2> QED
    BY <1>2, <2>1 DEF Next, NextAddition, NextMultiplication, NextReduction, NextQuotients,
         NextComparisons, NextBits, NextDivisors, NextIntegers, NextResidues, NextTransforming,
         NextQueue
<1> QED BY <1>1, <1>2

\* A behaviour that begins with a number takes only steps of operators of bigint.
LEMMA IntegersSteps ==
  /\ Init /\ function = "bigint" => Bigints!Init
  /\ function = "bigint" /\ [Next]_vars => [Bigints!Next]_(Bigints!vars)
<1>1. Init /\ function = "bigint" => Bigints!Init
  BY DEF Init, InitAddition, InitMultiplication, InitReduction, InitQuotients,
       InitComparisons, InitBits, InitDivisors, InitIntegers, InitResidues, InitTransforming,
       InitQueue
<1>2. ASSUME function = "bigint", [Next]_vars PROVE [Bigints!Next]_(Bigints!vars)
  <2>1. CASE UNCHANGED vars
    BY <2>1 DEF vars, sumVars, productVars, divisionVars, divisorVars, quotientVars, queueVars,
                programVars, planVars, Bigints!vars
  <2> QED
    BY <1>2, <2>1 DEF Next, NextAddition, NextMultiplication, NextReduction, NextQuotients,
         NextComparisons, NextBits, NextDivisors, NextIntegers, NextResidues, NextTransforming,
         NextQueue
<1> QED BY <1>1, <1>2

\* A behaviour that begins with divide takes only steps of it.
LEMMA QuotientsSteps ==
  /\ Init /\ function = "divide" => Quotients!Init
  /\ function = "divide" /\ [Next]_vars => [Quotients!Next]_(Quotients!vars)
<1>1. Init /\ function = "divide" => Quotients!Init
  BY DEF Init, InitAddition, InitMultiplication, InitReduction, InitQuotients,
       InitComparisons, InitBits, InitDivisors, InitIntegers, InitResidues, InitTransforming,
       InitQueue
<1>2. ASSUME function = "divide", [Next]_vars PROVE [Quotients!Next]_(Quotients!vars)
  <2>1. CASE UNCHANGED vars
    BY <2>1 DEF vars, sumVars, productVars, divisionVars, divisorVars, quotientVars, queueVars,
                programVars, planVars, Quotients!vars
  <2> QED
    BY <1>2, <2>1 DEF Next, NextAddition, NextMultiplication, NextReduction, NextQuotients,
         NextComparisons, NextBits, NextDivisors, NextIntegers, NextResidues, NextTransforming,
         NextQueue
<1> QED BY <1>1, <1>2

\* A behaviour that begins with a function on bits takes only steps of it.
LEMMA BitsSteps ==
  /\ Init /\ function = "bits" => Bits!Init
  /\ function = "bits" /\ [Next]_vars => [Bits!Next]_(Bits!vars)
<1>1. Init /\ function = "bits" => Bits!Init
  BY DEF Init, InitAddition, InitMultiplication, InitReduction, InitQuotients,
       InitComparisons, InitBits, InitDivisors, InitIntegers, InitResidues, InitTransforming,
       InitQueue
<1>2. ASSUME function = "bits", [Next]_vars PROVE [Bits!Next]_(Bits!vars)
  <2>1. CASE UNCHANGED vars
    BY <2>1 DEF vars, sumVars, productVars, divisionVars, divisorVars, quotientVars, queueVars,
                programVars, planVars, Bits!vars
  <2> QED
    BY <1>2, <2>1 DEF Next, NextAddition, NextMultiplication, NextReduction, NextQuotients,
         NextComparisons, NextBits, NextDivisors, NextIntegers, NextResidues, NextTransforming,
         NextQueue
<1> QED BY <1>1, <1>2

\* A behaviour that begins with a divisor takes only steps of greatest_common_divisor and
\* extended_euclidean.
LEMMA DivisorsSteps ==
  /\ Init /\ function = "divisor" => Divisors!Init
  /\ function = "divisor" /\ [Next]_vars => [Divisors!Next]_(Divisors!vars)
<1>1. Init /\ function = "divisor" => Divisors!Init
  BY DEF Init, InitAddition, InitMultiplication, InitReduction, InitQuotients,
       InitComparisons, InitBits, InitDivisors, InitIntegers, InitResidues, InitTransforming,
       InitQueue
<1>2. ASSUME function = "divisor", [Next]_vars PROVE [Divisors!Next]_(Divisors!vars)
  <2>1. CASE UNCHANGED vars
    BY <2>1 DEF vars, sumVars, productVars, divisionVars, divisorVars, quotientVars, queueVars,
                programVars, planVars, Divisors!vars
  <2> QED
    BY <1>2, <2>1 DEF Next, NextAddition, NextMultiplication, NextReduction, NextQuotients,
         NextComparisons, NextBits, NextDivisors, NextIntegers, NextResidues, NextTransforming,
         NextQueue
<1> QED BY <1>1, <1>2

------------------------------------------------------------------------------

\* multiply is the same as where its proofs are.
LEMMA SameMultiplication ==
  /\ Multiplication!Init <=> MP!Init
  /\ [Multiplication!Next]_(Multiplication!vars) <=> [MP!Next]_(MP!vars)
  /\ Multiplication!Product <=> MP!Product
  /\ Multiplication!TypeOK <=> MP!TypeOK
<1> USE DEF Multiplication!Limb, MP!Limb, Multiplication!Store, MP!Store,
            Multiplication!FirstLimbs, MP!FirstLimbs, Multiplication!Least, MP!Least,
            Multiplication!right_overlap, MP!right_overlap,
            Multiplication!left_overlap, MP!left_overlap
<1>1. Multiplication!Init <=> MP!Init
  BY Zenon DEF Multiplication!Init, MP!Init, Multiplication!Allowed, MP!Allowed
<1>2. Multiplication!Row <=> MP!Row
  BY Zenon DEF Multiplication!Row, MP!Row
<1>3. Multiplication!Column <=> MP!Column
  BY Zenon DEF Multiplication!Column, MP!Column, Multiplication!Current, MP!Current,
               Multiplication!ExtendedMultiplyAdd, MP!ExtendedMultiplyAdd,
               Multiplication!MultiplyAdd, MP!MultiplyAdd,
               Multiplication!ExtendedMultiply, MP!ExtendedMultiply,
               Multiplication!ExtendedAdd, MP!ExtendedAdd, Multiplication!Plus, MP!Plus,
               Multiplication!Times, MP!Times, Multiplication!IfBit, MP!IfBit
<1>4. Multiplication!EndRow <=> MP!EndRow
  BY Zenon DEF Multiplication!EndRow, MP!EndRow
<1>5. Multiplication!Copy <=> MP!Copy
  BY Zenon DEF Multiplication!Copy, MP!Copy
<1>6. UNCHANGED Multiplication!vars <=> UNCHANGED MP!vars
  BY DEF Multiplication!vars, MP!vars
<1>7. [Multiplication!Next]_(Multiplication!vars) <=> [MP!Next]_(MP!vars)
  BY <1>2, <1>3, <1>4, <1>5, <1>6 DEF Multiplication!Next, MP!Next
<1>8. Multiplication!Product <=> MP!Product
  BY Zenon DEF Multiplication!Product, MP!Product
<1>9. Multiplication!TypeOK <=> MP!TypeOK
  BY Zenon DEF Multiplication!TypeOK, MP!TypeOK, Multiplication!Calls, MP!Calls,
               Multiplication!Word, MP!Word
<1> QED BY <1>1, <1>7, <1>8, <1>9

\* So is montgomery_reduce.
LEMMA SameReduction ==
  /\ Reduction!Init <=> RP!Init
  /\ [Reduction!Next]_(Reduction!vars) <=> [RP!Next]_(RP!vars)
  /\ Reduction!Postcondition <=> RP!Postcondition
  /\ Reduction!NoOverflow <=> RP!NoOverflow
<1> USE DEF Reduction!Limb, RP!Limb, Reduction!Store, RP!Store, Reduction!TLimbs, RP!TLimbs,
            Reduction!FirstLimbs, RP!FirstLimbs, Reduction!Subspan, RP!Subspan,
            Reduction!Plus, RP!Plus, Reduction!Times, RP!Times, Reduction!IfBit, RP!IfBit,
            Reduction!ExtendedAdd, RP!ExtendedAdd
<1>1. Reduction!Init <=> RP!Init
  BY Zenon DEF Reduction!Init, RP!Init, Reduction!Allowed, RP!Allowed, Reduction!Moduli, RP!Moduli,
               Reduction!Word, RP!Word
<1>2. Reduction!Row <=> RP!Row
  BY Zenon DEF Reduction!Row, RP!Row
<1>3. Reduction!Multiply <=> RP!Multiply
  BY Zenon DEF Reduction!Multiply, RP!Multiply,
               Reduction!ExtendedMultiplyAdd, RP!ExtendedMultiplyAdd,
               Reduction!ExtendedMultiply, RP!ExtendedMultiply
<1>4. Reduction!Propagate <=> RP!Propagate
  BY Zenon DEF Reduction!Propagate, RP!Propagate
<1>5. Reduction!EndRow <=> RP!EndRow
  BY Zenon DEF Reduction!EndRow, RP!EndRow
<1>6. Reduction!Reduce <=> RP!Reduce
  BY Zenon DEF Reduction!Reduce, RP!Reduce, Reduction!Masked, RP!Masked
<1>7. UNCHANGED Reduction!vars <=> UNCHANGED RP!vars
  BY DEF Reduction!vars, RP!vars
<1>8. [Reduction!Next]_(Reduction!vars) <=> [RP!Next]_(RP!vars)
  BY <1>2, <1>3, <1>4, <1>5, <1>6, <1>7 DEF Reduction!Next, RP!Next
<1>9. Reduction!Postcondition <=> RP!Postcondition
  BY Zenon DEF Reduction!Postcondition, RP!Postcondition
<1>10. Reduction!NoOverflow <=> RP!NoOverflow
  BY Zenon DEF Reduction!NoOverflow, RP!NoOverflow
<1> QED BY <1>1, <1>8, <1>9, <1>10

\* Additions and subtractions of long integers are right, and so is the carry
\* or borrow that they return, whether or not the result's memory is that of an
\* operand: callers do both.
THEOREM SumsHold == Spec => []Sums
<1> DEFINE Own == function = "add"
<1>1. ~Own /\ [Next]_vars => ~Own'
  BY FunctionStays
<1>2. Own /\ [Next]_vars => Own'
  BY FunctionStays
<1>3. Own /\ [Next]_vars => [Addition!Next]_(Addition!vars)
  BY AdditionSteps
<1>4. Init /\ Own => Addition!Init
  BY AdditionSteps
<1>5. (Own => Addition!Sums) => Sums
  BY DEF Sums
<1> HIDE DEF Own
<1> QED BY <1>1, <1>2, <1>3, <1>4, <1>5, SumsOK, PTL DEF Spec, Addition!Spec

\* The six comparisons of compare.hpp, at run time and at compile time, are those of the
\* numbers, whatever the sizes and signs of the operands, as far as their limbs show it.
THEOREM OrderedHolds == Spec => []Ordered
<1> DEFINE Own == function = "compare"
<1>1. ~Own /\ [Next]_vars => ~Own'
  BY FunctionStays
<1>2. Own /\ [Next]_vars => Own'
  BY FunctionStays
<1>3. Own /\ [Next]_vars => [Comparisons!Next]_(Comparisons!vars)
  BY ComparisonsSteps
<1>4. Init /\ Own => Comparisons!Init
  BY ComparisonsSteps
<1>5. (Own => Comparisons!Ordered) => Ordered
  BY DEF Ordered
<1> HIDE DEF Own
<1> QED BY <1>1, <1>2, <1>3, <1>4, <1>5, OrderedOK, PTL DEF Spec, Comparisons!Spec

\* multiply gives the product's lowest limbs, as many as the result has room for,
\* for all sizes and whatever the intermediate's memory held.
THEOREM ProductHolds == Spec => []Product
<1>1. Multiplication!Init /\ [][Multiplication!Next]_(Multiplication!vars) =>
        []Multiplication!Product
  <2>1. MP!Spec => []MP!Product
    BY ProductAssumptions, MP!ProductOK
  <2> QED BY <2>1, SameMultiplication, PTL DEF MP!Spec
<1> DEFINE Own == function = "multiply"
<1>2. ~Own /\ [Next]_vars => ~Own'
  BY FunctionStays
<1>3. Own /\ [Next]_vars => Own'
  BY FunctionStays
<1>4. Own /\ [Next]_vars => [Multiplication!Next]_(Multiplication!vars)
  BY MultiplicationSteps
<1>5. Init /\ Own => Multiplication!Init
  BY MultiplicationSteps
<1>6. (Own => Multiplication!Product) => Product
  BY DEF Product
<1> HIDE DEF Own
<1> QED BY <1>1, <1>2, <1>3, <1>4, <1>5, <1>6, PTL DEF Spec

\* montgomery_reduce returns the residue below the modulus that its comment promises,
\* and loses no carry at the last limb of T.
THEOREM PostconditionHolds == Spec => []Postcondition
<1>1. Reduction!Init /\ [][Reduction!Next]_(Reduction!vars) =>
        [](Reduction!Postcondition /\ Reduction!NoOverflow)
  <2>1. RP!Spec => []RP!Postcondition
    BY ReducedAssumptions, RP!PostconditionOK
  <2>2. RP!Spec => []RP!NoOverflow
    BY ReducedAssumptions, RP!NoOverflowOK
  <2> QED BY <2>1, <2>2, SameReduction, PTL DEF RP!Spec
<1> DEFINE Own == function = "montgomery_reduce"
<1>2. ~Own /\ [Next]_vars => ~Own'
  BY FunctionStays
<1>3. Own /\ [Next]_vars => Own'
  BY FunctionStays
<1>4. Own /\ [Next]_vars => [Reduction!Next]_(Reduction!vars)
  BY ReductionSteps
<1>5. Init /\ Own => Reduction!Init
  BY ReductionSteps
<1>6. (Own => Reduction!Postcondition /\ Reduction!NoOverflow) => Postcondition
  BY DEF Postcondition
<1> HIDE DEF Own
<1> QED BY <1>1, <1>2, <1>3, <1>4, <1>5, <1>6, PTL DEF Spec

\* Operators of bigint have results whose types have room for them, in the library.
THEOREM ExactHolds == Spec => []Exact
<1> DEFINE Own == function = "bigint"
<1>1. ~Own /\ [Next]_vars => ~Own'
  BY FunctionStays
<1>2. Own /\ [Next]_vars => Own'
  BY FunctionStays
<1>3. Own /\ [Next]_vars => [Bigints!Next]_(Bigints!vars)
  BY IntegersSteps
<1>4. Init /\ Own => Bigints!Init
  BY IntegersSteps
<1>5. (Own => Bigints!Exact) => Exact
  BY DEF Exact
<1> HIDE DEF Own
<1> QED BY <1>1, <1>2, <1>3, <1>4, <1>5, ExactOK, PTL DEF Spec, Bigints!Spec

\* Greatest common divisors, and the coefficients that inverses are made of, in the library.
THEOREM CoefficientsHold == Spec => []Coefficients
<1> DEFINE Own == function = "divisor"
<1>1. ~Own /\ [Next]_vars => ~Own'
  BY FunctionStays
<1>2. Own /\ [Next]_vars => Own'
  BY FunctionStays
<1>3. Own /\ [Next]_vars => [Divisors!Next]_(Divisors!vars)
  BY DivisorsSteps
<1>4. Init /\ Own => Divisors!Init
  BY DivisorsSteps
<1>5. (Own => Divisors!GreatestDivisor /\ Divisors!Coefficients /\ Divisors!Bezout)
        => Coefficients
  BY DEF Coefficients
<1> HIDE DEF Own
<1> QED BY <1>1, <1>2, <1>3, <1>4, <1>5, DivisorsOK, PTL DEF Spec, Divisors!Spec

\* Quotients and remainders in the library: they are the right ones, a program that is compiled
\* has a limb for every digit, and an estimate is corrected twice at most.
THEOREM QuotientRemainderHolds == Spec => []QuotientRemainder
<1> DEFINE Own == function = "divide"
<1>1. ~Own /\ [Next]_vars => ~Own'
  BY FunctionStays
<1>2. Own /\ [Next]_vars => Own'
  BY FunctionStays
<1>3. Own /\ [Next]_vars => [Quotients!Next]_(Quotients!vars)
  BY QuotientsSteps
<1>4. Init /\ Own => Quotients!Init
  BY QuotientsSteps
<1>5. (Own => Quotients!QuotientRemainder /\ Quotients!TwoCorrections) => QuotientRemainder
  BY DEF QuotientRemainder
<1> HIDE DEF Own
<1> QED BY <1>1, <1>2, <1>3, <1>4, <1>5, DivisionOK, PTL DEF Spec, Quotients!Spec

\* Functions on bits in the library: what they write and count is right, whatever the size of
\* limbs, the sizes of the operands and the bits of a shift, also in place.
THEOREM BitsMeantHolds == Spec => []BitsMeant
<1> DEFINE Own == function = "bits"
<1>1. ~Own /\ [Next]_vars => ~Own'
  BY FunctionStays
<1>2. Own /\ [Next]_vars => Own'
  BY FunctionStays
<1>3. Own /\ [Next]_vars => [Bits!Next]_(Bits!vars)
  BY BitsSteps
<1>4. Init /\ Own => Bits!Init
  BY BitsSteps
<1>5. (Own => Bits!BitsWritten /\ Bits!Counted) => BitsMeant
  BY DEF BitsMeant
<1> HIDE DEF Own
<1> QED BY <1>1, <1>2, <1>3, <1>4, <1>5, BitFunctionsOK, PTL DEF Spec, Bits!Spec

==============================================================================
