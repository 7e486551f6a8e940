----------------------- MODULE LongMultiplicationProofs -----------------------
(***************************************************************************)
(* multiply gives the product's limbs, for every size of limb, operands,   *)
(* sizes of the result, and memory that it starts from.                    *)
(***************************************************************************)
EXTENDS LongMultiplication, WordProofs

------------------------------------------------------------------------------
(* Equal limbs *)

\* Congruent with a witness.
LEMMA CongruentOK ==
  ASSUME NEW x \in Int, NEW y \in Int, call.size \in 0..Limbs
  PROVE  /\ B^call.size \in Nat \ {0}
         /\ Congruent(x, y) => \E q \in Int : y = x + q * B^call.size
         /\ \A q \in Int : y = x + q * B^call.size => Congruent(x, y)
<1> DEFINE v == B^call.size
           d == y - x
<1>1. v \in Nat \ {0} /\ d \in Int
  BY PowerAssumption
<1> HIDE DEF v
<1>2. ASSUME Congruent(x, y) PROVE \E q \in Int : y = x + q * v
  <2>1. d % v = 0
    BY <1>2 DEF Congruent, v
  <2> HIDE DEF d
  <2>2. d \div v \in Int /\ d = v * (d \div v) + (d % v)
    BY <1>1, QuotientAndRemainder
  <2> DEFINE q == d \div v
  <2>3. q \in Int /\ d = v * q
    BY <1>1, <2>1, <2>2
  <2> HIDE DEF q
  <2>4. v * q = q * v /\ v * q \in Int
    BY <1>1, <2>3
  <2>5. y = x + q * v
    BY <2>3, <2>4 DEF d
  <2> QED BY <2>3, <2>5
<1>3. ASSUME NEW q \in Int, y = x + q * v PROVE Congruent(x, y)
  <2>1. q * v = v * q /\ q * v \in Int
    BY <1>1
  <2>2. d = v * q + 0 /\ 0 \in 0..v-1
    BY <1>1, <1>3, <2>1
  <2> HIDE DEF d
  <2>3. d % v = 0
    BY <1>1, <2>2, QuotientUnique
  <2> QED BY <2>3 DEF Congruent, d, v
<1> QED BY <1>1, <1>2, <1>3 DEF v

\* The numbers that a call consists of, and where the loops may be.
LEMMA StateOK ==
  ASSUME TypeOK, Allowed(call)
  PROVE  /\ call.left \in Nat /\ call.right \in Nat
         /\ call.left \in Int /\ call.right \in Int
         /\ right_overlap \in Int /\ right_overlap <= call.size
         /\ call.left_size \in 0..Limbs /\ call.right_size \in 0..Limbs
         /\ call.size \in 0..Limbs /\ call.result_size \in 0..Limbs
         /\ call.size <= call.result_size /\ call.size <= call.left_size + call.right_size
         /\ i \in 0..call.size /\ i <= call.right_size /\ k \in 0..call.size
         /\ Written \in 0..call.size
         /\ Written = i + left_overlap
         /\ carry \in Int /\ intermediate \in Int
<1>1. call \in Calls /\ i \in 0..right_overlap /\ k \in 0..call.size /\ carry \in Word
  BY DEF TypeOK
<1>2. intermediate \in Int
  BY DEF TypeOK
<1>3. /\ call.left \in Nat /\ call.right \in Nat
      /\ call.left_size \in 0..Limbs /\ call.right_size \in 0..Limbs
      /\ call.size \in 0..Limbs /\ call.result_size \in 0..Limbs
  BY <1>1 DEF Calls
<1>4. i \in 0..call.size /\ i <= call.right_size
  BY <1>1, <1>3, WordAssumption DEF right_overlap, Least
<1>5. Written \in 0..call.size /\ Written = i + left_overlap
  BY <1>3, <1>4, WordAssumption DEF Written, left_overlap, Least
<1>6. call.size <= call.result_size /\ call.size <= call.left_size + call.right_size
  BY DEF Allowed
<1>7. carry \in Int
  BY <1>1, WordAssumption DEF Word
<1>8. right_overlap \in Int /\ right_overlap <= call.size
  BY <1>3, WordAssumption DEF right_overlap, Least
<1> QED BY <1>1, <1>2, <1>3, <1>4, <1>5, <1>6, <1>7, <1>8

\* Limbs of a number are numbers.
LEMMA FirstLimbsType == \A x \in Int, n \in 0..Limbs : FirstLimbs(x, n) \in Int
BY SplitOK

\* A number with few limbs has no others.
LEMMA OwnLimbs ==
  ASSUME NEW x \in Nat, NEW n \in 0..Limbs, x < B^n
  PROVE  FirstLimbs(x, n) = x
<1>1. B^n \in Nat
  BY PowerAssumption
<1> DEFINE v == B^n
<1>2. v \in Nat /\ x < v
  BY <1>1
<1> HIDE DEF v
<1>3. x \in 0..v-1
  BY <1>2
<1> QED BY <1>3, SpanOK DEF v

------------------------------------------------------------------------------
(* The steps *)

\* Nothing is promised of the memory that the intermediate starts with.
LEMMA InitLoopInv == Init => LoopInv
<1> SUFFICES ASSUME Init PROVE LoopInv
  OBVIOUS
<1>1. PICK left \in Numbers \cap Nat, right \in Numbers \cap Nat, n \in 0..Limbs, r \in 0..Limbs,
           size \in 0..Limbs, result_size \in 0..Limbs :
        /\ call = [left |-> left, right |-> right, left_size |-> n, right_size |-> r,
                   size |-> size, result_size |-> result_size]
        /\ Allowed(call)
  BY DEF Init
<1>2. PICK garbage \in Numbers : intermediate = FirstLimbs(garbage, call.size)
  BY DEF Init
<1>3. call \in Calls /\ call.size = size /\ call.result_size = result_size
      /\ call.right_size = r
  BY <1>1 DEF Calls
<1>4. intermediate \in 0 .. B^size - 1
  <2> DEFINE v == B^size
  <2>1. garbage \in Int /\ FirstLimbs(garbage, size) \in Nat /\ FirstLimbs(garbage, size) < v
        /\ v \in Nat
    BY NumberAssumption, SplitOK, PowerAssumption
  <2> HIDE DEF v
  <2>2. FirstLimbs(garbage, size) \in 0..v-1
    BY <2>1
  <2> QED BY <1>2, <1>3, <2>2 DEF v
<1>5. 0 \in 0 .. B^result_size - 1
  <2>1. B^result_size \in Nat \ {0}
    BY PowerAssumption
  <2> QED BY <2>1
<1>6. pc = "row" /\ i = 0 /\ k = 0 /\ carry = 0 /\ result = 0
  BY DEF Init
<1>7. i \in 0..right_overlap /\ k \in 0..call.size
  BY <1>3, <1>6, WordAssumption DEF right_overlap, Least
<1>8. carry \in Word
  BY <1>6, WordAssumption DEF Word
<1>9. TypeOK
  BY <1>3, <1>4, <1>5, <1>6, <1>7, <1>8 DEF TypeOK
<1>10. right_overlap = 0 => intermediate = 0
  BY DEF Init
<1> QED BY <1>1, <1>6, <1>9, <1>10 DEF LoopInv

\* The terms of the loops' invariant.
LEMMA TermsOK ==
  ASSUME LoopInv
  PROVE  /\ call.left * FirstLimbs(call.right, i) \in Int
         /\ FirstLimbs(intermediate, Written) \in Int
         /\ B^k \in Nat /\ B^i \in Nat /\ B^call.size \in Nat \ {0}
         /\ Sum \in Int
         /\ carry * B^k \in Int
         /\ pc = "column" => /\ FirstLimbs(call.left, k-i) \in Int
                             /\ Limb(call.right, i) \in Word
                             /\ Part * B^i \in Int
                             /\ i \in 0..call.size-1 /\ i \in 0..Limbs-1
<1>1. /\ call.left \in Int /\ call.right \in Int /\ carry \in Int /\ intermediate \in Int
      /\ right_overlap \in Int /\ right_overlap <= call.size
      /\ i \in 0..Limbs /\ k \in 0..Limbs /\ Written \in 0..Limbs
      /\ call.size \in 0..Limbs
  <2>1. TypeOK /\ Allowed(call)
    BY DEF LoopInv
  <2> QED BY <2>1, StateOK, WordAssumption
<1>3. FirstLimbs(call.right, i) \in Int /\ FirstLimbs(intermediate, Written) \in Int
  BY <1>1, FirstLimbsType
<1>4. B^k \in Nat /\ B^i \in Nat /\ B^call.size \in Nat \ {0}
  BY <1>1, PowerAssumption
<1>5. Sum \in Int
  BY <1>1, FirstLimbsType DEF Sum
<1>6. ASSUME NEW x \in Int, NEW y \in Int PROVE x * y \in Int
  OBVIOUS
<1>7. call.left * FirstLimbs(call.right, i) \in Int /\ carry * B^k \in Int
  BY <1>1, <1>3, <1>4, <1>6
<1>8. ASSUME pc = "column"
      PROVE  /\ FirstLimbs(call.left, k-i) \in Int /\ Limb(call.right, i) \in Word
             /\ Part * B^i \in Int
             /\ i \in 0..call.size-1 /\ i \in 0..Limbs-1
  <2>1. i < right_overlap /\ i <= k
    BY <1>8 DEF LoopInv
  <2>4. i \in 0..call.size-1 /\ i \in 0..Limbs-1 /\ k-i \in 0..Limbs
    BY <1>1, <2>1, WordAssumption
  <2>5. FirstLimbs(call.left, k-i) \in Int /\ Limb(call.right, i) \in Word
    <3>1. FirstLimbs(call.left, k-i) \in Int
      BY <1>1, <2>4, FirstLimbsType
    <3>2. Limb(call.right, i) \in Word
      BY <1>1, <2>4, LimbType
    <3> QED BY <3>1, <3>2
  <2>6. Limb(call.right, i) \in Int
    BY <2>5, WordAssumption DEF Word
  <2>7. Part \in Int
    BY <2>5, <2>6, <1>6 DEF Part
  <2> QED BY <1>4, <1>6, <2>4, <2>5, <2>7
<1> QED BY <1>3, <1>4, <1>5, <1>7, <1>8

\* There is a row only if the right operand has a limb.
LEMMA HasRow ==
  ASSUME LoopInv, pc = "column"
  PROVE  right_overlap # 0
<1>1. i < right_overlap
  BY DEF LoopInv
<1>2. i \in 0..call.size /\ call.size \in 0..Limbs /\ right_overlap \in Int
  BY StateOK DEF LoopInv
<1> QED BY <1>1, <1>2, WordAssumption

\* The first row starts from nothing, and the others from what is there.
LEMMA RowStep == LoopInv /\ Row => LoopInv'
<1> SUFFICES ASSUME LoopInv, Row PROVE LoopInv'
  OBVIOUS
<1>1. /\ pc = "row" /\ i < right_overlap /\ k' = i /\ carry' = 0 /\ pc' = "column"
      /\ call' = call /\ intermediate' = intermediate /\ i' = i /\ result' = result
  BY DEF Row
<1>2. TypeOK /\ Allowed(call)
  BY DEF LoopInv
<1>3. i \in 0..call.size /\ Written \in 0..call.size /\ Written = i + left_overlap
      /\ call.left_size \in 0..Limbs /\ call.size \in 0..Limbs
      /\ call.left \in Int /\ call.right \in Int /\ intermediate \in Int
  BY <1>2, StateOK
<1>4. Written' = Written /\ right_overlap' = right_overlap
  BY <1>1 DEF Written, right_overlap
<1>5. i <= Written
  BY <1>3, WordAssumption DEF left_overlap, Least
<1>6. TypeOK'
  <2>1. k' \in 0..call'.size /\ i' \in 0..right_overlap'
    BY <1>1, <1>2, <1>3, <1>4 DEF TypeOK
  <2>2. carry' \in Word
    BY <1>1, WordAssumption DEF Word
  <2> QED BY <1>1, <1>2, <2>1, <2>2 DEF TypeOK
<1>7. Part' = 0 /\ Part' * B^i' = 0 /\ carry' * B^k' = 0
  <2>1. FirstLimbs(call.left, 0) = 0 /\ k' - i' = 0
    BY <1>1, <1>3, NoLimbs
  <2>2. i \in 0..Limbs-1
    <3>1. right_overlap \in Int /\ right_overlap <= call.size
      BY <1>2, StateOK
    <3> QED BY <1>1, <1>3, <3>1, WordAssumption
  <2>3. Limb(call.right, i) \in Int
    <3>1. Limb(call.right, i) \in Word
      BY <1>3, <2>2, LimbType
    <3> QED BY <3>1, WordAssumption DEF Word
  <2>4. Part' = FirstLimbs(call.left, k' - i') * Limb(call.right, i)
    BY <1>1 DEF Part
  <2>5. Part' = 0
    BY <2>1, <2>3, <2>4
  <2>6. B^i \in Int
    BY TermsOK
  <2> QED BY <1>1, <2>5, <2>6
<1>8. Sum' = FirstLimbs(intermediate, IF i = 0 THEN i ELSE Written)
  BY <1>1, <1>4 DEF Sum
<1> DEFINE base == call.left * FirstLimbs(call.right, i)
<1>9. base \in Int /\ Sum' \in Int
  <2>1. Written \in 0..Limbs /\ i \in 0..Limbs
    BY <1>3, WordAssumption
  <2>2. Sum' \in Int
    BY <1>3, <1>8, <2>1, FirstLimbsType
  <2> QED BY <2>2, TermsOK
<1> HIDE DEF base
<1>10. Congruent(Sum', base)
  <2>1. CASE i = 0
    <3>1. FirstLimbs(call.right, 0) = 0 /\ FirstLimbs(intermediate, 0) = 0
      BY <1>3, NoLimbs
    <3>2. base = 0 /\ Sum' = 0
      BY <1>3, <1>8, <2>1, <3>1 DEF base
    <3>3. B^call.size \in Nat \ {0}
      BY <1>3, PowerAssumption
    <3>4. base = Sum' + 0 * B^call.size
      BY <3>2, <3>3
    <3> QED BY <1>3, <1>9, <3>4, CongruentOK, 0 \in Int
  <2>2. CASE i # 0
    <3>1. i > 0
      BY <1>3, <2>2
    <3> QED BY <1>1, <1>8, <2>2, <3>1 DEF LoopInv, base
  <2> QED BY <2>1, <2>2
<1>11. Sum' + carry' * B^k' = Sum' /\ base + Part' * B^i' = base
  BY <1>7, <1>9
<1>12. Congruent(Sum' + carry' * B^k', base + Part' * B^i')
  BY <1>10, <1>11
<1>13. right_overlap' # 0
  <2>1. right_overlap \in Int
    BY <1>2, StateOK
  <2> QED BY <1>1, <1>3, <1>4, <2>1, WordAssumption
<1> QED BY <1>1, <1>2, <1>3, <1>4, <1>5, <1>6, <1>12, <1>13 DEF LoopInv, Congruent, base

\* Writing a limb changes the sum by what the limb changes by: by the whole limb, in
\* the first row.
LEMMA SumStep ==
  ASSUME LoopInv, pc = "column", k < Written, NEW word \in Word,
         call' = call, i' = i, k' = k + 1, intermediate' = Store(intermediate, k, word)
  PROVE  /\ k \in 0..call.size-1 /\ k \in 0..Limbs-1
         /\ Current \in Word
         /\ Sum' = Sum + (word - Current) * B^k
         /\ intermediate' \in 0 .. B^call.size - 1
<1>1. /\ intermediate \in Int /\ call.size \in 0..Limbs /\ k \in 0..call.size
      /\ Written \in 0..call.size
  BY StateOK DEF LoopInv
<1>2. k \in 0..call.size-1 /\ k \in 0..Limbs-1 /\ k \in 0..Written-1 /\ Written \in 0..Limbs
  BY <1>1, WordAssumption
<1>3. Limb(intermediate, k) \in Word
  BY <1>1, <1>2, LimbType
<1>4. Current \in Word
  BY <1>3, WordAssumption DEF Current, Word
<1>5. Written' = Written
  BY DEF Written
<1>6. Sum' = Sum + (word - Current) * B^k
  <2>1. CASE i = 0
    <3>1. Sum' = FirstLimbs(intermediate', k+1) /\ Sum = FirstLimbs(intermediate, k)
      BY <2>1 DEF Sum
    <3>2. FirstLimbs(intermediate', k+1) = FirstLimbs(intermediate, k) + word * B^k
      BY <1>1, <1>2, StoreOK
    <3>3. Current = 0
      BY <2>1 DEF Current
    <3>4. word - Current = word
      BY <3>3, WordAssumption DEF Word
    <3> QED BY <3>1, <3>2, <3>4
  <2>2. CASE i # 0
    <3>1. Sum' = FirstLimbs(intermediate', Written) /\ Sum = FirstLimbs(intermediate, Written)
      BY <1>5, <2>2 DEF Sum
    <3>2. Current = Limb(intermediate, k)
      BY <2>2 DEF Current
    <3> QED BY <1>1, <1>2, <3>1, <3>2, StoreWithin
  <2> QED BY <2>1, <2>2
<1>7. intermediate' \in 0 .. B^call.size - 1
  BY <1>1, <1>2, StoreInside DEF LoopInv, TypeOK
<1> QED BY <1>2, <1>4, <1>6, <1>7

\* One limb more of the left operand: so much is added, at the limb that is written.
LEMMA PartStep ==
  ASSUME LoopInv, pc = "column", k \in 0..Limbs-1, call' = call, i' = i, k' = k + 1
  PROVE  /\ Limb(call.left, k-i) \in Word /\ Limb(call.right, i) \in Word
         /\ Part' * B^i' = Part * B^i + (Limb(call.left, k-i) * Limb(call.right, i)) * B^k
<1>1. /\ call.left \in Int /\ call.right \in Int /\ call.size \in 0..Limbs
      /\ i \in 0..call.size /\ i <= k
  BY StateOK DEF LoopInv
<1>2. /\ k-i \in 0..Limbs-1 /\ k' - i' = (k-i) + 1 /\ i \in 0..k /\ k \in 0..Limbs
  BY <1>1, WordAssumption
<1> DEFINE l == Limb(call.left, k-i)
           r == Limb(call.right, i)
           f == FirstLimbs(call.left, k-i)
           u == B^i
           v == B^(k-i)
           w == B^k
<1>3. l \in Word /\ f \in Nat
  BY <1>1, <1>2, LimbType
<1>4. r \in Word
  BY TermsOK
<1>5. FirstLimbs(call.left, (k-i) + 1) = f + l * v
  BY <1>1, <1>2, LimbOK
<1>6. u \in Nat /\ v \in Nat /\ w \in Nat /\ w = u * v
  BY <1>2, PowerOK, PowerAssumption
<1>7. Part = f * r /\ Part' = (f + l * v) * r
  BY <1>2, <1>5 DEF Part
<1>8. l \in Int /\ r \in Int
  BY <1>3, <1>4, WordAssumption DEF Word
<1> HIDE DEF l, r, f, u, v, w
<1>9. ((f + l * v) * r) * u = (f * r) * u + (l * r) * (u * v)
  BY <1>3, <1>6, <1>8
<1>10. Part' * u = Part * u + (l * r) * w
  BY <1>6, <1>7, <1>9
<1> QED BY <1>3, <1>4, <1>10 DEF l, r, u, w

\* Column keeps the loop's invariant: what goes out with the carry is lost only where
\* there is no limb for it.
LEMMA ColumnStep == LoopInv /\ Column => LoopInv'
<1> SUFFICES ASSUME LoopInv, Column PROVE LoopInv'
  OBVIOUS
<1> DEFINE l == Limb(call.left, k-i)
           r == Limb(call.right, i)
           c == Current
<1>1. /\ pc = "column" /\ k < i + left_overlap /\ k' = k + 1
      /\ call' = call /\ pc' = pc /\ i' = i /\ result' = result
  BY DEF Column
<1>2. /\ call.size \in 0..Limbs /\ call.result_size \in 0..Limbs
      /\ call.size <= call.result_size /\ Written \in 0..call.size
      /\ Written = i + left_overlap /\ k \in 0..call.size /\ i \in 0..call.size
  BY StateOK DEF LoopInv
<1>3. k < Written /\ k \in 0..Limbs-1 /\ k + 1 <= call.size
  BY <1>1, <1>2, WordAssumption
<1>4. l \in Word /\ r \in Word
        /\ Part' * B^i' = Part * B^i + (l * r) * B^k
  BY <1>1, <1>3, PartStep
<1>5. c \in Word /\ carry \in Word
  <2>1. intermediate \in Int
    BY StateOK DEF LoopInv
  <2>2. Limb(intermediate, k) \in Word
    BY <1>3, <2>1, LimbType
  <2> QED BY <2>2, WordAssumption DEF LoopInv, TypeOK, Current, Word
<1> HIDE DEF l, r, c
<1>6. \E word \in Word, high \in Int :
        /\ intermediate' = Store(intermediate, k, word)
        /\ word + B * high = l * r + c + carry
        /\ carry' \in Word
        /\ \/ k + 1 < call.result_size /\ carry' = high
           \/ k + 1 = call.size /\ carry' = 0
  <2> DEFINE m == ExtendedMultiplyAdd(l, r, c, carry)
  <2>1. CASE k + 1 < call.result_size
    <3>1. intermediate' = Store(intermediate, k, m.lower) /\ carry' = m.upper
      BY <2>1 DEF Column, l, r, c
    <3>2. m.lower \in Word /\ m.upper \in Word /\ m.lower + B * m.upper = l * r + c + carry
      BY <1>4, <1>5, ExtendedMultiplyAddOK
    <3> HIDE DEF m
    <3>3. m.upper \in Int
      BY <3>2, WordAssumption DEF Word
    <3> QED BY <2>1, <3>1, <3>2, <3>3
  <2>2. CASE ~(k + 1 < call.result_size)
    <3>1. intermediate' = Store(intermediate, k, MultiplyAdd(l, r, c, carry)) /\ carry' = 0
      BY <2>2 DEF Column, l, r, c
    <3>2. MultiplyAdd(l, r, c, carry) \in Word
          /\ \E h \in Int : MultiplyAdd(l, r, c, carry) + B * h = l * r + c + carry
      BY <1>4, <1>5, MultiplyAddOK
    <3>3. k + 1 = call.size
      BY <1>2, <1>3, <2>2
    <3>4. carry' \in Word
      BY <3>1, WordAssumption DEF Word
    <3> QED BY <3>1, <3>2, <3>3, <3>4
  <2> QED BY <2>1, <2>2
<1>7. PICK word \in Word, high \in Int :
        /\ intermediate' = Store(intermediate, k, word)
        /\ word + B * high = l * r + c + carry
        /\ carry' \in Word
        /\ \/ k + 1 < call.result_size /\ carry' = high
           \/ k + 1 = call.size /\ carry' = 0
  BY <1>6
<1>8. Sum' = Sum + (word - c) * B^k /\ intermediate' \in 0 .. B^call.size - 1
  BY <1>1, <1>3, <1>7, SumStep DEF c
<1>9. Written' = Written /\ right_overlap' = right_overlap
  BY <1>1 DEF Written, right_overlap
<1>10. TypeOK'
  <2>1. k' \in 0..call'.size
    BY <1>1, <1>2, <1>3
  <2> QED BY <1>1, <1>7, <1>8, <1>9, <2>1 DEF LoopInv, TypeOK
<1>11. Congruent(Sum' + carry' * B^k', call.left * FirstLimbs(call.right, i) + Part' * B^i')
  <2> DEFINE base == call.left * FirstLimbs(call.right, i)
             part == Part * B^i
             V    == B^call.size
             u    == B^k
             sum  == Sum
             more == (l * r) * u
             x    == sum + carry * u
             x2   == Sum' + carry' * B^k'
  <2>1. base \in Int /\ part \in Int /\ V \in Nat \ {0} /\ u \in Nat /\ sum \in Int
        /\ carry * u \in Int
    BY <1>1, TermsOK
  <2>2. B^(k+1) = u * B
    <3>1. k+1 \in 0..Limbs /\ k \in 0..k+1 /\ k < k+1
      BY <1>3, WordAssumption
    <3> QED BY <3>1, PowerOK
  <2>3. PICK q \in Int : base + part = x + q * V
    <3>1. Congruent(x, base + part)
      BY <1>1 DEF LoopInv
    <3>2. x \in Int /\ base + part \in Int
      BY <2>1
    <3> HIDE DEF x, base, part
    <3> QED BY <1>2, <3>1, <3>2, CongruentOK
  <2>4. Sum' = sum + (word - c) * u /\ Part' * B^i' = part + more /\ x2 = Sum' + carry' * (u * B)
    BY <1>1, <1>4, <1>8, <2>2
  <2>5. l \in Int /\ r \in Int /\ c \in Int /\ carry \in Int /\ word \in Int /\ carry' \in Int
        /\ B \in Int
    BY <1>4, <1>5, <1>7, WordAssumption DEF Word
  <2> HIDE DEF base, part, V, u, sum
  <2>6. (word - c) * u + high * (u * B) = more + carry * u
    <3>1. (word - c) * u + high * (u * B) = (word + B * high - c) * u
      BY <2>1, <2>5
    <3> DEFINE product == l * r
    <3>2. product \in Int /\ B * high \in Int
      BY <2>5
    <3>3. word + B * high = product + c + carry
      BY <1>7
    <3> HIDE DEF product
    <3>4. word + B * high - c = product + carry
      BY <2>5, <3>2, <3>3
    <3>5. (product + carry) * u = product * u + carry * u
      BY <2>1, <2>5, <3>2
    <3> QED BY <3>1, <3>4, <3>5 DEF product
  <2>7. /\ (word - c) * u \in Int /\ high * (u * B) \in Int /\ more \in Int /\ q * V \in Int
        /\ u * B \in Int /\ Sum' \in Int
    <3>1. \A a, b \in Int : a * b \in Int
      OBVIOUS
    <3>2. word - c \in Int /\ u \in Int /\ V \in Int
      BY <2>1, <2>5
    <3>3. u * B \in Int /\ l * r \in Int /\ (word - c) * u \in Int /\ q * V \in Int
      BY <2>3, <2>5, <3>1, <3>2
    <3>4. high * (u * B) \in Int /\ (l * r) * u \in Int
      BY <3>1, <3>2, <3>3
    <3> QED BY <2>1, <2>4, <3>3, <3>4
  <2> HIDE DEF more
  <2>8. base + part + more = Sum' + high * (u * B) + q * V
    BY <2>1, <2>3, <2>4, <2>6, <2>7 DEF x
  <2>9. \E p \in Int : base + (part + more) = x2 + p * V
    <3>1. CASE carry' = high
      <4>1. x2 = Sum' + high * (u * B)
        BY <2>4, <3>1
      <4> HIDE DEF x2
      <4>2. base + (part + more) = x2 + q * V
        BY <2>1, <2>7, <2>8, <4>1
      <4> QED BY <2>3, <4>2
    <3>2. CASE k + 1 = call.size /\ carry' = 0
      <4>1. u * B = V
        BY <2>2, <3>2 DEF V
      <4>2. (high + q) * V = high * V + q * V
        BY <2>1, <2>3
      <4>3. x2 = Sum'
        BY <2>4, <2>7, <3>2
      <4>4. high * V \in Int /\ high + q \in Int
        BY <2>7, <4>1, <2>3
      <4>5. base + (part + more) = x2 + (high + q) * V
        BY <2>1, <2>7, <2>8, <4>1, <4>2, <4>3, <4>4
      <4> QED BY <4>4, <4>5
    <3> QED BY <1>7, <3>1, <3>2
  <2>10. x2 \in Int /\ base + (part + more) \in Int
    <3>1. carry' * (u * B) \in Int
      BY <2>5, <2>7
    <3> QED BY <2>1, <2>4, <2>7, <3>1
  <2>11. Congruent(x2, base + (part + more))
    <3> HIDE DEF x2
    <3> QED BY <1>2, <2>9, <2>10, CongruentOK DEF V
  <2> QED BY <2>4, <2>11 DEF base
<1>12. i <= k' /\ k' <= Written
  BY <1>1, <1>2, <1>3 DEF LoopInv
<1>13. right_overlap' # 0
  BY <1>1, <1>9, HasRow
<1> QED BY <1>1, <1>9, <1>10, <1>11, <1>12, <1>13 DEF LoopInv, Congruent

\* One limb more of the right operand.
LEMMA RowProduct ==
  ASSUME LoopInv, pc = "column"
  PROVE  /\ call.left * FirstLimbs(call.right, i+1) =
              call.left * FirstLimbs(call.right, i) + (call.left * Limb(call.right, i)) * B^i
         /\ call.left * FirstLimbs(call.right, i+1) \in Int
<1> DEFINE f == FirstLimbs(call.right, i)
           r == Limb(call.right, i)
           u == B^i
           l == call.left
<1>1. l \in Int /\ call.right \in Int
  BY StateOK DEF LoopInv
<1>2. i \in 0..Limbs-1 /\ r \in Word /\ u \in Nat
  BY TermsOK
<1>3. f \in Nat /\ FirstLimbs(call.right, i+1) = f + r * u
  BY <1>1, <1>2, LimbOK
<1>4. r \in Int
  BY <1>2, WordAssumption DEF Word
<1> HIDE DEF f, r, u, l
<1>5. l * (f + r * u) = l * f + (l * r) * u
  BY <1>1, <1>2, <1>3, <1>4
<1>6. r * u \in Int
  BY <1>2, <1>4
<1>7. l * (f + r * u) \in Int
  BY <1>1, <1>3, <1>6
<1> QED BY <1>3, <1>5, <1>7 DEF f, r, u, l

\* EndRow keeps the loop's invariant: the row is the left operand times one limb, or as
\* much of that as there is room for.
LEMMA EndRowStep == LoopInv /\ EndRow => LoopInv'
<1> SUFFICES ASSUME LoopInv, EndRow PROVE LoopInv'
  OBVIOUS
<1>1. /\ pc = "column" /\ k = i + left_overlap /\ i' = i + 1 /\ pc' = "row"
      /\ call' = call /\ k' = k /\ carry' = carry /\ result' = result
  BY DEF EndRow
<1>2. /\ call.size \in 0..Limbs /\ call.left_size \in 0..Limbs /\ call.right_size \in 0..Limbs
      /\ Written \in 0..call.size /\ Written = i + left_overlap /\ call.left \in Nat
      /\ k \in 0..call.size /\ intermediate \in Int /\ right_overlap \in Int
  BY StateOK DEF LoopInv
<1>3. i \in 0..call.size-1 /\ i \in 0..Limbs-1 /\ i < right_overlap /\ i <= k /\ carry \in Word
  BY <1>1, TermsOK DEF LoopInv, TypeOK
<1>4. k = Written /\ Sum = FirstLimbs(intermediate, k)
  BY <1>1, <1>2 DEF Sum
<1>5. right_overlap' # 0 /\ i' \in 0..right_overlap'
  <2>1. right_overlap' = right_overlap
    BY <1>1 DEF right_overlap
  <2> QED BY <1>1, <1>2, <1>3, <2>1, HasRow
<1> DEFINE L    == call.left
           r    == Limb(call.right, i)
           base == L * FirstLimbs(call.right, i)
           f    == FirstLimbs(L, k-i)
           u    == B^i
           w    == B^k
           V    == B^call.size
           sum  == Sum
           goal == L * FirstLimbs(call.right, i+1)
<1>6. /\ base \in Int /\ sum \in Int /\ carry * w \in Int /\ f \in Int /\ r \in Word
      /\ Part * u \in Int /\ u \in Nat /\ w \in Nat /\ V \in Nat \ {0}
  BY <1>1, TermsOK
<1>7. PICK q \in Int : base + Part * u = (sum + carry * w) + q * V
  <2>1. Congruent(sum + carry * w, base + Part * u)
    BY <1>1 DEF LoopInv
  <2>2. sum + carry * w \in Int /\ base + Part * u \in Int
    BY <1>6
  <2> HIDE DEF base, u, w, sum
  <2> QED BY <1>2, <2>1, <2>2, CongruentOK
<1>8. goal = base + (L * r) * u /\ goal \in Int /\ Part * u = (f * r) * u
  BY <1>1, RowProduct DEF Part
<1>9. r \in Int /\ L \in Int /\ carry \in Int
  BY <1>2, <1>3, <1>6, WordAssumption DEF Word
<1>10. CASE call.size > call.left_size + i
  <2>1. k = call.left_size + i /\ k \in 0..call.size-1 /\ k \in 0..Limbs-1
    BY <1>2, <1>3, <1>4, <1>10, WordAssumption DEF Written, Least
  <2>2. intermediate' = Store(intermediate, k, carry)
    BY <1>10, <2>1 DEF EndRow
  <2>3. intermediate' \in 0 .. V-1
    BY <1>2, <1>3, <2>1, <2>2, StoreInside DEF LoopInv, TypeOK
  <2>4. Written' = k + 1
    <3>1. Written' = Least(call.size, call.left_size + (i + 1))
      BY <1>1 DEF Written
    <3> QED BY <1>2, <1>3, <1>10, <2>1, <3>1 DEF Least
  <2>5. FirstLimbs(intermediate', k+1) = sum + carry * w
    BY <1>2, <1>3, <1>4, <2>1, <2>2, StoreOK
  <2>6. f = L
    <3>1. call.left < B^call.left_size
      BY DEF LoopInv, Allowed
    <3>2. k - i = call.left_size
      BY <1>2, <1>3, <2>1
    <3> QED BY <1>2, <3>1, <3>2, OwnLimbs
  <2>7. goal = (sum + carry * w) + q * V
    BY <1>7, <1>8, <2>6
  <2>8. Congruent(sum + carry * w, goal)
    <3>1. sum + carry * w \in Int
      BY <1>6
    <3> HIDE DEF sum, w, goal
    <3> QED BY <1>2, <1>8, <2>7, <3>1, CongruentOK DEF V
  <2>9. TypeOK'
    BY <1>1, <1>5, <2>3 DEF LoopInv, TypeOK
  <2>10. Congruent(FirstLimbs(intermediate', Written'), goal)
    BY <2>4, <2>5, <2>8
  <2> QED BY <1>1, <1>5, <2>9, <2>10 DEF LoopInv, Congruent
<1>11. CASE ~(call.size > call.left_size + i)
  <2>1. k = call.size
    BY <1>2, <1>3, <1>4, <1>11 DEF Written, Least
  <2>2. intermediate' = intermediate
    BY <1>11 DEF EndRow
  <2>3. Written' = call.size
    <3>1. Written' = Least(call.size, call.left_size + (i + 1))
      BY <1>1 DEF Written
    <3> QED BY <1>2, <1>3, <1>11, <3>1 DEF Least
  <2>4. \E h \in Int : (L * r) * u = (f * r) * u + h * V
    <3> DEFINE n == k - i
               g == Subspan(L, n)
               b == B^n
    <3>1. n \in 0..Limbs /\ i \in 0..k /\ k \in 0..Limbs
      BY <1>2, <1>3, WordAssumption
    <3>2. g \in Int /\ L = f + g * b
      BY <1>9, <3>1, SplitOK
    <3>3. b \in Nat /\ V = u * b
      BY <2>1, <3>1, PowerOK, PowerAssumption
    <3> HIDE DEF g, b, f, L, r, u, V
    <3>4. ((f + g * b) * r) * u = (f * r) * u + (g * r) * (u * b)
      BY <1>6, <1>9, <3>2, <3>3
    <3>5. g * r \in Int
      BY <1>9, <3>2
    <3> QED BY <3>2, <3>3, <3>4, <3>5
  <2>5. PICK h \in Int : (L * r) * u = (f * r) * u + h * V
    BY <2>4
  <2>6. goal = sum + (q + carry + h) * V
    <3> HIDE DEF L, r, base, f, u, V, sum, goal
    <3>1. w = V
      BY <2>1 DEF V
    <3> HIDE DEF w
    <3>2. (q + carry + h) * V = q * V + carry * V + h * V
      BY <1>6, <1>7, <1>9, <2>5
    <3>3. q * V \in Int /\ carry * V \in Int /\ h * V \in Int
      BY <1>6, <1>7, <1>9, <2>5
    <3>4. goal = base + (Part * u + h * V)
      BY <1>8, <2>5
    <3> QED BY <1>6, <1>7, <3>1, <3>2, <3>3, <3>4
  <2>7. Congruent(sum, goal)
    <3>1. q + carry + h \in Int
      BY <1>7, <1>9, <2>5
    <3> HIDE DEF sum, goal
    <3> QED BY <1>2, <1>6, <1>8, <2>6, <3>1, CongruentOK DEF V
  <2>8. TypeOK'
    BY <1>1, <1>5, <2>2 DEF LoopInv, TypeOK
  <2>9. Congruent(FirstLimbs(intermediate', Written'), goal)
    BY <1>4, <2>1, <2>2, <2>3, <2>7
  <2> QED BY <1>1, <1>5, <2>8, <2>9 DEF LoopInv, Congruent
<1> QED BY <1>10, <1>11

------------------------------------------------------------------------------
(* The result *)

\* After the last row the intermediate is the product, as far as it has limbs.
LEMMA Finished ==
  ASSUME LoopInv, pc = "row", i = right_overlap
  PROVE  intermediate = FirstLimbs(call.left * call.right, call.result_size)
<1> DEFINE L == call.left
           R == call.right
           V == B^call.size
           p == L * R
<1>1. /\ L \in Nat /\ R \in Nat /\ call.size \in 0..Limbs /\ call.result_size \in 0..Limbs
      /\ call.left_size \in 0..Limbs /\ call.right_size \in 0..Limbs
      /\ call.size <= call.left_size + call.right_size /\ call.size <= call.result_size
      /\ i \in 0..call.size
  BY StateOK DEF LoopInv
<1>2. Allowed(call) /\ intermediate \in 0 .. V-1
  BY DEF LoopInv, TypeOK
<1>3. V \in Nat \ {0} /\ p \in Nat
  BY <1>1, PowerAssumption
<1>4. FirstLimbs(p, call.size) = intermediate
  <2>1. CASE call.size = 0
    <3>1. V = 1
      BY <2>1, PowerAssumption
    <3>2. intermediate = 0
      BY <1>2, <3>1
    <3> QED BY <1>3, <2>1, <3>2, NoLimbs
  <2>2. CASE call.size # 0 /\ call.right_size # 0
    <3>2. i > 0 /\ Written = call.size
      BY <1>1, <2>2 DEF right_overlap, Written, Least
    <3> DEFINE part == L * FirstLimbs(R, i)
    <3>3. part \in Int /\ FirstLimbs(intermediate, Written) = intermediate
      BY <1>1, <1>2, <3>2, TermsOK, SpanOK
    <3>4. PICK q \in Int : part = intermediate + q * V
      <4>1. Congruent(intermediate, part)
        BY <3>2, <3>3 DEF LoopInv
      <4> HIDE DEF part
      <4>2. intermediate \in Int
        BY <1>2, <1>3
      <4> QED BY <1>1, <3>3, <4>1, <4>2, CongruentOK
    <3>5. \E h \in Int : p = part + h * V
      <4>1. CASE i = call.right_size
        <5>1. FirstLimbs(R, i) = R
          <6>1. call.right < B^call.right_size
            BY <1>2 DEF Allowed
          <6> QED BY <1>1, <4>1, <6>1, OwnLimbs
        <5>2. 0 * V = 0
          BY <1>3
        <5> HIDE DEF V
        <5>3. p = part + 0 * V
          BY <1>3, <3>3, <5>1, <5>2
        <5> QED BY <5>3
      <4>2. CASE i # call.right_size
        <5>1. i = call.size
          BY <1>1, <4>2 DEF right_overlap, Least
        <5> DEFINE g == Subspan(R, i)
                   f == FirstLimbs(R, i)
        <5>2. g \in Int /\ f \in Nat /\ R = f + g * V
          <6>1. R \in Int /\ i \in 0..Limbs
            BY <1>1, <5>1
          <6>2. FirstLimbs(R, i) \in Nat /\ Subspan(R, i) \in Int
                /\ R = FirstLimbs(R, i) + Subspan(R, i) * B^i
            BY <6>1, SplitOK
          <6> QED BY <5>1, <6>2
        <5> HIDE DEF g, f, V, L, R
        <5>3. L * (f + g * V) = L * f + (L * g) * V
          BY <1>1, <1>3, <5>2
        <5>4. L * g \in Int
          BY <1>1, <5>2
        <5> QED BY <5>2, <5>3, <5>4 DEF f
      <4> QED BY <4>1, <4>2
    <3>6. PICK h \in Int : p = part + h * V
      BY <3>5
    <3> HIDE DEF V, p, part
    <3>7. p = V * (q + h) + intermediate
      <4>1. V * (q + h) = q * V + h * V /\ q * V \in Int /\ h * V \in Int
        BY <1>3, <3>4, <3>6
      <4> QED BY <1>2, <1>3, <3>3, <3>4, <3>6, <4>1
    <3>8. p % V = intermediate
      <4>1. q + h \in Int /\ p \in Int
        BY <1>3, <3>4, <3>6
      <4> QED BY <1>2, <1>3, <3>7, <4>1, QuotientUnique
    <3> QED BY <3>8 DEF FirstLimbs, V
  <2>3. CASE call.right_size = 0
    <3>1. right_overlap = 0
      BY <1>1, <2>3 DEF right_overlap, Least
    <3>2. intermediate = 0
      BY <3>1 DEF LoopInv
    <3>3. R < 1
      BY <1>2, <2>3, PowerAssumption DEF Allowed
    <3>4. p = 0
      BY <1>1, <3>3
    <3>5. 0 \in 0 .. V-1
      BY <1>3
    <3> HIDE DEF p, V
    <3>6. FirstLimbs(0, call.size) = 0
      BY <1>1, <3>5, SpanOK DEF V
    <3> QED BY <3>2, <3>4, <3>6
  <2> QED BY <2>1, <2>2, <2>3
<1>5. CASE call.size = call.result_size
  BY <1>4, <1>5
<1>6. CASE L * R < V
  <2>1. p = intermediate
    BY <1>1, <1>3, <1>4, <1>6, OwnLimbs
  <2>2. V <= B^call.result_size /\ B^call.result_size \in Nat
    <3>1. call.size \in 0..call.result_size
      BY <1>1
    <3> QED BY <1>1, <3>1, PowerMonotone
  <2> DEFINE x == B^call.result_size
  <2>3. p < x
    <3> HIDE DEF p, V, x
    <3>1. p < V
      BY <1>6 DEF p
    <3>2. V <= x /\ x \in Nat
      BY <2>2 DEF x
    <3> QED BY <1>3, <3>1, <3>2
  <2> HIDE DEF p
  <2>4. FirstLimbs(p, call.result_size) = p
    BY <1>1, <1>3, <2>3, OwnLimbs
  <2> QED BY <2>1, <2>4 DEF p
<1> QED BY <1>2, <1>5, <1>6 DEF Allowed

\* LoopInv and what it ends with
IInv == LoopInv /\ Product

\* Copy gives what the last row has left.
LEMMA CopyStep == IInv /\ Copy => IInv'
<1> SUFFICES ASSUME IInv, Copy PROVE IInv'
  OBVIOUS
<1>1. /\ pc = "row" /\ i = right_overlap /\ result' = intermediate /\ pc' = "done"
      /\ call' = call /\ intermediate' = intermediate /\ i' = i /\ k' = k /\ carry' = carry
  BY DEF Copy
<1>2. intermediate = FirstLimbs(call.left * call.right, call.result_size)
  BY <1>1, Finished DEF IInv
<1>3. /\ call.left \in Nat /\ call.right \in Nat /\ call.result_size \in 0..Limbs
  BY StateOK DEF IInv, LoopInv
<1>4. result' \in 0 .. B^call.result_size - 1
  <2> DEFINE p == call.left * call.right
             v == B^call.result_size
  <2>1. p \in Int /\ v \in Nat
    BY <1>3, PowerAssumption
  <2> HIDE DEF p
  <2>2. FirstLimbs(p, call.result_size) \in Nat /\ FirstLimbs(p, call.result_size) < v
    BY <1>3, <2>1, SplitOK
  <2> HIDE DEF v
  <2>3. FirstLimbs(p, call.result_size) \in 0 .. v-1
    BY <2>1, <2>2
  <2> QED BY <1>1, <1>2, <2>3 DEF p, v
<1>5. right_overlap' = right_overlap
  BY <1>1 DEF right_overlap
<1>6. TypeOK'
  BY <1>1, <1>4, <1>5 DEF IInv, LoopInv, TypeOK
<1>7. LoopInv'
  BY <1>1, <1>5, <1>6 DEF IInv, LoopInv
<1>8. Product'
  BY <1>1, <1>2 DEF Product
<1> QED BY <1>7, <1>8 DEF IInv

\* The loops' invariant and the result are inductive.
LEMMA Inductive == Spec => []IInv
<1>1. Init => IInv
  BY InitLoopInv DEF IInv, Init, Product
<1>2. IInv /\ [Next]_vars => IInv'
  <2> SUFFICES ASSUME IInv, [Next]_vars PROVE IInv'
    OBVIOUS
  <2>1. CASE Row
    BY <2>1, RowStep DEF IInv, Row, Product
  <2>2. CASE Column
    BY <2>2, ColumnStep DEF IInv, Column, Product
  <2>3. CASE EndRow
    BY <2>3, EndRowStep DEF IInv, EndRow, Product
  <2>4. CASE Copy
    BY <2>4, CopyStep
  <2>5. CASE UNCHANGED vars
    BY <2>5 DEF vars, IInv, LoopInv, Product, TypeOK, right_overlap, Written, Congruent,
       Sum, Part, Current, left_overlap
  <2> QED BY <2>1, <2>2, <2>3, <2>4, <2>5 DEF Next
<1> QED BY <1>1, <1>2, PTL DEF Spec

\* The result of multiply is the product, cut off where the result ends, whatever the
\* memory for the intermediate held before.
THEOREM ProductOK == Spec => []Product
<1>1. IInv => Product
  BY DEF IInv
<1> QED BY <1>1, Inductive, PTL

\* Nothing is written beyond a span, and every carry is a limb.
THEOREM LongMultiplicationTypeOK == Spec => []TypeOK
<1>1. IInv => TypeOK
  BY DEF IInv, LoopInv
<1> QED BY <1>1, Inductive, PTL

==============================================================================
