--------------------------- MODULE MontgomeryProofs ---------------------------
(***************************************************************************)
(* montgomery_reduce keeps the promise in its comment, for every size of   *)
(* limb, modulus, number of limbs and value that its precondition allows.  *)
(***************************************************************************)
EXTENDS Montgomery, WordProofs

------------------------------------------------------------------------------
(* What is asked for *)

\* The numbers that a call consists of.
LEMMA CallOK ==
  ASSUME call \in Calls, Allowed(call)
  PROVE  /\ call.modulus \in Nat \ {0} /\ call.modulus < B^call.limb_size
         /\ call.inverse_modulus \in Word
         /\ call.value \in Nat /\ call.value < B^call.auxiliary_power * call.modulus
         /\ call.limb_size \in 1..Limbs /\ call.auxiliary_power \in 1..Limbs
         /\ TLimbs(call) = call.auxiliary_power + call.limb_size + 1
         /\ TLimbs(call) \in 0..Limbs
         /\ B^call.auxiliary_power \in Nat \ {0} /\ B^TLimbs(call) \in Nat \ {0}
<1>1. /\ call.modulus \in Nat \ {0} /\ call.inverse_modulus \in Word /\ call.value \in Nat
      /\ call.limb_size \in 1..Limbs /\ call.auxiliary_power \in 1..Limbs
  BY DEF Calls, Moduli
<1>2. /\ call.value < B^call.auxiliary_power * call.modulus
      /\ TLimbs(call) <= Limbs
      /\ call.modulus \in B^(call.limb_size - 1) .. B^call.limb_size - 1
  BY DEF Allowed
<1>3. TLimbs(call) = call.auxiliary_power + call.limb_size + 1
  BY DEF TLimbs
<1>4. TLimbs(call) \in 0..Limbs /\ call.auxiliary_power \in 0..Limbs
      /\ call.limb_size \in 0..Limbs
  BY <1>1, <1>2, <1>3, WordAssumption
<1>5. B^call.auxiliary_power \in Nat \ {0} /\ B^TLimbs(call) \in Nat \ {0}
      /\ B^call.limb_size \in Nat
  BY <1>4, PowerAssumption
<1>6. call.modulus < B^call.limb_size
  <2>1. call.limb_size - 1 \in 0..Limbs
    BY <1>1, WordAssumption
  <2>2. B^(call.limb_size - 1) \in Nat
    BY <2>1, PowerAssumption
  <2> DEFINE u == B^call.limb_size
             v == B^(call.limb_size - 1)
  <2>3. u \in Nat /\ v \in Nat /\ call.modulus \in v .. u-1
    BY <1>2, <1>5, <2>2
  <2> HIDE DEF u, v
  <2>4. call.modulus < u
    BY <2>3
  <2> QED BY <2>4 DEF u
<1> QED BY <1>1, <1>2, <1>3, <1>4, <1>5, <1>6

\* T has room for twice the greatest value: one limb more than the value.
LEMMA RoomOK ==
  ASSUME call \in Calls, Allowed(call)
  PROVE  2 * (B^call.auxiliary_power * call.modulus) <= B^TLimbs(call)
<1> DEFINE N == call.modulus
           p == call.limb_size
           R == B^call.auxiliary_power
           u == B^p
           v == B^TLimbs(call)
<1>1. /\ N \in Nat /\ R \in Nat /\ N < u /\ call.limb_size \in 1..Limbs
      /\ call.auxiliary_power \in 1..Limbs /\ TLimbs(call) = call.auxiliary_power + p + 1
      /\ TLimbs(call) \in 0..Limbs
  BY CallOK
<1>2. /\ p \in 0..Limbs /\ p + 1 \in 0..Limbs /\ p \in 0..p+1 /\ p < p+1
      /\ call.auxiliary_power \in 0..TLimbs(call)
      /\ TLimbs(call) - call.auxiliary_power = p + 1
  BY <1>1, WordAssumption
<1>3. u \in Nat /\ B^(p+1) = u * B
  BY <1>2, PowerOK
<1>4. v = R * B^(p+1)
  BY <1>1, <1>2, PowerOK
<1>5. v = R * (u * B)
  BY <1>3, <1>4
<1> HIDE DEF N, p, R, u, v
<1>6. 2 * N <= u * B
  <2>1. u * 2 <= u * B
    BY <1>3, WordAssumption
  <2>2. u * B \in Int
    BY <1>3, WordAssumption
  <2> QED BY <1>1, <1>3, <2>1, <2>2
<1>7. R * (2 * N) <= R * (u * B)
  <2> DEFINE x == 2 * N
             y == u * B
  <2>1. x \in Int /\ y \in Int /\ x <= y
    BY <1>1, <1>3, <1>6, WordAssumption
  <2> HIDE DEF x, y
  <2>2. R * x <= R * y
    BY <1>1, <2>1
  <2> QED BY <2>2 DEF x, y
<1>8. 2 * (R * N) = R * (2 * N)
  BY <1>1
<1> QED BY <1>5, <1>7, <1>8 DEF N, R, v

\* Beyond its own limbs the modulus has none: there the carry goes up alone.
LEMMA ModulusEnds ==
  ASSUME call \in Calls, Allowed(call), NEW j \in call.limb_size..Limbs
  PROVE  Limb(call.modulus, j) = 0 /\ FirstLimbs(call.modulus, j) = call.modulus
<1> DEFINE N == call.modulus
           p == call.limb_size
           u == B^p
           w == B^(j-p)
           v == B^j
<1>1. N \in Nat /\ N < u /\ p \in 1..Limbs
  BY CallOK
<1>2. j \in 0..Limbs /\ p \in 0..j /\ j-p \in 0..Limbs /\ j-p \in 0..j-p
  BY <1>1, WordAssumption
<1>3. u \in Nat \ {0} /\ w \in Nat \ {0} /\ v = u * w
  BY <1>2, PowerOK
<1> HIDE DEF N, u, w, v
<1>4. u <= v /\ v \in Nat
  <2>1. u * 1 <= u * w
    BY <1>3
  <2> QED BY <1>3, <2>1
<1>5. N \in 0..v-1
  BY <1>1, <1>3, <1>4
<1>6. Subspan(N, j) = 0 /\ FirstLimbs(N, j) = N
  BY <1>1, <1>2, <1>5, SpanOK DEF v
<1>7. 0 % B = 0
  BY WordAssumption
<1> QED BY <1>6, <1>7 DEF Limb, Subspan, N

------------------------------------------------------------------------------
(* Rows *)

\* A common factor.
LEMMA Distribute ==
  \A b, q, x, o \in Int : b * q + (x * b) * o = b * (q + x * o)
OBVIOUS

\* A base whose limbs below b are zero, and the multiple of N for its next limb.
Chosen(base, b, N, inverse, x) ==
  /\ base % b = 0
  /\ (N * inverse + 1) % B = 0
  /\ x = (((base \div b) % B) * inverse) % B

\* A row makes one more limb zero: the multiple is chosen so.
LEMMA RowDivides ==
  ASSUME NEW b \in Nat \ {0}, NEW base \in Nat, NEW N \in Nat, NEW inverse \in Nat,
         NEW x \in Nat, Chosen(base, b, N, inverse, x)
  PROVE  (base + (x * b) * N) % (b * B) = 0
<1>hypotheses. /\ base % b = 0 /\ (N * inverse + 1) % B = 0
               /\ x = (((base \div b) % B) * inverse) % B
  BY DEF Chosen
<1> DEFINE q == base \div b
           d == q % B
           e == q \div B
           y == d * inverse
           h == y \div B
           z == N * inverse + 1
           g == z \div B
           u == e + d * g - h * N
<1>0. B \in Nat \ {0}
  BY WordAssumption
<1>1. q \in Int /\ base = b * q
  <2>1. base \div b \in Int /\ base = b * (base \div b) + (base % b)
    BY QuotientAndRemainder, base \in Int
  <2> QED BY <1>hypotheses, <2>1
<1> HIDE DEF q
<1>2. d \in Nat /\ e \in Int /\ q = B * e + d
  <2>1. q \div B \in Int /\ q % B \in 0..B-1 /\ q = B * (q \div B) + (q % B)
    BY <1>0, <1>1, QuotientAndRemainder
  <2> QED BY <2>1, <1>0
<1> HIDE DEF d, e
<1>3. y \in Int
  BY <1>2
<1>4. h \in Int /\ y = B * h + x
  <2>1. y \div B \in Int /\ y = B * (y \div B) + (y % B)
    BY <1>0, <1>3, QuotientAndRemainder
  <2>2. x = y % B
    BY <1>hypotheses DEF q, d
  <2> HIDE DEF y
  <2> QED BY <2>1, <2>2
<1>5. z \in Int
  OBVIOUS
<1>6. g \in Int /\ z = B * g
  <2>1. z \div B \in Int /\ z = B * (z \div B) + (z % B)
    BY <1>0, <1>5, QuotientAndRemainder
  <2>2. z % B = 0
    BY <1>hypotheses
  <2> HIDE DEF z
  <2> QED BY <2>1, <2>2, <1>0
<1> HIDE DEF h, g
<1>7. u \in Int
  BY <1>2, <1>4, <1>6
<1>8. q + x * N = B * u
  <2>1. x * N = (d * inverse - B * h) * N
    BY <1>2, <1>4, WordAssumption
  <2>2. (d * inverse - B * h) * N = d * (N * inverse + 1) - d - B * (h * N)
    BY <1>0, <1>2, <1>4
  <2>3. d * (N * inverse + 1) = B * (d * g)
    BY <1>0, <1>2, <1>6
  <2>4. B * u = B * e + B * (d * g) - B * (h * N)
    BY <1>0, <1>2, <1>4, <1>6
  <2>5. B * e \in Int /\ B * (d * g) \in Int /\ B * (h * N) \in Int /\ x * N \in Int
        /\ d * (N * inverse + 1) \in Int /\ B * u \in Int
    BY <1>0, <1>2, <1>4, <1>6, <1>7
  <2> QED BY <1>1, <1>2, <2>1, <2>2, <2>3, <2>4, <2>5
<1> HIDE DEF u
<1>9. base + (x * b) * N = (b * B) * u + 0
  <2>1. base + (x * b) * N = b * (q + x * N)
    <3>1. b \in Int /\ q \in Int /\ x \in Int /\ N \in Int
      BY <1>1
    <3>2. b * q + (x * b) * N = b * (q + x * N)
      BY <3>1, Distribute
    <3> QED BY <1>1, <3>2
  <2>2. b * (B * u) = (b * B) * u
    BY <1>0, <1>7
  <2>3. (b * B) * u \in Int
    BY <1>0, <1>7
  <2> QED BY <1>8, <2>1, <2>2, <2>3
<1>10. b * B \in Nat \ {0} /\ base + (x * b) * N \in Int
  BY <1>0
<1> DEFINE n == b * B
           t == base + (x * b) * N
<1>11. n \in Nat \ {0} /\ t \in Int /\ t = n * u + 0 /\ 0 \in 0..n-1
  BY <1>9, <1>10
<1> HIDE DEF n, t
<1>12. t % n = 0
  BY <1>7, <1>11, QuotientUnique
<1> QED BY <1>12 DEF n, t

\* One limb of a row, as an equation of numbers.
LEMMA RowStep ==
  ASSUME NEW t \in Int, NEW l \in Int, NEW word \in Int, NEW up \in Int, NEW c \in Int,
         NEW x \in Int, NEW n \in Int, NEW w \in Int, NEW b \in Int, NEW f \in Int,
         NEW first \in Int, NEW base \in Int,
         w = b * f, word + up = x * n + l + c, t + c * w = base + (x * b) * first
  PROVE  (t + (word - l) * w) + up * w = base + (x * b) * (first + n * f)
<1>1. (word - l + up) * w = (x * n + c) * w
  BY word - l + up = x * n + c, x * n \in Int
<1>2. (word - l + up) * w = (word - l) * w + up * w
  OBVIOUS
<1>3. (x * n + c) * w = (x * n) * w + c * w
  OBVIOUS
<1>4. (x * n) * w = (x * b) * (n * f)
  OBVIOUS
<1>5. (x * b) * (first + n * f) = (x * b) * first + (x * b) * (n * f)
  OBVIOUS
<1>6. /\ (word - l) * w \in Int /\ up * w \in Int /\ (x * n) * w \in Int /\ c * w \in Int
      /\ (x * b) * first \in Int /\ (x * b) * (n * f) \in Int
  OBVIOUS
<1> QED BY <1>1, <1>2, <1>3, <1>4, <1>5, <1>6

------------------------------------------------------------------------------
(* The invariant *)

Inv == LoopInv /\ Postcondition

\* The value goes into T, and nothing is added.
LEMMA InitInv == Init => Inv
<1> SUFFICES ASSUME Init PROVE Inv
  OBVIOUS
<1>1. /\ call \in Calls /\ Allowed(call) /\ pc = "row" /\ T = call.value
      /\ i = 0 /\ k = 0 /\ m = 0 /\ carry = 0 /\ result = 0
  <2>1. PICK modulus \in Moduli, size \in 1..Limbs, power \in 1..Limbs, inverse \in Word :
          \E value \in 0 .. B^power * modulus - 1 :
            call = [modulus |-> modulus, limb_size |-> size, inverse_modulus |-> inverse,
                    auxiliary_power |-> power, value |-> value] /\ Allowed(call)
    BY DEF Init
  <2>2. PICK value \in 0 .. B^power * modulus - 1 :
            call = [modulus |-> modulus, limb_size |-> size, inverse_modulus |-> inverse,
                    auxiliary_power |-> power, value |-> value] /\ Allowed(call)
    BY <2>1
  <2>3. B^power \in Nat /\ modulus \in Nat
    BY power \in 0..Limbs, PowerAssumption DEF Moduli
  <2> DEFINE u == B^power * modulus
  <2>4. u \in Int
    BY <2>3
  <2> HIDE DEF u
  <2>5. value \in Nat
    BY <2>4 DEF u
  <2> QED BY <2>2, <2>5 DEF Init, Calls
<1>2. T \in 0 .. B^TLimbs(call) - 1
  <2> DEFINE u == B^call.auxiliary_power * call.modulus
             v == B^TLimbs(call)
  <2>1. u \in Nat /\ v \in Nat /\ 2 * u <= v /\ call.value \in Nat /\ call.value < u
    BY <1>1, CallOK, RoomOK
  <2> HIDE DEF u, v
  <2>2. T \in 0..v-1
    BY <1>1, <2>1
  <2> QED BY <2>2 DEF v
<1>3. TypeOK
  BY <1>1, <1>2, CallOK, WordAssumption DEF TypeOK, Word
<1>4. \E multiple \in 0 .. B^i - 1 :
        call.value + multiple * call.modulus = T /\ T % B^i = 0
  <2>1. call.value \in Nat /\ call.modulus \in Nat
    BY <1>1, CallOK
  <2>2. T % 1 = 0
    BY <1>1, <2>1, QuotientUnique, T = 1 * T + 0
  <2>3. B^i = 1
    BY <1>1, PowerAssumption
  <2>4. call.value + 0 * call.modulus = T /\ 0 \in 0..1-1
    BY <1>1, <2>1
  <2> QED BY <2>2, <2>3, <2>4
<1> QED BY <1>1, <1>3, <1>4 DEF Inv, LoopInv, Postcondition

\* The number that a row starts from.
LEMMA BaseOK ==
  ASSUME TypeOK, Allowed(call), NEW multiple \in 0 .. B^i - 1
  PROVE  /\ i \in 0..Limbs /\ B^i \in Nat \ {0} /\ multiple \in Nat
         /\ call.value + multiple * call.modulus \in Nat
<1>1. call \in Calls /\ i \in 0..call.auxiliary_power
  BY DEF TypeOK
<1>2. call.value \in Nat /\ call.modulus \in Nat /\ call.auxiliary_power \in 1..Limbs
  BY <1>1, CallOK
<1>3. i \in 0..Limbs
  BY <1>1, <1>2, WordAssumption
<1>4. B^i \in Nat \ {0}
  BY <1>3, PowerAssumption
<1>5. multiple \in Nat
  <2> DEFINE b == B^i
  <2>1. b \in Nat /\ multiple \in 0..b-1
    BY <1>4
  <2> HIDE DEF b
  <2> QED BY <2>1
<1> QED BY <1>2, <1>3, <1>4, <1>5

\* A row starts with the multiple for its limb, and nothing of it in T.
LEMMA RowInv == Inv /\ Row => Inv'
<1> SUFFICES ASSUME Inv, Row PROVE Inv'
  OBVIOUS
<1>1. /\ TypeOK /\ Allowed(call) /\ pc = "row" /\ i < call.auxiliary_power
      /\ call' = call /\ T' = T /\ i' = i /\ result' = result /\ pc' = "multiply"
      /\ k' = i /\ carry' = 0 /\ m' = Times(Limb(T, i), call.inverse_modulus)
  BY DEF Row, Inv, LoopInv
<1>2. PICK multiple \in 0 .. B^i - 1 :
        T = call.value + multiple * call.modulus /\ T % B^i = 0
  BY <1>1 DEF Inv, LoopInv
<1>3. /\ call.modulus \in Nat /\ call.auxiliary_power \in 1..Limbs
      /\ TLimbs(call) = call.auxiliary_power + call.limb_size + 1
      /\ call.limb_size \in 1..Limbs /\ call.inverse_modulus \in Word
  BY <1>1, CallOK DEF TypeOK
<1>4. B^i \in Nat \ {0} /\ T \in Nat /\ i \in 0..Limbs
  BY <1>1, <1>2, BaseOK
<1>5. m' \in Word
  <2>0. i \in 0..Limbs-1
    BY <1>1, <1>3, <1>4, WordAssumption
  <2>1. Limb(T, i) \in Word
    BY <1>4, <2>0, LimbType
  <2> DEFINE y == Limb(T, i) * call.inverse_modulus
  <2>2. y \in Int
    BY <1>3, <2>1, WordAssumption DEF Word
  <2>3. m' = y % B
    BY <1>1 DEF Times
  <2> HIDE DEF y
  <2> QED BY <2>2, <2>3, WordAssumption DEF Word
<1>6. TypeOK'
  BY <1>1, <1>3, <1>4, <1>5, WordAssumption DEF TypeOK, Word
<1>7. T' + carry' * B^k' = T + (m' * B^i) * FirstLimbs(call.modulus, k' - i)
  <2>1. FirstLimbs(call.modulus, 0) = 0
    <3>1. call.modulus % 1 = 0
      BY <1>3, QuotientUnique, call.modulus = 1 * call.modulus + 0
    <3> QED BY <3>1, PowerAssumption DEF FirstLimbs
  <2>2. k' - i = 0 /\ B^k' = B^i
    BY <1>1, <1>4
  <2>3. (m' * B^i) * 0 = 0 /\ 0 * B^i = 0
    <3> DEFINE x == m'
               b == B^i
    <3>1. x \in Int /\ b \in Int
      BY <1>4, <1>5, WordAssumption DEF Word
    <3> HIDE DEF x, b
    <3>2. (x * b) * 0 = 0 /\ 0 * b = 0
      BY <3>1
    <3> QED BY <3>2 DEF x, b
  <2> QED BY <1>1, <1>4, <2>1, <2>2, <2>3
<1>8. /\ i' < call'.auxiliary_power /\ i' <= k'
      /\ m' = Times(Limb(T, i), call'.inverse_modulus)
  BY <1>1, <1>4
<1> QED BY <1>1, <1>2, <1>6, <1>7, <1>8 DEF Inv, LoopInv, Postcondition

\* A limb of T is written, and the carry keeps what does not fit into it.
LEMMA WriteInv ==
  ASSUME Inv, pc = "multiply", k < TLimbs(call), NEW word \in Word, NEW up \in Word,
         word + B * up = m * Limb(call.modulus, k - i) + Limb(T, k) + carry,
         T' = Store(T, k, word), carry' = up, k' = k + 1,
         UNCHANGED <<call, pc, i, m, result>>
  PROVE  Inv'
<1>1. TypeOK /\ Allowed(call) /\ call \in Calls
  BY DEF Inv, LoopInv, TypeOK
<1>2. PICK multiple \in 0 .. B^i - 1 :
        LET base == call.value + multiple * call.modulus
        IN  /\ base % B^i = 0 /\ i < call.auxiliary_power /\ i <= k
            /\ m = Times(Limb(base, i), call.inverse_modulus)
            /\ T + carry * B^k = base + (m * B^i) * FirstLimbs(call.modulus, k - i)
  BY DEF Inv, LoopInv
<1> DEFINE base  == call.value + multiple * call.modulus
           N     == call.modulus
           b     == B^i
           f     == B^(k-i)
           w     == B^k
           v     == B^(k+1)
           l     == Limb(T, k)
           n     == Limb(N, k - i)
           first == FirstLimbs(N, k - i)
           out   == B * up
<1>3. /\ N \in Nat /\ TLimbs(call) \in 0..Limbs /\ B^TLimbs(call) \in Nat \ {0}
  BY <1>1, CallOK
<1>4. base \in Nat /\ b \in Nat /\ i \in 0..Limbs
  BY <1>1, BaseOK
<1>5. /\ k \in 0..TLimbs(call)-1 /\ k \in 0..Limbs-1 /\ i \in 0..k /\ k+1 \in 0..Limbs
      /\ k \in 0..k+1 /\ k-i \in 0..Limbs-1 /\ k \in 0..Limbs /\ k < k+1
      /\ (k+1) - i = (k-i) + 1
  BY <1>1, <1>2, <1>3, <1>4, WordAssumption DEF TypeOK
<1>6. w = b * f /\ f \in Nat /\ w \in Nat /\ v = w * B
  <2>1. w = b * f /\ w \in Nat /\ k-i \in 0..Limbs
    BY <1>5, PowerOK, PowerAssumption, k \in 0..k
  <2>2. f \in Nat
    BY <2>1, PowerAssumption
  <2>3. v = w * B
    BY <1>5, PowerOK
  <2> QED BY <2>1, <2>2, <2>3
<1>7. T \in Int /\ carry \in Int /\ m \in Int /\ word \in Int /\ out \in Int /\ up \in Int
  <2>1. T \in Int
    <3> DEFINE u == B^TLimbs(call)
    <3>1. u \in Nat /\ T \in 0..u-1
      BY <1>1, <1>3 DEF TypeOK
    <3> HIDE DEF u
    <3> QED BY <3>1
  <2>2. carry \in Int /\ m \in Int /\ word \in Int /\ up \in Int
    BY <1>1, WordAssumption DEF TypeOK, Word
  <2>3. out \in Int
    BY <2>2, WordAssumption
  <2> QED BY <2>1, <2>2, <2>3
<1>8. l \in Int /\ n \in Int /\ first \in Int /\ FirstLimbs(N, (k+1) - i) = first + n * f
  <2>1. l \in Word
    BY <1>5, <1>7, LimbType
  <2>2. N \in Int /\ k-i \in 0..Limbs-1
    BY <1>3, <1>5
  <2> HIDE DEF N
  <2>3. n \in Word /\ first \in Nat
    BY <2>2, LimbType
  <2>4. FirstLimbs(N, (k-i) + 1) = first + n * f
    BY <2>2, LimbOK
  <2> QED BY <1>5, <2>1, <2>3, <2>4, WordAssumption DEF Word
<1>9. T' = T + (word - l) * w
  BY DEF Store
<1>10. T' \in 0 .. B^TLimbs(call) - 1
  <2>1. T \in 0 .. B^TLimbs(call) - 1
    BY <1>1 DEF TypeOK
  <2> QED BY <1>3, <1>5, <2>1, StoreInside
<1>11. TypeOK'
  <2>1. call' = call /\ TLimbs(call') = TLimbs(call)
    OBVIOUS
  <2>2. k' \in 0..TLimbs(call') /\ T' \in 0 .. B^TLimbs(call') - 1
    BY <1>3, <1>5, <1>10, <2>1
  <2> QED BY <1>1, <2>1, <2>2 DEF TypeOK
<1>12. word + out = m * n + l + carry /\ T + carry * w = base + (m * b) * first
  BY <1>2
<1>13. up * v = out * w
  BY <1>6, <1>7, WordAssumption
<1> HIDE DEF base, N, b, f, w, v, l, n, first, out
<1>14. (T + (word - l) * w) + out * w = base + (m * b) * (first + n * f)
  BY <1>4, <1>6, <1>7, <1>8, <1>12, RowStep
<1>15. T' + carry' * B^k' = base + (m * b) * FirstLimbs(call'.modulus, k' - i')
  BY <1>8, <1>9, <1>13, <1>14 DEF v, N
<1>16. i' <= k'
  BY <1>4, <1>5
<1> QED BY <1>1, <1>2, <1>11, <1>15, <1>16 DEF Inv, LoopInv, Postcondition, base, b, Allowed, TLimbs

\* A limb of the modulus goes into T.
LEMMA MultiplyInv == Inv /\ Multiply => Inv'
<1> SUFFICES ASSUME Inv, Multiply PROVE Inv'
  OBVIOUS
<1> DEFINE n == Limb(call.modulus, k - i)
           l == Limb(T, k)
           r == ExtendedMultiplyAdd(m, n, l, carry)
<1>1. /\ pc = "multiply" /\ TypeOK /\ Allowed(call) /\ call \in Calls
      /\ i < call.auxiliary_power /\ i <= k
  BY DEF Multiply, Inv, LoopInv, TypeOK
<1>2. /\ call.modulus \in Nat /\ TLimbs(call) \in 0..Limbs /\ call.limb_size \in 1..Limbs
      /\ TLimbs(call) = call.auxiliary_power + call.limb_size + 1
      /\ call.auxiliary_power \in 1..Limbs /\ B^TLimbs(call) \in Nat \ {0}
  BY <1>1, CallOK
<1>3. k < TLimbs(call) /\ k \in 0..Limbs-1 /\ k-i \in 0..Limbs-1
  BY <1>1, <1>2, WordAssumption DEF Multiply, TypeOK
<1>4. T \in Int
  <2> DEFINE u == B^TLimbs(call)
  <2>1. u \in Nat /\ T \in 0..u-1
    BY <1>1, <1>2 DEF TypeOK
  <2> HIDE DEF u
  <2> QED BY <2>1
<1>5. n \in Word /\ l \in Word
  BY SMTT(30), <1>2, <1>3, <1>4, LimbType
<1>6. m \in Word /\ carry \in Word
  BY <1>1 DEF TypeOK
<1>7. r.lower \in Word /\ r.upper \in Word /\ r.lower + B * r.upper = m * n + l + carry
  BY <1>5, <1>6, ExtendedMultiplyAddOK
<1>8. T' = Store(T, k, r.lower) /\ carry' = r.upper /\ k' = k + 1
      /\ UNCHANGED <<call, pc, i, m, result>>
  BY DEF Multiply
<1> HIDE DEF r
<1> QED BY <1>1, <1>3, <1>7, <1>8, WriteInv

\* The carry goes up.
LEMMA PropagateInv == Inv /\ Propagate => Inv'
<1> SUFFICES ASSUME Inv, Propagate PROVE Inv'
  OBVIOUS
<1> DEFINE l == Limb(T, k)
           r == ExtendedAdd(l, carry)
<1>1. /\ pc = "multiply" /\ TypeOK /\ Allowed(call) /\ call \in Calls
      /\ i < call.auxiliary_power /\ i <= k /\ k < TLimbs(call) /\ i + call.limb_size <= k
  BY DEF Propagate, Inv, LoopInv, TypeOK
<1>2. /\ TLimbs(call) \in 0..Limbs /\ call.limb_size \in 1..Limbs
      /\ call.auxiliary_power \in 1..Limbs /\ B^TLimbs(call) \in Nat \ {0}
  BY <1>1, CallOK
<1>3. k \in 0..Limbs-1 /\ k-i \in call.limb_size..Limbs
  BY <1>1, <1>2, WordAssumption DEF TypeOK
<1>4. T \in Int
  <2> DEFINE u == B^TLimbs(call)
  <2>1. u \in Nat /\ T \in 0..u-1
    BY <1>1, <1>2 DEF TypeOK
  <2> HIDE DEF u
  <2> QED BY <2>1
<1>5. l \in Word /\ Limb(call.modulus, k - i) = 0
  BY <1>1, <1>3, <1>4, LimbOK, ModulusEnds
<1>6. carry \in Word /\ m \in Int
  BY <1>1, WordAssumption DEF TypeOK, Word
<1>7. r.sum \in Word /\ r.carry \in Bit /\ r.sum + B * r.carry = l + carry
  BY <1>5, <1>6, ExtendedAddOK
<1>8. r.carry \in Word
  BY <1>7, WordAssumption DEF Bit, Word
<1>9. T' = Store(T, k, r.sum) /\ carry' = r.carry /\ k' = k + 1
      /\ UNCHANGED <<call, pc, i, m, result>>
  BY DEF Propagate
<1>10. l + carry = m * Limb(call.modulus, k - i) + l + carry
  <2>1. m * 0 = 0 /\ l \in Int
    BY <1>5, <1>6, WordAssumption DEF Word
  <2>2. 0 + l + carry = l + carry
    BY <2>1
  <2> QED BY <1>5, <2>1, <2>2
<1> HIDE DEF r, l
<1> QED BY <1>1, <1>7, <1>8, <1>9, <1>10, WriteInv DEF l

\* At the end of a row nothing is carried out of T, because T has room for what
\* was added, and the next limb is zero.
LEMMA RowEnds ==
  ASSUME Inv, pc = "multiply", k = TLimbs(call)
  PROVE  /\ carry = 0
         /\ i + 1 \in 0..call.auxiliary_power
         /\ \E multiple \in 0 .. B^(i+1) - 1 :
              /\ T = call.value + multiple * call.modulus
              /\ T % B^(i+1) = 0
<1>1. TypeOK /\ Allowed(call) /\ call \in Calls
  BY DEF Inv, LoopInv, TypeOK
<1>2. PICK multiple \in 0 .. B^i - 1 :
        LET base == call.value + multiple * call.modulus
        IN  /\ base % B^i = 0 /\ i < call.auxiliary_power /\ i <= k
            /\ m = Times(Limb(base, i), call.inverse_modulus)
            /\ T + carry * B^k = base + (m * B^i) * FirstLimbs(call.modulus, k - i)
  BY DEF Inv, LoopInv
<1> DEFINE base == call.value + multiple * call.modulus
           N    == call.modulus
           b    == B^i
           R    == B^call.auxiliary_power
           f    == B^(call.auxiliary_power - (i+1))
           u    == B^(i+1)
           v    == B^TLimbs(call)
           next == multiple + m * b
<1>3. /\ N \in Nat \ {0} /\ TLimbs(call) \in 0..Limbs /\ v \in Nat \ {0} /\ R \in Nat \ {0}
      /\ call.value \in Nat /\ call.value < R * N /\ call.inverse_modulus \in Word
      /\ call.limb_size \in 1..Limbs /\ call.auxiliary_power \in 1..Limbs
      /\ TLimbs(call) = call.auxiliary_power + call.limb_size + 1
  BY <1>1, CallOK
<1>4. base \in Nat /\ b \in Nat \ {0} /\ i \in 0..Limbs /\ multiple \in Nat
  BY <1>1, BaseOK
<1>5. /\ i \in 0..Limbs-1 /\ i+1 \in 0..Limbs /\ i \in 0..i+1 /\ i < i+1
      /\ i+1 \in 0..call.auxiliary_power /\ call.auxiliary_power \in 0..Limbs
      /\ k - i \in call.limb_size..Limbs
      /\ call.auxiliary_power - (i+1) \in 0..Limbs
  BY <1>2, <1>3, <1>4, WordAssumption
<1>6. u = b * B /\ u \in Nat
  <2>1. u = b * B
    BY <1>5, PowerOK
  <2>2. u \in Nat
    BY <1>5, PowerAssumption
  <2> QED BY <2>1, <2>2
<1>7. R = u * f /\ f \in Nat \ {0}
  <2>1. R = u * f
    BY <1>5, PowerOK
  <2>2. f \in Nat \ {0}
    BY <1>5, PowerAssumption
  <2> QED BY <2>1, <2>2
<1>8. m \in Nat /\ m <= B - 1 /\ carry \in Nat /\ T \in 0..v-1
  BY <1>1, WordAssumption DEF TypeOK, Word
<1>9. multiple <= b - 1
  <2> HIDE DEF b
  <2>1. b \in Nat /\ multiple \in 0..b-1
    BY <1>4 DEF b
  <2> QED BY <2>1
<1>10. T + carry * v = base + (m * b) * N
  BY <1>1, <1>2, <1>5, ModulusEnds
<1>11. 2 * (R * N) <= v
  BY <1>1, RoomOK
<1>12. m = (((base \div b) % B) * call.inverse_modulus) % B
  BY <1>2 DEF Times, Limb
<1>13. base % b = 0 /\ (N * call.inverse_modulus + 1) % B = 0
  BY <1>1, <1>2 DEF Allowed
<1>14. call.inverse_modulus \in Nat
  BY <1>3, WordAssumption DEF Word
<1>15. base = call.value + multiple * N
  OBVIOUS
<1> HIDE DEF base, N, b, R, f, u, v
<1>16. (base + (m * b) * N) % (b * B) = 0
  <2> DEFINE inverse == call.inverse_modulus
  <2>1. Chosen(base, b, N, inverse, m)
    BY <1>12, <1>13 DEF Chosen
  <2>2. /\ b \in Nat \ {0} /\ base \in Nat /\ N \in Nat /\ inverse \in Nat /\ m \in Nat
    BY <1>3, <1>4, <1>8, <1>14
  <2> HIDE DEF inverse
  <2> QED BY <2>1, <2>2, RowDivides
<1>17. next \in 0..u-1
  <2>1. m * b <= (B-1) * b /\ m * b \in Nat
    BY <1>4, <1>8, WordAssumption
  <2>2. (B-1) * b = b * B - b /\ b * B \in Int
    BY <1>4, WordAssumption
  <2> QED BY <1>4, <1>6, <1>9, <2>1, <2>2
<1>18. base + (m * b) * N = call.value + next * N
  <2>1. (multiple + m * b) * N = multiple * N + (m * b) * N
    BY <1>3, <1>4, <1>8
  <2>2. multiple * N \in Int /\ (m * b) * N \in Int
    BY <1>3, <1>4, <1>8
  <2> QED BY <1>3, <1>15, <2>1, <2>2
<1> HIDE DEF next
<1>19. next * N < R * N
  <2>1. u * 1 <= u * f
    BY <1>6, <1>7
  <2>2. next < R /\ next \in Int
    BY <1>6, <1>7, <1>17, <2>1
  <2> QED BY <1>3, <2>2
<1>20. T + carry * v < v
  <2>1. next * N \in Int /\ R * N \in Int
    BY <1>3, <1>6, <1>17
  <2> QED BY <1>3, <1>10, <1>11, <1>18, <1>19, <2>1
<1>21. carry = 0
  <2> SUFFICES ASSUME carry >= 1 PROVE FALSE
    BY <1>8
  <2>1. carry * v >= 1 * v /\ carry * v \in Int
    BY <1>3, <1>8
  <2> QED BY <1>3, <1>8, <1>20, <2>1
<1>22. T = call.value + next * N
  <2>1. 0 * v = 0 /\ T \in Int
    BY <1>3, <1>8
  <2> QED BY <1>10, <1>18, <1>21, <2>1
<1>23. T % u = 0
  BY <1>6, <1>16, <1>18, <1>22
<1> QED BY <1>5, <1>17, <1>21, <1>22, <1>23 DEF u, N

\* The next row starts from where this one ended.
LEMMA EndRowInv == Inv /\ EndRow => Inv'
<1> SUFFICES ASSUME Inv, EndRow PROVE Inv'
  OBVIOUS
<1>1. /\ pc = "multiply" /\ k = TLimbs(call) /\ i' = i + 1 /\ pc' = "row"
      /\ UNCHANGED <<call, T, k, m, carry, result>> /\ TypeOK /\ Allowed(call)
  BY DEF EndRow, Inv, LoopInv
<1>2. i' \in 0..call.auxiliary_power
      /\ \E multiple \in 0 .. B^i' - 1 :
           T = call.value + multiple * call.modulus /\ T % B^i' = 0
  BY <1>1, RowEnds
<1>3. TypeOK'
  BY <1>1, <1>2 DEF TypeOK, TLimbs
<1> QED BY <1>1, <1>2, <1>3 DEF Inv, LoopInv, Postcondition, Allowed, TLimbs

\* At the end T is R times a number below twice the modulus.
LEMMA ReduceInv == Inv /\ Reduce => Inv'
<1> SUFFICES ASSUME Inv, Reduce PROVE Inv'
  OBVIOUS
<1> DEFINE N == call.modulus
           r == call.auxiliary_power
           R == B^r
           S == T \div R
           x == S - Masked(N, IfBit(S >= N))
           v == B^call.limb_size
           y == IF S >= N THEN 1 ELSE 0
<1>1. /\ pc = "row" /\ i = r /\ pc' = "done" /\ UNCHANGED <<call, T, i, k, m, carry>>
      /\ TypeOK /\ Allowed(call) /\ call \in Calls
      /\ result' = FirstLimbs(x, call.limb_size)
  BY DEF Reduce, Inv, LoopInv, TypeOK, Subspan
<1>2. PICK multiple \in 0 .. R - 1 :
        T = call.value + multiple * N /\ T % R = 0
  BY <1>1 DEF Inv, LoopInv
<1>3. /\ N \in Nat \ {0} /\ N < v /\ R \in Nat \ {0} /\ call.value \in Nat
      /\ call.value < R * N /\ call.limb_size \in 0..Limbs
  <2>1. /\ N \in Nat \ {0} /\ N < v /\ R \in Nat \ {0} /\ call.value \in Nat
        /\ call.value < R * N /\ call.limb_size \in 1..Limbs
    BY <1>1, CallOK
  <2> QED BY <2>1, WordAssumption
<1>4. v \in Nat
  BY <1>3, PowerAssumption
<1> HIDE DEF N, r, R, v
<1>5. multiple \in Nat /\ multiple < R /\ T \in Nat
  BY <1>2, <1>3
<1>6. S \in Int /\ T = R * S
  <2>1. T \div R \in Int /\ T = R * (T \div R) + (T % R)
    BY <1>3, <1>5, QuotientAndRemainder, T \in Int
  <2> QED BY <1>2, <1>3, <2>1 DEF S
<1>7. x = S - y * N
  BY <1>3, <1>6 DEF Masked, IfBit
<1> HIDE DEF S
<1>8. S >= 0 /\ S < 2 * N
  <2>1. multiple * N < R * N
    BY <1>3, <1>5
  <2>2. R * S < R * (2 * N) /\ R * S >= 0
    <3>1. R * (2 * N) = R * N + R * N /\ multiple * N \in Int /\ R * N \in Int
      BY <1>3, <1>5
    <3> QED BY <1>2, <1>3, <1>5, <1>6, <2>1, <3>1
  <2>3. ASSUME S >= 2 * N PROVE FALSE
    <3>1. R * S >= R * (2 * N)
      BY <1>3, <1>6, <2>3
    <3>2. R * S \in Int /\ R * (2 * N) \in Int
      BY <1>3, <1>6
    <3> QED BY <2>2, <3>1, <3>2
  <2>4. ASSUME S <= -1 PROVE FALSE
    <3>1. R * S <= R * (-1)
      BY <1>3, <1>6, <2>4
    <3>2. R * S \in Int
      BY <1>3, <1>6
    <3> QED BY <1>3, <2>2, <3>1, <3>2
  <2> QED BY <1>3, <1>6, <2>3, <2>4
<1>9. y \in Int /\ S - y * N \in 0..N-1
  BY <1>3, <1>6, <1>8
<1> HIDE DEF x, y
<1>10. x \in 0..v-1 /\ x \in Int
  BY <1>3, <1>4, <1>7, <1>9
<1>11. result' = x
  BY <1>1, <1>3, <1>10, SpanOK DEF v
<1>12. (result' * R - call.value) % N = 0
  <2>1. (S - y * N) * R = R * S - (y * R) * N
    BY <1>3, <1>6, <1>9
  <2>2. (multiple - y * R) * N = multiple * N - (y * R) * N
    BY <1>3, <1>5, <1>9
  <2>3. /\ multiple * N \in Int /\ (y * R) * N \in Int /\ R * S \in Int
        /\ multiple - y * R \in Int
    BY <1>3, <1>5, <1>6, <1>9
  <2> DEFINE z == multiple - y * R
             o == x * R - call.value
  <2>4. x * R - call.value = (multiple - y * R) * N
    BY <1>2, <1>3, <1>6, <1>7, <2>1, <2>2, <2>3
  <2>5. (multiple - y * R) * N = N * (multiple - y * R) + 0
    BY <1>3, <2>3
  <2>6. o = N * z + 0 /\ z \in Int /\ o \in Int /\ 0 \in 0..N-1
    BY <1>3, <1>10, <2>3, <2>4, <2>5
  <2> HIDE DEF o, z
  <2>7. o % N = 0
    BY <1>3, <2>6, QuotientUnique
  <2> QED BY <1>11, <2>7 DEF o
<1>13. result' \in 0..N-1
  BY <1>7, <1>9, <1>11
<1>14. TypeOK'
  BY <1>1, <1>10, <1>11 DEF TypeOK, TLimbs
<1>15. Postcondition'
  BY <1>1, <1>12, <1>13 DEF Postcondition, N, R, r
<1> QED BY <1>1, <1>14, <1>15 DEF Inv, LoopInv, Allowed, TLimbs

------------------------------------------------------------------------------

\* The loops' invariant and the postcondition hold throughout.
LEMMA InvOK == Spec => []Inv
<1>1. Inv /\ UNCHANGED vars => Inv'
  BY DEF Inv, LoopInv, Postcondition, TypeOK, Allowed, TLimbs, vars
<1>2. Inv /\ [Next]_vars => Inv'
  BY <1>1, RowInv, MultiplyInv, PropagateInv, EndRowInv, ReduceInv DEF Next
<1> QED BY InitInv, <1>2, PTL DEF Spec

\* montgomery_reduce returns the residue below the modulus that its comment
\* promises: the one subtraction at the end is enough.
THEOREM PostconditionOK == Spec => []Postcondition
BY InvOK, PTL DEF Inv

\* The limb that T has more than the value never needs another one: no carry is
\* dropped at its end.
THEOREM NoOverflowOK == Spec => []NoOverflow
<1>1. Inv => NoOverflow
  BY RowEnds DEF NoOverflow
<1> QED BY <1>1, InvOK, PTL

==============================================================================
