------------------------- MODULE AnalysisSessionProofs -------------------------
(***************************************************************************)
(* Proofs about AnalysisSession for every sequence of legal batches.       *)
(***************************************************************************)
EXTENDS AnalysisSession, TLAPS, WellFoundedInduction

-----------------------------------------------------------------------------
(* Induction over data: a counterexample would have a least one.           *)

\* A set of numbers that is not empty has a least one.
LEMMA LeastNumber ==
  ASSUME NEW T, T \subseteq Nat, T # {}
  PROVE  \E x \in T : \A y \in T : x <= y
<1>1. PICK x \in T : \A y \in T : ~(<<y, x>> \in OpToRel(<, Nat))
  BY NatLessThanWellFounded, WFMin, Zenon
<1>2. ASSUME NEW y \in T PROVE x <= y
  <2>1. x \in Nat /\ y \in Nat  OBVIOUS
  <2>2. ~(y < x)  BY <1>1, <2>1 DEF OpToRel
  <2>3. QED  BY <2>1, <2>2
<1>3. QED  BY <1>2

\* A set that has 1, and with a number below n the next one, has them all to n.
LEMMA NumbersTo ==
  ASSUME NEW n \in Nat, NEW T, 1 \in T, \A k \in 1 .. n - 1 : k \in T => k + 1 \in T
  PROVE  1 .. n \subseteq T
<1> DEFINE Missing == {k \in 1 .. n : k \notin T}
<1>1. CASE Missing = {}  BY <1>1
<1>2. CASE Missing # {}
  <2>1. PICK x \in Missing : \A y \in Missing : x <= y
    BY <1>2, LeastNumber, Missing \subseteq Nat
  <2>2. x # 1 /\ x \in 1 .. n  OBVIOUS
  <2>3. x - 1 \in 1 .. n - 1 /\ x - 1 \notin Missing  BY <2>1, <2>2
  <2>4. x - 1 \in T  BY <2>3
  <2>5. (x - 1) + 1 \in T  BY <2>3, <2>4
  <2>6. QED  BY <2>2, <2>5
<1>3. QED  BY <1>1, <1>2

-----------------------------------------------------------------------------
(* Sequences, by their cells.                                              *)

IsBuffer(x) == Len(x) \in Nat /\ DOMAIN x = 1 .. Len(x)

LEMMA BufferOf ==
  ASSUME NEW n \in Nat, NEW x, DOMAIN x = 1 .. n
  PROVE  IsBuffer(x) /\ Len(x) = n
BY DEF IsBuffer

LEMMA ConcatCells ==
  ASSUME NEW x, IsBuffer(x), NEW y, IsBuffer(y)
  PROVE  /\ IsBuffer(x \o y) /\ Len(x \o y) = Len(x) + Len(y)
         /\ \A i \in 1 .. Len(x) : (x \o y)[i] = x[i]
         /\ \A i \in 1 .. Len(y) : (x \o y)[Len(x) + i] = y[i]
BY DEF IsBuffer

LEMMA FrameCells ==
  ASSUME NEW x, IsBuffer(x), NEW off \in Nat, NEW size \in Nat, off + size <= Len(x)
  PROVE  FrameOf(x, off, size) = [i \in 1 .. size |-> x[off + i]]
BY DEF IsBuffer, FrameOf

\* Where the cells of the k-th of several sequences of m cells are.
LEMMA RowCell ==
  ASSUME NEW n \in Nat, NEW m \in Nat \ {0}, NEW c \in 1 .. n * m
  PROVE  /\ (c - 1) \div m \in 0 .. n - 1 /\ (c - 1) % m \in 0 .. m - 1
         /\ c = ((c - 1) \div m) * m + ((c - 1) % m) + 1
<1> DEFINE q == (c - 1) \div m
           r == (c - 1) % m
<1>1. q \in Nat /\ r \in 0 .. m - 1 /\ c - 1 = m * q + r  OBVIOUS
<1>2. m * q = q * m /\ c = q * m + r + 1  BY <1>1
<1>3. q < n
  <2> SUFFICES ASSUME q >= n PROVE FALSE  BY <1>1
  <2> HIDE DEF q, r
  <2>1. PICK d \in Nat : q = n + d  BY <1>1
  <2>2. q * m = n * m + d * m /\ d * m \in Nat /\ n * m \in Nat  BY <2>1
  <2>3. QED  BY <1>1, <1>2, <2>2
<1>4. QED  BY <1>1, <1>2, <1>3

\* Conversely, the row and the column give the place.
LEMMA CellRow ==
  ASSUME NEW n \in Nat, NEW m \in Nat \ {0}, NEW q \in 0 .. n - 1, NEW r \in 0 .. m - 1
  PROVE  /\ q * m + r + 1 \in 1 .. n * m
         /\ ((q * m + r + 1) - 1) \div m = q /\ ((q * m + r + 1) - 1) % m = r
<1> DEFINE x == q * m + r
<1>1. q * m \in Nat /\ x \in Nat  OBVIOUS
<1>2. x \div m \in Nat /\ x % m \in 0 .. m - 1 /\ x = m * (x \div m) + (x % m)
  BY <1>1
<1>3. x \div m = q
  <2> HIDE DEF x
  <2> DEFINE p == x \div m
  <2>1. p \in Nat /\ x = m * p + (x % m)  BY <1>2
  <2> HIDE DEF p
  <2>2. CASE p > q
    <3>1. PICK d \in Nat : p = q + 1 + d  BY <2>1, <2>2
    <3>2. m * p = q * m + m + d * m /\ d * m \in Nat  BY <3>1
    <3>3. QED  BY <1>1, <1>2, <2>1, <3>2 DEF x
  <2>3. CASE p < q
    <3>1. PICK d \in Nat : q = p + 1 + d  BY <2>1, <2>3
    <3>2. q * m = m * p + m + d * m /\ d * m \in Nat  BY <2>1, <3>1
    <3>3. QED  BY <1>1, <1>2, <2>1, <3>2 DEF x
  <2>4. QED  BY <2>1, <2>2, <2>3 DEF p
<1>4. x % m = r  BY <1>1, <1>2, <1>3
<1>5. x + 1 <= n * m
  <2>1. PICK d \in Nat : n = q + 1 + d  OBVIOUS
  <2>2. n * m = q * m + m + d * m /\ d * m \in Nat  BY <2>1
  <2>3. QED  BY <1>1, <2>2
<1>6. n * m \in Nat /\ (x + 1) - 1 = x  BY <1>1
<1>7. QED  BY <1>1, <1>3, <1>4, <1>5, <1>6

-----------------------------------------------------------------------------
(* Sequences of equal length one behind the other.                         *)

\* g is FlattenSeq's recursion on the first k sequences of s.
Flattens(g, s, k) ==
  g = [i \in 1 .. k |-> IF i = 1 THEN s[i] ELSE g[i - 1] \o s[i]]

LEMMA FlattenExists ==
  ASSUME NEW s, NEW n \in Nat \ {0}
  PROVE  \E g : Flattens(g, s, n)
<1> DEFINE T == {k \in 1 .. n : \E g : Flattens(g, s, k)}
<1>1. 1 \in T
  <2> DEFINE g == [i \in 1 .. 1 |-> s[i]]
  <2>1. g = [i \in 1 .. 1 |-> IF i = 1 THEN s[i] ELSE g[i - 1] \o s[i]]  OBVIOUS
  <2>2. Flattens(g, s, 1)  BY <2>1, Zenon DEF Flattens
  <2>3. QED  BY <2>2
<1>2. ASSUME NEW k \in 1 .. n - 1, k \in T PROVE k + 1 \in T
  <2>1. PICK g : g = [i \in 1 .. k |-> IF i = 1 THEN s[i] ELSE g[i - 1] \o s[i]]
    BY <1>2 DEF Flattens
  <2> DEFINE h == [i \in 1 .. k + 1 |-> IF i = k + 1 THEN g[k] \o s[k + 1] ELSE g[i]]
  <2>2. ASSUME NEW i \in 1 .. k + 1
        PROVE  h[i] = IF i = 1 THEN s[i] ELSE h[i - 1] \o s[i]
    <3>1. CASE i = k + 1
      <4>1. i # 1 /\ i - 1 = k /\ h[k] = g[k]  BY <3>1
      <4>2. QED  BY <3>1, <4>1
    <3>2. CASE i # k + 1 /\ i # 1
      <4>1. i \in 1 .. k /\ i - 1 \in 1 .. k /\ i - 1 # k + 1  BY <3>2
      <4>2. h[i] = g[i] /\ h[i - 1] = g[i - 1]  BY <3>2, <4>1
      <4>3. g[i] = g[i - 1] \o s[i]  BY <2>1, <3>2, <4>1
      <4>4. QED  BY <3>2, <4>2, <4>3
    <3>3. CASE i = 1
      <4>1. i \in 1 .. k /\ i # k + 1  BY <3>3
      <4>2. h[i] = g[i]  BY <4>1
      <4>3. g[i] = s[i]  BY <2>1, <3>3, <4>1
      <4>4. QED  BY <3>3, <4>2, <4>3
    <3>4. QED  BY <3>1, <3>2, <3>3
  <2>3. h = [i \in 1 .. k + 1 |-> h[i]]  OBVIOUS
  <2> HIDE DEF h
  <2>4. h = [i \in 1 .. k + 1 |-> IF i = 1 THEN s[i] ELSE h[i - 1] \o s[i]]
    BY <2>2, <2>3
  <2>5. Flattens(h, s, k + 1)  BY <2>4, Zenon DEF Flattens
  <2>6. QED  BY <2>5
<1>3. n \in T  BY <1>1, <1>2, NumbersTo, n \in 1 .. n
<1>4. QED  BY <1>3

\* x is the first k sequences of s, of m cells each, one behind the other.
Rows(x, s, k, m) ==
  /\ IsBuffer(x) /\ Len(x) = k * m
  /\ \A i \in 1 .. k, j \in 1 .. m : x[(i - 1) * m + j] = s[i][j]

LEMMA NextRow ==
  ASSUME NEW m \in Nat, NEW k \in Nat \ {0}, NEW s, NEW x, Rows(x, s, k, m),
         IsBuffer(s[k + 1]), Len(s[k + 1]) = m
  PROVE  Rows(x \o s[k + 1], s, k + 1, m)
<1> DEFINE y == s[k + 1]
           z == x \o y
<1>1. IsBuffer(x) /\ Len(x) = k * m  BY DEF Rows
<1>2. /\ IsBuffer(z) /\ Len(z) = Len(x) + Len(y)
      /\ \A i \in 1 .. Len(x) : z[i] = x[i]
      /\ \A i \in 1 .. Len(y) : z[Len(x) + i] = y[i]
  <2>1. IsBuffer(x) /\ IsBuffer(y)  BY <1>1
  <2> HIDE DEF y
  <2>2. QED  BY ONLY <2>1, ConcatCells
<1> HIDE DEF z
<1>3. k * m \in Nat /\ k * m + m = (k + 1) * m  OBVIOUS
<1>4. IsBuffer(z) /\ Len(z) = (k + 1) * m  BY <1>1, <1>2, <1>3
<1>5. ASSUME NEW i \in 1 .. k + 1, NEW j \in 1 .. m
      PROVE  z[(i - 1) * m + j] = s[i][j]
  <2>1. CASE i = k + 1
    <3>1. (i - 1) * m = k * m  BY <2>1
    <3>2. QED  BY <1>1, <1>2, <2>1, <3>1
  <2>2. CASE i # k + 1
    <3>1. i \in 1 .. k  BY <2>2
    <3>2. (i - 1) * m + j \in 1 .. k * m
      <4>1. PICK d \in Nat : k = (i - 1) + 1 + d  BY <3>1
      <4>2. k * m = (i - 1) * m + m + d * m /\ d * m \in Nat /\ (i - 1) * m \in Nat
        BY <4>1
      <4>3. QED  BY <4>2
    <3>3. x[(i - 1) * m + j] = s[i][j]  BY <3>1 DEF Rows
    <3>4. QED  BY <1>1, <1>2, <3>2, <3>3
  <2>3. QED  BY <2>1, <2>2
<1>6. QED  BY <1>4, <1>5 DEF Rows, z

\* FlattenSeq of n sequences of m cells each.
LEMMA FlattenCells ==
  ASSUME NEW n \in Nat \ {0}, NEW m \in Nat, NEW s,
         Len(s) = n, \A i \in 1 .. n : IsBuffer(s[i]) /\ Len(s[i]) = m
  PROVE  Rows(FlattenSeq(s), s, n, m)
<1> DEFINE flat == CHOOSE g : Flattens(g, s, n)
           T == {k \in 1 .. n : Rows(flat[k], s, k, m)}
<1>1. flat = [i \in 1 .. n |-> IF i = 1 THEN s[i] ELSE flat[i - 1] \o s[i]]
  BY FlattenExists, Zenon DEF Flattens
<1>2. FlattenSeq(s) = flat[n]
  BY Zenon DEF FlattenSeq, Flattens
<1> HIDE DEF flat
<1>3. 1 \in T
  <2>1. flat[1] = s[1] /\ IsBuffer(s[1]) /\ Len(s[1]) = m  BY <1>1
  <2>2. Rows(flat[1], s, 1, m)  BY <2>1 DEF Rows
  <2>3. QED  BY <2>2
<1>4. ASSUME NEW k \in 1 .. n - 1, k \in T PROVE k + 1 \in T
  <2>1. k + 1 \in 1 .. n /\ k + 1 # 1 /\ (k + 1) - 1 = k /\ k \in Nat \ {0}  OBVIOUS
  <2>2. flat[k + 1] = flat[k] \o s[k + 1]  BY <1>1, <2>1
  <2>3. Rows(flat[k], s, k, m) /\ IsBuffer(s[k + 1]) /\ Len(s[k + 1]) = m  BY <1>4, <2>1
  <2>4. Rows(flat[k + 1], s, k + 1, m)  BY <2>1, <2>2, <2>3, NextRow
  <2>5. QED  BY <2>1, <2>4
<1>5. n \in T  BY <1>3, <1>4, NumbersTo, n \in 1 .. n
<1>6. QED  BY <1>2, <1>5

-----------------------------------------------------------------------------
(* The plan: how many tasks a frame's group has, and where they are.       *)

LEMMA LeastOfTwo ==
  ASSUME NEW a \in Int, NEW b \in Int
  PROVE  /\ Min({a, b}) = IF a <= b THEN a ELSE b
         /\ Max({a, b}) = IF a <= b THEN b ELSE a
<1>1. \A x \in {a, b} : (\A y \in {a, b} : x <= y) => x = IF a <= b THEN a ELSE b
  OBVIOUS
<1>2. \E x \in {a, b} : \A y \in {a, b} : x <= y
  <2>1. CASE a <= b  BY <2>1
  <2>2. CASE b <= a  BY <2>2
  <2>3. QED  BY <2>1, <2>2
<1>3. \A x \in {a, b} : (\A y \in {a, b} : x >= y) => x = IF a <= b THEN b ELSE a
  OBVIOUS
<1>4. \E x \in {a, b} : \A y \in {a, b} : x >= y
  <2>1. CASE a <= b  BY <2>1
  <2>2. CASE b <= a  BY <2>2
  <2>3. QED  BY <2>1, <2>2
<1>5. QED  BY <1>1, <1>2, <1>3, <1>4 DEF Min, Max

LegalOptions(o) ==
  /\ o.frameSamples \in 1 .. MaxDeviceBlock
  /\ o.maxLpcOrder \in 0 .. MaxLpcOrder /\ o.maxLpcOrder < o.frameSamples
  /\ o.profile \in AnalysisProfiles

LEMMA SizesTyped ==
  /\ DeviceBits \in Nat \ {0} /\ TaskLimit \in Nat \ {0} /\ WelchTarget \in Nat \ {0}
  /\ Tukey3Windows \in Nat \ {0} /\ MaxDeviceBlock \in Nat \ {0}
  /\ IntBits \in Nat /\ IntBits > DeviceBits
  /\ MaxLpcOrder \in Nat
BY TaskPlansAssumption, SubframesAssumption

LEMMA FixedCount ==
  ASSUME NEW o, LegalOptions(o)
  PROVE  FixedTaskCount(o) \in 1 .. 5 /\ FixedTaskCount(o) <= o.frameSamples
<1>1. o.frameSamples \in Nat \ {0}  BY SizesTyped DEF LegalOptions
<1>2. Min({4, o.frameSamples - 1}) = IF 4 <= o.frameSamples - 1 THEN 4 ELSE o.frameSamples - 1
  BY <1>1, LeastOfTwo
<1>3. QED  BY <1>1, <1>2 DEF FixedTaskCount, LargestFixed

\* A Welch window gets what is left of the limit, and no order it could not hold.
LEMMA WelchFits ==
  ASSUME NEW o, LegalOptions(o)
  PROVE  /\ WelchCount(o) \in 0 .. o.maxLpcOrder
         /\ o.maxLpcOrder # 0 =>
              2 * o.maxLpcOrder + WelchCount(o) + 1 + FixedTaskCount(o) <= TaskLimit
<1>1. o.maxLpcOrder \in Nat /\ o.maxLpcOrder <= MaxLpcOrder
  BY SizesTyped DEF LegalOptions
<1>2. CASE o.maxLpcOrder = 0  BY <1>1, <1>2 DEF WelchCount
<1>3. CASE o.maxLpcOrder # 0
  <2> DEFINE spare == TaskLimit - (2 * o.maxLpcOrder + 1 + FixedTaskCount(o))
             three == {WelchTarget, o.maxLpcOrder, spare}
  <2>1. spare \in Int /\ WelchTarget \in Int /\ o.maxLpcOrder \in Int /\ spare >= 0
    BY <1>1, FixedCount, SizesTyped, LimitsAssumption
  <2> HIDE DEF spare
  <2>2. \E x \in three : \A y \in three : x <= y
    <3>1. CASE WelchTarget <= o.maxLpcOrder /\ WelchTarget <= spare  BY <2>1, <3>1
    <3>2. CASE o.maxLpcOrder <= WelchTarget /\ o.maxLpcOrder <= spare  BY <2>1, <3>2
    <3>3. CASE spare <= WelchTarget /\ spare <= o.maxLpcOrder  BY <2>1, <3>3
    <3>4. QED  BY <2>1, <3>1, <3>2, <3>3
  <2>3. Min(three) \in three /\ \A y \in three : Min(three) <= y  BY <2>2 DEF Min
  <2>4. Min(three) \in Int /\ Min(three) >= 0 /\ Min(three) <= o.maxLpcOrder /\ Min(three) <= spare
    BY <1>1, <2>1, <2>3, SizesTyped
  <2>5. WelchCount(o) = Max({0, Min(three)})  BY <1>3, Zenon DEF WelchCount, spare
  <2>6. Max({0, Min(three)}) = Min(three)
    <3>1. PICK w \in Int : w = Min(three) /\ w >= 0  BY <2>4
    <3>2. Max({0, w}) = w  BY <3>1, LeastOfTwo
    <3>3. QED  BY <3>1, <3>2, Zenon
  <2>7. WelchCount(o) = Min(three)  BY <2>5, <2>6
  <2>8. WelchCount(o) \in Int /\ WelchCount(o) >= 0 /\ WelchCount(o) <= o.maxLpcOrder
        /\ WelchCount(o) <= spare
    BY <2>4, <2>7
  <2>9. FixedTaskCount(o) \in Nat  BY FixedCount
  <2>10. 2 * o.maxLpcOrder + WelchCount(o) + 1 + FixedTaskCount(o) <= TaskLimit
    BY <1>1, <2>8, <2>9, SizesTyped DEF spare
  <2>11. QED  BY <1>1, <2>8, <2>10
<1>4. QED  BY <1>2, <1>3

LEMMA LpcCount ==
  ASSUME NEW o, LegalOptions(o)
  PROVE  /\ LpcTaskCount(o) \in Nat
         /\ LpcTaskCount(o) = 0 <=> o.maxLpcOrder = 0
         /\ LpcTaskCount(o) + 1 + FixedTaskCount(o) <= TaskLimit
<1>1. o.maxLpcOrder \in Nat /\ FixedTaskCount(o) \in 1 .. 5 /\ WelchCount(o) \in Nat
  BY FixedCount, WelchFits DEF LegalOptions
<1>2. CASE o.maxLpcOrder = 0
  <2>1. LpcTaskCount(o) = 0  BY <1>2, Zenon DEF LpcTaskCount
  <2>2. QED  BY <1>1, <1>2, <2>1, LimitsAssumption, SizesTyped
<1>3. CASE o.maxLpcOrder # 0 /\ SubdividesTukey3(o.profile)
  <2>0. o.profile # "Exact"  BY <1>3 DEF SubdividesTukey3
  <2>1. LpcTaskCount(o) = Tukey3Windows  BY <1>3, <2>0, Zenon DEF LpcTaskCount
  <2>2. QED  BY <1>1, <1>3, <2>1, LimitsAssumption, SizesTyped
<1>4. CASE o.maxLpcOrder # 0 /\ ~SubdividesTukey3(o.profile) /\ o.profile = "Exact"
  <2>1. LpcTaskCount(o) = 2 * o.maxLpcOrder + WelchCount(o)
    BY <1>4, Zenon DEF LpcTaskCount
  <2>2. QED  BY <1>1, <1>4, <2>1, WelchFits, SizesTyped
<1>5. CASE o.maxLpcOrder # 0 /\ ~SubdividesTukey3(o.profile) /\ o.profile # "Exact"
  <2>1. LpcTaskCount(o) = 3  BY <1>5, Zenon DEF LpcTaskCount
  <2>2. QED  BY <1>1, <1>5, <2>1, LimitsAssumption, SizesTyped
<1>6. QED  BY <1>2, <1>3, <1>4, <1>5

\* Every group has a constant task and at least one more.
LEMMA GroupSize ==
  ASSUME NEW o, LegalOptions(o)
  PROVE  TasksPerFrame(o) \in 2 .. TaskLimit
BY LpcCount, FixedCount, SizesTyped DEF TasksPerFrame

\* The fields that no kernel changes.
LEMMA CommonFields ==
  ASSUME NEW o, NEW f, NEW type, NEW order
  PROVE  /\ CommonTask(o, f, type, order).type = type
         /\ CommonTask(o, f, type, order).order = order
         /\ CommonTask(o, f, type, order).offset = f * o.frameSamples
         /\ CommonTask(o, f, type, order).block = o.frameSamples
BY DEF CommonTask

Placed(task, o, f) == task.offset = f * o.frameSamples /\ task.block = o.frameSamples

\* A group: the LPC tasks, the constant one, the fixed ones.
LEMMA GroupTasks ==
  ASSUME NEW o, LegalOptions(o), NEW f, NEW b
  PROVE  /\ IsBuffer(FrameTasks(o, f, b)) /\ Len(FrameTasks(o, f, b)) = TasksPerFrame(o)
         /\ \A i \in 1 .. LpcTaskCount(o) :
              FrameTasks(o, f, b)[i] = CommonTask(o, f, "Lpc", LpcOrdersOf(o)[i])
         /\ FrameTasks(o, f, b)[LpcTaskCount(o) + 1] = ConstantTask(o, f)
         /\ \A i \in LpcTaskCount(o) + 2 .. TasksPerFrame(o) :
              FrameTasks(o, f, b)[i] =
                FixedTask(o, f, FixedOrdersOf(o, b)[i - LpcTaskCount(o) - 1])
<1> DEFINE L == LpcTaskCount(o)
           lpc == [i \in 1 .. L |-> CommonTask(o, f, "Lpc", LpcOrdersOf(o)[i])]
           orders == FixedOrdersOf(o, b)
           fixed == [i \in DOMAIN orders |-> FixedTask(o, f, orders[i])]
           head == lpc \o <<ConstantTask(o, f)>>
<1>1. L \in Nat  BY LpcCount
<1>2. \E n \in Nat : DOMAIN orders = 1 .. n /\ TasksPerFrame(o) = L + 1 + n
  <2>1. CASE OrderGuess(o.profile) /\ ~GuessedOnDevice(o)
    <3>1. orders = <<GuessFixedOrder(b)>>  BY <2>1 DEF FixedOrdersOf
    <3>2. DOMAIN orders = 1 .. 1  BY <3>1
    <3>3. QED  BY <2>1, <3>2 DEF TasksPerFrame
  <2>2. CASE ~(OrderGuess(o.profile) /\ ~GuessedOnDevice(o))
    <3>1. orders = [i \in 1 .. FixedTaskCount(o) |-> i - 1]  BY <2>2 DEF FixedOrdersOf
    <3>2. DOMAIN orders = 1 .. FixedTaskCount(o)  BY <3>1
    <3>3. QED  BY <2>2, <3>2, FixedCount DEF TasksPerFrame
  <2>3. QED  BY <2>1, <2>2
<1> HIDE DEF orders
<1>3. PICK n \in Nat : DOMAIN orders = 1 .. n /\ TasksPerFrame(o) = L + 1 + n  BY <1>2
<1>4. IsBuffer(lpc) /\ Len(lpc) = L /\ \A i \in 1 .. L : lpc[i] = CommonTask(o, f, "Lpc", LpcOrdersOf(o)[i])
  <2> HIDE DEF L
  <2>1. QED  BY <1>1, BufferOf
<1>5. IsBuffer(fixed) /\ Len(fixed) = n /\ \A i \in 1 .. n : fixed[i] = FixedTask(o, f, orders[i])
  BY <1>3, BufferOf
<1>6. IsBuffer(<<ConstantTask(o, f)>>) /\ Len(<<ConstantTask(o, f)>>) = 1
      /\ <<ConstantTask(o, f)>>[1] = ConstantTask(o, f)
  BY DEF IsBuffer
<1>7. FrameTasks(o, f, b) = head \o fixed  BY Zenon DEF FrameTasks, orders
<1> HIDE DEF L, lpc, fixed
<1>8. /\ IsBuffer(head) /\ Len(head) = L + 1
      /\ \A i \in 1 .. L : head[i] = lpc[i]
      /\ head[L + 1] = ConstantTask(o, f)
  <2> DEFINE one == <<ConstantTask(o, f)>>
  <2>1. IsBuffer(lpc) /\ IsBuffer(one)  BY <1>4, <1>6
  <2> HIDE DEF one
  <2>2. /\ IsBuffer(lpc \o one) /\ Len(lpc \o one) = Len(lpc) + Len(one)
        /\ \A i \in 1 .. Len(lpc) : (lpc \o one)[i] = lpc[i]
        /\ \A i \in 1 .. Len(one) : (lpc \o one)[Len(lpc) + i] = one[i]
    BY ONLY <2>1, ConcatCells
  <2> HIDE DEF head
  <2>3. Len(lpc) = L /\ Len(one) = 1 /\ one[1] = ConstantTask(o, f) /\ head = lpc \o one
    BY <1>4, <1>6 DEF one, head
  <2>4. Len(one) \in 1 .. Len(one)  BY <2>3
  <2>5. QED  BY <2>2, <2>3, <2>4, <1>1
<1> HIDE DEF head
<1>9. /\ IsBuffer(head \o fixed) /\ Len(head \o fixed) = L + 1 + n
      /\ \A i \in 1 .. L + 1 : (head \o fixed)[i] = head[i]
      /\ \A i \in 1 .. n : (head \o fixed)[L + 1 + i] = fixed[i]
  <2>1. IsBuffer(head) /\ IsBuffer(fixed)  BY <1>5, <1>8
  <2>2. /\ IsBuffer(head \o fixed) /\ Len(head \o fixed) = Len(head) + Len(fixed)
        /\ \A i \in 1 .. Len(head) : (head \o fixed)[i] = head[i]
        /\ \A i \in 1 .. Len(fixed) : (head \o fixed)[Len(head) + i] = fixed[i]
    BY ONLY <2>1, ConcatCells
  <2>3. QED  BY <1>1, <1>5, <1>8, <2>2
<1>10. ASSUME NEW i \in L + 2 .. TasksPerFrame(o)
       PROVE  (head \o fixed)[i] = FixedTask(o, f, orders[i - L - 1])
  <2>1. i - L - 1 \in 1 .. n /\ i = L + 1 + (i - L - 1)  BY <1>1, <1>3
  <2>2. QED  BY <1>5, <1>9, <2>1
<1>11. L + 1 \in 1 .. L + 1 /\ \A i \in 1 .. L : i \in 1 .. L + 1  BY <1>1
<1>12. QED  BY <1>3, <1>4, <1>7, <1>8, <1>9, <1>10, <1>11 DEF L, orders

\* The plan is its groups, one behind the other, and selects every task in turn.
LEMMA PlanCells ==
  ASSUME NEW o, LegalOptions(o), NEW x, IsBuffer(x), Len(x) > 0, Len(x) % o.frameSamples = 0,
         NEW p, p = BuildPlan(o, x)
  PROVE  /\ p.frames \in Nat \ {0} /\ p.frames * o.frameSamples = Len(x)
         /\ p.perFrame = TasksPerFrame(o)
         /\ p.guessed = GuessedOnDevice(o)
         /\ IsBuffer(p.tasks) /\ Len(p.tasks) = p.frames * p.perFrame
         /\ IsBuffer(p.selected) /\ Len(p.selected) = p.frames * p.perFrame
         /\ \A i \in 1 .. p.frames * p.perFrame : p.selected[i] = i - 1
         /\ \A f \in 0 .. p.frames - 1, i \in 1 .. p.perFrame :
              TaskOf(p, f, i) =
                FrameTasks(o, f, FrameOf(x, f * o.frameSamples, o.frameSamples))[i]
<1> DEFINE N == o.frameSamples
           n == Len(x) \div N
           m == TasksPerFrame(o)
           s == [f \in 1 .. n |-> FrameTasks(o, f - 1, FrameOf(x, (f - 1) * N, N))]
<1>1. N \in Nat \ {0} /\ Len(x) \in Nat \ {0} /\ m \in Nat \ {0}
  BY GroupSize, SizesTyped DEF LegalOptions, IsBuffer
<1>2. n \in Nat \ {0} /\ n * N = Len(x)
  <2>1. PICK L \in Nat \ {0}, d \in Nat \ {0} : L = Len(x) /\ d = N  BY <1>1
  <2>2. PICK q \in Nat : q = L \div d /\ n = q  BY <2>1
  <2>3. L % d = 0 /\ L = d * q + (L % d)
    <3>1. L % d = 0  BY <2>1
    <3>2. q = L \div d  BY <2>2
    <3>3. L = d * q + (L % d)
      BY ONLY <3>2, L \in Nat \ {0}, d \in Nat \ {0}, q \in Nat
    <3>4. QED  BY <3>1, <3>3
  <2>4. L = q * d /\ q # 0  BY ONLY <2>3, L \in Nat \ {0}, d \in Nat \ {0}, q \in Nat
  <2>5. QED  BY <2>1, <2>2, <2>4
<1>3. /\ p.tasks = FlattenSeq(s)
      /\ p.selected = [i \in 1 .. n * m |-> i - 1]
      /\ p.frames = n /\ p.perFrame = m /\ p.guessed = GuessedOnDevice(o)
  BY DEF BuildPlan
<1>4. /\ Len(s) = n
      /\ \A f \in 1 .. n : IsBuffer(s[f]) /\ Len(s[f]) = m
  <2>1. Len(s) = n  BY <1>2
  <2>2. ASSUME NEW f \in 1 .. n PROVE IsBuffer(s[f]) /\ Len(s[f]) = m
    <3>1. s[f] = FrameTasks(o, f - 1, FrameOf(x, (f - 1) * N, N))  OBVIOUS
    <3>2. QED  BY <3>1, GroupTasks, Zenon
  <2>3. QED  BY <2>1, <2>2
<1> HIDE DEF n, m
<1>5. Rows(FlattenSeq(s), s, n, m)
  <2> HIDE DEF s
  <2>1. QED  BY <1>1, <1>2, <1>4, FlattenCells
<1>6. n * m \in Nat  BY <1>1, <1>2
<1>7. IsBuffer(p.selected) /\ Len(p.selected) = n * m
      /\ \A i \in 1 .. n * m : p.selected[i] = i - 1
  BY <1>3, <1>6, BufferOf
<1>8. IsBuffer(p.tasks) /\ Len(p.tasks) = n * m
  BY <1>3, <1>5 DEF Rows
<1>9. ASSUME NEW f \in 0 .. n - 1, NEW i \in 1 .. m
      PROVE  TaskOf(p, f, i) = FrameTasks(o, f, FrameOf(x, f * N, N))[i]
  <2>1. f + 1 \in 1 .. n /\ (f + 1) - 1 = f  BY <1>2
  <2>2. FlattenSeq(s)[((f + 1) - 1) * m + i] = s[f + 1][i]
    <3> HIDE DEF s
    <3>1. QED  BY <1>5, <2>1 DEF Rows
  <2>3. s[f + 1] = FrameTasks(o, f, FrameOf(x, f * N, N))  BY <2>1
  <2>4. TaskOf(p, f, i) = FlattenSeq(s)[f * m + i]  BY <1>3, Zenon DEF TaskOf
  <2> HIDE DEF s
  <2>5. QED  BY <2>1, <2>2, <2>3, <2>4
<1>10. p.frames * p.perFrame = n * m  BY <1>3
<1>11. p.frames \in Nat \ {0} /\ p.frames * N = Len(x)  BY <1>2, <1>3
<1>12. p.perFrame = TasksPerFrame(o)  BY <1>3 DEF m
<1>13. QED  BY ONLY <1>3, <1>7, <1>8, <1>9, <1>10, <1>11, <1>12

-----------------------------------------------------------------------------
(* The plan of a legal batch is one the session takes.                     *)

LEMMA OptionsLegal ==
  ASSUME NEW c \in Calls
  PROVE  /\ LegalOptions(OptionsOf(c)) /\ OptionsOf(c).frameSamples = c.block
         /\ OptionsOf(c).profile = c.profile
         /\ IsBuffer(c.samples) /\ Len(c.samples) > 0 /\ Len(c.samples) % c.block = 0
         /\ c.block \in Nat \ {0} /\ c.lpc \in Nat
<1>1. /\ c.block \in 1 .. MaxDeviceBlock /\ c.lpc \in 0 .. MaxLpcOrder /\ c.lpc < c.block
      /\ c.profile \in AnalysisProfiles /\ c.samples \in Seq(Int)
  BY CallsAssumption
<1>2. Len(c.samples) > 0 /\ Len(c.samples) % c.block = 0  BY SessionAssumption
<1>3. OptionsOf(c).frameSamples = c.block /\ OptionsOf(c).profile = c.profile
      /\ (OptionsOf(c).maxLpcOrder = c.lpc \/ OptionsOf(c).maxLpcOrder = 0)
  BY DEF OptionsOf
<1>4. IsBuffer(c.samples)  BY <1>1 DEF IsBuffer
<1>5. c.block \in Nat \ {0} /\ c.lpc \in Nat /\ 0 \in 0 .. MaxLpcOrder /\ 0 < c.block
  BY <1>1, SizesTyped
<1>6. QED  BY <1>1, <1>2, <1>3, <1>4, <1>5 DEF LegalOptions

\* The orders the plan gives its LPC tasks: window by window.
LEMMA LpcOrders ==
  ASSUME NEW o, LegalOptions(o), NEW i \in 1 .. LpcTaskCount(o)
  PROVE  /\ LpcOrdersOf(o)[i] \in 1 .. o.maxLpcOrder
         /\ OrderGuess(o.profile) => LpcOrdersOf(o)[i] = 1
         /\ ~OrderGuess(o.profile) /\ i <= 2 * o.maxLpcOrder =>
              LpcOrdersOf(o)[i] = ((i - 1) % o.maxLpcOrder) + 1
         /\ ~OrderGuess(o.profile) /\ i > 2 * o.maxLpcOrder =>
              LpcOrdersOf(o)[i] = o.maxLpcOrder - WelchCount(o) + (i - 2 * o.maxLpcOrder)
<1> DEFINE M == o.maxLpcOrder
           W == WelchCount(o)
<1>1. M \in Nat /\ LpcTaskCount(o) \in Nat /\ M # 0
  BY LpcCount, SizesTyped DEF LegalOptions
<1>2. W \in 0 .. M  BY WelchFits
<1>3. CASE OrderGuess(o.profile)
  <2>1. LpcOrdersOf(o) = [w \in 1 .. LpcTaskCount(o) |-> 1]  BY <1>3 DEF LpcOrdersOf
  <2>2. QED  BY <1>1, <1>3, <2>1
<1>4. CASE ~OrderGuess(o.profile)
  <2> DEFINE x == [j \in 1 .. 2 * M |-> ((j - 1) % M) + 1]
             y == [j \in 1 .. W |-> M - W + j]
  <2>1. LpcOrdersOf(o) = x \o y  BY <1>4, Zenon DEF LpcOrdersOf
  <2>2. o.profile = "Exact" /\ ~SubdividesTukey3(o.profile)
    BY <1>4 DEF OrderGuess, SubdividesTukey3
  <2>3. LpcTaskCount(o) = 2 * M + W  BY <1>1, <2>2, Zenon DEF LpcTaskCount
  <2> HIDE DEF W
  <2>4. IsBuffer(x) /\ Len(x) = 2 * M /\ \A j \in 1 .. 2 * M : x[j] = ((j - 1) % M) + 1
    BY <1>1, BufferOf
  <2>5. IsBuffer(y) /\ Len(y) = W /\ \A j \in 1 .. W : y[j] = M - W + j
    BY <1>2, BufferOf
  <2> HIDE DEF x, y
  <2>6. /\ \A j \in 1 .. Len(x) : (x \o y)[j] = x[j]
        /\ \A j \in 1 .. Len(y) : (x \o y)[Len(x) + j] = y[j]
    <3>1. IsBuffer(x) /\ IsBuffer(y)  BY <2>4, <2>5
    <3>2. QED  BY ONLY <3>1, ConcatCells
  <2>7. CASE i <= 2 * M
    <3>1. i \in 1 .. 2 * M  BY <1>1, <2>7
    <3>2. (x \o y)[i] = ((i - 1) % M) + 1  BY <2>4, <2>6, <3>1
    <3>3. PICK r \in 0 .. M - 1 : r = (i - 1) % M  BY <1>1, <3>1
    <3>4. LpcOrdersOf(o)[i] = r + 1 /\ r + 1 \in 1 .. M
      <4>1. LpcOrdersOf(o)[i] = r + 1  BY <2>1, <3>2, <3>3, Zenon
      <4>2. r + 1 \in 1 .. M  BY ONLY <1>1, <3>3
      <4>3. QED  BY ONLY <4>1, <4>2
    <3>5. ~(i > 2 * M)  BY <1>1, <2>7
    <3>6. QED  BY <1>4, <3>3, <3>4, <3>5
  <2>8. CASE i > 2 * M
    <3>1. i - 2 * M \in 1 .. W /\ 2 * M + (i - 2 * M) = i  BY <1>1, <1>2, <2>3, <2>8
    <3>2. (x \o y)[i] = M - W + (i - 2 * M)  BY <2>4, <2>5, <2>6, <3>1
    <3>3. M - W + (i - 2 * M) \in 1 .. M  BY <1>1, <1>2, <3>1
    <3>4. QED  BY <1>1, <1>4, <2>1, <2>8, <3>2, <3>3 DEF W
  <2>9. QED  BY <1>1, <2>7, <2>8
<1>5. QED  BY <1>3, <1>4

-----------------------------------------------------------------------------
(* Sums and searches: FoldLeft recurses on the sets of places that remain. *)

\* A set of numbers up to n that is not empty has a largest one.
LEMMA LargestNumber ==
  ASSUME NEW n \in Nat, NEW T, T \subseteq 0 .. n, T # {}
  PROVE  Max(T) \in T /\ \A y \in T : Max(T) >= y
<1> DEFINE R == {k \in 0 .. n : n - k \in T}
<1>1. R \subseteq Nat /\ R # {}
  <2>1. PICK y \in T : TRUE  OBVIOUS
  <2>2. n - y \in 0 .. n /\ n - (n - y) = y  BY <2>1
  <2>3. n - y \in R  BY <2>1, <2>2
  <2>4. R \subseteq Nat  OBVIOUS
  <2>5. QED  BY <2>3, <2>4, Zenon
<1>2. PICK k \in R : \A j \in R : k <= j  BY <1>1, LeastNumber
<1>3. ASSUME NEW y \in T PROVE n - k >= y
  <2>1. n - y \in 0 .. n /\ n - (n - y) = y  OBVIOUS
  <2>2. n - y \in R  BY <2>1
  <2>3. k <= n - y  BY <1>2, <2>2
  <2>4. QED  BY <1>2, <2>3
<1>4. n - k \in T  BY <1>2
<1>5. QED  BY <1>3, <1>4 DEF Max

\* Conversely, what is in the set and not below any other is its maximum.
LEMMA MaxIs ==
  ASSUME NEW T, T \subseteq Int, NEW m \in T, \A y \in T : m >= y
  PROVE  Max(T) = m
<1>1. Max(T) \in T /\ \A y \in T : Max(T) >= y  BY DEF Max
<1>2. PICK z : z = Max(T)  OBVIOUS
<1>3. z \in Int /\ m \in Int /\ z >= m /\ m >= z  BY <1>1, <1>2
<1>4. z = m  BY <1>3
<1>5. QED  BY <1>2, <1>4

LEMMA MinIs ==
  ASSUME NEW T, T \subseteq Int, NEW m \in T, \A y \in T : m <= y
  PROVE  Min(T) = m
<1>1. Min(T) \in T /\ \A y \in T : Min(T) <= y  BY DEF Min
<1>2. PICK z : z = Min(T)  OBVIOUS
<1>3. z \in Int /\ m \in Int /\ z <= m /\ m <= z  BY <1>1, <1>2
<1>4. z = m  BY <1>3
<1>5. QED  BY <1>2, <1>4

Adds(g, x, n) ==
  g = [s \in SUBSET (1 .. n) |->
         IF s = {} THEN 0 ELSE g[s \ {Max(s)}] + x[Max(s)]]

LEMMA LastOfSet ==
  ASSUME NEW k \in Nat, NEW s, s \subseteq 1 .. k + 1
  PROVE  /\ k + 1 \in s => Max(s) = k + 1 /\ s \ {Max(s)} \subseteq 1 .. k
         /\ k + 1 \notin s => s \subseteq 1 .. k
         /\ s # {} => Max(s) \in s
<1>1. k + 1 \in s => Max(s) = k + 1
  <2>1. s \subseteq Int /\ k + 1 \in Int /\ \A y \in s : k + 1 >= y  OBVIOUS
  <2>2. QED  BY ONLY <2>1, MaxIs
<1>2. s # {} => Max(s) \in s
  BY LargestNumber, k + 1 \in Nat, s \subseteq 0 .. k + 1
<1>3. k + 1 \in s => s \ {k + 1} \subseteq 1 .. k  OBVIOUS
<1>4. k + 1 \notin s => s \subseteq 1 .. k  OBVIOUS
<1>5. QED  BY <1>1, <1>2, <1>3, <1>4, Zenon

LEMMA AddsExists ==
  ASSUME NEW x, NEW n \in Nat
  PROVE  \E g : Adds(g, x, n)
<1> DEFINE T == {k \in 1 .. n + 1 : \E g : Adds(g, x, k - 1)}
<1>1. 1 \in T
  <2> DEFINE g == [s \in SUBSET (1 .. 0) |-> 0]
  <2>1. ASSUME NEW s \in SUBSET (1 .. 0) PROVE s = {}  OBVIOUS
  <2>2. g = [s \in SUBSET (1 .. 0) |->
               IF s = {} THEN 0 ELSE g[s \ {Max(s)}] + x[Max(s)]]
    <3> HIDE DEF g
    <3>1. g = [s \in SUBSET (1 .. 0) |-> 0]  BY DEF g
    <3>2. QED  BY <2>1, <3>1
  <2>3. Adds(g, x, 0)  BY <2>2, Zenon DEF Adds
  <2>4. QED  BY <2>3
<1>2. ASSUME NEW k \in 1 .. (n + 1) - 1, k \in T PROVE k + 1 \in T
  <2>1. PICK g : Adds(g, x, k - 1)  BY <1>2
  <2>2. PICK j \in Nat : j = k - 1 /\ k = j + 1  BY k - 1 \in Nat
  <2>3. g = [s \in SUBSET (1 .. j) |->
               IF s = {} THEN 0 ELSE g[s \ {Max(s)}] + x[Max(s)]]
    BY <2>1, <2>2, Zenon DEF Adds
  <2> DEFINE h == [s \in SUBSET (1 .. j + 1) |->
                     IF j + 1 \in s THEN g[s \ {j + 1}] + x[j + 1] ELSE g[s]]
  <2>4. ASSUME NEW s \in SUBSET (1 .. j + 1)
        PROVE  h[s] = IF s = {} THEN 0 ELSE h[s \ {Max(s)}] + x[Max(s)]
    <3>1. CASE j + 1 \in s
      <4>1. Max(s) = j + 1 /\ s \ {Max(s)} \in SUBSET (1 .. j)  BY <3>1, LastOfSet
      <4>2. s \ {Max(s)} \in SUBSET (1 .. j + 1) /\ j + 1 \notin s \ {Max(s)}
        BY <4>1
      <4>3. h[s \ {Max(s)}] = g[s \ {j + 1}]  BY <4>1, <4>2
      <4>4. h[s] = g[s \ {j + 1}] + x[j + 1]  BY <3>1
      <4>5. QED  BY <3>1, <4>1, <4>3, <4>4
    <3>2. CASE j + 1 \notin s /\ s # {}
      <4>1. s \in SUBSET (1 .. j) /\ Max(s) \in s  BY <3>2, LastOfSet
      <4>2. s \ {Max(s)} \in SUBSET (1 .. j + 1) /\ j + 1 \notin s \ {Max(s)}
        BY <4>1, <3>2
      <4>3. h[s] = g[s] /\ h[s \ {Max(s)}] = g[s \ {Max(s)}]  BY <3>2, <4>2
      <4>4. g[s] = g[s \ {Max(s)}] + x[Max(s)]  BY <2>3, <3>2, <4>1
      <4>5. QED  BY <3>2, <4>3, <4>4
    <3>3. CASE s = {}
      <4>1. {} \in SUBSET (1 .. j) /\ j + 1 \notin {}  OBVIOUS
      <4>2. g[{}] = 0  BY <2>3, <4>1
      <4>3. h[{}] = g[{}]  BY <3>3, <4>1
      <4>4. QED  BY <3>3, <4>2, <4>3
    <3>4. QED  BY <3>1, <3>2, <3>3
  <2>5. h = [s \in SUBSET (1 .. j + 1) |-> h[s]]  OBVIOUS
  <2> HIDE DEF h
  <2>6. h = [s \in SUBSET (1 .. j + 1) |->
               IF s = {} THEN 0 ELSE h[s \ {Max(s)}] + x[Max(s)]]
    BY <2>4, <2>5
  <2>7. Adds(h, x, j + 1)  BY <2>6, Zenon DEF Adds
  <2>8. j + 1 = (k + 1) - 1 /\ k + 1 \in 1 .. n + 1  BY <2>2
  <2>9. Adds(h, x, (k + 1) - 1)  BY <2>7, <2>8
  <2>10. QED  BY <2>8, <2>9
<1>3. n + 1 \in T  BY <1>1, <1>2, NumbersTo, n + 1 \in Nat, n + 1 \in 1 .. n + 1
<1>4. (n + 1) - 1 = n  OBVIOUS
<1>5. QED  BY <1>3, <1>4

\* A sum of integers is an integer.
LEMMA SumTyped ==
  ASSUME NEW n \in Nat, NEW x, DOMAIN x = 1 .. n, \A i \in 1 .. n : x[i] \in Int
  PROVE  SumSeq(x) \in Int
<1> DEFINE iter == CHOOSE g : Adds(g, x, n)
           T == {k \in 1 .. n + 1 : \A s \in SUBSET (1 .. k - 1) : iter[s] \in Int}
<1>1. iter = [s \in SUBSET (1 .. n) |->
                IF s = {} THEN 0 ELSE iter[s \ {Max(s)}] + x[Max(s)]]
  BY AddsExists, Zenon DEF Adds
<1>2. SumSeq(x) = iter[1 .. n]
  BY Zenon DEF SumSeq, FoldLeft, MapThenFoldSet, Adds
<1> HIDE DEF iter
<1>3. iter[{}] = 0  BY <1>1, {} \in SUBSET (1 .. n)
<1>4. 1 \in T
  <2>1. ASSUME NEW s \in SUBSET (1 .. 1 - 1) PROVE iter[s] \in Int
    <3>1. s = {}  OBVIOUS
    <3>2. QED  BY <1>3, <3>1
  <2>2. 1 \in 1 .. n + 1  OBVIOUS
  <2>3. QED  BY <2>1, <2>2, Zenon
<1>5. ASSUME NEW k \in 1 .. (n + 1) - 1, k \in T PROVE k + 1 \in T
  <2>1. PICK j \in Nat : j = k - 1 /\ k = j + 1 /\ j + 1 = (k + 1) - 1 /\ j + 1 <= n
    BY k - 1 \in Nat
  <2>2. ASSUME NEW s \in SUBSET (1 .. j + 1) PROVE iter[s] \in Int
    <3>1. CASE j + 1 \in s
      <4>1. Max(s) = j + 1 /\ s \ {Max(s)} \in SUBSET (1 .. j)  BY <3>1, LastOfSet
      <4>2. iter[s \ {Max(s)}] \in Int  BY <1>5, <2>1, <4>1
      <4>3. s # {} /\ s \in SUBSET (1 .. n) /\ j + 1 \in 1 .. n  BY <2>1, <3>1
      <4>4. iter[s] = iter[s \ {Max(s)}] + x[Max(s)]  BY <1>1, <4>3
      <4>5. x[Max(s)] \in Int  BY <4>1, <4>3
      <4>6. QED  BY <4>2, <4>4, <4>5
    <3>2. CASE j + 1 \notin s
      <4>1. s \in SUBSET (1 .. j)  BY <3>2, LastOfSet
      <4>2. QED  BY <1>5, <2>1, <4>1
    <3>3. QED  BY <3>1, <3>2
  <2>3. k + 1 \in 1 .. n + 1  OBVIOUS
  <2>4. QED  BY <2>1, <2>2, <2>3
<1>6. n + 1 \in T  BY <1>4, <1>5, NumbersTo, n + 1 \in Nat, n + 1 \in 1 .. n + 1
<1>7. (n + 1) - 1 = n /\ 1 .. n \in SUBSET (1 .. n)  OBVIOUS
<1>8. QED  BY <1>2, <1>6, <1>7

Leads(f, k, j) == f[k] < f[j] \/ (f[k] = f[j] /\ k <= j)
Trails(f, k, j) == f[k] < f[j] \/ (f[k] = f[j] /\ j <= k)

LEMMA LeastExists ==
  ASSUME NEW n \in Nat, NEW f, DOMAIN f \subseteq 0 .. n, DOMAIN f # {},
         \A k \in DOMAIN f : f[k] \in Int
  PROVE  /\ \E k \in DOMAIN f : \A j \in DOMAIN f : Leads(f, k, j)
         /\ \E k \in DOMAIN f : \A j \in DOMAIN f : Trails(f, k, j)
<1> DEFINE Upto(m) == DOMAIN f \cap (0 .. m - 1)
           HasFirst(m) == \E k \in Upto(m) : \A j \in Upto(m) : Leads(f, k, j)
           HasLast(m) == \E k \in Upto(m) : \A j \in Upto(m) : Trails(f, k, j)
           T == {m \in 1 .. n + 1 : Upto(m) # {} => HasFirst(m) /\ HasLast(m)}
<1>1. 1 \in T
  <2>1. 1 \in 1 .. n + 1  OBVIOUS
  <2>2. ASSUME Upto(1) # {} PROVE HasFirst(1) /\ HasLast(1)
    <3>1. 0 \in Upto(1) /\ \A j \in Upto(1) : j = 0  BY <2>2
    <3>2. Leads(f, 0, 0) /\ Trails(f, 0, 0)  BY DEF Leads, Trails
    <3>3. QED  BY <3>1, <3>2
  <2>3. QED  BY <2>1, <2>2
<1>2. ASSUME NEW m \in 1 .. (n + 1) - 1, m \in T PROVE m + 1 \in T
  <2>1. m + 1 \in 1 .. n + 1 /\ m \in Nat /\ (m + 1) - 1 = m  OBVIOUS
  <2>2. \A j \in Upto(m + 1) : j \in Upto(m) \/ j = m
    BY <2>1
  <2>3. \A j \in Upto(m) : j \in Upto(m + 1)  BY <2>1
  <2>4. \A j \in Upto(m + 1) : j \in DOMAIN f /\ j \in Int /\ f[j] \in Int /\ j <= m
    BY <2>1
  <2>5. CASE m \notin DOMAIN f
    <3>1. Upto(m + 1) = Upto(m)  BY <2>2, <2>3, <2>5
    <3>2. QED  BY <1>2, <2>1, <3>1
  <2>6. CASE m \in DOMAIN f /\ Upto(m) = {}
    <3>1. m \in Upto(m + 1) /\ \A j \in Upto(m + 1) : j = m  BY <2>1, <2>2, <2>6
    <3>2. Leads(f, m, m) /\ Trails(f, m, m)  BY <2>1 DEF Leads, Trails
    <3>3. QED  BY <2>1, <3>1, <3>2
  <2>7. CASE m \in DOMAIN f /\ Upto(m) # {}
    <3>0. m \in Upto(m + 1)  BY <2>1, <2>7
    <3>1. HasFirst(m + 1)
      <4>1. PICK k \in Upto(m) : \A j \in Upto(m) : Leads(f, k, j)  BY <1>2, <2>7
      <4>2. k \in Upto(m + 1)  BY <2>3
      <4> HIDE DEF Upto
      <4>3. CASE f[k] <= f[m]
        <5>1. Leads(f, k, m)  BY <2>1, <2>4, <3>0, <4>2, <4>3 DEF Leads
        <5>2. \A j \in Upto(m + 1) : Leads(f, k, j)  BY <2>2, <4>1, <5>1
        <5>3. QED  BY <4>2, <5>2
      <4>4. CASE f[m] < f[k]
        <5>1. ASSUME NEW j \in Upto(m + 1) PROVE Leads(f, m, j)
          <6>1. CASE j = m  BY <2>1, <6>1 DEF Leads
          <6>2. CASE j \in Upto(m)
            <7>1. f[k] <= f[j]  BY <2>4, <4>1, <4>2, <6>2 DEF Leads
            <7>2. f[m] < f[j]  BY <2>4, <3>0, <4>2, <4>4, <7>1
            <7>3. QED  BY <7>2 DEF Leads
          <6>3. QED  BY <2>2, <6>1, <6>2
        <5>2. QED  BY <3>0, <5>1
      <4>5. QED  BY <2>4, <3>0, <4>2, <4>3, <4>4
    <3>2. HasLast(m + 1)
      <4>1. PICK k \in Upto(m) : \A j \in Upto(m) : Trails(f, k, j)  BY <1>2, <2>7
      <4>2. k \in Upto(m + 1)  BY <2>3
      <4> HIDE DEF Upto
      <4>3. CASE f[k] < f[m]
        <5>1. Trails(f, k, m)  BY <4>3 DEF Trails
        <5>2. \A j \in Upto(m + 1) : Trails(f, k, j)  BY <2>2, <4>1, <5>1
        <5>3. QED  BY <4>2, <5>2
      <4>4. CASE f[m] <= f[k]
        <5>1. ASSUME NEW j \in Upto(m + 1) PROVE Trails(f, m, j)
          <6>1. CASE j = m  BY <2>1, <6>1 DEF Trails
          <6>2. CASE j \in Upto(m)
            <7>1. f[k] <= f[j]  BY <2>4, <4>1, <4>2, <6>2 DEF Trails
            <7>2. f[m] <= f[j] /\ j <= m  BY <2>4, <3>0, <4>2, <4>4, <7>1
            <7>3. f[m] < f[j] \/ f[m] = f[j]  BY <2>4, <3>0, <7>2
            <7>4. QED  BY <7>2, <7>3 DEF Trails
          <6>3. QED  BY <2>2, <6>1, <6>2
        <5>2. QED  BY <3>0, <5>1
      <4>5. QED  BY <2>4, <3>0, <4>2, <4>3, <4>4
    <3>3. QED  BY <2>1, <3>1, <3>2
  <2>8. QED  BY <2>5, <2>6, <2>7
<1>3. n + 1 \in T  BY <1>1, <1>2, NumbersTo, n + 1 \in Nat, n + 1 \in 1 .. n + 1
<1>4. Upto(n + 1) = DOMAIN f
  <2>1. (n + 1) - 1 = n  OBVIOUS
  <2>2. QED  BY <2>1
<1>5. QED  BY <1>3, <1>4

LEMMA LeastFound ==
  ASSUME NEW n \in Nat, NEW f, DOMAIN f \subseteq 0 .. n, DOMAIN f # {},
         \A k \in DOMAIN f : f[k] \in Int
  PROVE  /\ FirstLeast(f) \in DOMAIN f /\ \A j \in DOMAIN f : f[FirstLeast(f)] <= f[j]
         /\ LastLeast(f) \in DOMAIN f /\ \A j \in DOMAIN f : f[LastLeast(f)] <= f[j]
<1>1. /\ \E k \in DOMAIN f : \A j \in DOMAIN f : f[k] < f[j] \/ (f[k] = f[j] /\ k <= j)
      /\ \E k \in DOMAIN f : \A j \in DOMAIN f : f[k] < f[j] \/ (f[k] = f[j] /\ j <= k)
  BY LeastExists DEF Leads, Trails
<1>2. /\ FirstLeast(f) \in DOMAIN f
      /\ \A j \in DOMAIN f : f[FirstLeast(f)] < f[j] \/ f[FirstLeast(f)] = f[j]
  BY <1>1, Zenon DEF FirstLeast
<1>3. /\ LastLeast(f) \in DOMAIN f
      /\ \A j \in DOMAIN f : f[LastLeast(f)] < f[j] \/ f[LastLeast(f)] = f[j]
  BY <1>1, Zenon DEF LastLeast
<1>4. QED  BY <1>2, <1>3

-----------------------------------------------------------------------------
(* The order the host guesses is one the block can have.                   *)

LEMMA PowerTyped ==
  ASSUME NEW n \in 0 .. WordBits
  PROVE  2^n \in Nat \ {0}
BY PowersAssumption

LEMMA ShiftRightTyped ==
  ASSUME NEW x \in Int, NEW s \in 0 .. WordBits
  PROVE  ArithmeticShiftRight(x, s) \in Int
<1>1. PICK d \in Nat \ {0} : d = 2^s  BY PowerTyped
<1>2. ArithmeticShiftRight(x, s) = IF x >= 0 THEN x \div d ELSE -((-x + d - 1) \div d)
  BY <1>1, Zenon DEF ArithmeticShiftRight
<1>3. x \div d \in Int /\ (-x + d - 1) \div d \in Int  OBVIOUS
<1>4. QED  BY <1>2, <1>3

LEMMA FixedCoefficients ==
  ASSUME NEW k \in 0 .. 4
  PROVE  /\ FixedPredictor(k).shift = 0
         /\ DOMAIN FixedPredictor(k).coefs = 1 .. k /\ Len(FixedPredictor(k).coefs) = k
         /\ \A i \in 1 .. k : FixedPredictor(k).coefs[i] \in Int
<1>1. CASE k = 0  BY <1>1 DEF FixedPredictor
<1>2. CASE k = 1  BY <1>2 DEF FixedPredictor
<1>3. CASE k = 2  BY <1>3 DEF FixedPredictor
<1>4. CASE k = 3  BY <1>4 DEF FixedPredictor
<1>5. CASE k = 4  BY <1>5 DEF FixedPredictor
<1>6. QED  BY <1>1, <1>2, <1>3, <1>4, <1>5

IsSampleBlock(x) == IsBuffer(x) /\ \A i \in DOMAIN x : x[i] \in Int

LEMMA FixedResidualSumTyped ==
  ASSUME NEW x, IsSampleBlock(x), NEW k \in 0 .. 4, k < Len(x)
  PROVE  AbsSum(Residuals(x, FixedPredictor(k))) \in Int
<1> DEFINE p == FixedPredictor(k)
           r == Residuals(x, p)
<1>1. Order(p) = k /\ Len(x) \in Nat /\ DOMAIN x = 1 .. Len(x)
  BY FixedCoefficients DEF Order, IsSampleBlock, IsBuffer
<1>2. ASSUME NEW i \in k + 1 .. Len(x) PROVE Prediction(x, i, p) \in Int
  <2> DEFINE y == [j \in DOMAIN p.coefs |-> p.coefs[j] * x[i - j]]
  <2>1. DOMAIN y = 1 .. k  BY FixedCoefficients
  <2>2. ASSUME NEW j \in 1 .. k PROVE y[j] \in Int
    <3>1. p.coefs[j] \in Int /\ j \in DOMAIN p.coefs  BY FixedCoefficients
    <3>2. i - j \in DOMAIN x  BY <1>1
    <3>3. x[i - j] \in Int  BY <3>2 DEF IsSampleBlock
    <3>4. y[j] = p.coefs[j] * x[i - j]  BY <3>1
    <3> HIDE DEF p, y
    <3>5. QED  BY <3>1, <3>3, <3>4
  <2>3. k \in Nat  OBVIOUS
  <2>4. SumSeq(y) \in Int
    <3> HIDE DEF y
    <3>1. QED  BY <2>1, <2>2, <2>3, SumTyped
  <2>5. p.shift \in 0 .. WordBits
    <3>1. p.shift = 0  BY FixedCoefficients
    <3>2. 0 \in 0 .. WordBits  BY SubframesAssumption
    <3>3. QED  BY <3>1, <3>2
  <2>6. Prediction(x, i, p) = ArithmeticShiftRight(SumSeq(y), p.shift)
    BY Zenon DEF Prediction
  <2> HIDE DEF y, p
  <2>7. QED  BY <2>4, <2>5, <2>6, ShiftRightTyped
<1>3. r = [i \in 1 .. Len(x) - k |-> x[i + k] - Prediction(x, i + k, p)]
  BY <1>1, Zenon DEF Residuals
<1>4. ASSUME NEW i \in 1 .. Len(x) - k PROVE r[i] \in Int
  <2>1. i + k \in k + 1 .. Len(x) /\ i + k \in DOMAIN x  BY <1>1
  <2>2. x[i + k] \in Int /\ Prediction(x, i + k, p) \in Int
    BY <1>2, <2>1 DEF IsSampleBlock
  <2> HIDE DEF r
  <2>3. QED  BY <1>3, <2>2
<1>5. DOMAIN r = 1 .. Len(x) - k /\ Len(x) - k \in Nat  BY <1>1, <1>3
<1> HIDE DEF r, p
<1>6. DOMAIN [i \in DOMAIN r |-> Magnitude(r[i])] = 1 .. Len(x) - k
      /\ \A i \in 1 .. Len(x) - k : [j \in DOMAIN r |-> Magnitude(r[j])][i] \in Int
  BY <1>4, <1>5 DEF Magnitude
<1>7. SumSeq([i \in DOMAIN r |-> Magnitude(r[i])]) \in Int
  BY <1>5, <1>6, SumTyped
<1>8. QED  BY <1>7 DEF AbsSum, r, p

LEMMA GuessFits ==
  ASSUME NEW x, IsSampleBlock(x), Len(x) > 0
  PROVE  GuessFixedOrder(x) \in 0 .. 4 /\ GuessFixedOrder(x) < Len(x)
<1> DEFINE n == MaxFixedOrder(x)
           f == [k \in 0 .. n |-> AbsSum(Residuals(x, FixedPredictor(k)))]
<1>1. Len(x) \in Nat \ {0}  BY DEF IsSampleBlock, IsBuffer
<1>2. n \in 0 .. 4 /\ n < Len(x)
  <2>1. CASE Len(x) > 1
    <3>1. Min({4, Len(x) - 1}) = IF 4 <= Len(x) - 1 THEN 4 ELSE Len(x) - 1
      BY <1>1, LeastOfTwo
    <3>2. QED  BY <1>1, <2>1, <3>1 DEF MaxFixedOrder
  <2>2. CASE ~(Len(x) > 1)  BY <1>1, <2>2 DEF MaxFixedOrder
  <2>3. QED  BY <2>1, <2>2
<1> HIDE DEF n
<1>3. ASSUME NEW k \in 0 .. n PROVE f[k] \in Int
  <2>1. k \in 0 .. 4 /\ k < Len(x)  BY <1>1, <1>2
  <2>2. QED  BY <2>1, FixedResidualSumTyped
<1>4. DOMAIN f = 0 .. n /\ 0 \in 0 .. n /\ n \in Nat  BY <1>2
<1>5. GuessFixedOrder(x) = FirstLeast(f)  BY Zenon DEF GuessFixedOrder, n
<1> HIDE DEF f
<1>6. DOMAIN f \subseteq 0 .. n /\ DOMAIN f # {} /\ \A k \in DOMAIN f : f[k] \in Int
  BY <1>3, <1>4
<1>7. FirstLeast(f) \in 0 .. n  BY ONLY <1>4, <1>6, LeastFound
<1>8. QED  BY <1>1, <1>2, <1>5, <1>7

-----------------------------------------------------------------------------
(* What is in a planned group.                                             *)

TaskFields ==
  {"type", "order", "coefs", "shift", "cbits", "size", "wbits", "abits", "porder",
   "offset", "block"}

\* A task as it is planned: where it belongs, and fields that are numbers.
PlannedTask(t, o, f) ==
  /\ DOMAIN t = TaskFields /\ Placed(t, o, f)
  /\ t.size \in Int /\ t.wbits = 0 /\ t.cbits = 0 /\ t.shift = 0 /\ t.porder = 0
  /\ t.type \in {"Lpc", "Constant", "Fixed"}
  /\ t.type \in {"Lpc", "Fixed"} => t.order \in Nat /\ t.order < o.frameSamples
  /\ t.type = "Fixed" => t.order <= 4
  /\ t.type = "Lpc" => t.order \in 1 .. o.maxLpcOrder

LEMMA CommonPlanned ==
  ASSUME NEW o, LegalOptions(o), NEW f, NEW order,
         NEW type \in {"Lpc", "Constant", "Fixed"},
         type \in {"Lpc", "Fixed"} => order \in Nat /\ order < o.frameSamples,
         type = "Fixed" => order <= 4,
         type = "Lpc" => order \in 1 .. o.maxLpcOrder
  PROVE  PlannedTask(CommonTask(o, f, type, order), o, f)
<1> DEFINE t == CommonTask(o, f, type, order)
<1>1. DeviceBits * o.frameSamples \in Int  BY SizesTyped DEF LegalOptions
<1>2. /\ DOMAIN t = TaskFields /\ t.offset = f * o.frameSamples /\ t.block = o.frameSamples
      /\ t.size = DeviceBits * o.frameSamples /\ t.wbits = 0 /\ t.cbits = 0
      /\ t.shift = 0 /\ t.porder = 0 /\ t.type = type /\ t.order = order
  BY DEF CommonTask, TaskFields
<1> HIDE DEF t
<1>3. PlannedTask(t, o, f)  BY <1>1, <1>2 DEF PlannedTask, Placed
<1>4. QED  BY <1>3 DEF t

\* The field that holds the coefficients matters to none of this.
LEMMA RecoefPlanned ==
  ASSUME NEW o, NEW f, NEW t, PlannedTask(t, o, f), NEW coefs
  PROVE  PlannedTask([t EXCEPT !.coefs = coefs], o, f)
BY DEF PlannedTask, Placed, TaskFields

LEMMA FixedOrderRange ==
  ASSUME NEW o, LegalOptions(o), NEW b, IsSampleBlock(b), Len(b) = o.frameSamples,
         NEW i \in 1 .. TasksPerFrame(o) - LpcTaskCount(o) - 1
  PROVE  FixedOrdersOf(o, b)[i] \in 0 .. 4 /\ FixedOrdersOf(o, b)[i] < o.frameSamples
<1>1. LpcTaskCount(o) \in Nat /\ FixedTaskCount(o) \in 1 .. 5
      /\ FixedTaskCount(o) <= o.frameSamples /\ o.frameSamples \in Nat \ {0}
  BY LpcCount, FixedCount, SizesTyped DEF LegalOptions
<1>2. CASE OrderGuess(o.profile) /\ ~GuessedOnDevice(o)
  <2>1. FixedOrdersOf(o, b) = <<GuessFixedOrder(b)>>  BY <1>2 DEF FixedOrdersOf
  <2>2. i = 1  BY <1>1, <1>2 DEF TasksPerFrame
  <2>3. GuessFixedOrder(b) \in 0 .. 4 /\ GuessFixedOrder(b) < o.frameSamples
    BY <1>1, GuessFits
  <2>4. QED  BY <2>1, <2>2, <2>3
<1>3. CASE ~(OrderGuess(o.profile) /\ ~GuessedOnDevice(o))
  <2>1. FixedOrdersOf(o, b) = [k \in 1 .. FixedTaskCount(o) |-> k - 1]
    BY <1>3 DEF FixedOrdersOf
  <2>2. i \in 1 .. FixedTaskCount(o)
    <3>1. TasksPerFrame(o) = LpcTaskCount(o) + 1 + FixedTaskCount(o)
      BY <1>3, Zenon DEF TasksPerFrame
    <3>2. QED  BY <1>1, <3>1
  <2>3. FixedOrdersOf(o, b)[i] = i - 1  BY <2>1, <2>2
  <2>4. QED  BY <1>1, <2>2, <2>3
<1>4. QED  BY <1>2, <1>3

LEMMA GroupPlanned ==
  ASSUME NEW o, LegalOptions(o), NEW f, NEW b, IsSampleBlock(b), Len(b) = o.frameSamples,
         NEW i \in 1 .. TasksPerFrame(o)
  PROVE  /\ PlannedTask(FrameTasks(o, f, b)[i], o, f)
         /\ FrameTasks(o, f, b)[i].type = "Lpc" <=> i <= LpcTaskCount(o)
         /\ i <= LpcTaskCount(o) => FrameTasks(o, f, b)[i].order = LpcOrdersOf(o)[i]
         /\ o.maxLpcOrder = 0 => FrameTasks(o, f, b)[i].type # "Lpc"
<1>1. LpcTaskCount(o) \in Nat /\ (LpcTaskCount(o) = 0 <=> o.maxLpcOrder = 0)
      /\ o.frameSamples \in Nat \ {0} /\ TasksPerFrame(o) \in Nat
      /\ o.maxLpcOrder \in Nat /\ o.maxLpcOrder < o.frameSamples
  BY LpcCount, GroupSize, SizesTyped DEF LegalOptions
<1>2. CASE i <= LpcTaskCount(o)
  <2>1. FrameTasks(o, f, b)[i] = CommonTask(o, f, "Lpc", LpcOrdersOf(o)[i])
    BY <1>1, <1>2, GroupTasks
  <2>2. LpcOrdersOf(o)[i] \in 1 .. o.maxLpcOrder  BY <1>1, <1>2, LpcOrders
  <2>3. PICK k \in 1 .. o.maxLpcOrder : k = LpcOrdersOf(o)[i]  BY <2>2
  <2>4. k \in Nat /\ k < o.frameSamples  BY <1>1, <2>3
  <2>5. PlannedTask(CommonTask(o, f, "Lpc", k), o, f)  BY <2>4, CommonPlanned
  <2>6. QED  BY <1>1, <1>2, <2>1, <2>3, <2>5, CommonFields
<1>3. CASE i = LpcTaskCount(o) + 1
  <2>1. FrameTasks(o, f, b)[i] = ConstantTask(o, f)  BY <1>3, GroupTasks
  <2>2. PlannedTask(CommonTask(o, f, "Constant", 1), o, f)  BY CommonPlanned
  <2>3. PlannedTask(ConstantTask(o, f), o, f)  BY <2>2, RecoefPlanned DEF ConstantTask
  <2>4. ConstantTask(o, f).type = "Constant"  BY DEF ConstantTask, CommonTask
  <2>5. QED  BY <1>1, <1>3, <2>1, <2>3, <2>4
<1>4. CASE i > LpcTaskCount(o) + 1
  <2>1. i - LpcTaskCount(o) - 1 \in 1 .. TasksPerFrame(o) - LpcTaskCount(o) - 1
    <3>1. PICK L \in Nat : L = LpcTaskCount(o)  BY <1>1
    <3>2. PICK n \in Nat : n = TasksPerFrame(o)  BY <1>1
    <3>3. i \in 1 .. n /\ i > L + 1  BY <1>4, <3>1, <3>2
    <3>4. i - L - 1 \in 1 .. n - L - 1  BY ONLY <3>3, L \in Nat, n \in Nat
    <3>5. QED  BY <3>1, <3>2, <3>4
  <2>2. PICK k \in 0 .. 4 : k = FixedOrdersOf(o, b)[i - LpcTaskCount(o) - 1]
                            /\ k < o.frameSamples
    BY <2>1, FixedOrderRange
  <2>3. FrameTasks(o, f, b)[i] = FixedTask(o, f, k)  BY <1>1, <1>4, <2>2, GroupTasks
  <2>4. PlannedTask(CommonTask(o, f, "Fixed", k), o, f)  BY <2>2, CommonPlanned
  <2>5. PlannedTask(FixedTask(o, f, k), o, f)  BY <2>4, RecoefPlanned DEF FixedTask
  <2>6. FixedTask(o, f, k).type = "Fixed"  BY DEF FixedTask, CommonTask
  <2>7. QED  BY <1>1, <1>4, <2>3, <2>5, <2>6
<1>5. QED  BY <1>1, <1>2, <1>3, <1>4

\* Where a frame starts, and its samples.
LEMMA FramePlace ==
  ASSUME NEW n \in Nat \ {0}, NEW N \in Nat \ {0}, NEW f \in 0 .. n - 1
  PROVE  f * N \in Nat /\ n * N \in Nat /\ f * N + N <= n * N
<1>1. PICK d \in Nat : n = f + 1 + d  OBVIOUS
<1>2. f * N \in Nat /\ n * N = f * N + N + d * N /\ d * N \in Nat  BY <1>1
<1>3. QED  BY <1>2

LEMMA FrameBlock ==
  ASSUME NEW x, IsSampleBlock(x), NEW N \in Nat \ {0}, NEW off \in Nat, off + N <= Len(x)
  PROVE  /\ IsSampleBlock(FrameOf(x, off, N)) /\ Len(FrameOf(x, off, N)) = N
         /\ DOMAIN FrameOf(x, off, N) = 1 .. N
         /\ \A j \in 1 .. N : FrameOf(x, off, N)[j] = x[off + j]
<1> DEFINE y == [j \in 1 .. N |-> x[off + j]]
<1>1. FrameOf(x, off, N) = y  BY FrameCells DEF IsSampleBlock
<1>2. \A j \in 1 .. N : off + j \in DOMAIN x  BY DEF IsSampleBlock, IsBuffer
<1>3. \A j \in 1 .. N : x[off + j] \in Int  BY <1>2 DEF IsSampleBlock
<1>4. IsBuffer(y) /\ Len(y) = N /\ DOMAIN y = 1 .. N  BY BufferOf
<1>5. IsSampleBlock(y)  BY <1>3, <1>4 DEF IsSampleBlock
<1>6. QED  BY <1>1, <1>4, <1>5

\* The same of a whole plan.
IsPlan(p, o, x) ==
  /\ LegalOptions(o) /\ IsSampleBlock(x) /\ Len(x) > 0 /\ Len(x) % o.frameSamples = 0
  /\ p = BuildPlan(o, x)

LEMMA PlanTasks ==
  ASSUME NEW o, NEW x, NEW p, IsPlan(p, o, x), NEW f \in 0 .. p.frames - 1, NEW i \in 1 .. p.perFrame
  PROVE  /\ PlannedTask(TaskOf(p, f, i), o, f)
         /\ TaskOf(p, f, i).type = "Lpc" <=> i <= LpcTaskCount(o)
         /\ i <= LpcTaskCount(o) => TaskOf(p, f, i).order = LpcOrdersOf(o)[i]
         /\ f * p.perFrame + i \in DOMAIN p.tasks
<1>1. LegalOptions(o) /\ IsSampleBlock(x) /\ Len(x) > 0 /\ Len(x) % o.frameSamples = 0
      /\ p = BuildPlan(o, x) /\ IsBuffer(x)
  BY DEF IsPlan, IsSampleBlock
<1>2. /\ p.frames \in Nat \ {0} /\ p.frames * o.frameSamples = Len(x)
      /\ p.perFrame = TasksPerFrame(o)
      /\ IsBuffer(p.tasks) /\ Len(p.tasks) = p.frames * p.perFrame
      /\ TaskOf(p, f, i) = FrameTasks(o, f, FrameOf(x, f * o.frameSamples, o.frameSamples))[i]
  BY <1>1, PlanCells
<1>3. o.frameSamples \in Nat \ {0}  BY <1>1, SizesTyped DEF LegalOptions
<1> DEFINE b == FrameOf(x, f * o.frameSamples, o.frameSamples)
<1>4. IsSampleBlock(b) /\ Len(b) = o.frameSamples
  <2>1. PICK off \in Nat : off = f * o.frameSamples /\ off + o.frameSamples <= Len(x)
    BY <1>2, <1>3, FramePlace
  <2>2. PICK N \in Nat \ {0} : N = o.frameSamples  BY <1>3
  <2>3. IsSampleBlock(x) /\ off + N <= Len(x)  BY <1>1, <2>1, <2>2
  <2>4. IsSampleBlock(FrameOf(x, off, N)) /\ Len(FrameOf(x, off, N)) = N
    BY ONLY <2>3, FrameBlock
  <2>5. QED  BY <2>1, <2>2, <2>4, Zenon
<1>5. i \in 1 .. TasksPerFrame(o)  BY <1>2
<1> HIDE DEF b
<1>6. /\ PlannedTask(FrameTasks(o, f, b)[i], o, f)
      /\ FrameTasks(o, f, b)[i].type = "Lpc" <=> i <= LpcTaskCount(o)
      /\ i <= LpcTaskCount(o) => FrameTasks(o, f, b)[i].order = LpcOrdersOf(o)[i]
  BY <1>1, <1>4, <1>5, GroupPlanned
<1>7. f * p.perFrame + i \in DOMAIN p.tasks
  <2>1. p.perFrame \in Nat \ {0}  BY <1>1, <1>2, GroupSize, SizesTyped
  <2>2. PICK m \in Nat \ {0} : m = p.perFrame  BY <2>1
  <2>3. PICK n \in Nat \ {0} : n = p.frames  BY <1>2
  <2>4. i - 1 \in 0 .. m - 1 /\ f \in 0 .. n - 1  BY <2>2, <2>3
  <2>5. f * m + (i - 1) + 1 \in 1 .. n * m  BY <2>4, CellRow
  <2>6. f * m \in Nat /\ f * m + (i - 1) + 1 = f * m + i  BY <2>4
  <2>7. QED  BY <1>2, <2>2, <2>3, <2>5, <2>6 DEF IsBuffer
<1>8. QED  BY <1>2, <1>6, <1>7 DEF b

\* How many LPC tasks there are, and how many to a window.
WindowTasks(o) ==
  IF o.maxLpcOrder = 0 THEN 0 ELSE IF OrderGuess(o.profile) THEN 1 ELSE o.maxLpcOrder

LEMMA PlanShape ==
  ASSUME NEW o, NEW x, NEW p, IsPlan(p, o, x), NEW f \in 0 .. p.frames - 1
  PROVE  LpcPrefix(p, f) = LpcTaskCount(o) /\ PerWindow(p, f) = WindowTasks(o)
<1> DEFINE L == LpcTaskCount(o)
           M == o.maxLpcOrder
           P == p.perFrame
<1>1. LegalOptions(o) /\ P = TasksPerFrame(o)
  <2>1. IsBuffer(x)  BY DEF IsPlan, IsSampleBlock
  <2>2. QED  BY <2>1, PlanCells DEF IsPlan
<1>2. L \in Nat /\ P \in Nat /\ L + 1 < P /\ M \in Nat /\ (L = 0 <=> M = 0)
  BY <1>1, LpcCount, FixedCount, GroupSize, SizesTyped DEF LegalOptions, TasksPerFrame
<1>3. \A i \in 1 .. P : TaskOf(p, f, i).type = "Lpc" <=> i <= L
  BY PlanTasks
<1>4. \A i \in 1 .. P : i <= L => TaskOf(p, f, i).order = LpcOrdersOf(o)[i]
  BY PlanTasks
<1> DEFINE Prefix(n) == /\ \A i \in 1 .. n : TaskOf(p, f, i).type = "Lpc"
                        /\ n < P => TaskOf(p, f, n + 1).type # "Lpc"
<1> HIDE DEF L, P
<1>5. L \in 0 .. P /\ Prefix(L)  BY <1>2, <1>3
<1>6. ASSUME NEW n \in 0 .. P, Prefix(n) PROVE n = L
  <2>1. n <= L
    <3> SUFFICES ASSUME n > L PROVE FALSE  BY <1>2
    <3>1. L + 1 \in 1 .. n /\ L + 1 \in 1 .. P  BY <1>2
    <3>2. QED  BY <1>2, <1>3, <1>6, <3>1
  <2>2. n >= L
    <3> SUFFICES ASSUME n < L PROVE FALSE  BY <1>2
    <3>1. n + 1 \in 1 .. P /\ n + 1 <= L /\ n < P  BY <1>2
    <3>2. QED  BY <1>3, <1>6, <3>1
  <2>3. QED  BY <1>2, <2>1, <2>2
<1>7. LpcPrefix(p, f) = L
  <2>1. LpcPrefix(p, f) = CHOOSE n \in 0 .. P : Prefix(n)  BY Zenon DEF LpcPrefix, P
  <2> HIDE DEF Prefix
  <2>2. QED  BY <1>5, <1>6, <2>1
<1> DEFINE Window(n) == /\ \A i \in 1 .. n : TaskOf(p, f, i).order = i
                        /\ n < L => TaskOf(p, f, n + 1).order # n + 1
           W == WindowTasks(o)
<1>8. W \in 0 .. L /\ Window(W)
  <2>1. CASE M = 0
    <3>1. W = 0 /\ L = 0  BY <1>2, <2>1 DEF WindowTasks
    <3>2. QED  BY <3>1
  <2>2. CASE M # 0 /\ OrderGuess(o.profile)
    <3>1. W = 1 /\ L >= 1  BY <1>2, <2>2 DEF WindowTasks
    <3>2. \A i \in 1 .. L : TaskOf(p, f, i).order = 1
      <4>1. ASSUME NEW i \in 1 .. L PROVE TaskOf(p, f, i).order = 1
        <5>1. LpcOrdersOf(o)[i] = 1  BY <1>1, <2>2, LpcOrders DEF L
        <5>2. i \in 1 .. P /\ i <= L  BY <1>2
        <5>3. QED  BY <1>4, <5>1, <5>2
      <4>2. QED  BY <4>1
    <3>3. QED  BY <1>2, <3>1, <3>2
  <2>3. CASE M # 0 /\ ~OrderGuess(o.profile)
    <3>1. W = M  BY <2>3 DEF WindowTasks
    <3>2. L >= 2 * M
      <4>1. o.profile = "Exact" /\ ~SubdividesTukey3(o.profile)
        BY <2>3 DEF OrderGuess, SubdividesTukey3
      <4>2. L = 2 * M + WelchCount(o)  BY <2>3, <4>1, Zenon DEF LpcTaskCount, L
      <4>3. QED  BY <1>1, <1>2, <4>2, WelchFits
    <3>3. ASSUME NEW i \in 1 .. M + 1
          PROVE  TaskOf(p, f, i).order = ((i - 1) % M) + 1
      <4>1. i \in 1 .. L /\ i \in 1 .. P /\ i <= L /\ i <= 2 * M  BY <1>2, <2>3, <3>2
      <4>2. LpcOrdersOf(o)[i] = ((i - 1) % M) + 1  BY <1>1, <2>3, <4>1, LpcOrders DEF L
      <4>3. QED  BY <1>4, <4>1, <4>2
    <3>4. ASSUME NEW i \in 1 .. M PROVE TaskOf(p, f, i).order = i
      <4>1. (i - 1) % M = i - 1  BY <1>2, <2>3
      <4>2. QED  BY <1>2, <3>3, <4>1
    <3>5. TaskOf(p, f, M + 1).order = 1
      <4>1. ((M + 1) - 1) % M = 0  BY <1>2, <2>3
      <4>2. M + 1 \in 1 .. M + 1  BY <1>2
      <4>3. QED  BY <3>3, <4>1, <4>2
    <3>6. QED  BY <1>2, <2>3, <3>1, <3>2, <3>4, <3>5
  <2>4. QED  BY <2>1, <2>2, <2>3
<1> HIDE DEF W
<1>9. ASSUME NEW n \in 0 .. L, Window(n) PROVE n = W
  <2>1. n <= W
    <3> SUFFICES ASSUME n > W PROVE FALSE  BY <1>8, <1>2
    <3>1. W + 1 \in 1 .. n /\ W < L  BY <1>2, <1>8
    <3>2. QED  BY <1>8, <1>9, <3>1
  <2>2. n >= W
    <3> SUFFICES ASSUME n < W PROVE FALSE  BY <1>8, <1>2
    <3>1. n + 1 \in 1 .. W /\ n < L  BY <1>2, <1>8
    <3>2. QED  BY <1>8, <1>9, <3>1
  <2>3. QED  BY <1>2, <1>8, <2>1, <2>2
<1>10. PerWindow(p, f) = W
  <2>1. PerWindow(p, f) = CHOOSE n \in 0 .. L : Window(n)
    BY <1>7, Zenon DEF PerWindow
  <2> HIDE DEF Window
  <2>2. QED  BY <1>8, <1>9, <2>1
<1>11. QED  BY <1>7, <1>10 DEF L, W

\* Where every task of the plan comes from, and every selection.
LEMMA PlanPlaces ==
  ASSUME NEW o, NEW x, NEW p, IsPlan(p, o, x)
  PROVE  /\ LegalOptions(o) /\ o.frameSamples \in Nat \ {0} /\ IsSampleBlock(x)
         /\ p.frames \in Nat \ {0} /\ p.perFrame \in Nat \ {0} /\ p.perFrame <= TaskLimit
         /\ p.perFrame = TasksPerFrame(o) /\ p.guessed = GuessedOnDevice(o)
         /\ p.frames * o.frameSamples = Len(x) /\ p.frames * p.perFrame \in Nat
         /\ DOMAIN p.tasks = 1 .. p.frames * p.perFrame /\ Len(p.tasks) = p.frames * p.perFrame
         /\ DOMAIN p.selected = 1 .. p.frames * p.perFrame
         /\ Len(p.selected) = p.frames * p.perFrame
         /\ \A i \in 1 .. p.frames * p.perFrame : p.selected[i] = i - 1
<1>1. LegalOptions(o) /\ IsBuffer(x) /\ Len(x) > 0 /\ Len(x) % o.frameSamples = 0
      /\ p = BuildPlan(o, x) /\ IsSampleBlock(x)
  BY DEF IsPlan, IsSampleBlock
<1>2. /\ p.frames \in Nat \ {0} /\ p.frames * o.frameSamples = Len(x)
      /\ p.perFrame = TasksPerFrame(o) /\ p.guessed = GuessedOnDevice(o)
      /\ IsBuffer(p.tasks) /\ Len(p.tasks) = p.frames * p.perFrame
      /\ IsBuffer(p.selected) /\ Len(p.selected) = p.frames * p.perFrame
      /\ \A i \in 1 .. p.frames * p.perFrame : p.selected[i] = i - 1
  BY <1>1, PlanCells
<1>3. o.frameSamples \in Nat \ {0}  BY <1>1, SizesTyped DEF LegalOptions
<1>4. p.perFrame \in 2 .. TaskLimit  BY <1>1, <1>2, GroupSize
<1>5. p.perFrame \in Nat \ {0} /\ p.perFrame <= TaskLimit  BY <1>4, SizesTyped
<1>6. p.frames * p.perFrame \in Nat  BY <1>2, <1>5
<1>7. DOMAIN p.tasks = 1 .. Len(p.tasks) /\ DOMAIN p.selected = 1 .. Len(p.selected)
  BY <1>2 DEF IsBuffer
<1>8. QED  BY <1>1, <1>2, <1>3, <1>5, <1>6, <1>7, Zenon

LEMMA TaskPlace ==
  ASSUME NEW o, NEW x, NEW p, IsPlan(p, o, x), NEW t \in DOMAIN p.tasks
  PROVE  \E f \in 0 .. p.frames - 1, i \in 1 .. p.perFrame :
           /\ t = f * p.perFrame + i /\ (t - 1) \div p.perFrame = f
           /\ p.tasks[t] = TaskOf(p, f, i) /\ f * p.perFrame \in Nat
<1>1. PICK n \in Nat \ {0} : n = p.frames  BY PlanPlaces
<1>2. PICK m \in Nat \ {0} : m = p.perFrame  BY PlanPlaces
<1>3. t \in 1 .. n * m  BY <1>1, <1>2, PlanPlaces, Zenon
<1>4. PICK f \in 0 .. n - 1, r \in 0 .. m - 1 : f = (t - 1) \div m /\ t = f * m + r + 1
  BY <1>3, RowCell
<1>5. r + 1 \in 1 .. m /\ t = f * m + (r + 1) /\ f * m \in Nat
  BY <1>4
<1>6. p.tasks[t] = TaskOf(p, f, r + 1)  BY <1>2, <1>5 DEF TaskOf
<1>7. QED  BY <1>1, <1>2, <1>4, <1>5, <1>6

LEMMA TaskStart ==
  ASSUME NEW o, NEW x, NEW p, IsPlan(p, o, x), NEW f \in 0 .. p.frames - 1
  PROVE  /\ f * o.frameSamples \in Nat
         /\ f * o.frameSamples + o.frameSamples <= Len(x) /\ Len(x) \in Nat
<1>1. PICK n \in Nat \ {0} : n = p.frames  BY PlanPlaces
<1>2. PICK N \in Nat \ {0} : N = o.frameSamples  BY PlanPlaces
<1>3. n * N = Len(x)  BY <1>1, <1>2, PlanPlaces, ZenonT(30)
<1>4. f * N \in Nat /\ n * N \in Nat /\ f * N + N <= n * N
  <2>1. f \in 0 .. n - 1  BY <1>1
  <2>2. QED  BY ONLY <2>1, n \in Nat \ {0}, N \in Nat \ {0}, FramePlace
<1>5. QED  BY <1>2, <1>3, <1>4

LEMMA PlanAligned ==
  ASSUME NEW o, NEW x, NEW p, IsPlan(p, o, x)
  PROVE  FrameAligned(p) /\ \A t \in DOMAIN p.tasks : ValidTask(p.tasks[t], x)
<1>1. p.frames \in Nat \ {0} /\ p.perFrame \in Nat \ {0} /\ LegalOptions(o)
      /\ o.frameSamples \in Nat \ {0}
  BY PlanPlaces
<1>2. p.frames * p.perFrame >= 1
  <2>1. PICK n \in Nat \ {0} : n = p.frames  BY <1>1
  <2>2. PICK m \in Nat \ {0} : m = p.perFrame  BY <1>1
  <2>3. n * m \in Nat /\ n * m # 0  BY <2>1
  <2>4. QED  BY <2>1, <2>2, <2>3
<1>3. p.tasks # <<>> /\ p.selected # <<>>
  <2>1. 1 \in DOMAIN p.tasks /\ 1 \in DOMAIN p.selected  BY <1>2, PlanPlaces
  <2>2. QED  BY <2>1
<1>4. Len(p.tasks) % p.perFrame = 0
  <2>1. PICK n \in Nat \ {0} : n = p.frames  BY <1>1
  <2>2. PICK m \in Nat \ {0} : m = p.perFrame  BY <1>1
  <2>3. n * m \in Nat /\ n * m # 0  BY <2>1
  <2>4. n \in 0 .. (n + 1) - 1 /\ 0 \in 0 .. m - 1 /\ n + 1 \in Nat  OBVIOUS
  <2>5. ((n * m + 0 + 1) - 1) % m = 0  BY <2>4, CellRow
  <2>6. (n * m + 0 + 1) - 1 = n * m  BY <2>3
  <2>7. QED  BY <2>1, <2>2, <2>5, <2>6, PlanPlaces
<1>5. ASSUME NEW f \in 0 .. p.frames - 1, NEW i \in 1 .. p.perFrame
      PROVE  /\ TaskOf(p, f, i).offset = TaskOf(p, f, 1).offset
             /\ TaskOf(p, f, i).block = TaskOf(p, f, 1).block
             /\ p.selected[f * p.perFrame + i] \in
                  f * p.perFrame .. (f + 1) * p.perFrame - 1
  <2>1. 1 \in 1 .. p.perFrame  BY <1>1
  <2>2. PlannedTask(TaskOf(p, f, i), o, f) /\ PlannedTask(TaskOf(p, f, 1), o, f)
        /\ f * p.perFrame + i \in DOMAIN p.tasks
    BY <2>1, PlanTasks
  <2>3. p.selected[f * p.perFrame + i] = (f * p.perFrame + i) - 1
    <3> DEFINE k == f * p.perFrame + i
    <3>2. k \in DOMAIN p.tasks  BY <2>2
    <3> HIDE DEF k
    <3>3. /\ DOMAIN p.tasks = 1 .. p.frames * p.perFrame
          /\ \A j \in 1 .. p.frames * p.perFrame : p.selected[j] = j - 1
      BY PlanPlaces
    <3>4. p.selected[k] = k - 1  BY ONLY <3>2, <3>3, Zenon
    <3>5. QED  BY ONLY <3>4 DEF k
  <2>4. f * p.perFrame \in Nat /\ (f + 1) * p.perFrame = f * p.perFrame + p.perFrame
    BY <1>1
  <2>5. (f * p.perFrame + i) - 1 \in f * p.perFrame .. (f + 1) * p.perFrame - 1
    BY <1>1, <2>4
  <2>6. QED  BY <2>2, <2>3, <2>5 DEF PlannedTask, Placed
<1>6. ASSUME NEW t \in DOMAIN p.tasks PROVE ValidTask(p.tasks[t], x)
  <2>1. PICK f \in 0 .. p.frames - 1, i \in 1 .. p.perFrame : p.tasks[t] = TaskOf(p, f, i)
    BY TaskPlace
  <2>2. PICK u : u = p.tasks[t]  OBVIOUS
  <2>3. PlannedTask(u, o, f)  BY <2>1, <2>2, PlanTasks
  <2>4. f * o.frameSamples \in Nat /\ Len(x) \in Nat
        /\ f * o.frameSamples + o.frameSamples <= Len(x)
    BY TaskStart
  <2>5. u.offset \in 0 .. Len(x) - u.block
    <3>1. u.offset = f * o.frameSamples /\ u.block = o.frameSamples
      BY <2>3 DEF PlannedTask, Placed
    <3>2. QED  BY <1>1, <2>4, <3>1
  <2>6. u.block \in 1 .. MaxDeviceBlock
    BY <1>1, <2>3 DEF LegalOptions, PlannedTask, Placed
  <2>7. /\ u.type \in {"Lpc", "Fixed"} => u.order < u.block
        /\ u.type = "Fixed" => u.order \in 0 .. 4 /\ u.shift \in 0 .. 30
    BY <1>1, <2>3 DEF PlannedTask, Placed
  <2>8. ValidTask(u, x)  BY <2>5, <2>6, <2>7, Zenon DEF ValidTask
  <2>9. QED  BY <2>2, <2>8
<1>7. QED  BY <1>1, <1>3, <1>4, <1>5, <1>6, PlanPlaces DEF FrameAligned

LEMMA IntMaxTyped == IntMax \in Nat
<1>1. IntBits - 1 \in 0 .. WordBits
  BY TaskPlansAssumption, SubframesAssumption, SizesTyped
<1>2. 2^(IntBits - 1) \in Nat \ {0}  BY <1>1, PowerTyped
<1>3. QED  BY <1>2 DEF IntMax

LEMMA OptionsValid ==
  ASSUME NEW o, LegalOptions(o)
  PROVE  ValidOptions(o)
<1>1. o.frameSamples \in 1 .. MaxDeviceBlock /\ o.maxLpcOrder \in 0 .. MaxLpcOrder
      /\ o.maxLpcOrder < o.frameSamples
  BY DEF LegalOptions
<1>2. DeviceBits * o.frameSamples <= IntMax
  <2>0. MaxDeviceBlock - o.frameSamples \in Nat
        /\ MaxDeviceBlock = o.frameSamples + (MaxDeviceBlock - o.frameSamples)
    BY <1>1, SizesTyped
  <2>1. PICK d \in Nat : MaxDeviceBlock = o.frameSamples + d  BY <2>0
  <2>2. DeviceBits * MaxDeviceBlock = DeviceBits * o.frameSamples + DeviceBits * d
        /\ DeviceBits * d \in Nat /\ DeviceBits * o.frameSamples \in Nat
    BY <1>1, <2>1, SizesTyped
  <2>3. DeviceBits * MaxDeviceBlock < IntMax  BY LimitsAssumption DEF Pruned
  <2>4. QED  BY <2>2, <2>3, IntMaxTyped
<1>3. o.maxLpcOrder <= TaskLimit  BY <1>1, SizesTyped, LimitsAssumption
<1>4. o.frameSamples > 0  BY <1>1, SizesTyped
<1>5. LpcTaskCount(o) + 1 + FixedTaskCount(o) <= TaskLimit  BY LpcCount
<1>6. QED  BY <1>1, <1>2, <1>3, <1>4, <1>5 DEF ValidOptions

LEMMA ThirdRow ==
  ASSUME NEW m \in Nat \ {0}, NEW r \in 0 .. m - 1
  PROVE  ((2 * m + r + 1) - 1) \div m = 2 /\ ((2 * m + r + 1) - 1) % m = r
<1>1. PICK n \in Nat : n = 3  OBVIOUS
<1>2. PICK q \in 0 .. n - 1 : q = 2  BY <1>1
<1>3. ((q * m + r + 1) - 1) \div m = q /\ ((q * m + r + 1) - 1) % m = r
  BY ONLY CellRow
<1>4. QED  BY ONLY <1>2, <1>3, Zenon

\* Full windows hold the orders 1, 2, ..., the last one too when it is full.
LEMMA WindowOrders ==
  ASSUME NEW o, LegalOptions(o), o.maxLpcOrder # 0,
         NEW i \in 1 .. LpcTaskCount(o),
         i <= (LpcTaskCount(o) \div WindowTasks(o)) * WindowTasks(o)
  PROVE  LpcOrdersOf(o)[i] = ((i - 1) % WindowTasks(o)) + 1
<1> DEFINE M == o.maxLpcOrder
           W == WelchCount(o)
           L == LpcTaskCount(o)
<1>1. M \in Nat \ {0} /\ L \in Nat /\ W \in 0 .. M
  BY LpcCount, WelchFits, SizesTyped DEF LegalOptions
<1>2. CASE OrderGuess(o.profile)
  <2>1. WindowTasks(o) = 1  BY <1>2 DEF WindowTasks
  <2>2. (i - 1) % 1 = 0  BY <1>1
  <2>3. LpcOrdersOf(o)[i] = 1  BY <1>2, LpcOrders
  <2>4. QED  BY <2>1, <2>2, <2>3
<1>3. CASE ~OrderGuess(o.profile)
  <2>1. WindowTasks(o) = M  BY <1>3 DEF WindowTasks
  <2>2. o.profile = "Exact" /\ ~SubdividesTukey3(o.profile)
    BY <1>3 DEF OrderGuess, SubdividesTukey3
  <2>3. L = 2 * M + W  BY <2>2, Zenon DEF LpcTaskCount
  <2>4. i \in Nat /\ i <= L  BY <1>1
  <2>5. CASE i <= 2 * M
    <3>1. LpcOrdersOf(o)[i] = ((i - 1) % M) + 1  BY <1>3, <2>5, LpcOrders
    <3>2. QED  BY <2>1, <3>1
  <2>6. CASE i > 2 * M
    <3> HIDE DEF L, W
    <3>1. W = M
      <4> SUFFICES ASSUME W < M PROVE FALSE  BY <1>1
      <4>1. 2 \in 0 .. 3 - 1 /\ W \in 0 .. M - 1  BY <1>1
      <4>2. ((2 * M + W + 1) - 1) \div M = 2
        <5>1. PICK m \in Nat \ {0} : m = M  BY <1>1
        <5>2. PICK r \in 0 .. m - 1 : r = W  BY <4>1, <5>1
        <5>3. ((2 * m + r + 1) - 1) \div m = 2  BY ONLY ThirdRow
        <5>4. QED  BY <5>1, <5>2, <5>3, Zenon
      <4>3. (2 * M + W + 1) - 1 = L  BY <1>1, <2>3
      <4>4. L \div M = 2  BY <4>2, <4>3
      <4>5. i <= 2 * M  BY <2>1, <4>4 DEF L
      <4>6. QED  BY <1>1, <2>4, <2>6, <4>5
    <3>2. PICK r \in 0 .. M - 1 : i = 2 * M + r + 1
      <4>1. i - 2 * M - 1 \in 0 .. M - 1  BY <1>1, <2>3, <2>4, <2>6, <3>1
      <4>2. i = 2 * M + (i - 2 * M - 1) + 1  BY <1>1, <2>4
      <4>3. QED  BY <4>1, <4>2
    <3>3. ((2 * M + r + 1) - 1) % M = r
      <4>1. PICK m \in Nat \ {0} : m = M  BY <1>1
      <4>2. r \in 0 .. m - 1  BY <4>1
      <4>3. ((2 * m + r + 1) - 1) % m = r  BY ONLY <4>2, ThirdRow
      <4>4. QED  BY <4>1, <4>3, Zenon
    <3>4. LpcOrdersOf(o)[i] = M - W + (i - 2 * M)  BY <1>3, <2>6, LpcOrders DEF W
    <3>5. M - W + (i - 2 * M) = r + 1  BY <1>1, <2>4, <3>1, <3>2
    <3>6. QED  BY <2>1, <3>2, <3>3, <3>4, <3>5
  <2>7. QED  BY <1>1, <2>4, <2>5, <2>6
<1>4. QED  BY <1>2, <1>3

LEMMA GeneratedPlanValid ==
  ASSUME NEW o, NEW x, NEW p, IsPlan(p, o, x), o.maxLpcOrder # 0,
         NEW precision \in 1 .. 15
  PROVE  ValidGeneratedPlan(p, x, precision)
<1> DEFINE L == LpcTaskCount(o)
           W == WindowTasks(o)
           S == [lpcTasks |-> L, perWindow |-> W,
                 windows |-> IF W = 0 THEN 0 ELSE (L + W - 1) \div W]
<1>1. /\ LegalOptions(o) /\ o.frameSamples \in Nat \ {0}
      /\ p.frames \in Nat \ {0} /\ p.perFrame \in Nat \ {0} /\ p.perFrame = TasksPerFrame(o)
  BY PlanPlaces
<1>2. L \in Nat \ {0} /\ W \in 1 .. o.maxLpcOrder /\ o.maxLpcOrder \in 1 .. TaskLimit - 1
      /\ L < p.perFrame
  <2>1. o.maxLpcOrder \in 1 .. TaskLimit - 1
    BY <1>1, SizesTyped, LimitsAssumption DEF LegalOptions
  <2>2. L \in Nat \ {0} /\ L < p.perFrame
    BY <1>1, LpcCount, FixedCount DEF TasksPerFrame
  <2>3. W \in 1 .. o.maxLpcOrder  BY <2>1, SizesTyped DEF WindowTasks
  <2>4. QED  BY <2>1, <2>2, <2>3
<1>3. \A f \in 0 .. p.frames - 1 : PrefixShape(p, f) = S
  BY PlanShape, Zenon DEF PrefixShape
<1>4. ASSUME NEW f \in 0 .. p.frames - 1 PROVE ValidShape(p, f, S)
  <2>1. S.lpcTasks = L /\ S.perWindow = W  OBVIOUS
  <2> HIDE DEF S
  <2>2. ASSUME NEW i \in 1 .. L
        PROVE  /\ TaskOf(p, f, i).order \in 1 .. TaskLimit
               /\ i <= (L \div W) * W => TaskOf(p, f, i).order = ((i - 1) % W) + 1
    <3>1. i \in 1 .. p.perFrame /\ i <= L  BY <1>1, <1>2
    <3>2. TaskOf(p, f, i).order = LpcOrdersOf(o)[i]  BY <3>1, PlanTasks
    <3>3. LpcOrdersOf(o)[i] \in 1 .. o.maxLpcOrder  BY <1>1, LpcOrders
    <3>4. i <= (L \div W) * W => LpcOrdersOf(o)[i] = ((i - 1) % W) + 1
      BY <1>1, WindowOrders
    <3>5. TaskOf(p, f, i).order \in 1 .. TaskLimit
      BY <1>2, <3>2, <3>3, SizesTyped
    <3>6. QED  BY <3>2, <3>4, <3>5, Zenon
  <2>3. W \in 1 .. TaskLimit /\ L > 0  BY <1>2, SizesTyped
  <2> HIDE DEF L, W
  <2>4. QED  BY <2>1, <2>2, <2>3, Zenon DEF ValidShape
<1>5. ASSUME NEW f \in 0 .. p.frames - 1, NEW i \in L + 1 .. p.perFrame
      PROVE  TaskOf(p, f, i).type # "Lpc"
  <2>1. i \in 1 .. p.perFrame /\ ~(i <= L)  BY <1>1, <1>2
  <2>2. QED  BY <2>1, PlanTasks
<1>6. ASSUME NEW t \in DOMAIN p.tasks
      PROVE  ValidTask(p.tasks[t], x) /\ p.tasks[t].block = o.frameSamples
  <2>1. PICK f \in 0 .. p.frames - 1, i \in 1 .. p.perFrame : p.tasks[t] = TaskOf(p, f, i)
    BY TaskPlace
  <2>2. PlannedTask(p.tasks[t], o, f)  BY <2>1, PlanTasks
  <2>3. QED  BY <2>2, PlanAligned DEF PlannedTask, Placed
<1>7. 1 \in DOMAIN p.tasks
  <2>1. p.tasks # <<>> /\ DOMAIN p.tasks = 1 .. p.frames * p.perFrame
        /\ p.frames * p.perFrame \in Nat
    BY PlanPlaces, PlanAligned DEF FrameAligned
  <2>2. 0 \in 0 .. p.frames - 1 /\ 1 \in 1 .. p.perFrame  BY <1>1
  <2>3. 0 * p.perFrame + 1 \in DOMAIN p.tasks  BY <2>2, PlanTasks
  <2>4. 0 * p.perFrame + 1 = 1  BY <1>1
  <2>5. QED  BY <2>3, <2>4
<1>8. 0 \in 0 .. p.frames - 1 /\ p.frames > 0  BY <1>1
<1>9. FrameAligned(p)  BY PlanAligned
<1>10. ASSUME NEW f \in 0 .. p.frames - 1
       PROVE  /\ ValidShape(p, f, PrefixShape(p, f)) /\ PrefixShape(p, f) = PrefixShape(p, 0)
              /\ \A i \in PrefixShape(p, f).lpcTasks + 1 .. p.perFrame :
                   TaskOf(p, f, i).type # "Lpc"
  <2>1. PrefixShape(p, f) = S /\ PrefixShape(p, 0) = S  BY <1>3, <1>8
  <2>2. S.lpcTasks = L  OBVIOUS
  <2> HIDE DEF S, L
  <2>3. QED  BY <1>4, <1>5, <2>1, <2>2, Zenon
<1>11. \A t \in DOMAIN p.tasks : ValidTask(p.tasks[t], x) /\ p.tasks[t].block = p.tasks[1].block
  BY <1>6, <1>7, Zenon
<1>12. QED  BY <1>8, <1>9, <1>10, <1>11, Zenon DEF ValidGeneratedPlan

LEMMA FixedPlanValid ==
  ASSUME NEW o, NEW x, NEW p, IsPlan(p, o, x), o.maxLpcOrder = 0
  PROVE  ValidFixedPlan(p, x)
<1>1. FrameAligned(p) /\ p.frames > 0  BY PlanAligned, PlanPlaces
<1>2. ASSUME NEW t \in DOMAIN p.tasks
      PROVE  p.tasks[t].type \in {"Constant", "Fixed"} /\ ValidTask(p.tasks[t], x)
  <2>1. PICK f \in 0 .. p.frames - 1, i \in 1 .. p.perFrame : p.tasks[t] = TaskOf(p, f, i)
    BY TaskPlace
  <2>2. LegalOptions(o) /\ p.perFrame \in Nat  BY PlanPlaces
  <2>3. LpcTaskCount(o) = 0  BY <2>2, LpcCount
  <2>4. ~(i <= LpcTaskCount(o))  BY <2>2, <2>3
  <2>5. PlannedTask(p.tasks[t], o, f) /\ p.tasks[t].type # "Lpc"  BY <2>1, <2>4, PlanTasks
  <2>6. QED  BY <2>5, PlanAligned DEF PlannedTask
<1>3. QED  BY <1>1, <1>2 DEF ValidFixedPlan

\* Whatever the options allow is analysed, the short blocks of Vulkan aside.
LEMMA LegalPlanned ==
  ASSUME NEW c \in Calls, NEW p, p = BuildPlan(OptionsOf(c), c.samples)
  PROVE  /\ IsPlan(p, OptionsOf(c), c.samples)
         /\ ValidOptions(OptionsOf(c))
         /\ OptionsOf(c).maxLpcOrder = c.lpc => ValidInputs(c, p)
<1> DEFINE o == OptionsOf(c)
<1>1. /\ LegalOptions(o) /\ o.frameSamples = c.block
      /\ IsBuffer(c.samples) /\ Len(c.samples) > 0 /\ Len(c.samples) % c.block = 0
      /\ c.lpc \in Nat
  BY OptionsLegal
<1>2. IsSampleBlock(c.samples)
  <2>1. c.samples \in Seq(Int)  BY CallsAssumption
  <2>2. QED  BY <1>1, <2>1 DEF IsSampleBlock
<1> HIDE DEF o
<1>3. IsPlan(p, o, c.samples)  BY <1>1, <1>2 DEF IsPlan, o
<1>4. ValidOptions(o)  BY <1>1, OptionsValid
<1>5. ASSUME o.maxLpcOrder = c.lpc PROVE ValidInputs(c, p)
  <2>1. c.porder <= MaxPartitionOrder  BY CallsAssumption, KernelsAssumption
  <2>2. \A i \in DOMAIN c.samples : FitsBits(c.samples[i], DeviceBits)  BY CallsAssumption
  <2>3. IF Generated(c) THEN ValidGeneratedPlan(p, c.samples, c.precision)
                        ELSE ValidFixedPlan(p, c.samples)
    <3>1. CASE Generated(c)
      <4>1. o.maxLpcOrder # 0 /\ c.precision \in 1 .. 15
        BY <1>1, <1>5, <3>1, CallsAssumption DEF Generated
      <4>2. QED  BY <1>3, <3>1, <4>1, GeneratedPlanValid
    <3>2. CASE ~Generated(c)
      <4>1. o.maxLpcOrder = 0  BY <1>1, <1>5, <3>2 DEF Generated
      <4>2. QED  BY <1>3, <3>2, <4>1, FixedPlanValid
    <3>3. QED  BY <3>1, <3>2
  <2>4. QED  BY <2>1, <2>2, <2>3, Zenon DEF ValidInputs
<1>6. QED  BY <1>3, <1>4, <1>5 DEF o

-----------------------------------------------------------------------------
(* Memory: what the commands of a batch leave as it is.                    *)

Buffers == DeviceBuffers \cup HostBuffers
Memory(m) == DOMAIN m = Buffers /\ \A b \in Buffers : IsBuffer(m[b])

\* x begins with y.
Begins(x, y) == Len(y) <= Len(x) /\ \A i \in 1 .. Len(y) : x[i] = y[i]

LEMMA OverwriteCells ==
  ASSUME NEW x, IsBuffer(x), NEW y
  PROVE  /\ IsBuffer(Overwrite(x, y)) /\ Len(Overwrite(x, y)) = Len(x)
         /\ DOMAIN Overwrite(x, y) = DOMAIN x
         /\ IsBuffer(y) /\ Len(y) <= Len(x) => Begins(Overwrite(x, y), y)
<1>1. Overwrite(x, y) = [i \in 1 .. Len(x) |-> IF i <= Len(y) THEN y[i] ELSE x[i]]
  BY DEF Overwrite, IsBuffer
<1>2. Len(x) \in Nat  BY DEF IsBuffer
<1> DEFINE z == [i \in 1 .. Len(x) |-> IF i <= Len(y) THEN y[i] ELSE x[i]]
<1>3. IsBuffer(z) /\ Len(z) = Len(x) /\ DOMAIN z = 1 .. Len(x)  BY <1>2, BufferOf
<1>4. ASSUME IsBuffer(y), Len(y) <= Len(x) PROVE Begins(z, y)
  <2>1. Len(y) \in Nat  BY <1>4 DEF IsBuffer
  <2>2. ASSUME NEW i \in 1 .. Len(y) PROVE z[i] = y[i]
    <3>1. i \in 1 .. Len(x) /\ i <= Len(y)  BY <1>2, <1>4, <2>1
    <3>2. QED  BY <3>1
  <2> HIDE DEF z
  <2>3. QED  BY <1>3, <1>4, <2>2 DEF Begins
<1> HIDE DEF z
<1>5. DOMAIN x = 1 .. Len(x)  BY DEF IsBuffer
<1>6. Overwrite(x, y) = z  BY <1>1 DEF z
<1>7. QED  BY <1>3, <1>4, <1>5, <1>6, Zenon

\* The same buffers, as long as they were.
SameShape(m, n) == Memory(n) /\ \A b \in Buffers : Len(n[b]) = Len(m[b])

LEMMA ReplaceShape ==
  ASSUME NEW m, Memory(m), NEW b \in Buffers, NEW x, DOMAIN x = DOMAIN m[b]
  PROVE  /\ SameShape(m, [m EXCEPT ![b] = x])
         /\ \A d \in Buffers \ {b} : [m EXCEPT ![b] = x][d] = m[d]
         /\ [m EXCEPT ![b] = x][b] = x
<1> DEFINE n == [m EXCEPT ![b] = x]
<1>1. DOMAIN n = Buffers /\ n[b] = x /\ \A d \in Buffers \ {b} : n[d] = m[d]
  BY DEF Memory
<1>2. IsBuffer(x) /\ Len(x) = Len(m[b])
  <2>1. Len(m[b]) \in Nat /\ DOMAIN m[b] = 1 .. Len(m[b])  BY DEF Memory, IsBuffer
  <2>2. QED  BY <2>1, BufferOf
<1> HIDE DEF n
<1>3. \A d \in Buffers : IsBuffer(n[d]) /\ Len(n[d]) = Len(m[d])
  BY <1>1, <1>2 DEF Memory
<1>4. SameShape(m, n)  BY <1>1, <1>3 DEF SameShape, Memory
<1>5. QED  BY <1>1, <1>4 DEF n

LEMMA ShapeComposes ==
  ASSUME NEW m, NEW n, NEW q, SameShape(m, n), SameShape(n, q)
  PROVE  SameShape(m, q)
BY DEF SameShape

\* A task where it was, and of the kind it was.
Stays(t, u) ==
  DOMAIN t = TaskFields =>
    DOMAIN u = TaskFields /\ u.offset = t.offset /\ u.block = t.block /\ u.type = t.type

\* What all commands but the copy of the inputs do to memory.
Keeps(m, n) ==
  /\ SameShape(m, n)
  /\ n["samples"] = m["samples"] /\ n["selected"] = m["selected"] /\ n["window"] = m["window"]
  /\ \A t \in DOMAIN m["tasks"] : Stays(m["tasks"][t], n["tasks"][t])

LEMMA StaysSame == \A t : Stays(t, t)
BY DEF Stays

LEMMA KeepsOther ==
  ASSUME NEW m, Memory(m), NEW b \in Buffers \ {"samples", "selected", "window", "tasks"},
         NEW x, DOMAIN x = DOMAIN m[b]
  PROVE  /\ Keeps(m, [m EXCEPT ![b] = x])
         /\ \A d \in Buffers \ {b} : [m EXCEPT ![b] = x][d] = m[d]
         /\ [m EXCEPT ![b] = x][b] = x
<1> DEFINE n == [m EXCEPT ![b] = x]
<1>1. /\ SameShape(m, n) /\ n[b] = x /\ \A d \in Buffers \ {b} : n[d] = m[d]
  BY ReplaceShape
<1> HIDE DEF n
<1>2. {"samples", "selected", "window", "tasks"} \subseteq Buffers \ {b}
  BY DEF Buffers, DeviceBuffers
<1>3. Keeps(m, n)  BY <1>1, <1>2, StaysSame DEF Keeps
<1>4. QED  BY <1>1, <1>3 DEF n

LEMMA KeepsTasks ==
  ASSUME NEW m, Memory(m), NEW x, DOMAIN x = DOMAIN m["tasks"],
         \A t \in DOMAIN m["tasks"] : Stays(m["tasks"][t], x[t])
  PROVE  /\ Keeps(m, [m EXCEPT !["tasks"] = x])
         /\ \A d \in Buffers \ {"tasks"} : [m EXCEPT !["tasks"] = x][d] = m[d]
         /\ [m EXCEPT !["tasks"] = x]["tasks"] = x
<1> DEFINE n == [m EXCEPT !["tasks"] = x]
<1>0. "tasks" \in Buffers  BY DEF Buffers, DeviceBuffers
<1>1. /\ SameShape(m, n) /\ n["tasks"] = x /\ \A d \in Buffers \ {"tasks"} : n[d] = m[d]
  BY <1>0, ReplaceShape
<1> HIDE DEF n
<1>2. {"samples", "selected", "window"} \subseteq Buffers \ {"tasks"}
  BY DEF Buffers, DeviceBuffers
<1>3. Keeps(m, n)  BY <1>1, <1>2 DEF Keeps
<1>4. QED  BY <1>1, <1>3 DEF n

LEMMA KeepsComposes ==
  ASSUME NEW m, NEW n, NEW q, Memory(m), Keeps(m, n), Keeps(n, q)
  PROVE  Keeps(m, q)
<1>1. SameShape(m, q)  BY ShapeComposes DEF Keeps
<1>2. DOMAIN n["tasks"] = DOMAIN m["tasks"]
  <2>1. "tasks" \in Buffers  BY DEF Buffers, DeviceBuffers
  <2>2. IsBuffer(m["tasks"]) /\ IsBuffer(n["tasks"]) /\ Len(n["tasks"]) = Len(m["tasks"])
    BY <2>1 DEF Keeps, SameShape, Memory
  <2>3. QED  BY <2>2 DEF IsBuffer
<1>3. ASSUME NEW t \in DOMAIN m["tasks"] PROVE Stays(m["tasks"][t], q["tasks"][t])
  <2>1. Stays(m["tasks"][t], n["tasks"][t]) /\ Stays(n["tasks"][t], q["tasks"][t])
    BY <1>2 DEF Keeps
  <2>2. QED  BY <2>1 DEF Stays
<1>4. QED  BY <1>1, <1>3 DEF Keeps

LEMMA MarkStays ==
  ASSUME NEW t, NEW x
  PROVE  Stays(t, MarkWasted(t, x))
<1>1. PICK a : a = WastedBitsOf(x)  OBVIOUS
<1>2. PICK b : b = ActiveBits(x, a)  OBVIOUS
<1>3. MarkWasted(t, x) = [t EXCEPT !.wbits = a, !.abits = b]
  BY <1>1, <1>2, Zenon DEF MarkWasted
<1>4. Stays(t, [t EXCEPT !.wbits = a, !.abits = b])  BY DEF Stays, TaskFields
<1>5. QED  BY ONLY <1>3, <1>4, Zenon

LEMMA FindWastedKeeps ==
  ASSUME NEW m, Memory(m), NEW a
  PROVE  Keeps(m, FindWastedBits(m, a))
<1> DEFINE x == [t \in DOMAIN m["tasks"] |->
                   IF t > a.frames * a.perFrame THEN m["tasks"][t]
                   ELSE MarkWasted(m["tasks"][t], OriginalFrame(m,
                          FirstTask(m, a, (t - 1) \div a.perFrame)))]
           n == [m EXCEPT !["tasks"] = x]
           y == IF a.shifted THEN Overwrite(m["shifted"], ShiftedFrames(m, a)) ELSE m["shifted"]
<1>1. ASSUME NEW t \in DOMAIN m["tasks"] PROVE Stays(m["tasks"][t], x[t])
  <2>1. \/ x[t] = m["tasks"][t]
        \/ x[t] = MarkWasted(m["tasks"][t], OriginalFrame(m,
                     FirstTask(m, a, (t - 1) \div a.perFrame)))
    BY Zenon
  <2>2. QED  BY <2>1, StaysSame, MarkStays, Zenon
<1>2. DOMAIN x = DOMAIN m["tasks"]  OBVIOUS
<1> HIDE DEF x
<1>3. Keeps(m, n) /\ \A d \in Buffers \ {"tasks"} : n[d] = m[d]
  BY <1>1, <1>2, KeepsTasks
<1>4. Memory(n)  BY <1>3 DEF Keeps, SameShape
<1>5. "shifted" \in Buffers \ {"samples", "selected", "window", "tasks"}
  BY DEF Buffers, DeviceBuffers
<1>6. DOMAIN y = DOMAIN n["shifted"]
  <2>1. IsBuffer(m["shifted"])  BY <1>5 DEF Memory
  <2>2. DOMAIN y = DOMAIN m["shifted"]  BY <2>1, OverwriteCells
  <2>3. n["shifted"] = m["shifted"]  BY <1>3, <1>5
  <2>4. QED  BY <2>2, <2>3
<1> HIDE DEF y
<1>7. FindWastedBits(m, a) = [n EXCEPT !["shifted"] = y]
  <2>1. FindWastedBits(m, a) = [m EXCEPT !.tasks = x, !.shifted = y]
    BY Zenon DEF FindWastedBits, y, x
  <2>2. [m EXCEPT !.tasks = x, !.shifted = y] = [[m EXCEPT !.tasks = x] EXCEPT !.shifted = y]
    BY <1>5 DEF Memory
  <2>3. QED  BY <2>1, <2>2
<1> HIDE DEF n
<1>8. Keeps(n, [n EXCEPT !["shifted"] = y])  BY <1>4, <1>5, <1>6, KeepsOther
<1>9. QED  BY <1>3, <1>7, <1>8, KeepsComposes

\* The lags and the predictors: a cell per frame and window.
AutocorCells(m, a) ==
  [i \in 1 .. a.frames * a.windows |->
     AutocorCell(m, a, (i - 1) \div a.windows, (i - 1) % a.windows)]
LpcCells(m, a) ==
  [i \in 1 .. a.frames * a.windows |->
     m.autocor[((i - 1) \div a.windows) * a.windows + ((i - 1) % a.windows) + 1]]

LEMMA AutocorKeeps ==
  ASSUME NEW m, Memory(m), NEW a
  PROVE  /\ Keeps(m, ComputeAutocor(m, a))
         /\ ComputeAutocor(m, a)["autocor"] = Overwrite(m["autocor"], AutocorCells(m, a))
<1> DEFINE x == Overwrite(m["autocor"], AutocorCells(m, a))
<1>1. ComputeAutocor(m, a) = [m EXCEPT !["autocor"] = x]
  BY Zenon DEF ComputeAutocor, WindowCells, AutocorCells
<1>2. "autocor" \in Buffers \ {"samples", "selected", "window", "tasks"}
  BY DEF Buffers, DeviceBuffers
<1>3. IsBuffer(m["autocor"])  BY <1>2 DEF Memory
<1>4. DOMAIN x = DOMAIN m["autocor"]  BY <1>3, OverwriteCells
<1> HIDE DEF x
<1>5. Keeps(m, [m EXCEPT !["autocor"] = x]) /\ [m EXCEPT !["autocor"] = x]["autocor"] = x
  BY <1>2, <1>4, KeepsOther
<1>6. QED  BY <1>1, <1>5 DEF x

LEMMA LpcKeeps ==
  ASSUME NEW m, Memory(m), NEW a
  PROVE  /\ Keeps(m, ComputeLpc(m, a))
         /\ ComputeLpc(m, a)["lpc"] = Overwrite(m["lpc"], LpcCells(m, a))
<1> DEFINE x == Overwrite(m["lpc"], LpcCells(m, a))
<1>1. ComputeLpc(m, a) = [m EXCEPT !["lpc"] = x]
  BY Zenon DEF ComputeLpc, WindowCells, LpcCells
<1>2. "lpc" \in Buffers \ {"samples", "selected", "window", "tasks"}
  BY DEF Buffers, DeviceBuffers
<1>3. IsBuffer(m["lpc"])  BY <1>2 DEF Memory
<1>4. DOMAIN x = DOMAIN m["lpc"]  BY <1>3, OverwriteCells
<1> HIDE DEF x
<1>5. Keeps(m, [m EXCEPT !["lpc"] = x]) /\ [m EXCEPT !["lpc"] = x]["lpc"] = x
  BY <1>2, <1>4, KeepsOther
<1>6. QED  BY <1>1, <1>5 DEF x

LEMMA QuantizedStays ==
  ASSUME NEW t, NEW f, NEW a
  PROVE  Stays(t, QuantizedTask(t, f, a))
<1>1. ASSUME NEW order, NEW p PROVE Stays(t, QuantizedOrder(t, order, f, p))
  <2> DEFINE coefs == [i \in 1 .. order |-> Clamped(f.raw[order][i], p)]
  <2>1. PICK x, y, z : x = coefs /\ y = f.shift /\ z = CoefficientBits(coefs)  OBVIOUS
  <2>2. QuantizedOrder(t, order, f, p) =
          [t EXCEPT !.order = order, !.coefs = x, !.shift = y, !.cbits = z]
    BY <2>1, Zenon DEF QuantizedOrder
  <2>3. Stays(t, [t EXCEPT !.order = order, !.coefs = x, !.shift = y, !.cbits = z])
    BY DEF Stays, TaskFields
  <2>4. QED  BY ONLY <2>2, <2>3, Zenon
<1>2. Stays(t, [t EXCEPT !.size = Pruned])  BY DEF Stays, TaskFields
<1>3. \/ QuantizedTask(t, f, a) = QuantizedOrder(t, t.order, f, a.precision)
      \/ QuantizedTask(t, f, a) = QuantizedOrder(t, f.guess, f, a.precision)
      \/ QuantizedTask(t, f, a) = [t EXCEPT !.size = Pruned]
  <2>1. CASE ~OrderGuess(a.profile)  BY <2>1, Zenon DEF QuantizedTask
  <2>2. CASE OrderGuess(a.profile) /\ a.perWindow = 1  BY <2>2, Zenon DEF QuantizedTask
  <2>3. CASE OrderGuess(a.profile) /\ a.perWindow # 1 /\ t.order = f.guess
    BY <2>3, Zenon DEF QuantizedTask
  <2>4. CASE OrderGuess(a.profile) /\ a.perWindow # 1 /\ t.order # f.guess
    BY <2>4, Zenon DEF QuantizedTask
  <2>5. QED  BY <2>1, <2>2, <2>3, <2>4
<1>4. QED  BY <1>1, <1>2, <1>3, Zenon

LEMMA QuantizeKeeps ==
  ASSUME NEW m, Memory(m), NEW a
  PROVE  Keeps(m, QuantizeLpcOrders(m, a))
<1> DEFINE x == [t \in DOMAIN m["tasks"] |->
                   IF (t - 1) \div a.perFrame < a.frames /\ (t - 1) % a.perFrame < a.lpcTasks
                   THEN QuantizedTask(m["tasks"][t],
                          FoundFor(a, (t - 1) \div a.perFrame,
                                   ((t - 1) % a.perFrame) \div a.perWindow), a)
                   ELSE m["tasks"][t]]
<1>1. QuantizeLpcOrders(m, a) = [m EXCEPT !["tasks"] = x]
  BY Zenon DEF QuantizeLpcOrders
<1>2. ASSUME NEW t \in DOMAIN m["tasks"] PROVE Stays(m["tasks"][t], x[t])
  <2>1. x[t] = m["tasks"][t] \/ \E f : x[t] = QuantizedTask(m["tasks"][t], f, a)
    BY Zenon
  <2>2. QED  BY <2>1, StaysSame, QuantizedStays, Zenon
<1>3. DOMAIN x = DOMAIN m["tasks"]  OBVIOUS
<1> HIDE DEF x
<1>4. Keeps(m, [m EXCEPT !["tasks"] = x])  BY <1>2, <1>3, KeepsTasks
<1>5. QED  BY <1>1, <1>4

LEMMA PruneKeeps ==
  ASSUME NEW m, Memory(m), NEW a
  PROVE  Keeps(m, PruneFixedOrderGuess(m, a))
<1> DEFINE out == UNION {FixedTasksOf(m, a, f) \ {KeptFixed(m, a, f)} : f \in 0 .. a.frames - 1}
           x == [t \in DOMAIN m["tasks"] |->
                   IF t \in out THEN [m["tasks"][t] EXCEPT !.size = Pruned] ELSE m["tasks"][t]]
<1>1. PruneFixedOrderGuess(m, a) = [m EXCEPT !["tasks"] = x]
  BY Zenon DEF PruneFixedOrderGuess
<1> HIDE DEF out
<1>2. ASSUME NEW t \in DOMAIN m["tasks"] PROVE Stays(m["tasks"][t], x[t])
  <2>1. x[t] = m["tasks"][t] \/ x[t] = [m["tasks"][t] EXCEPT !.size = Pruned]
    OBVIOUS
  <2>2. \A u : Stays(u, [u EXCEPT !.size = Pruned])  BY DEF Stays, TaskFields
  <2>3. QED  BY <2>1, <2>2, StaysSame, Zenon
<1>3. DOMAIN x = DOMAIN m["tasks"]  OBVIOUS
<1> HIDE DEF x
<1>4. Keeps(m, [m EXCEPT !["tasks"] = x])  BY <1>2, <1>3, KeepsTasks
<1>5. QED  BY <1>1, <1>4

Costed(t, porder, size) == [t EXCEPT !.porder = porder, !.size = size]

LEMMA CostedStays ==
  ASSUME NEW t, NEW q, NEW z
  PROVE  Stays(t, Costed(t, q, z))
BY DEF Stays, Costed, TaskFields

\* The analysis of a task sets its partition order and its size, or its size only.
LEMMA AnalyzedPruned ==
  ASSUME NEW m, NEW a, NEW t, t.size = Pruned
  PROVE  AnalyzedTask(m, a, t).task = [t EXCEPT !.size = Pruned]
<1>1. AnalyzedTask(m, a, t) = Unsettled(t)  BY Zenon DEF AnalyzedTask
<1>2. QED  BY <1>1 DEF Unsettled

LEMMA AnalyzedCosted ==
  ASSUME NEW m, NEW a, NEW t, t.size # Pruned
  PROVE  \E q, z : AnalyzedTask(m, a, t).task = Costed(t, q, z)
<1>3. CASE t.size # Pruned /\ t.type = "Constant"
  <2>1. AnalyzedTask(m, a, t) = ConstantSettled(t, OriginalFrame(m, t))
    BY <1>3, Zenon DEF AnalyzedTask
  <2>2. \/ AnalyzedTask(m, a, t).task = Costed(t, 0, Pruned)
        \/ AnalyzedTask(m, a, t).task = Costed(t, 0, 8 + DeviceBits)
    BY <2>1 DEF ConstantSettled, Unsettled, Costed
  <2>3. QED  BY <1>3, <2>2, Zenon
<1>4. CASE t.size # Pruned /\ t.type # "Constant" /\ ~Predictable(t)
  <2>1. AnalyzedTask(m, a, t) = Unsettled([t EXCEPT !.porder = 0])
    BY <1>4, Zenon DEF AnalyzedTask
  <2>2. AnalyzedTask(m, a, t).task = Costed(t, 0, Pruned)
    BY <2>1 DEF Unsettled, Costed
  <2>3. QED  BY <1>4, <2>2, Zenon
<1>5. CASE t.size # Pruned /\ t.type # "Constant" /\ Predictable(t)
  <2>1. PICK r : r = DeviceResiduals(CostedBlock(m, a, t), t, UsesInt(t, a))  OBVIOUS
  <2>2. AnalyzedTask(m, a, t) = SettledBy(t, a, r, ChoicesAt(r, t, a))
    BY <1>5, <2>1, Zenon DEF AnalyzedTask
  <2>3. PICK q, c : AnalyzedTask(m, a, t) = Settled(t, a, r, q, c)
    BY <2>2, Zenon DEF SettledBy
  <2>4. PICK z, w : z = Saturated(CostedBits(r, t, a, q, c)) /\ w = ParametersOf(c)  OBVIOUS
  <2>5. AnalyzedTask(m, a, t) = [task |-> Costed(t, q, z), params |-> w]
    BY <2>3, <2>4, Zenon DEF Settled, Costed
  <2>6. AnalyzedTask(m, a, t).task = Costed(t, q, z)  BY <2>5
  <2>7. QED  BY <1>5, <2>6, Zenon
<1>6. QED  BY <1>3, <1>4, <1>5, Zenon

LEMMA AnalyzedStays ==
  ASSUME NEW m, NEW a, NEW t
  PROVE  Stays(t, AnalyzedTask(m, a, t).task)
<1>1. CASE t.size = Pruned
  <2>1. PICK u : u = AnalyzedTask(m, a, t).task  OBVIOUS
  <2>2. u = [t EXCEPT !.size = Pruned]  BY <1>1, <2>1, AnalyzedPruned
  <2>3. Stays(t, u)  BY <2>2 DEF Stays, TaskFields
  <2>4. QED  BY <2>1, <2>3
<1>2. CASE t.size # Pruned
  <2>1. PICK q, z : AnalyzedTask(m, a, t).task = Costed(t, q, z)
    BY <1>2, AnalyzedCosted, Zenon
  <2>2. Stays(t, Costed(t, q, z))  BY CostedStays
  <2>3. QED  BY <2>1, <2>2
<1>3. QED  BY <1>1, <1>2

\* The results of the analysis, task by task, and where their parameters go.
Chosen(m, a) == {m.selected[i] + 1 : i \in 1 .. a.frames * a.perFrame}
Analyzed(m, a) ==
  [t \in DOMAIN m["tasks"] |->
     IF t \in Chosen(m, a) THEN AnalyzedTask(m, a, m["tasks"][t]).task ELSE m["tasks"][t]]
AnalyzedRice(m, a) ==
  [c \in DOMAIN m[TaskRiceBuffer(a)] |->
     IF c - TaskRiceCell(a, 0) \in Chosen(m, a)
     THEN RiceCell(AnalyzedTask(m, a, m["tasks"][c - TaskRiceCell(a, 0)]).params)
     ELSE m[TaskRiceBuffer(a)][c]]

LEMMA AnalyzeCells ==
  ASSUME NEW m, Memory(m), NEW a
  PROVE  AnalyzeSubframeExact(m, a) =
           [[m EXCEPT !["tasks"] = Analyzed(m, a)] EXCEPT ![TaskRiceBuffer(a)] = AnalyzedRice(m, a)]
<1> DEFINE results == [t \in Chosen(m, a) |-> AnalyzedTask(m, a, m["tasks"][t])]
           x == [t \in DOMAIN m["tasks"] |-> IF t \in DOMAIN results THEN results[t].task ELSE m["tasks"][t]]
           y == [c \in DOMAIN m[TaskRiceBuffer(a)] |->
                   IF c - TaskRiceCell(a, 0) \in DOMAIN results
                   THEN RiceCell(results[c - TaskRiceCell(a, 0)].params)
                   ELSE m[TaskRiceBuffer(a)][c]]
<1>0. TaskRiceBuffer(a) \in Buffers /\ TaskRiceBuffer(a) # "tasks" /\ "tasks" \in Buffers
  BY DEF TaskRiceBuffer, Buffers, DeviceBuffers
<1>1. AnalyzeSubframeExact(m, a) = [m EXCEPT !.tasks = x, ![TaskRiceBuffer(a)] = y]
  <2>1. AnalyzeSubframeExact(m, a) =
          [m EXCEPT !.tasks = x,
             ![TaskRiceBuffer(a)] = [c \in DOMAIN @ |->
                IF c - TaskRiceCell(a, 0) \in DOMAIN results
                THEN RiceCell(results[c - TaskRiceCell(a, 0)].params) ELSE @[c]]]
    BY Zenon DEF AnalyzeSubframeExact, Chosen
  <2> HIDE DEF x
  <2>2. [m EXCEPT !.tasks = x][TaskRiceBuffer(a)] = m[TaskRiceBuffer(a)]
    BY <1>0 DEF Memory
  <2>3. QED  BY <2>1, <2>2, Zenon
<1>2. x = Analyzed(m, a)
  <2>1. \A t \in DOMAIN m["tasks"] :
          x[t] = IF t \in Chosen(m, a) THEN AnalyzedTask(m, a, m["tasks"][t]).task
                                       ELSE m["tasks"][t]
    BY Zenon
  <2>2. x = [t \in DOMAIN m["tasks"] |-> x[t]]  OBVIOUS
  <2> HIDE DEF x
  <2>3. QED  BY <2>1, <2>2 DEF Analyzed
<1>3. y = AnalyzedRice(m, a)
  <2>1. \A c \in DOMAIN m[TaskRiceBuffer(a)] :
          y[c] = IF c - TaskRiceCell(a, 0) \in Chosen(m, a)
                 THEN RiceCell(AnalyzedTask(m, a, m["tasks"][c - TaskRiceCell(a, 0)]).params)
                 ELSE m[TaskRiceBuffer(a)][c]
    BY Zenon
  <2>2. y = [c \in DOMAIN m[TaskRiceBuffer(a)] |-> y[c]]  OBVIOUS
  <2> HIDE DEF y
  <2>3. QED  BY <2>1, <2>2 DEF AnalyzedRice
<1> HIDE DEF x, y
<1>4. QED  BY <1>1, <1>2, <1>3

LEMMA AnalyzeKeeps ==
  ASSUME NEW m, Memory(m), NEW a
  PROVE  /\ Keeps(m, AnalyzeSubframeExact(m, a))
         /\ AnalyzeSubframeExact(m, a)["tasks"] = Analyzed(m, a)
         /\ AnalyzeSubframeExact(m, a)[TaskRiceBuffer(a)] = AnalyzedRice(m, a)
<1> DEFINE n == [m EXCEPT !["tasks"] = Analyzed(m, a)]
           q == [n EXCEPT ![TaskRiceBuffer(a)] = AnalyzedRice(m, a)]
<1>0. TaskRiceBuffer(a) \in Buffers \ {"samples", "selected", "window", "tasks"}
      /\ "tasks" \in Buffers
  BY DEF TaskRiceBuffer, Buffers, DeviceBuffers
<1>1. DOMAIN Analyzed(m, a) = DOMAIN m["tasks"]  BY DEF Analyzed
<1>2. ASSUME NEW t \in DOMAIN m["tasks"] PROVE Stays(m["tasks"][t], Analyzed(m, a)[t])
  <2>1. \/ Analyzed(m, a)[t] = m["tasks"][t]
        \/ Analyzed(m, a)[t] = AnalyzedTask(m, a, m["tasks"][t]).task
    BY Zenon DEF Analyzed
  <2>2. QED  BY <2>1, StaysSame, AnalyzedStays, Zenon
<1>3. /\ Keeps(m, n) /\ n["tasks"] = Analyzed(m, a)
      /\ \A d \in Buffers \ {"tasks"} : n[d] = m[d]
  BY <1>1, <1>2, KeepsTasks
<1>4. Memory(n) /\ n[TaskRiceBuffer(a)] = m[TaskRiceBuffer(a)]
  BY <1>0, <1>3 DEF Keeps, SameShape
<1> HIDE DEF n
<1>5. DOMAIN AnalyzedRice(m, a) = DOMAIN n[TaskRiceBuffer(a)]
  BY <1>4 DEF AnalyzedRice
<1>6. /\ Keeps(n, q) /\ q[TaskRiceBuffer(a)] = AnalyzedRice(m, a)
      /\ \A d \in Buffers \ {TaskRiceBuffer(a)} : q[d] = n[d]
  BY <1>0, <1>4, <1>5, KeepsOther
<1>7. q["tasks"] = Analyzed(m, a)  BY <1>0, <1>3, <1>6
<1>8. Keeps(m, q)  BY <1>3, <1>6, KeepsComposes
<1>9. AnalyzeSubframeExact(m, a) = q  BY AnalyzeCells DEF n
<1> HIDE DEF q
<1>10. QED  BY <1>6, <1>7, <1>8, <1>9

LEMMA ChooseKeeps ==
  ASSUME NEW m, Memory(m), NEW a
  PROVE  /\ Keeps(m, ChooseBestMethod(m, a))
         /\ \A d \in Buffers \ {"best"} : ChooseBestMethod(m, a)[d] = m[d]
         /\ ChooseBestMethod(m, a)["best"] =
              Overwrite(m["best"], [f \in 1 .. a.frames |-> m["tasks"][BestTask(m, a, f - 1)]])
<1> DEFINE x == Overwrite(m["best"], [f \in 1 .. a.frames |-> m["tasks"][BestTask(m, a, f - 1)]])
<1>1. ChooseBestMethod(m, a) = [m EXCEPT !["best"] = x]
  BY Zenon DEF ChooseBestMethod
<1>2. "best" \in Buffers \ {"samples", "selected", "window", "tasks"}
  BY DEF Buffers, DeviceBuffers
<1>3. IsBuffer(m["best"])  BY <1>2 DEF Memory
<1>4. DOMAIN x = DOMAIN m["best"]  BY <1>3, OverwriteCells
<1> HIDE DEF x
<1>5. /\ Keeps(m, [m EXCEPT !["best"] = x]) /\ [m EXCEPT !["best"] = x]["best"] = x
      /\ \A d \in Buffers \ {"best"} : [m EXCEPT !["best"] = x][d] = m[d]
  BY <1>2, <1>4, KeepsOther
<1>6. QED  BY <1>1, <1>5 DEF x

LEMMA WriteBestKeeps ==
  ASSUME NEW m, Memory(m), NEW a
  PROVE  /\ Keeps(m, WriteBestRiceParameters(m, a))
         /\ \A d \in Buffers \ {"bestRice"} : WriteBestRiceParameters(m, a)[d] = m[d]
         /\ WriteBestRiceParameters(m, a)["bestRice"] =
              Overwrite(m["bestRice"], [f \in 1 .. a.frames |->
                m[TaskRiceBuffer(a)][TaskRiceCell(a, BestTask(m, a, f - 1))]])
<1> DEFINE x == Overwrite(m["bestRice"], [f \in 1 .. a.frames |->
                  m[TaskRiceBuffer(a)][TaskRiceCell(a, BestTask(m, a, f - 1))]])
<1>1. WriteBestRiceParameters(m, a) = [m EXCEPT !["bestRice"] = x]
  BY Zenon DEF WriteBestRiceParameters
<1>2. "bestRice" \in Buffers \ {"samples", "selected", "window", "tasks"}
  BY DEF Buffers, DeviceBuffers
<1>3. IsBuffer(m["bestRice"])  BY <1>2 DEF Memory
<1>4. DOMAIN x = DOMAIN m["bestRice"]  BY <1>3, OverwriteCells
<1> HIDE DEF x
<1>5. /\ Keeps(m, [m EXCEPT !["bestRice"] = x]) /\ [m EXCEPT !["bestRice"] = x]["bestRice"] = x
      /\ \A d \in Buffers \ {"bestRice"} : [m EXCEPT !["bestRice"] = x][d] = m[d]
  BY <1>2, <1>4, KeepsOther
<1>6. QED  BY <1>1, <1>5 DEF x

\* A result read back.
LEMMA ReadKeeps ==
  ASSUME NEW m, Memory(m), NEW b \in {"bestDown", "riceDown"}, NEW y,
         NEW n, n = [m EXCEPT ![b] = Overwrite(@, y)]
  PROVE  /\ Keeps(m, n) /\ n[b] = Overwrite(m[b], y)
         /\ \A d \in Buffers \ {b} : n[d] = m[d]
<1> DEFINE x == Overwrite(m[b], y)
<1>1. b \in Buffers \ {"samples", "selected", "window", "tasks"}
  BY DEF Buffers, HostBuffers
<1>2. IsBuffer(m[b])  BY <1>1 DEF Memory
<1>3. DOMAIN x = DOMAIN m[b]  BY <1>2, OverwriteCells
<1>4. n = [m EXCEPT ![b] = x]  OBVIOUS
<1> HIDE DEF x
<1>5. /\ Keeps(m, [m EXCEPT ![b] = x]) /\ [m EXCEPT ![b] = x][b] = x
      /\ \A d \in Buffers \ {b} : [m EXCEPT ![b] = x][d] = m[d]
  <2>1. Memory(m)  OBVIOUS
  <2>2. QED  BY ONLY <1>1, <1>3, <2>1, KeepsOther
<1>6. QED  BY <1>4, <1>5 DEF x

Commands ==
  {"CopyInputs", "FindWastedBits", "ComputeAutocor", "ComputeLpc", "QuantizeLpcOrders",
   "PruneFixedOrderGuess", "AnalyzeSubframeExact", "ChooseBestMethod",
   "WriteBestRiceParameters", "ReadBest", "ReadRice"}

\* What each command is.
LEMMA RunIs ==
  ASSUME NEW m
  PROVE  /\ Run("CopyInputs", m) = CopyInputs(m)
         /\ Run("FindWastedBits", m) = FindWastedBits(m, args)
         /\ Run("ComputeAutocor", m) = ComputeAutocor(m, args)
         /\ Run("ComputeLpc", m) = ComputeLpc(m, args)
         /\ Run("QuantizeLpcOrders", m) = QuantizeLpcOrders(m, args)
         /\ Run("PruneFixedOrderGuess", m) = PruneFixedOrderGuess(m, args)
         /\ Run("AnalyzeSubframeExact", m) = AnalyzeSubframeExact(m, args)
         /\ Run("ChooseBestMethod", m) = ChooseBestMethod(m, args)
         /\ Run("WriteBestRiceParameters", m) = WriteBestRiceParameters(m, args)
         /\ Run("ReadBest", m) = [m EXCEPT !["bestDown"] = Overwrite(@, SubSeq(m.best, 1, plan.frames))]
         /\ Run("ReadRice", m) = [m EXCEPT !["riceDown"] = Overwrite(@, SubSeq(m.bestRice, 1, plan.frames))]
BY Zenon DEF Run

LEMMA RunKeeps ==
  ASSUME NEW m, Memory(m), NEW command \in Commands \ {"CopyInputs"}
  PROVE  Keeps(m, Run(command, m))
<1>1. CASE command = "FindWastedBits"  BY <1>1, RunIs, FindWastedKeeps
<1>2. CASE command = "ComputeAutocor"  BY <1>2, RunIs, AutocorKeeps
<1>3. CASE command = "ComputeLpc"  BY <1>3, RunIs, LpcKeeps
<1>4. CASE command = "QuantizeLpcOrders"  BY <1>4, RunIs, QuantizeKeeps
<1>5. CASE command = "PruneFixedOrderGuess"  BY <1>5, RunIs, PruneKeeps
<1>6. CASE command = "AnalyzeSubframeExact"  BY <1>6, RunIs, AnalyzeKeeps
<1>7. CASE command = "ChooseBestMethod"
  <2>1. Keeps(m, ChooseBestMethod(m, args))  BY ChooseKeeps, Zenon
  <2>2. Run(command, m) = ChooseBestMethod(m, args)  BY <1>7, RunIs, Zenon
  <2>3. QED  BY ONLY <2>1, <2>2
<1>8. CASE command = "WriteBestRiceParameters"
  <2>1. Keeps(m, WriteBestRiceParameters(m, args))  BY WriteBestKeeps, Zenon
  <2>2. Run(command, m) = WriteBestRiceParameters(m, args)  BY <1>8, RunIs, Zenon
  <2>3. QED  BY ONLY <2>1, <2>2
<1>9. CASE command = "ReadBest"
  <2>1. PICK y : y = SubSeq(m.best, 1, plan.frames)  OBVIOUS
  <2>2. Run(command, m) = [m EXCEPT !["bestDown"] = Overwrite(@, y)]
    BY <1>9, <2>1, RunIs, Zenon
  <2>3. QED  BY <2>2, ReadKeeps
<1>10. CASE command = "ReadRice"
  <2>1. PICK y : y = SubSeq(m.bestRice, 1, plan.frames)  OBVIOUS
  <2>2. Run(command, m) = [m EXCEPT !["riceDown"] = Overwrite(@, y)]
    BY <1>10, <2>1, RunIs, Zenon
  <2>3. QED  BY <2>2, ReadKeeps
<1>11. QED  BY <1>1, <1>2, <1>3, <1>4, <1>5, <1>6, <1>7, <1>8, <1>9, <1>10 DEF Commands

-----------------------------------------------------------------------------
(* A batch: the sizes of its arguments and of its windows.                 *)

LEMMA QuotientPositive ==
  ASSUME NEW a \in Nat \ {0}, NEW b \in Nat \ {0}
  PROVE  (a + b - 1) \div b \in Nat \ {0}
<1>1. a + b - 1 \in Nat /\ a + b - 1 >= b  OBVIOUS
<1>2. PICK n \in Nat : n = a + b - 1  BY <1>1
<1>3. n \div b >= 1
  <2>1. n \div b \in Int /\ n = b * (n \div b) + (n % b) /\ n % b \in 0 .. b - 1  OBVIOUS
  <2>2. PICK q \in Int, r \in 0 .. b - 1 : q = n \div b /\ n = b * q + r
    BY <2>1
  <2>3. q >= 1
    <3> SUFFICES ASSUME q <= 0 PROVE FALSE  BY <2>2
    <3>1. b * q <= 0  OBVIOUS
    <3>2. QED  BY <1>1, <1>2, <2>2, <3>1
  <2>4. QED  BY <2>2, <2>3
<1>4. n \div b \in Int  OBVIOUS
<1>5. QED  BY <1>2, <1>3, <1>4

\* A window of n ones is n blocks long.
LEMMA WindowsCells ==
  ASSUME NEW n \in Nat \ {0}, NEW k \in Nat \ {0}, NEW profile
  PROVE  IsBuffer(Windows(n, k, profile)) /\ Len(Windows(n, k, profile)) = n * k
<1> DEFINE s == [w \in 1 .. n |->
      [i \in 1 .. k |-> [shape |-> WindowShapes(n, k, profile)[w], at |-> i, block |-> k]]]
<1>1. Len(s) = n  BY BufferOf
<1>2. ASSUME NEW w \in 1 .. n PROVE IsBuffer(s[w]) /\ Len(s[w]) = k
  <2>1. DOMAIN s[w] = 1 .. k  OBVIOUS
  <2> HIDE DEF s
  <2>2. QED  BY <2>1, BufferOf
<1>3. Windows(n, k, profile) = FlattenSeq(s)  BY Zenon DEF Windows
<1> HIDE DEF s
<1>4. Rows(FlattenSeq(s), s, n, k)  BY <1>1, <1>2, FlattenCells
<1>5. QED  BY <1>3, <1>4 DEF Rows

\* A call c that the session has planned as p.
IsBatch(c, p) ==
  /\ c \in Calls /\ p = BuildPlan(OptionsOf(c), c.samples)
  /\ OptionsOf(c).maxLpcOrder = c.lpc

LEMMA ArgumentsTyped ==
  ASSUME NEW c, NEW p, IsBatch(c, p), NEW a, a = ArgumentsOf(c, p)
  PROVE  /\ a.frames = p.frames /\ a.perFrame = p.perFrame /\ a.api = api
         /\ a.maxPorder = c.porder /\ a.profile = c.profile
         /\ a.shifted = ShiftedProfile(c, IF Generated(c) THEN PrefixShape(p, 0)
                          ELSE [lpcTasks |-> 0, perWindow |-> 0, windows |-> 0])
         /\ Generated(c) => a.windows \in Nat \ {0}
         /\ ~Generated(c) => a.windows = 0
<1> DEFINE s == IF Generated(c) THEN PrefixShape(p, 0)
                ELSE [lpcTasks |-> 0, perWindow |-> 0, windows |-> 0]
<1>1. a = [frames |-> p.frames, perFrame |-> p.perFrame, perWindow |-> s.perWindow,
           lpcTasks |-> s.lpcTasks, windows |-> s.windows, precision |-> c.precision,
           profile |-> c.profile, maxPorder |-> c.porder, found |-> c.found,
           shifted |-> ShiftedProfile(c, s), api |-> api]
  BY Zenon DEF ArgumentsOf
<1>2. ASSUME Generated(c) PROVE s.windows \in Nat \ {0}
  <2> DEFINE o == OptionsOf(c)
             L == LpcTaskCount(o)
             W == WindowTasks(o)
  <2>1. IsPlan(p, o, c.samples)  BY LegalPlanned DEF IsBatch
  <2>2. o.maxLpcOrder # 0 /\ o.maxLpcOrder \in Nat
    <3>1. c.lpc \in Nat  BY OptionsLegal DEF IsBatch
    <3>2. QED  BY <1>2, <3>1 DEF IsBatch, Generated
  <2> HIDE DEF o
  <2>3. 0 \in 0 .. p.frames - 1  BY <2>1, PlanPlaces
  <2>4. LpcPrefix(p, 0) = L /\ PerWindow(p, 0) = W  BY <2>1, <2>3, PlanShape
  <2>5. L \in Nat \ {0}  BY <2>1, <2>2, LpcCount DEF IsPlan
  <2>6. W \in Nat \ {0}  BY <2>2 DEF WindowTasks
  <2> HIDE DEF L, W
  <2>7. PrefixShape(p, 0).windows = (L + W - 1) \div W
    <3>1. PrefixShape(p, 0) = [lpcTasks |-> L, perWindow |-> W,
                               windows |-> IF W = 0 THEN 0 ELSE (L + W - 1) \div W]
      BY <2>4, Zenon DEF PrefixShape
    <3>2. QED  BY <2>6, <3>1
  <2>8. QED  BY <1>2, <2>5, <2>6, <2>7, QuotientPositive
<1>3. ASSUME ~Generated(c) PROVE s.windows = 0  BY <1>3
<1>4. s.windows = a.windows  BY <1>1
<1>5. a.shifted = ShiftedProfile(c, s)  BY <1>1
<1> HIDE DEF s
<1>6. QED  BY <1>1, <1>2, <1>3, <1>4, <1>5 DEF s

LEMMA BatchSizes ==
  ASSUME NEW c, NEW p, IsBatch(c, p)
  PROVE  /\ IsPlan(p, OptionsOf(c), c.samples) /\ OptionsOf(c).frameSamples = c.block
         /\ c.block \in Nat \ {0} /\ p.frames \in Nat \ {0} /\ p.perFrame \in Nat \ {0}
         /\ p.frames * c.block = Len(c.samples) /\ p.frames * p.perFrame \in Nat
         /\ IsSampleBlock(c.samples)
         /\ IsBuffer(p.tasks) /\ Len(p.tasks) = p.frames * p.perFrame
         /\ IsBuffer(p.selected) /\ Len(p.selected) = p.frames * p.perFrame
         /\ \A i \in 1 .. p.frames * p.perFrame : p.selected[i] = i - 1
<1>1. c \in Calls /\ p = BuildPlan(OptionsOf(c), c.samples)  BY DEF IsBatch
<1>2. IsPlan(p, OptionsOf(c), c.samples) /\ OptionsOf(c).frameSamples = c.block
  BY <1>1, LegalPlanned, OptionsLegal
<1>3. QED  BY <1>2, PlanPlaces DEF IsBuffer

\* Where the tasks of a batch are.
LEMMA BatchTasks ==
  ASSUME NEW c, NEW p, IsBatch(c, p), NEW f \in 0 .. p.frames - 1, NEW i \in 1 .. p.perFrame
  PROVE  /\ f * p.perFrame \in Nat /\ f * p.perFrame + i \in 1 .. Len(p.tasks)
         /\ DOMAIN p.tasks[f * p.perFrame + i] = TaskFields
         /\ p.tasks[f * p.perFrame + i].offset = f * c.block
         /\ p.tasks[f * p.perFrame + i].block = c.block
<1>1. IsPlan(p, OptionsOf(c), c.samples) /\ OptionsOf(c).frameSamples = c.block
      /\ IsBuffer(p.tasks) /\ p.frames \in Nat \ {0} /\ p.perFrame \in Nat \ {0}
  BY BatchSizes
<1>2. PlannedTask(TaskOf(p, f, i), OptionsOf(c), f) /\ f * p.perFrame + i \in DOMAIN p.tasks
  BY <1>1, PlanTasks
<1>3. TaskOf(p, f, i) = p.tasks[f * p.perFrame + i]  BY DEF TaskOf
<1>4. f * p.perFrame \in Nat
  <2>1. PICK n \in Nat \ {0} : n = p.perFrame  BY <1>1
  <2>2. f * n \in Nat  BY <1>1
  <2>3. QED  BY <2>1, <2>2
<1>5. QED  BY <1>1, <1>2, <1>3, <1>4 DEF PlannedTask, Placed, IsBuffer

LEMMA Reshaped ==
  ASSUME NEW m, Memory(m), NEW n, DOMAIN n = Buffers,
         \A b \in Buffers : DOMAIN n[b] = DOMAIN m[b]
  PROVE  SameShape(m, n)
<1>1. ASSUME NEW e \in Buffers PROVE IsBuffer(n[e]) /\ Len(n[e]) = Len(m[e])
  <2>1. Len(m[e]) \in Nat /\ DOMAIN n[e] = 1 .. Len(m[e])  BY DEF Memory, IsBuffer
  <2>2. QED  BY <2>1, BufferOf
<1>2. QED  BY <1>1 DEF SameShape, Memory

LEMMA NeedsTyped ==
  ASSUME IsBatch(call, plan), NEW n \in Nat
  PROVE  \A b \in Buffers : Needs(n)[b] \in Nat
<1>1. Len(call.samples) \in Nat /\ Len(plan.tasks) \in Nat /\ Len(plan.selected) \in Nat
      /\ plan.frames \in Nat
  BY BatchSizes DEF IsBuffer, IsSampleBlock
<1>2. plan.frames * args.windows \in Nat
  <2>1. args.windows \in Nat  BY ArgumentsTyped DEF args
  <2>2. PICK k \in Nat, w \in Nat : k = plan.frames /\ w = args.windows  BY <1>1, <2>1
  <2>3. k * w \in Nat  OBVIOUS
  <2>4. QED  BY <2>2, <2>3
<1> DEFINE V == IF api = "vulkan" THEN 1 ELSE 0
<1>3. PICK s \in Nat, t \in Nat, l \in Nat, f \in Nat, k \in Nat :
        s = Len(call.samples) /\ t = Len(plan.tasks) /\ l = Len(plan.selected)
        /\ f = plan.frames /\ k = plan.frames * args.windows
  BY <1>1, <1>2
<1>4. Needs(n) =
        [samples |-> s, shifted |-> IF args.shifted THEN s ELSE 0, tasks |-> t,
         selected |-> l, window |-> n, autocor |-> k, lpc |-> k, best |-> f,
         taskRice |-> IF api = "vulkan" THEN 0 ELSE t,
         bestRice |-> IF api = "vulkan" THEN f + t ELSE f,
         samplesUp |-> IF api = "vulkan" THEN s ELSE 0,
         tasksUp |-> IF api = "vulkan" THEN t ELSE 0,
         selectedUp |-> IF api = "vulkan" THEN l ELSE 0,
         windowUp |-> IF api = "vulkan" THEN n ELSE 0,
         bestDown |-> f, riceDown |-> f]
  BY <1>3, Zenon DEF Needs
<1>5. f + t \in Nat  OBVIOUS
<1>6. QED  BY <1>4, <1>5 DEF Buffers, DeviceBuffers, HostBuffers

\* A buffer is as long as it has to be, and as it was if that was enough.
LEMMA GrownFits ==
  ASSUME IsBatch(call, plan), NEW n \in Nat, NEW m, Memory(m)
  PROVE  /\ Memory(Grown(m, n))
         /\ \A b \in Buffers : Needs(n)[b] <= Len(Grown(m, n)[b])
         /\ Needs(n)["window"] = n
         /\ n <= Len(m["window"]) => Grown(m, n)["window"] = m["window"]
<1>1. Needs(n)["window"] = n  BY DEF Needs
<1>2. ASSUME NEW b \in Buffers
      PROVE  /\ Grown(m, n)[b] = Ensured(m[b], Needs(n)[b])
             /\ IsBuffer(Grown(m, n)[b]) /\ Needs(n)[b] <= Len(Grown(m, n)[b])
  <2>1. PICK k \in Nat : k = Needs(n)[b]  BY NeedsTyped
  <2>2. Grown(m, n)[b] = Ensured(m[b], k)  BY <2>1 DEF Grown, Memory
  <2>3. CASE k <= Len(m[b])
    <3>1. Grown(m, n)[b] = m[b]  BY <2>2, <2>3 DEF Ensured
    <3>2. QED  BY <2>1, <2>2, <2>3, <3>1 DEF Memory
  <2>4. CASE ~(k <= Len(m[b]))
    <3>1. Grown(m, n)[b] = [i \in 1 .. k |-> Garbage]  BY <2>2, <2>4 DEF Ensured
    <3>2. DOMAIN Grown(m, n)[b] = 1 .. k  BY <3>1
    <3>3. IsBuffer(Grown(m, n)[b]) /\ Len(Grown(m, n)[b]) = k  BY <3>2, BufferOf
    <3>4. QED  BY <2>1, <2>2, <3>3
  <2>5. QED  BY <2>3, <2>4
<1>3. DOMAIN Grown(m, n) = Buffers  BY DEF Grown, Memory
<1>4. Memory(Grown(m, n))  BY <1>2, <1>3 DEF Memory
<1>5. "window" \in Buffers  BY DEF Buffers, DeviceBuffers
<1>6. n <= Len(m["window"]) => Grown(m, n)["window"] = m["window"]
  BY <1>1, <1>2, <1>5 DEF Ensured
<1>7. QED  BY <1>1, <1>2, <1>4, <1>6

LEMMA EmptyMemory == Memory(NoBuffers)
<1>1. DOMAIN <<>> = 1 .. 0 /\ Len(<<>>) = 0  OBVIOUS
<1>2. QED  BY <1>1 DEF Memory, NoBuffers, Buffers, IsBuffer

LEMMA StartingBuffers ==
  ASSUME Memory(kept)
  PROVE  Memory(Starting) /\ (~OwnBuffers => Starting["window"] = kept["window"])
<1>1. CASE OwnBuffers  BY <1>1, EmptyMemory DEF Starting
<1>2. CASE ~OwnBuffers /\ api # "opencl"  BY <1>2 DEF Starting
<1>3. CASE ~OwnBuffers /\ api = "opencl"
  <2>1. Starting = [kept EXCEPT !.bestDown = <<>>, !.riceDown = <<>>]
    BY <1>3, Zenon DEF Starting
  <2>2. \A b \in Buffers : Starting[b] = kept[b] \/ Starting[b] = <<>>
    BY <2>1 DEF Memory
  <2>3. DOMAIN Starting = Buffers  BY <2>1 DEF Memory
  <2>4. Starting["window"] = kept["window"]
    BY <2>1 DEF Memory, Buffers, DeviceBuffers
  <2>5. IsBuffer(<<>>)  BY DEF IsBuffer
  <2>6. QED  BY <2>2, <2>3, <2>4, <2>5 DEF Memory
<1>4. QED  BY <1>1, <1>2, <1>3

\* The program of a batch, command by command: u, g and h tell which parts it has.
Uploads == IF api = "vulkan" THEN 1 ELSE 0
Generations == IF Generated(call) THEN 3 ELSE 0
Guesses == IF plan.guessed THEN 1 ELSE 0

ProgramIs(P, u, g, h) ==
  /\ IsBuffer(P) /\ Len(P) = u + g + h + 6
  /\ u = 1 => P[1] = "CopyInputs"
  /\ P[u + 1] = "FindWastedBits"
  /\ g = 3 => /\ P[u + 2] = "ComputeAutocor" /\ P[u + 3] = "ComputeLpc"
              /\ P[u + 4] = "QuantizeLpcOrders"
  /\ h = 1 => P[u + g + 2] = "PruneFixedOrderGuess"
  /\ P[u + g + h + 2] = "AnalyzeSubframeExact" /\ P[u + g + h + 3] = "ChooseBestMethod"
  /\ P[u + g + h + 4] = "WriteBestRiceParameters"
  /\ P[u + g + h + 5] = "ReadBest" /\ P[u + g + h + 6] = "ReadRice"

LEMMA ProgramCells == ProgramIs(Program, Uploads, Generations, Guesses)
<1> DEFINE U == UploadCommands
           F == <<"FindWastedBits">>
           G == GenerationCommands
           H == GuessCommands
           T == <<"AnalyzeSubframeExact", "ChooseBestMethod", "WriteBestRiceParameters",
                  "ReadBest", "ReadRice">>
           u == Uploads
           g == Generations
           h == Guesses
<1>0. IsBuffer(<<>>) /\ Len(<<>>) = 0  BY DEF IsBuffer
<1>1. /\ IsBuffer(U) /\ Len(U) = u /\ u \in {0, 1}
      /\ u = 1 => U[1] = "CopyInputs"
  <2>1. CASE api = "vulkan"
    <3>1. U = <<"CopyInputs">> /\ u = 1  BY <2>1 DEF UploadCommands, Uploads
    <3>2. QED  BY <3>1 DEF IsBuffer
  <2>2. CASE api # "vulkan"
    <3>1. U = <<>> /\ u = 0  BY <2>2 DEF UploadCommands, Uploads
    <3>2. QED  BY <1>0, <3>1
  <2>3. QED  BY <2>1, <2>2
<1>2. IsBuffer(F) /\ Len(F) = 1 /\ F[1] = "FindWastedBits"  BY DEF IsBuffer
<1>3. /\ IsBuffer(G) /\ Len(G) = g /\ g \in {0, 3}
      /\ g = 3 => G[1] = "ComputeAutocor" /\ G[2] = "ComputeLpc" /\ G[3] = "QuantizeLpcOrders"
  <2>1. CASE Generated(call)
    <3>1. G = <<"ComputeAutocor", "ComputeLpc", "QuantizeLpcOrders">> /\ g = 3
      BY <2>1 DEF GenerationCommands, Generations
    <3>2. QED  BY <3>1 DEF IsBuffer
  <2>2. CASE ~Generated(call)
    <3>1. G = <<>> /\ g = 0  BY <2>2 DEF GenerationCommands, Generations
    <3>2. QED  BY <1>0, <3>1
  <2>3. QED  BY <2>1, <2>2
<1>4. /\ IsBuffer(H) /\ Len(H) = h /\ h \in {0, 1}
      /\ h = 1 => H[1] = "PruneFixedOrderGuess"
  <2>1. CASE plan.guessed
    <3>1. H = <<"PruneFixedOrderGuess">> /\ h = 1  BY <2>1 DEF GuessCommands, Guesses
    <3>2. QED  BY <3>1 DEF IsBuffer
  <2>2. CASE ~plan.guessed
    <3>1. H = <<>> /\ h = 0  BY <2>2 DEF GuessCommands, Guesses
    <3>2. QED  BY <1>0, <3>1
  <2>3. QED  BY <2>1, <2>2
<1>5. /\ IsBuffer(T) /\ Len(T) = 5
      /\ T[1] = "AnalyzeSubframeExact" /\ T[2] = "ChooseBestMethod"
      /\ T[3] = "WriteBestRiceParameters" /\ T[4] = "ReadBest" /\ T[5] = "ReadRice"
  BY DEF IsBuffer
<1>6. Program = U \o F \o G \o H \o T  BY DEF Program
<1> HIDE DEF U, F, G, H, T, u, g, h
<1> DEFINE x1 == U \o F
           x2 == x1 \o G
           x3 == x2 \o H
           x4 == x3 \o T
<1>7. /\ IsBuffer(x1) /\ Len(x1) = u + 1 /\ x1[u + 1] = "FindWastedBits"
      /\ u = 1 => x1[1] = "CopyInputs"
  <2>1. IsBuffer(x1) /\ Len(x1) = u + 1
        /\ (\A i \in 1 .. u : x1[i] = U[i]) /\ \A i \in 1 .. 1 : x1[u + i] = F[i]
    <3>1. IsBuffer(U) /\ IsBuffer(F) /\ Len(U) = u /\ Len(F) = 1  BY <1>1, <1>2
    <3>2. /\ IsBuffer(x1) /\ Len(x1) = Len(U) + Len(F)
          /\ \A i \in 1 .. Len(U) : x1[i] = U[i]
          /\ \A i \in 1 .. Len(F) : x1[Len(U) + i] = F[i]
      <4>1. PICK a, b, c : a = U /\ b = F /\ c = x1 /\ c = a \o b  OBVIOUS
      <4>2. IsBuffer(a) /\ IsBuffer(b)  BY <3>1, <4>1
      <4> HIDE DEF x1
      <4>3. /\ IsBuffer(a \o b) /\ Len(a \o b) = Len(a) + Len(b)
            /\ \A i \in 1 .. Len(a) : (a \o b)[i] = a[i]
            /\ \A i \in 1 .. Len(b) : (a \o b)[Len(a) + i] = b[i]
        BY ONLY <4>2, ConcatCells
      <4>4. QED  BY <4>1, <4>3
    <3> HIDE DEF x1
    <3>3. QED  BY ONLY <3>1, <3>2
  <2>2. 1 \in 1 .. 1  OBVIOUS
  <2> HIDE DEF x1
  <2>3. QED  BY <1>1, <1>2, <2>1, <2>2
<1>8. /\ IsBuffer(x2) /\ Len(x2) = u + 1 + g /\ x2[u + 1] = "FindWastedBits"
      /\ u = 1 => x2[1] = "CopyInputs"
      /\ g = 3 => /\ x2[u + 2] = "ComputeAutocor" /\ x2[u + 3] = "ComputeLpc"
                  /\ x2[u + 4] = "QuantizeLpcOrders"
  <2> HIDE DEF x1
  <2>1. IsBuffer(x2) /\ Len(x2) = u + 1 + g
        /\ (\A i \in 1 .. u + 1 : x2[i] = x1[i])
        /\ \A i \in 1 .. g : x2[u + 1 + i] = G[i]
    <3>1. IsBuffer(x1) /\ IsBuffer(G) /\ Len(x1) = u + 1 /\ Len(G) = g  BY <1>3, <1>7
    <3>2. /\ IsBuffer(x2) /\ Len(x2) = Len(x1) + Len(G)
          /\ \A i \in 1 .. Len(x1) : x2[i] = x1[i]
          /\ \A i \in 1 .. Len(G) : x2[Len(x1) + i] = G[i]
      <4>1. PICK a, b, c : a = x1 /\ b = G /\ c = x2 /\ c = a \o b  OBVIOUS
      <4>2. IsBuffer(a) /\ IsBuffer(b)  BY <3>1, <4>1
      <4> HIDE DEF x2
      <4>3. /\ IsBuffer(a \o b) /\ Len(a \o b) = Len(a) + Len(b)
            /\ \A i \in 1 .. Len(a) : (a \o b)[i] = a[i]
            /\ \A i \in 1 .. Len(b) : (a \o b)[Len(a) + i] = b[i]
        BY ONLY <4>2, ConcatCells
      <4>4. QED  BY <4>1, <4>3
    <3> HIDE DEF x2
    <3>3. QED  BY ONLY <3>1, <3>2
  <2> HIDE DEF x2
  <2>2. ASSUME g = 3
        PROVE  x2[u + 1 + 1] = G[1] /\ x2[u + 1 + 2] = G[2] /\ x2[u + 1 + 3] = G[3]
    <3>1. 1 \in 1 .. g /\ 2 \in 1 .. g /\ 3 \in 1 .. g  BY <2>2
    <3>2. QED  BY ONLY <2>1, <3>1
  <2>3. u + 1 + 1 = u + 2 /\ u + 1 + 2 = u + 3 /\ u + 1 + 3 = u + 4  BY <1>1
  <2>4. x2[u + 1] = x1[u + 1] /\ x2[1] = x1[1]  BY <1>1, <2>1
  <2>5. QED  BY <1>3, <1>7, <2>1, <2>2, <2>3, <2>4
<1>9. /\ IsBuffer(x3) /\ Len(x3) = u + g + h + 1
      /\ (\A i \in 1 .. u + g + 1 : x3[i] = x2[i])
      /\ h = 1 => x3[u + g + 2] = "PruneFixedOrderGuess"
  <2> HIDE DEF x1, x2
  <2>1. IsBuffer(x3) /\ Len(x3) = u + 1 + g + h
        /\ (\A i \in 1 .. u + 1 + g : x3[i] = x2[i])
        /\ \A i \in 1 .. h : x3[u + 1 + g + i] = H[i]
    <3>1. IsBuffer(x2) /\ IsBuffer(H) /\ Len(x2) = u + 1 + g /\ Len(H) = h  BY <1>4, <1>8
    <3>2. /\ IsBuffer(x3) /\ Len(x3) = Len(x2) + Len(H)
          /\ \A i \in 1 .. Len(x2) : x3[i] = x2[i]
          /\ \A i \in 1 .. Len(H) : x3[Len(x2) + i] = H[i]
      <4>1. PICK a, b, c : a = x2 /\ b = H /\ c = x3 /\ c = a \o b  OBVIOUS
      <4>2. IsBuffer(a) /\ IsBuffer(b)  BY <3>1, <4>1
      <4> HIDE DEF x3
      <4>3. /\ IsBuffer(a \o b) /\ Len(a \o b) = Len(a) + Len(b)
            /\ \A i \in 1 .. Len(a) : (a \o b)[i] = a[i]
            /\ \A i \in 1 .. Len(b) : (a \o b)[Len(a) + i] = b[i]
        BY ONLY <4>2, ConcatCells
      <4>4. QED  BY <4>1, <4>3
    <3> HIDE DEF x3
    <3>3. QED  BY ONLY <3>1, <3>2
  <2> HIDE DEF x3
  <2>2. ASSUME h = 1 PROVE x3[u + 1 + g + 1] = H[1]  BY <2>1, <2>2
  <2>3. u + 1 + g + 1 = u + g + 2 /\ u + 1 + g = u + g + 1
        /\ u + 1 + g + h = u + g + h + 1
    BY <1>1, <1>3, <1>4
  <2>4. QED  BY <1>4, <2>1, <2>2, <2>3
<1>10. /\ IsBuffer(x4) /\ Len(x4) = u + g + h + 6
       /\ (\A i \in 1 .. u + g + h + 1 : x4[i] = x3[i])
       /\ x4[u + g + h + 2] = T[1] /\ x4[u + g + h + 3] = T[2] /\ x4[u + g + h + 4] = T[3]
       /\ x4[u + g + h + 5] = T[4] /\ x4[u + g + h + 6] = T[5]
  <2> HIDE DEF x1, x2, x3
  <2>1. IsBuffer(x4) /\ Len(x4) = u + g + h + 1 + 5
        /\ (\A i \in 1 .. u + g + h + 1 : x4[i] = x3[i])
        /\ \A i \in 1 .. 5 : x4[u + g + h + 1 + i] = T[i]
    <3>1. IsBuffer(x3) /\ IsBuffer(T) /\ Len(x3) = u + g + h + 1 /\ Len(T) = 5  BY <1>5, <1>9
    <3>2. /\ IsBuffer(x4) /\ Len(x4) = Len(x3) + Len(T)
          /\ \A i \in 1 .. Len(x3) : x4[i] = x3[i]
          /\ \A i \in 1 .. Len(T) : x4[Len(x3) + i] = T[i]
      <4>1. PICK a, b, c : a = x3 /\ b = T /\ c = x4 /\ c = a \o b  OBVIOUS
      <4>2. IsBuffer(a) /\ IsBuffer(b)  BY <3>1, <4>1
      <4> HIDE DEF x4
      <4>3. /\ IsBuffer(a \o b) /\ Len(a \o b) = Len(a) + Len(b)
            /\ \A i \in 1 .. Len(a) : (a \o b)[i] = a[i]
            /\ \A i \in 1 .. Len(b) : (a \o b)[Len(a) + i] = b[i]
        BY ONLY <4>2, ConcatCells
      <4>4. QED  BY <4>1, <4>3
    <3> HIDE DEF x4
    <3>3. QED  BY ONLY <3>1, <3>2
  <2>2. 1 \in 1 .. 5 /\ 2 \in 1 .. 5 /\ 3 \in 1 .. 5 /\ 4 \in 1 .. 5 /\ 5 \in 1 .. 5  OBVIOUS
  <2>3. PICK k \in Nat : k = u + g + h  BY <1>1, <1>3, <1>4
  <2>4. k + 1 + 1 = k + 2 /\ k + 1 + 2 = k + 3 /\ k + 1 + 3 = k + 4 /\ k + 1 + 4 = k + 5
        /\ k + 1 + 5 = k + 6
    OBVIOUS
  <2> HIDE DEF x4
  <2>5. QED  BY <2>1, <2>2, <2>3, <2>4
<1>11. Program = x4  BY <1>6
<1> HIDE DEF x1, x2, x3, x4
<1>12. /\ x4[u + 1] = x2[u + 1] /\ x4[1] = x2[1]
       /\ g = 3 => x4[u + 2] = x2[u + 2] /\ x4[u + 3] = x2[u + 3] /\ x4[u + 4] = x2[u + 4]
       /\ h = 1 => x4[u + g + 2] = x3[u + g + 2]
  BY <1>1, <1>3, <1>4, <1>9, <1>10
<1>13. ProgramIs(x4, u, g, h)  BY <1>5, <1>8, <1>9, <1>10, <1>12 DEF ProgramIs
<1>14. QED  BY <1>11, <1>13 DEF u, g, h

LEMMA ProgramOrder ==
  ASSUME NEW i \in 1 .. Len(Program)
  PROVE  /\ IsBuffer(Program) /\ Len(Program) \in 6 .. 11
         /\ Program[i] \in Commands
         /\ Program[i] = "CopyInputs" <=> i = 1 /\ api = "vulkan"
         /\ Program[i] = "FindWastedBits" => i = Uploads + 1
         /\ Program[i] = "ComputeAutocor" =>
              Generated(call) /\ i > 1 /\ Program[i - 1] = "FindWastedBits"
         /\ Program[i] = "ComputeLpc" =>
              Generated(call) /\ i > 1 /\ Program[i - 1] = "ComputeAutocor"
<1> DEFINE u == Uploads
           g == Generations
           h == Guesses
           P == Program
<1>1. u \in {0, 1} /\ (u = 1 <=> api = "vulkan")  BY DEF Uploads
<1>2. g \in {0, 3} /\ (g = 3 <=> Generated(call))  BY DEF Generations
<1>3. h \in {0, 1}  BY DEF Guesses
<1>4. ProgramIs(P, u, g, h) /\ i \in 1 .. Len(P)  BY ProgramCells
<1> HIDE DEF u, g, h, P
<1>5. i \in 1 .. u + g + h + 6  BY <1>4 DEF ProgramIs
<1>6. \/ i = 1 /\ u = 1 /\ P[i] = "CopyInputs"
      \/ i = u + 1 /\ P[i] = "FindWastedBits"
      \/ i = u + 2 /\ g = 3 /\ P[i] = "ComputeAutocor"
      \/ i = u + 3 /\ g = 3 /\ P[i] = "ComputeLpc"
      \/ i = u + 4 /\ g = 3 /\ P[i] = "QuantizeLpcOrders"
      \/ i = u + g + 2 /\ P[i] = "PruneFixedOrderGuess"
      \/ i = u + g + h + 2 /\ P[i] = "AnalyzeSubframeExact"
      \/ i = u + g + h + 3 /\ P[i] = "ChooseBestMethod"
      \/ i = u + g + h + 4 /\ P[i] = "WriteBestRiceParameters"
      \/ i = u + g + h + 5 /\ P[i] = "ReadBest"
      \/ i = u + g + h + 6 /\ P[i] = "ReadRice"
  <2>1. \/ i = 1 /\ u = 1
        \/ i = u + 1
        \/ i = u + 2 /\ g = 3
        \/ i = u + 3 /\ g = 3
        \/ i = u + 4 /\ g = 3
        \/ i = u + g + 2 /\ h = 1
        \/ i = u + g + h + 2
        \/ i = u + g + h + 3
        \/ i = u + g + h + 4
        \/ i = u + g + h + 5
        \/ i = u + g + h + 6
    BY <1>1, <1>2, <1>3, <1>5
  <2>2. ProgramIs(P, u, g, h)  BY <1>4
  <2>3. QED  BY ONLY <2>1, <2>2, SMTT(20) DEF ProgramIs
<1>7. P[i] \in Commands  BY <1>6 DEF Commands
<1>8. IsBuffer(P) /\ Len(P) \in 6 .. 11  BY <1>1, <1>2, <1>3, <1>4 DEF ProgramIs
<1>9. P[i] = "CopyInputs" <=> i = 1 /\ u = 1  BY <1>1, <1>2, <1>3, <1>4, <1>6 DEF ProgramIs
<1>10. P[i] = "FindWastedBits" => i = u + 1  BY <1>6
<1>11. P[i] = "ComputeAutocor" => g = 3 /\ i > 1 /\ P[i - 1] = "FindWastedBits"
  <2> SUFFICES ASSUME P[i] = "ComputeAutocor"
               PROVE  g = 3 /\ i > 1 /\ P[i - 1] = "FindWastedBits"
    OBVIOUS
  <2>1. i = u + 2 /\ g = 3  BY <1>6
  <2>2. i - 1 = u + 1 /\ i > 1  BY <1>1, <2>1
  <2>3. QED  BY <1>4, <2>1, <2>2 DEF ProgramIs
<1>12. P[i] = "ComputeLpc" => g = 3 /\ i > 1 /\ P[i - 1] = "ComputeAutocor"
  <2> SUFFICES ASSUME P[i] = "ComputeLpc"
               PROVE  g = 3 /\ i > 1 /\ P[i - 1] = "ComputeAutocor"
    OBVIOUS
  <2>1. i = u + 3 /\ g = 3  BY <1>6
  <2>2. i - 1 = u + 2 /\ i > 1  BY <1>1, <2>1
  <2>3. QED  BY <1>4, <2>1, <2>2 DEF ProgramIs
<1>13. QED  BY <1>1, <1>2, <1>7, <1>8, <1>9, <1>10, <1>11, <1>12 DEF u, g, h, P

-----------------------------------------------------------------------------
(* The invariant.                                                          *)

\* The windows a batch is analysed with, and the cells they take.
OwnWindows == Windows(args.windows, call.block, call.profile)
WindowNeed ==
  IF Generated(call) THEN args.windows * call.block ELSE IF api = "opencl" THEN 0 ELSE 1

\* What the lags, then the predictors, of a frame seen through a window come from.
OwnSamples(f) == ShiftSamples(OwnFrame(f), WastedBitsOf(OwnFrame(f)))
OwnCell(f, w) ==
  [samples |-> OwnSamples(f), window |-> FrameOf(OwnWindows, w * call.block, call.block)]

\* A batch on its way is a call of the options, planned for this backend.
BatchPlanned == stage \in {"planned", "running", "returned"} => IsBatch(call, plan)

RefusedWhere ==
  stage = "refused" => call \in Calls /\ ~ValidInputs(call, BuildPlan(OptionsOf(call), call.samples))

BuffersKept == Memory(kept) /\ Memory(mem)

\* The cache holds the windows its own fields ask for, and they are still on the
\* device as long as the session's buffers are not in use by a batch of its own.
CacheSound ==
  windowCache # NoWindows =>
    windowCache.cells = Windows(windowCache.count, windowCache.block, windowCache.profile)
WindowsKept ==
  /\ api = "opencl"
  /\ stage \in {"idle", "planned", "returned"} \/ (stage = "running" /\ OwnBuffers)
  => Begins(kept["window"], windowCache.cells)
WindowsCurrent ==
  stage = "running" /\ api = "opencl" /\ Generated(call) => windowCache.cells = OwnWindows

Progress ==
  /\ stage = "planned" => submitted = 0 /\ done = 0
  /\ stage = "running" =>
       /\ submitted \in Nat /\ done \in Nat /\ done <= submitted /\ submitted <= Len(Program)

LongEnough ==
  stage = "running" => \A b \in Buffers : Needs(WindowNeed)[b] <= Len(mem[b])

\* A task of memory is where its plan has it, whatever the kernels set in it.
Shaped(task, planned) ==
  DOMAIN task = TaskFields /\ task.offset = planned.offset /\ task.block = planned.block
  /\ task.type = planned.type

Inputs(m) ==
  /\ Begins(m["samples"], call.samples) /\ Begins(m["selected"], plan.selected)
  /\ Generated(call) => Begins(m["window"], OwnWindows)
  /\ \A t \in 1 .. Len(plan.tasks) : Shaped(m["tasks"][t], plan.tasks[t])
Staged(m) ==
  /\ Begins(m["samplesUp"], call.samples) /\ Begins(m["selectedUp"], plan.selected)
  /\ Generated(call) => Begins(m["windowUp"], OwnWindows)
  /\ Begins(m["tasksUp"], plan.tasks)

InputsThere == stage = "running" /\ (api = "opencl" \/ done > 0) => Inputs(mem)
InputsStaged == stage = "running" /\ api = "vulkan" /\ done = 0 => Staged(mem)

\* What the kernels before ComputeLpc leave for the next.
ShiftedFor(m, f) == ShiftedBlock(m, args, FirstTask(m, args, f)) = OwnSamples(f)
CellsOf(x) ==
  \A f \in Frames, w \in 0 .. args.windows - 1 : x[f * args.windows + w + 1] = OwnCell(f, w)
ShiftedDone == After("FindWastedBits") => \A f \in Frames : ShiftedFor(mem, f)
AutocorDone == After("ComputeAutocor") => CellsOf(mem["autocor"])
LpcDone == After("ComputeLpc") => CellsOf(mem["lpc"])

SessionInv ==
  /\ api \in {"opencl", "vulkan"}
  /\ BatchPlanned /\ RefusedWhere
  /\ BuffersKept /\ CacheSound /\ WindowsKept /\ WindowsCurrent
  /\ Progress /\ LongEnough /\ InputsThere /\ InputsStaged
  /\ ShiftedDone /\ AutocorDone /\ LpcDone

LEMMA InitialSession == Init => SessionInv
<1> SUFFICES ASSUME Init PROVE SessionInv  OBVIOUS
<1>1. api \in {"opencl", "vulkan"}  BY SessionAssumption DEF Init
<1>2. stage = "idle"  BY DEF Init
<1>3. BatchPlanned /\ RefusedWhere /\ WindowsCurrent /\ Progress /\ LongEnough
      /\ InputsThere /\ InputsStaged
  BY <1>2 DEF BatchPlanned, RefusedWhere, WindowsCurrent, Progress, LongEnough, InputsThere,
              InputsStaged
<1>4. ShiftedDone /\ AutocorDone /\ LpcDone
  BY <1>2 DEF ShiftedDone, AutocorDone, LpcDone, After
<1>5. BuffersKept /\ CacheSound  BY EmptyMemory DEF Init, BuffersKept, CacheSound
<1>6. WindowsKept
  <2>1. kept["window"] = <<>>  BY DEF Init, NoBuffers, DeviceBuffers
  <2>2. windowCache.cells = <<>>  BY DEF Init, NoWindows
  <2>3. Begins(<<>>, <<>>)  BY DEF Begins
  <2>4. Begins(kept["window"], windowCache.cells)  BY <2>1, <2>2, <2>3
  <2>5. QED  BY <2>4 DEF WindowsKept
<1>7. QED  BY <1>1, <1>3, <1>4, <1>5, <1>6 DEF SessionInv

\* What depends on the batch and its backend only.
LEMMA BatchUnmoved ==
  ASSUME UNCHANGED <<api, call, plan>>
  PROVE  /\ args' = args /\ Program' = Program /\ OwnWindows' = OwnWindows
         /\ WindowNeed' = WindowNeed /\ Frames' = Frames /\ (OwnBuffers' <=> OwnBuffers)
         /\ (IsBatch(call, plan)' <=> IsBatch(call, plan))
         /\ \A n : Needs(n)' = Needs(n)
         /\ \A f : OwnSamples(f)' = OwnSamples(f)
         /\ \A f, w : OwnCell(f, w)' = OwnCell(f, w)
         /\ \A m : (Inputs(m)' <=> Inputs(m)) /\ (Staged(m)' <=> Staged(m))
         /\ \A m, f : ShiftedFor(m, f)' <=> ShiftedFor(m, f)
         /\ \A x : CellsOf(x)' <=> CellsOf(x)
<1>1. api' = api /\ call' = call /\ plan' = plan  OBVIOUS
<1>2. args' = args  BY <1>1 DEF args, ArgumentsOf
<1>3. Program' = Program
  BY <1>1 DEF Program, UploadCommands, GenerationCommands, GuessCommands
<1>4. OwnWindows' = OwnWindows  BY <1>1, <1>2 DEF OwnWindows
<1>5. WindowNeed' = WindowNeed  BY <1>1, <1>2 DEF WindowNeed
<1>6. Frames' = Frames /\ (OwnBuffers' <=> OwnBuffers)  BY <1>1 DEF Frames, OwnBuffers
<1>7. IsBatch(call, plan)' <=> IsBatch(call, plan)  BY <1>1 DEF IsBatch, OptionsOf
<1>8. \A n : Needs(n)' = Needs(n)  BY <1>1, <1>2, Zenon DEF Needs
<1>9. \A f : OwnSamples(f)' = OwnSamples(f)  BY <1>1 DEF OwnSamples, OwnFrame
<1>10. \A f, w : OwnCell(f, w)' = OwnCell(f, w)  BY <1>1, <1>4, <1>9 DEF OwnCell
<1>11. \A m : (Inputs(m)' <=> Inputs(m)) /\ (Staged(m)' <=> Staged(m))
  BY <1>1, <1>4 DEF Inputs, Staged
<1>12. \A m, f : ShiftedFor(m, f)' <=> ShiftedFor(m, f)  BY <1>2, <1>9 DEF ShiftedFor
<1>13. \A x : CellsOf(x)' <=> CellsOf(x)  BY <1>2, <1>6, <1>10 DEF CellsOf
<1>14. QED  BY <1>2, <1>3, <1>4, <1>5, <1>6, <1>7, <1>8, <1>9, <1>10, <1>11, <1>12, <1>13

-----------------------------------------------------------------------------
(* What the commands of a batch make of its inputs.                        *)

LEMMA BeginsFrame ==
  ASSUME NEW x, IsBuffer(x), NEW y, IsBuffer(y), Begins(x, y),
         NEW off \in Nat, NEW size \in Nat, off + size <= Len(y)
  PROVE  FrameOf(x, off, size) = FrameOf(y, off, size)
<1>1. Len(x) \in Nat /\ Len(y) \in Nat /\ Len(y) <= Len(x)  BY DEF IsBuffer, Begins
<1>2. off + size <= Len(x)  BY <1>1
<1>3. FrameOf(x, off, size) = [i \in 1 .. size |-> x[off + i]]  BY <1>2, FrameCells
<1>4. FrameOf(y, off, size) = [i \in 1 .. size |-> y[off + i]]  BY FrameCells
<1>5. ASSUME NEW i \in 1 .. size PROVE x[off + i] = y[off + i]
  <2>1. off + i \in 1 .. Len(y)  BY <1>1
  <2>2. QED  BY <2>1 DEF Begins
<1>6. QED  BY <1>3, <1>4, <1>5

LEMMA CopiedBegins ==
  ASSUME NEW x, IsBuffer(x), NEW y, IsBuffer(y), Begins(x, y), NEW z, IsBuffer(z),
         Len(y) <= Len(z), NEW n, n = Len(y)
  PROVE  Begins(Overwrite(z, SubSeq(x, 1, n)), y)
<1>1. n \in Nat /\ Len(x) \in Nat /\ n <= Len(x)  BY DEF IsBuffer, Begins
<1>2. FrameOf(x, 0, n) = [i \in 1 .. n |-> x[0 + i]]
  <2>1. 0 \in Nat /\ n \in Nat /\ 0 + n <= Len(x)  BY <1>1
  <2>2. QED  BY ONLY <2>1, IsBuffer(x), FrameCells
<1>3. FrameOf(x, 0, n) = SubSeq(x, 1, n)
  <2>1. 0 + 1 = 1 /\ 0 + n = n  BY <1>1
  <2>2. QED  BY <2>1 DEF FrameOf
<1>4. PICK s : s = SubSeq(x, 1, n)  OBVIOUS
<1>5. s = [i \in 1 .. n |-> x[i]]
  <2>1. \A i \in 1 .. n : 0 + i = i  BY <1>1
  <2>2. QED  BY <1>2, <1>3, <1>4, <2>1
<1>6. IsBuffer(s) /\ Len(s) = n
  <2>1. DOMAIN s = 1 .. n  BY <1>5
  <2>2. QED  BY <1>1, <2>1, BufferOf
<1>7. Begins(Overwrite(z, s), s)
  <2>1. Len(s) <= Len(z)  BY <1>6
  <2>2. QED  BY <1>6, <2>1, OverwriteCells
<1>8. \A i \in 1 .. n : s[i] = y[i]  BY <1>5 DEF Begins
<1>9. Begins(Overwrite(z, s), y)  BY <1>6, <1>7, <1>8 DEF Begins
<1>10. QED  BY <1>4, <1>9

LEMMA OwnWindowsTyped ==
  ASSUME IsBatch(call, plan), Generated(call)
  PROVE  /\ IsBuffer(OwnWindows) /\ Len(OwnWindows) = args.windows * call.block
         /\ args.windows \in Nat \ {0} /\ call.block \in Nat \ {0}
<1>1. args.windows \in Nat \ {0} /\ call.block \in Nat \ {0}
  BY ArgumentsTyped, BatchSizes DEF args
<1>2. QED  BY <1>1, WindowsCells DEF OwnWindows

LEMMA WindowNeedTyped ==
  ASSUME IsBatch(call, plan)
  PROVE  WindowNeed \in Nat
<1>1. CASE Generated(call)
  <2>1. PICK k \in Nat, n \in Nat : k = args.windows /\ n = call.block
    BY <1>1, OwnWindowsTyped
  <2>2. k * n \in Nat  OBVIOUS
  <2>3. QED  BY <1>1, <2>1, <2>2 DEF WindowNeed
<1>2. QED  BY <1>1 DEF WindowNeed

\* The shapes of the planned tasks.
LEMMA PlannedShapes ==
  ASSUME IsBatch(call, plan), NEW t \in 1 .. Len(plan.tasks)
  PROVE  DOMAIN plan.tasks[t] = TaskFields
<1>1. IsPlan(plan, OptionsOf(call), call.samples) /\ IsBuffer(plan.tasks)  BY BatchSizes
<1>2. t \in DOMAIN plan.tasks  BY <1>1 DEF IsBuffer
<1>3. PICK f \in 0 .. plan.frames - 1, i \in 1 .. plan.perFrame :
        plan.tasks[t] = TaskOf(plan, f, i)
  BY <1>1, <1>2, TaskPlace
<1>4. PlannedTask(plan.tasks[t], OptionsOf(call), f)  BY <1>1, <1>3, PlanTasks
<1>5. QED  BY <1>4 DEF PlannedTask

\* The sizes of memory the kernels rely on.
Fits(m) == Memory(m) /\ \A b \in Buffers : Needs(WindowNeed)[b] <= Len(m[b])

LEMMA FitSizes ==
  ASSUME IsBatch(call, plan), NEW m, Fits(m)
  PROVE  /\ \A b \in Buffers : IsBuffer(m[b])
         /\ Len(call.samples) <= Len(m["samples"]) /\ Len(plan.tasks) <= Len(m["tasks"])
         /\ Len(plan.selected) <= Len(m["selected"])
         /\ args.shifted => Len(call.samples) <= Len(m["shifted"])
         /\ Generated(call) => args.windows * call.block <= Len(m["window"])
         /\ plan.frames * args.windows <= Len(m["autocor"])
         /\ plan.frames * args.windows <= Len(m["lpc"])
         /\ plan.frames <= Len(m["best"]) /\ plan.frames <= Len(m["bestRice"])
         /\ plan.frames <= Len(m["bestDown"]) /\ plan.frames <= Len(m["riceDown"])
         /\ api = "vulkan" => plan.frames + Len(plan.tasks) <= Len(m["bestRice"])
         /\ api # "vulkan" => Len(plan.tasks) <= Len(m["taskRice"])
<1>1. {"samples", "tasks", "selected", "shifted", "window", "autocor", "lpc", "best",
       "bestRice", "bestDown", "riceDown", "taskRice"} \subseteq Buffers
  BY DEF Buffers, DeviceBuffers, HostBuffers
<1>2. PICK N : N = Needs(WindowNeed)  OBVIOUS
<1>3. \A b \in Buffers : N[b] <= Len(m[b]) /\ IsBuffer(m[b])  BY <1>2 DEF Fits, Memory
<1>4. /\ N["samples"] = Len(call.samples) /\ N["tasks"] = Len(plan.tasks)
      /\ N["selected"] = Len(plan.selected) /\ N["window"] = WindowNeed
      /\ N["shifted"] = (IF args.shifted THEN Len(call.samples) ELSE 0)
      /\ N["autocor"] = plan.frames * args.windows /\ N["lpc"] = plan.frames * args.windows
      /\ N["best"] = plan.frames /\ N["bestDown"] = plan.frames /\ N["riceDown"] = plan.frames
      /\ N["bestRice"] = (IF api = "vulkan" THEN plan.frames + Len(plan.tasks) ELSE plan.frames)
      /\ N["taskRice"] = (IF api = "vulkan" THEN 0 ELSE Len(plan.tasks))
  BY <1>2 DEF Needs
<1>5. plan.frames \in Nat /\ Len(plan.tasks) \in Nat /\ Len(m["bestRice"]) \in Nat
  BY <1>1, <1>3, BatchSizes DEF IsBuffer
<1>6. Generated(call) => WindowNeed = args.windows * call.block  BY DEF WindowNeed
<1>7. plan.frames <= Len(m["bestRice"])
  <2>1. N["bestRice"] <= Len(m["bestRice"])  BY <1>1, <1>3
  <2>2. QED  BY <1>4, <1>5, <2>1
<1>8. QED  BY <1>1, <1>3, <1>4, <1>6, <1>7

LEMMA FitsShape ==
  ASSUME NEW m, Fits(m), NEW n, SameShape(m, n)
  PROVE  Fits(n)
BY DEF Fits, SameShape

LEMMA KeepsInputs ==
  ASSUME IsBatch(call, plan), NEW m, Fits(m), Inputs(m), NEW n, Keeps(m, n)
  PROVE  Inputs(n)
<1>1. Len(plan.tasks) <= Len(m["tasks"]) /\ IsBuffer(m["tasks"]) /\ Len(plan.tasks) \in Nat
  BY FitSizes, BatchSizes DEF IsBuffer, Buffers, DeviceBuffers
<1>2. ASSUME NEW t \in 1 .. Len(plan.tasks) PROVE Shaped(n["tasks"][t], plan.tasks[t])
  <2>1. t \in DOMAIN m["tasks"]  BY <1>1 DEF IsBuffer
  <2>2. Stays(m["tasks"][t], n["tasks"][t])  BY <2>1 DEF Keeps
  <2>3. Shaped(m["tasks"][t], plan.tasks[t])  BY DEF Inputs
  <2>4. QED  BY <2>2, <2>3 DEF Stays, Shaped
<1>3. n["samples"] = m["samples"] /\ n["selected"] = m["selected"] /\ n["window"] = m["window"]
  BY DEF Keeps
<1>4. QED  BY <1>2, <1>3 DEF Inputs

LEMMA CopyGives ==
  ASSUME IsBatch(call, plan), api = "vulkan", NEW m, Fits(m), Staged(m)
  PROVE  /\ SameShape(m, CopyInputs(m)) /\ Inputs(CopyInputs(m))
         /\ Begins(CopyInputs(m)["tasks"], plan.tasks)
<1> DEFINE Copy(from, to, k) == Overwrite(m[to], SubSeq(m[from], 1, k))
<1>1. PICK k : k = IF Generated(call) THEN call.block * args.windows ELSE 1  OBVIOUS
<1>2. PICK x, y, z, w :
        /\ x = Copy("samplesUp", "samples", Len(call.samples))
        /\ y = Copy("tasksUp", "tasks", Len(plan.tasks))
        /\ z = Copy("selectedUp", "selected", Len(plan.selected))
        /\ w = Copy("windowUp", "window", k)
  OBVIOUS
<1>3. CopyInputs(m) = [m EXCEPT !["samples"] = x, !["tasks"] = y, !["selected"] = z,
                                !["window"] = w]
  BY <1>1, <1>2, Zenon DEF CopyInputs
<1>4. /\ "samples" \in Buffers /\ "tasks" \in Buffers /\ "selected" \in Buffers
      /\ "window" \in Buffers /\ "samplesUp" \in Buffers /\ "tasksUp" \in Buffers
      /\ "selectedUp" \in Buffers /\ "windowUp" \in Buffers
  BY DEF Buffers, DeviceBuffers, HostBuffers
<1>5. \A b \in Buffers : IsBuffer(m[b])  BY FitSizes
<1>6. /\ DOMAIN x = DOMAIN m["samples"] /\ DOMAIN y = DOMAIN m["tasks"]
      /\ DOMAIN z = DOMAIN m["selected"] /\ DOMAIN w = DOMAIN m["window"]
  BY <1>2, <1>4, <1>5, OverwriteCells
<1>7. PICK n : n = CopyInputs(m)  OBVIOUS
<1>8. /\ SameShape(m, n)
      /\ n["samples"] = x /\ n["tasks"] = y /\ n["selected"] = z /\ n["window"] = w
  <2>1. DOMAIN m = Buffers  BY DEF Fits, Memory
  <2>2. n = [m EXCEPT !["samples"] = x, !["tasks"] = y, !["selected"] = z, !["window"] = w]
    BY <1>3, <1>7
  <2>3. n["samples"] = x /\ n["tasks"] = y /\ n["selected"] = z /\ n["window"] = w
        /\ DOMAIN n = Buffers
        /\ \A b \in Buffers \ {"samples", "tasks", "selected", "window"} : n[b] = m[b]
    BY ONLY <1>4, <2>1, <2>2
  <2>4. \A b \in Buffers : DOMAIN n[b] = DOMAIN m[b]  BY <1>6, <2>3
  <2>5. SameShape(m, n)  BY <2>3, <2>4, Reshaped DEF Fits
  <2>6. QED  BY <2>3, <2>5
<1>9. IsBuffer(call.samples) /\ IsBuffer(plan.tasks) /\ IsBuffer(plan.selected)
  BY BatchSizes DEF IsSampleBlock
<1>10. /\ Len(call.samples) <= Len(m["samples"]) /\ Len(plan.tasks) <= Len(m["tasks"])
       /\ Len(plan.selected) <= Len(m["selected"])
       /\ Generated(call) => args.windows * call.block <= Len(m["window"])
  BY FitSizes
<1>11. /\ IsBuffer(m["samples"]) /\ IsBuffer(m["tasks"]) /\ IsBuffer(m["selected"])
       /\ IsBuffer(m["window"]) /\ IsBuffer(m["samplesUp"]) /\ IsBuffer(m["tasksUp"])
       /\ IsBuffer(m["selectedUp"]) /\ IsBuffer(m["windowUp"])
  BY <1>4, <1>5
<1>12. Begins(x, call.samples) /\ Begins(y, plan.tasks) /\ Begins(z, plan.selected)
  <2>1. Begins(m["samplesUp"], call.samples) /\ Begins(m["tasksUp"], plan.tasks)
        /\ Begins(m["selectedUp"], plan.selected)
    BY DEF Staged
  <2>2. Begins(Copy("samplesUp", "samples", Len(call.samples)), call.samples)
    BY <1>9, <1>10, <1>11, <2>1, CopiedBegins
  <2>3. Begins(Copy("tasksUp", "tasks", Len(plan.tasks)), plan.tasks)
    BY <1>9, <1>10, <1>11, <2>1, CopiedBegins
  <2>4. Begins(Copy("selectedUp", "selected", Len(plan.selected)), plan.selected)
    BY <1>9, <1>10, <1>11, <2>1, CopiedBegins
  <2>5. QED  BY <1>2, <2>2, <2>3, <2>4
<1>13. ASSUME Generated(call) PROVE Begins(w, OwnWindows)
  <2>1. /\ IsBuffer(OwnWindows) /\ Len(OwnWindows) = args.windows * call.block
        /\ args.windows \in Nat \ {0} /\ call.block \in Nat \ {0}
    BY <1>13, OwnWindowsTyped
  <2>2. k = Len(OwnWindows)
    <3>1. PICK a \in Nat, b \in Nat : a = args.windows /\ b = call.block  BY <2>1
    <3>2. a * b = b * a  OBVIOUS
    <3>3. QED  BY <1>1, <1>13, <2>1, <3>1, <3>2
  <2>3. Begins(m["windowUp"], OwnWindows) /\ Len(OwnWindows) <= Len(m["window"])
    BY <1>10, <1>13, <2>1 DEF Staged
  <2>4. Begins(Copy("windowUp", "window", k), OwnWindows)
    BY <1>11, <2>1, <2>2, <2>3, CopiedBegins
  <2>5. QED  BY <1>2, <2>4
<1>14. ASSUME NEW t \in 1 .. Len(plan.tasks) PROVE Shaped(y[t], plan.tasks[t])
  <2>1. y[t] = plan.tasks[t]  BY <1>12 DEF Begins
  <2>2. DOMAIN plan.tasks[t] = TaskFields  BY PlannedShapes
  <2>3. QED  BY <2>1, <2>2 DEF Shaped
<1>15. Inputs(n)  BY <1>8, <1>12, <1>13, <1>14 DEF Inputs
<1>16. Begins(n["tasks"], plan.tasks)  BY <1>8, <1>12
<1>17. QED  BY <1>7, <1>8, <1>15, <1>16

\* The first task of a frame, and the samples it points to.
LEMMA FrameInputs ==
  ASSUME IsBatch(call, plan), NEW m, Fits(m), Inputs(m), NEW f \in Frames
  PROVE  /\ FirstTask(m, args, f).offset = f * call.block
         /\ FirstTask(m, args, f).block = call.block
         /\ DOMAIN FirstTask(m, args, f) = TaskFields
         /\ OriginalFrame(m, FirstTask(m, args, f)) = OwnFrame(f)
         /\ DOMAIN OwnFrame(f) = 1 .. call.block
         /\ f * plan.perFrame + 1 \in 1 .. plan.frames * plan.perFrame
         /\ f * plan.perFrame + 1 \in DOMAIN m["tasks"]
         /\ ((f * plan.perFrame + 1) - 1) \div plan.perFrame = f
<1>1. /\ IsPlan(plan, OptionsOf(call), call.samples) /\ OptionsOf(call).frameSamples = call.block
      /\ call.block \in Nat \ {0} /\ plan.frames \in Nat \ {0} /\ plan.perFrame \in Nat \ {0}
      /\ IsSampleBlock(call.samples) /\ Len(plan.tasks) = plan.frames * plan.perFrame
      /\ plan.frames * plan.perFrame \in Nat
  BY BatchSizes
<1>2. f \in 0 .. plan.frames - 1 /\ 1 \in 1 .. plan.perFrame  BY <1>1 DEF Frames
<1>3. f * plan.perFrame + 1 \in 1 .. Len(plan.tasks)
      /\ plan.tasks[f * plan.perFrame + 1].offset = f * call.block
      /\ plan.tasks[f * plan.perFrame + 1].block = call.block
  BY <1>2, BatchTasks
<1>4. FirstTask(m, args, f) = m["tasks"][f * plan.perFrame + 1]
  <2>1. args.perFrame = plan.perFrame  BY ArgumentsTyped DEF args
  <2>2. QED  BY <2>1 DEF FirstTask
<1>5. Shaped(m["tasks"][f * plan.perFrame + 1], plan.tasks[f * plan.perFrame + 1])
  BY <1>3 DEF Inputs
<1>6. f * call.block \in Nat /\ f * call.block + call.block <= Len(call.samples)
  BY <1>1, <1>2, TaskStart
<1>7. OwnFrame(f) = FrameOf(call.samples, f * call.block, call.block)  BY DEF OwnFrame
<1>8. DOMAIN OwnFrame(f) = 1 .. call.block
  <2>0. PICK x : x = call.samples  OBVIOUS
  <2>1. PICK n \in Nat \ {0}, k \in Nat : n = call.block /\ k = f * call.block
    BY <1>1, <1>6
  <2>2. IsSampleBlock(x) /\ k + n <= Len(x)  BY <1>1, <1>6, <2>0, <2>1
  <2>3. DOMAIN FrameOf(x, k, n) = 1 .. n  BY <2>2, FrameBlock
  <2>4. QED  BY <1>7, <2>0, <2>1, <2>3
<1>9. FrameOf(m["samples"], f * call.block, call.block) = OwnFrame(f)
  <2>1. IsBuffer(m["samples"]) /\ IsBuffer(call.samples)
    BY <1>1, FitSizes DEF Buffers, DeviceBuffers, IsSampleBlock
  <2>2. Begins(m["samples"], call.samples)  BY DEF Inputs
  <2>3. QED  BY <1>1, <1>6, <1>7, <2>1, <2>2, BeginsFrame
<1>10. OriginalFrame(m, FirstTask(m, args, f)) = OwnFrame(f)
  BY <1>3, <1>4, <1>5, <1>9 DEF OriginalFrame, Shaped
<1>11. f * plan.perFrame + 1 \in DOMAIN m["tasks"]
  <2>1. IsBuffer(m["tasks"]) /\ Len(plan.tasks) <= Len(m["tasks"])
    BY FitSizes DEF Buffers, DeviceBuffers
  <2>2. QED  BY <1>1, <1>3, <2>1 DEF IsBuffer
<1>12. ((f * plan.perFrame + 1) - 1) \div plan.perFrame = f
  <2>1. PICK n \in Nat \ {0} : n = plan.perFrame  BY <1>1
  <2>2. f * n + 0 + 1 = f * n + 1 /\ 0 \in 0 .. n - 1  BY <1>1, <1>2
  <2>3. ((f * n + 0 + 1) - 1) \div n = f
    <3>1. plan.frames \in Nat /\ f \in 0 .. plan.frames - 1  BY <1>1, <1>2
    <3>2. QED  BY ONLY <2>2, <3>1, CellRow
  <2>4. QED  BY <2>1, <2>2, <2>3
<1>13. QED  BY <1>1, <1>3, <1>4, <1>5, <1>8, <1>10, <1>11, <1>12 DEF Shaped

\* What FindWastedBits writes.
WastedTasks(m, a) ==
  [t \in DOMAIN m["tasks"] |->
     IF t > a.frames * a.perFrame THEN m["tasks"][t]
     ELSE MarkWasted(m["tasks"][t], OriginalFrame(m,
            FirstTask(m, a, (t - 1) \div a.perFrame)))]
WastedShifted(m, a) ==
  IF a.shifted THEN Overwrite(m["shifted"], ShiftedFrames(m, a)) ELSE m["shifted"]

LEMMA FindWastedCells ==
  ASSUME NEW m, Memory(m), NEW a
  PROVE  /\ FindWastedBits(m, a)["tasks"] = WastedTasks(m, a)
         /\ FindWastedBits(m, a)["shifted"] = WastedShifted(m, a)
         /\ FindWastedBits(m, a)["samples"] = m["samples"]
<1>1. PICK x, y : x = WastedTasks(m, a) /\ y = WastedShifted(m, a)  OBVIOUS
<1>2. FindWastedBits(m, a) = [m EXCEPT !.tasks = WastedTasks(m, a), !.shifted = WastedShifted(m, a)]
  BY Zenon DEF FindWastedBits, WastedTasks, WastedShifted
<1>3. FindWastedBits(m, a) = [m EXCEPT !.tasks = x, !.shifted = y]  BY <1>1, <1>2, Zenon
<1>4. {"tasks", "shifted", "samples"} \subseteq DOMAIN m
  BY DEF Memory, Buffers, DeviceBuffers
<1>5. QED  BY ONLY <1>1, <1>3, <1>4

LEMMA MarkedTask ==
  ASSUME NEW t, DOMAIN t = TaskFields, NEW x
  PROVE  /\ MarkWasted(t, x).wbits = WastedBitsOf(x)
         /\ MarkWasted(t, x).offset = t.offset /\ MarkWasted(t, x).block = t.block
<1>1. PICK a, b : a = WastedBitsOf(x) /\ b = ActiveBits(x, a)  OBVIOUS
<1>2. MarkWasted(t, x) = [t EXCEPT !.wbits = a, !.abits = b]
  BY <1>1, Zenon DEF MarkWasted
<1>3. {"wbits", "abits", "offset", "block"} \subseteq DOMAIN t  BY DEF TaskFields
<1>4. QED  BY ONLY <1>1, <1>2, <1>3

LEMMA ShiftedRows ==
  ASSUME IsBatch(call, plan), NEW m, Fits(m), Inputs(m)
  PROVE  LET z == ShiftedFrames(m, args)
         IN  /\ IsBuffer(z) /\ Len(z) = Len(call.samples)
             /\ \A f \in Frames : FrameOf(z, f * call.block, call.block) = OwnSamples(f)
<1> DEFINE s == [g \in 1 .. args.frames |->
                   ShiftSamples(OriginalFrame(m, FirstTask(m, args, g - 1)),
                     WastedBitsOf(OriginalFrame(m, FirstTask(m, args, g - 1))))]
           z == ShiftedFrames(m, args)
<1>1. /\ args.frames = plan.frames /\ plan.frames \in Nat \ {0} /\ call.block \in Nat \ {0}
      /\ plan.frames * call.block = Len(call.samples)
  BY ArgumentsTyped, BatchSizes DEF args
<1>2. PICK n \in Nat \ {0}, k \in Nat \ {0} : n = plan.frames /\ k = call.block  BY <1>1
<1>3. ASSUME NEW g \in 1 .. n PROVE s[g] = OwnSamples(g - 1) /\ IsBuffer(s[g]) /\ Len(s[g]) = k
  <2>1. g - 1 \in Frames  BY <1>2 DEF Frames
  <2>2. OriginalFrame(m, FirstTask(m, args, g - 1)) = OwnFrame(g - 1)
        /\ DOMAIN OwnFrame(g - 1) = 1 .. k
    BY <1>2, <2>1, FrameInputs
  <2>3. s[g] = ShiftSamples(OriginalFrame(m, FirstTask(m, args, g - 1)),
                 WastedBitsOf(OriginalFrame(m, FirstTask(m, args, g - 1))))
    BY <1>1, <1>2
  <2> HIDE DEF s
  <2>4. s[g] = OwnSamples(g - 1)  BY <2>2, <2>3 DEF OwnSamples
  <2>5. DOMAIN s[g] = 1 .. k  BY <2>2, <2>4 DEF OwnSamples, ShiftSamples
  <2>6. QED  BY <2>4, <2>5, BufferOf
<1>4. Len(s) = n
  <2>1. DOMAIN s = 1 .. n  BY <1>1, <1>2
  <2> HIDE DEF s
  <2>2. QED  BY <2>1, BufferOf
<1>5. z = FlattenSeq(s)  BY Zenon DEF ShiftedFrames
<1> HIDE DEF s, z
<1>6. Rows(z, s, n, k)  BY <1>3, <1>4, <1>5, FlattenCells
<1>7. ASSUME NEW f \in Frames PROVE FrameOf(z, f * k, k) = OwnSamples(f)
  <2>1. f \in 0 .. n - 1 /\ f + 1 \in 1 .. n /\ (f + 1) - 1 = f  BY <1>2 DEF Frames
  <2>2. f * k \in Nat /\ f * k + k <= n * k  BY ONLY <2>1, FramePlace, n \in Nat \ {0}, k \in Nat \ {0}
  <2>3. FrameOf(z, f * k, k) = [j \in 1 .. k |-> z[f * k + j]]
    <3>1. IsBuffer(z) /\ Len(z) = n * k  BY <1>6 DEF Rows
    <3>2. PICK off \in Nat : off = f * k  BY <2>2
    <3>3. off + k <= Len(z) /\ k \in Nat  BY <2>2, <3>1, <3>2
    <3>4. FrameOf(z, off, k) = [j \in 1 .. k |-> z[off + j]]  BY <3>1, <3>3, FrameCells
    <3>5. QED  BY <3>2, <3>4
  <2>4. s[f + 1] = OwnSamples(f) /\ IsBuffer(s[f + 1]) /\ Len(s[f + 1]) = k
    BY <1>3, <2>1
  <2>5. ASSUME NEW j \in 1 .. k PROVE z[f * k + j] = OwnSamples(f)[j]
    <3>1. z[((f + 1) - 1) * k + j] = s[f + 1][j]  BY <1>6, <2>1 DEF Rows
    <3>2. QED  BY <2>1, <2>4, <3>1
  <2>6. OwnSamples(f) = [j \in 1 .. k |-> OwnSamples(f)[j]]
    <3>1. DOMAIN OwnFrame(f) = 1 .. k  BY <1>2, FrameInputs
    <3>2. QED  BY <3>1 DEF OwnSamples, ShiftSamples
  <2>7. QED  BY <2>3, <2>5, <2>6
<1>8. IsBuffer(z) /\ Len(z) = Len(call.samples)  BY <1>1, <1>2, <1>6 DEF Rows
<1>9. QED  BY <1>2, <1>7, <1>8 DEF z

\* After FindWastedBits every frame's kernels see its own samples, shifted.
LEMMA WastedGives ==
  ASSUME IsBatch(call, plan), NEW m, Fits(m), Inputs(m), NEW f \in Frames
  PROVE  ShiftedFor(FindWastedBits(m, args), f)
<1> DEFINE n == FindWastedBits(m, args)
           t == f * plan.perFrame + 1
<1>1. n["tasks"] = WastedTasks(m, args) /\ n["shifted"] = WastedShifted(m, args)
      /\ n["samples"] = m["samples"]
  BY FindWastedCells DEF Fits
<1>2. args.frames = plan.frames /\ args.perFrame = plan.perFrame
  BY ArgumentsTyped DEF args
<1>3. /\ FirstTask(m, args, f).offset = f * call.block
      /\ FirstTask(m, args, f).block = call.block
      /\ DOMAIN FirstTask(m, args, f) = TaskFields
      /\ OriginalFrame(m, FirstTask(m, args, f)) = OwnFrame(f)
      /\ t \in 1 .. plan.frames * plan.perFrame /\ t \in DOMAIN m["tasks"]
      /\ (t - 1) \div plan.perFrame = f
  BY FrameInputs
<1>4. FirstTask(m, args, f) = m["tasks"][t] /\ FirstTask(n, args, f) = n["tasks"][t]
  BY <1>2 DEF FirstTask
<1> HIDE DEF n, t
<1>5. plan.frames * plan.perFrame \in Nat  BY BatchSizes
<1>6. n["tasks"][t] = MarkWasted(m["tasks"][t], OwnFrame(f))
  <2>1. ~(t > args.frames * args.perFrame)  BY <1>2, <1>3, <1>5
  <2>2. WastedTasks(m, args)[t] =
          MarkWasted(m["tasks"][t], OriginalFrame(m, FirstTask(m, args, (t - 1) \div args.perFrame)))
    BY <1>3, <2>1 DEF WastedTasks
  <2>3. QED  BY <1>1, <1>2, <1>3, <2>2
<1>7. PICK u : u = n["tasks"][t]  OBVIOUS
<1>8. u.wbits = WastedBitsOf(OwnFrame(f)) /\ u.offset = f * call.block /\ u.block = call.block
  BY <1>3, <1>4, <1>6, <1>7, MarkedTask
<1>9. CASE ~args.shifted
  <2>1. ShiftedBlock(n, args, u) = ShiftSamples(OriginalFrame(n, u), u.wbits)
    BY <1>9 DEF ShiftedBlock
  <2>2. OriginalFrame(n, u) = OwnFrame(f)
    BY <1>1, <1>3, <1>8 DEF OriginalFrame
  <2>3. QED  BY <1>4, <1>7, <1>8, <2>1, <2>2 DEF ShiftedFor, OwnSamples, n
<1>10. CASE args.shifted
  <2>1. ShiftedBlock(n, args, u) = FrameOf(n["shifted"], f * call.block, call.block)
    BY <1>8, <1>10 DEF ShiftedBlock
  <2>2. PICK z : z = ShiftedFrames(m, args)  OBVIOUS
  <2>3. IsBuffer(z) /\ Len(z) = Len(call.samples)
        /\ FrameOf(z, f * call.block, call.block) = OwnSamples(f)
    BY <2>2, ShiftedRows
  <2>4. IsBuffer(m["shifted"]) /\ Len(call.samples) <= Len(m["shifted"])
    BY <1>10, FitSizes DEF Buffers, DeviceBuffers
  <2>5. PICK x : x = n["shifted"]  OBVIOUS
  <2>6. x = Overwrite(m["shifted"], z)  BY <1>1, <1>10, <2>2, <2>5 DEF WastedShifted
  <2>7. IsBuffer(x) /\ Begins(x, z)  BY <2>3, <2>4, <2>6, OverwriteCells
  <2>8. f * call.block \in Nat /\ call.block \in Nat
        /\ f * call.block + call.block <= Len(z)
    <3>1. f \in 0 .. plan.frames - 1  BY DEF Frames
    <3>2. IsPlan(plan, OptionsOf(call), call.samples) /\ OptionsOf(call).frameSamples = call.block
          /\ call.block \in Nat
      BY BatchSizes
    <3>3. QED  BY <2>3, <3>1, <3>2, TaskStart
  <2>9. PICK k \in Nat, b \in Nat : k = f * call.block /\ b = call.block  BY <2>8
  <2>10. FrameOf(x, k, b) = FrameOf(z, k, b)  BY <2>3, <2>7, <2>8, <2>9, BeginsFrame
  <2>11. ShiftedBlock(n, args, u) = OwnSamples(f)  BY <2>1, <2>3, <2>5, <2>9, <2>10
  <2>12. QED  BY <1>4, <1>7, <2>11 DEF ShiftedFor, n
<1>11. QED  BY <1>9, <1>10

LEMMA CellsWritten ==
  ASSUME NEW N \in Nat, NEW x, DOMAIN x = 1 .. N, NEW y, IsBuffer(y), N <= Len(y),
         NEW c \in 1 .. N
  PROVE  Overwrite(y, x)[c] = x[c]
<1>1. IsBuffer(x) /\ Len(x) = N  BY BufferOf
<1>2. Begins(Overwrite(y, x), x)  BY <1>1, OverwriteCells
<1>3. QED  BY <1>1, <1>2 DEF Begins

LEMMA AutocorGives ==
  ASSUME IsBatch(call, plan), Generated(call), NEW m, Fits(m), Inputs(m),
         \A f \in Frames : ShiftedFor(m, f)
  PROVE  CellsOf(ComputeAutocor(m, args)["autocor"])
<1>1. PICK n \in Nat \ {0}, k \in Nat \ {0}, b \in Nat \ {0} :
        n = plan.frames /\ k = args.windows /\ b = call.block
  BY OwnWindowsTyped, BatchSizes
<1>2. args.frames = n  BY <1>1, ArgumentsTyped DEF args
<1>3. PICK x, y, z : x = AutocorCells(m, args) /\ y = m["autocor"]
                     /\ z = ComputeAutocor(m, args)["autocor"]
  OBVIOUS
<1>4. z = Overwrite(y, x)  BY <1>3, AutocorKeeps DEF Fits
<1>5. IsBuffer(y) /\ n * k <= Len(y)
  BY <1>1, <1>3, FitSizes DEF Buffers, DeviceBuffers
<1>6. /\ DOMAIN x = 1 .. n * k
      /\ \A c \in 1 .. n * k : x[c] = AutocorCell(m, args, (c - 1) \div k, (c - 1) % k)
  BY <1>1, <1>2, <1>3 DEF AutocorCells
<1>7. ASSUME NEW f \in 0 .. n - 1, NEW w \in 0 .. k - 1
      PROVE  z[f * k + w + 1] = OwnCell(f, w)
  <2>0. PICK c, N : c = f * k + w + 1 /\ N = n * k  OBVIOUS
  <2>1. c \in 1 .. N /\ (c - 1) \div k = f /\ (c - 1) % k = w /\ Overwrite(y, x)[c] = x[c]
    <3>1. n \in Nat /\ k \in Nat \ {0} /\ f \in 0 .. n - 1 /\ w \in 0 .. k - 1  OBVIOUS
    <3>2. /\ f * k + w + 1 \in 1 .. n * k
          /\ ((f * k + w + 1) - 1) \div k = f /\ ((f * k + w + 1) - 1) % k = w
      BY ONLY <3>1, CellRow
    <3>3. n * k \in Nat  OBVIOUS
    <3>4. c \in 1 .. N /\ (c - 1) \div k = f /\ (c - 1) % k = w /\ N \in Nat
      BY ONLY <2>0, <3>2, <3>3
    <3>5. IsBuffer(y) /\ N <= Len(y) /\ DOMAIN x = 1 .. N  BY <1>5, <1>6, <2>0
    <3>6. Overwrite(y, x)[c] = x[c]  BY ONLY <3>4, <3>5, CellsWritten
    <3>7. QED  BY <3>4, <3>6
  <2>2. z[f * k + w + 1] = AutocorCell(m, args, f, w)
    <3>1. z[c] = x[c]  BY <1>4, <2>1
    <3>2. x[c] = AutocorCell(m, args, (c - 1) \div k, (c - 1) % k)  BY <1>6, <2>0, <2>1
    <3>3. QED  BY <2>0, <2>1, <3>1, <3>2
  <2>3. f \in Frames  BY <1>1 DEF Frames
  <2>4. ShiftedBlock(m, args, FirstTask(m, args, f)) = OwnSamples(f)
    BY <2>3 DEF ShiftedFor
  <2>5. FirstTask(m, args, f).block = b  BY <1>1, <2>3, FrameInputs
  <2>6. FrameOf(m["window"], w * b, b) = FrameOf(OwnWindows, w * b, b)
    <3>1. IsBuffer(m["window"]) /\ IsBuffer(OwnWindows) /\ Len(OwnWindows) = k * b
          /\ Begins(m["window"], OwnWindows)
      BY <1>1, FitSizes, OwnWindowsTyped DEF Inputs, Buffers, DeviceBuffers
    <3>2. w * b \in Nat /\ w * b + b <= k * b  BY FramePlace
    <3>3. PICK off \in Nat : off = w * b  BY <3>2
    <3>4. off + b <= Len(OwnWindows)  BY <3>1, <3>2, <3>3
    <3>5. PICK p, q : p = m["window"] /\ q = OwnWindows  OBVIOUS
    <3>6. FrameOf(p, off, b) = FrameOf(q, off, b)  BY <3>1, <3>4, <3>5, BeginsFrame
    <3>7. QED  BY <3>3, <3>5, <3>6
  <2>7. AutocorCell(m, args, f, w) =
          [samples |-> OwnSamples(f), window |-> FrameOf(OwnWindows, w * b, b)]
    <3>1. AutocorCell(m, args, f, w) =
            [samples |-> ShiftedBlock(m, args, FirstTask(m, args, f)),
             window |-> FrameOf(m["window"], w * FirstTask(m, args, f).block,
                                FirstTask(m, args, f).block)]
      BY Zenon DEF AutocorCell
    <3>2. QED  BY <2>4, <2>5, <2>6, <3>1
  <2>8. QED  BY <1>1, <2>2, <2>7 DEF OwnCell
<1>8. CellsOf(z)  BY <1>1, <1>7 DEF CellsOf, Frames
<1>9. QED  BY <1>3, <1>8

LEMMA LpcGives ==
  ASSUME IsBatch(call, plan), Generated(call), NEW m, Fits(m), CellsOf(m["autocor"])
  PROVE  CellsOf(ComputeLpc(m, args)["lpc"])
<1>1. PICK n \in Nat \ {0}, k \in Nat \ {0} : n = plan.frames /\ k = args.windows
  BY OwnWindowsTyped, BatchSizes
<1>2. args.frames = n  BY <1>1, ArgumentsTyped DEF args
<1>3. PICK x, y, z : x = LpcCells(m, args) /\ y = m["lpc"] /\ z = ComputeLpc(m, args)["lpc"]
  OBVIOUS
<1>4. z = Overwrite(y, x)  BY <1>3, LpcKeeps DEF Fits
<1>5. IsBuffer(y) /\ n * k <= Len(y)
  BY <1>1, <1>3, FitSizes DEF Buffers, DeviceBuffers
<1>6. /\ DOMAIN x = 1 .. n * k
      /\ \A c \in 1 .. n * k :
           x[c] = m["autocor"][((c - 1) \div k) * k + ((c - 1) % k) + 1]
  BY <1>1, <1>2, <1>3 DEF LpcCells
<1>7. ASSUME NEW f \in 0 .. n - 1, NEW w \in 0 .. k - 1
      PROVE  z[f * k + w + 1] = OwnCell(f, w)
  <2>0. PICK c, N : c = f * k + w + 1 /\ N = n * k  OBVIOUS
  <2>1. c \in 1 .. N /\ (c - 1) \div k = f /\ (c - 1) % k = w /\ Overwrite(y, x)[c] = x[c]
    <3>1. n \in Nat /\ k \in Nat \ {0} /\ f \in 0 .. n - 1 /\ w \in 0 .. k - 1  OBVIOUS
    <3>2. /\ f * k + w + 1 \in 1 .. n * k
          /\ ((f * k + w + 1) - 1) \div k = f /\ ((f * k + w + 1) - 1) % k = w
      BY ONLY <3>1, CellRow
    <3>3. n * k \in Nat  OBVIOUS
    <3>4. c \in 1 .. N /\ (c - 1) \div k = f /\ (c - 1) % k = w /\ N \in Nat
      BY ONLY <2>0, <3>2, <3>3
    <3>5. IsBuffer(y) /\ N <= Len(y) /\ DOMAIN x = 1 .. N  BY <1>5, <1>6, <2>0
    <3>6. Overwrite(y, x)[c] = x[c]  BY ONLY <3>4, <3>5, CellsWritten
    <3>7. QED  BY <3>4, <3>6
  <2>2. z[f * k + w + 1] = m["autocor"][f * k + w + 1]
    <3>1. z[c] = x[c]  BY <1>4, <2>1
    <3>2. x[c] = m["autocor"][((c - 1) \div k) * k + ((c - 1) % k) + 1]  BY <1>6, <2>0, <2>1
    <3>3. QED  BY <2>0, <2>1, <3>1, <3>2
  <2>3. m["autocor"][f * k + w + 1] = OwnCell(f, w)  BY <1>1 DEF CellsOf, Frames
  <2>4. QED  BY <2>2, <2>3
<1>8. CellsOf(z)  BY <1>1, <1>7 DEF CellsOf, Frames
<1>9. QED  BY <1>3, <1>8

-----------------------------------------------------------------------------
(* The invariant, action by action.                                        *)

\* A plan that dropped the LPC tasks does not pass for one that has them.
LEMMA PlannedInFull ==
  ASSUME NEW c \in Calls, NEW p, p = BuildPlan(OptionsOf(c), c.samples), ValidInputs(c, p)
  PROVE  OptionsOf(c).maxLpcOrder = c.lpc
<1> SUFFICES ASSUME OptionsOf(c).maxLpcOrder # c.lpc PROVE FALSE  OBVIOUS
<1> DEFINE o == OptionsOf(c)
<1>1. IsPlan(p, o, c.samples) /\ c.lpc \in Nat  BY LegalPlanned, OptionsLegal
<1>2. o.maxLpcOrder = 0  BY DEF OptionsOf
<1>3. Generated(c)  BY <1>1, <1>2 DEF Generated
<1> HIDE DEF o
<1>4. 0 \in 0 .. p.frames - 1  BY <1>1, PlanPlaces
<1>5. LpcPrefix(p, 0) = 0
  <2>1. LpcPrefix(p, 0) = LpcTaskCount(o)  BY <1>1, <1>4, PlanShape
  <2>2. LpcTaskCount(o) = 0  BY <1>1, <1>2, LpcCount DEF IsPlan
  <2>3. QED  BY <2>1, <2>2
<1>6. PrefixShape(p, 0).lpcTasks = 0  BY <1>5 DEF PrefixShape
<1>7. ValidShape(p, 0, PrefixShape(p, 0))
  BY <1>3, <1>4 DEF ValidInputs, ValidGeneratedPlan
<1>8. QED  BY <1>6, <1>7 DEF ValidShape

LEMMA BeginStep == SessionInv /\ Begin => SessionInv'
<1> SUFFICES ASSUME SessionInv, Begin PROVE SessionInv'  OBVIOUS
<1>1. PICK c \in Calls :
        /\ call' = c
        /\ plan' = IF ValidOptions(OptionsOf(c)) THEN BuildPlan(OptionsOf(c), c.samples) ELSE <<>>
        /\ stage' = IF ValidOptions(OptionsOf(c)) /\ ValidInputs(c, plan')
                    THEN "planned" ELSE "refused"
  BY DEF Begin
<1>2. stage \in {"idle", "returned"} /\ api' = api
      /\ kept' = kept /\ mem' = mem /\ windowCache' = windowCache
      /\ submitted' = 0 /\ done' = 0
  BY DEF Begin
<1>3. OptionsOf(c)' = OptionsOf(c)  BY <1>2 DEF OptionsOf
<1>4. PICK p : p = BuildPlan(OptionsOf(c), c.samples)  OBVIOUS
<1>5. ValidOptions(OptionsOf(c))  BY <1>4, LegalPlanned
<1>6. plan' = p /\ stage' \in {"planned", "refused"}
      /\ (stage' = "planned" <=> ValidInputs(c, p))
  BY <1>1, <1>4, <1>5
<1>7. BatchPlanned'
  <2>1. ASSUME stage' = "planned" PROVE IsBatch(call, plan)'
    <3>1. OptionsOf(c).maxLpcOrder = c.lpc  BY <1>4, <1>6, <2>1, PlannedInFull
    <3>2. QED  BY <1>1, <1>2, <1>4, <1>6, <3>1 DEF IsBatch, OptionsOf
  <2>2. QED  BY <1>6, <2>1 DEF BatchPlanned
<1>8. RefusedWhere'
  <2>1. ASSUME stage' = "refused"
        PROVE  call' \in Calls /\ ~ValidInputs(call, BuildPlan(OptionsOf(call), call.samples))'
    <3>1. ~ValidInputs(c, BuildPlan(OptionsOf(c), c.samples))  BY <1>4, <1>6, <2>1
    <3>2. QED  BY <1>1, <1>2, <3>1 DEF ValidInputs, OptionsOf
  <2>2. QED  BY <2>1 DEF RefusedWhere
<1>9. stage' # "running" /\ stage' # "idle" /\ stage' # "returned"  BY <1>6
<1>10. WindowsCurrent' /\ Progress' /\ LongEnough' /\ InputsThere' /\ InputsStaged'
       /\ ShiftedDone' /\ AutocorDone' /\ LpcDone'
  BY <1>2, <1>9 DEF WindowsCurrent, Progress, LongEnough, InputsThere, InputsStaged, ShiftedDone,
              AutocorDone, LpcDone, After
<1>11. BuffersKept' /\ CacheSound'  BY <1>2 DEF SessionInv, BuffersKept, CacheSound
<1>12. WindowsKept'  BY <1>2, <1>9 DEF SessionInv, WindowsKept
<1>13. QED  BY <1>2, <1>7, <1>8, <1>10, <1>11, <1>12 DEF SessionInv

\* What a batch finds in memory when its inputs have been uploaded.
LEMMA UploadedOpenCl ==
  ASSUME SessionInv, stage = "planned", api = "opencl", UploadOpenCl
  PROVE  /\ Fits(mem') /\ Inputs(mem') /\ Begins(mem'["tasks"], plan.tasks)
         /\ Generated(call) => windowCache' = CachedWindows /\ windowCache'.cells = OwnWindows
         /\ ~Generated(call) => windowCache' = windowCache
<1> DEFINE windows == IF Generated(call) THEN CachedWindows ELSE windowCache
           cells == IF Generated(call) THEN windows.cells ELSE <<>>
           grown == Grown(Starting, Len(cells))
<1>1. IsBatch(call, plan)  BY DEF SessionInv, BatchPlanned
<1>2. windowCache' = windows
      /\ mem' = [grown EXCEPT
                   !.samples = Overwrite(@, call.samples),
                   !.tasks = Overwrite(@, plan.tasks),
                   !.selected = Overwrite(@, plan.selected),
                   !.window = IF Generated(call) /\ WindowUploaded(Starting, windows)
                              THEN Overwrite(@, cells) ELSE @]
  BY Zenon DEF UploadOpenCl
<1>3. ASSUME Generated(call) PROVE windows.cells = OwnWindows
  <2>1. windows = CachedWindows  BY <1>3
  <2>2. CASE WindowMiss  BY <2>1, <2>2 DEF CachedWindows, OwnWindows
  <2>3. CASE ~WindowMiss
    <3>1. windows = windowCache  BY <2>1, <2>3 DEF CachedWindows
    <3>2. windowCache # NoWindows /\ windowCache.block = call.block
          /\ windowCache.count = args.windows /\ windowCache.profile = call.profile
      BY <2>3 DEF WindowMiss
    <3>3. windowCache.cells = Windows(windowCache.count, windowCache.block, windowCache.profile)
      BY <3>2 DEF SessionInv, CacheSound
    <3>4. QED  BY <3>1, <3>2, <3>3 DEF OwnWindows
  <2>4. QED  BY <2>2, <2>3
<1> HIDE DEF windows
<1>4. Len(cells) = WindowNeed /\ WindowNeed \in Nat
  <2>1. CASE Generated(call)
    <3>1. cells = OwnWindows  BY <1>3, <2>1
    <3>2. Len(OwnWindows) = args.windows * call.block  BY <1>1, <2>1, OwnWindowsTyped
    <3>3. QED  BY <1>1, <2>1, <3>1, <3>2, WindowNeedTyped DEF WindowNeed
  <2>2. CASE ~Generated(call)
    <3>1. cells = <<>>  BY <2>2
    <3>2. Len(<<>>) = 0  OBVIOUS
    <3>3. QED  BY <1>1, <2>2, <3>1, <3>2, WindowNeedTyped DEF WindowNeed
  <2>3. QED  BY <2>1, <2>2
<1> HIDE DEF cells
<1>5. Memory(Starting) /\ (~OwnBuffers => Starting["window"] = kept["window"])
  BY StartingBuffers DEF SessionInv, BuffersKept
<1>6. /\ Fits(grown)
      /\ Len(cells) <= Len(Starting["window"]) => grown["window"] = Starting["window"]
  BY <1>1, <1>4, <1>5, GrownFits DEF Fits
<1> HIDE DEF grown
<1>7. PICK x, y, z, w :
        /\ x = Overwrite(grown["samples"], call.samples)
        /\ y = Overwrite(grown["tasks"], plan.tasks)
        /\ z = Overwrite(grown["selected"], plan.selected)
        /\ w = IF Generated(call) /\ WindowUploaded(Starting, windows)
               THEN Overwrite(grown["window"], cells) ELSE grown["window"]
  OBVIOUS
<1>8. mem' = [grown EXCEPT !["samples"] = x, !["tasks"] = y, !["selected"] = z, !["window"] = w]
  BY <1>2, <1>7, Zenon
<1>9. {"samples", "tasks", "selected", "window"} \subseteq Buffers
  BY DEF Buffers, DeviceBuffers
<1>10. /\ IsBuffer(grown["samples"]) /\ IsBuffer(grown["tasks"]) /\ IsBuffer(grown["selected"])
       /\ IsBuffer(grown["window"]) /\ IsBuffer(call.samples) /\ IsBuffer(plan.tasks)
       /\ IsBuffer(plan.selected)
       /\ Len(call.samples) <= Len(grown["samples"]) /\ Len(plan.tasks) <= Len(grown["tasks"])
       /\ Len(plan.selected) <= Len(grown["selected"])
  BY <1>1, <1>6, <1>9, FitSizes, BatchSizes DEF IsSampleBlock
<1>11. /\ DOMAIN x = DOMAIN grown["samples"] /\ DOMAIN y = DOMAIN grown["tasks"]
       /\ DOMAIN z = DOMAIN grown["selected"] /\ DOMAIN w = DOMAIN grown["window"]
  BY <1>7, <1>10, OverwriteCells
<1>12. /\ DOMAIN mem' = Buffers
       /\ mem'["samples"] = x /\ mem'["tasks"] = y /\ mem'["selected"] = z /\ mem'["window"] = w
       /\ \A b \in Buffers \ {"samples", "tasks", "selected", "window"} : mem'[b] = grown[b]
  <2>1. DOMAIN grown = Buffers  BY <1>6 DEF Fits, Memory
  <2>2. QED  BY ONLY <1>8, <1>9, <2>1
<1>13. Fits(mem')
  <2>1. \A b \in Buffers : DOMAIN mem'[b] = DOMAIN grown[b]  BY <1>11, <1>12
  <2>2. PICK n : n = mem'  OBVIOUS
  <2>3. SameShape(grown, n)  BY <1>6, <1>12, <2>1, <2>2, Reshaped DEF Fits
  <2>4. QED  BY <1>6, <2>2, <2>3, FitsShape
<1>14. Begins(x, call.samples) /\ Begins(y, plan.tasks) /\ Begins(z, plan.selected)
  BY <1>7, <1>10, OverwriteCells
<1>15. ASSUME Generated(call) PROVE Begins(w, OwnWindows)
  <2>1. cells = OwnWindows  BY <1>3, <1>15 DEF cells
  <2>2. IsBuffer(cells)  BY <1>1, <1>15, <2>1, OwnWindowsTyped
  <2>3. CASE WindowUploaded(Starting, windows)
    <3>1. w = Overwrite(grown["window"], cells)  BY <1>7, <1>15, <2>3
    <3>2. Len(cells) <= Len(grown["window"])
      <4>1. args.windows * call.block <= Len(grown["window"])
        BY <1>1, <1>6, <1>15, FitSizes
      <4>2. QED  BY <1>4, <1>15, <4>1 DEF WindowNeed
    <3>3. QED  BY <1>10, <2>1, <2>2, <3>1, <3>2, OverwriteCells
  <2>4. CASE ~WindowUploaded(Starting, windows)
    <3>1. ~WindowMiss /\ ~(Len(windows.cells) > Len(Starting["window"]))
      BY <2>4 DEF WindowUploaded
    <3>2. windows = windowCache  BY <1>15, <3>1 DEF windows, CachedWindows
    <3>3. cells = windows.cells  BY <1>15 DEF cells
    <3>4. Starting["window"] = kept["window"]  BY <1>5, <1>15 DEF OwnBuffers
    <3>5. IsBuffer(Starting["window"])  BY <1>5, <1>9 DEF Memory
    <3>6. Len(cells) <= Len(Starting["window"])  BY <1>4, <3>1, <3>3, <3>5 DEF IsBuffer
    <3>7. w = kept["window"]  BY <1>6, <1>7, <2>4, <3>4, <3>6
    <3>8. Begins(kept["window"], windowCache.cells)  BY DEF SessionInv, WindowsKept
    <3>9. QED  BY <2>1, <3>2, <3>3, <3>7, <3>8
  <2>5. QED  BY <2>3, <2>4
<1>16. ASSUME NEW t \in 1 .. Len(plan.tasks) PROVE Shaped(y[t], plan.tasks[t])
  <2>1. y[t] = plan.tasks[t]  BY <1>14 DEF Begins
  <2>2. DOMAIN plan.tasks[t] = TaskFields  BY <1>1, PlannedShapes
  <2>3. QED  BY <2>1, <2>2 DEF Shaped
<1>17. Inputs(mem')  BY <1>12, <1>14, <1>15, <1>16 DEF Inputs
<1>18. /\ Generated(call) => windowCache' = CachedWindows /\ windowCache'.cells = OwnWindows
       /\ ~Generated(call) => windowCache' = windowCache
  BY <1>2, <1>3 DEF windows
<1>19. Begins(mem'["tasks"], plan.tasks)  BY <1>12, <1>14
<1>20. QED  BY <1>13, <1>17, <1>18, <1>19

LEMMA UploadedVulkan ==
  ASSUME SessionInv, stage = "planned", api = "vulkan", UploadVulkan
  PROVE  Fits(mem') /\ Staged(mem') /\ windowCache' = windowCache
<1> DEFINE cells == IF Generated(call) THEN Windows(args.windows, call.block, call.profile)
                                       ELSE DummyWindow
           grown == Grown(Starting, Len(cells))
<1>1. IsBatch(call, plan)  BY DEF SessionInv, BatchPlanned
<1>2. windowCache' = windowCache
      /\ mem' = [grown EXCEPT
                   !.samplesUp = Overwrite(@, call.samples),
                   !.tasksUp = Overwrite(@, plan.tasks),
                   !.selectedUp = Overwrite(@, plan.selected),
                   !.windowUp = Overwrite(@, cells)]
  BY Zenon DEF UploadVulkan
<1>3. Generated(call) => cells = OwnWindows  BY DEF OwnWindows
<1>4. Len(cells) = WindowNeed /\ WindowNeed \in Nat /\ IsBuffer(cells)
  <2>1. CASE Generated(call)
    <3>1. Len(OwnWindows) = args.windows * call.block /\ IsBuffer(OwnWindows)
      BY <1>1, <2>1, OwnWindowsTyped
    <3> HIDE DEF cells
    <3>2. QED  BY <1>1, <1>3, <2>1, <3>1, WindowNeedTyped DEF WindowNeed
  <2>2. CASE ~Generated(call)
    <3>1. cells = DummyWindow  BY <2>2
    <3>2. Len(DummyWindow) = 1 /\ IsBuffer(DummyWindow)  BY DEF DummyWindow, IsBuffer
    <3> HIDE DEF cells
    <3>3. QED  BY <2>2, <3>1, <3>2 DEF WindowNeed
  <2>3. QED  BY <2>1, <2>2
<1> HIDE DEF cells
<1>5. Memory(Starting)  BY StartingBuffers DEF SessionInv, BuffersKept
<1>6. Fits(grown)  BY <1>1, <1>4, <1>5, GrownFits DEF Fits
<1> HIDE DEF grown
<1>7. PICK x, y, z, w :
        /\ x = Overwrite(grown["samplesUp"], call.samples)
        /\ y = Overwrite(grown["tasksUp"], plan.tasks)
        /\ z = Overwrite(grown["selectedUp"], plan.selected)
        /\ w = Overwrite(grown["windowUp"], cells)
  OBVIOUS
<1>8. mem' = [grown EXCEPT !["samplesUp"] = x, !["tasksUp"] = y, !["selectedUp"] = z,
                           !["windowUp"] = w]
  BY <1>2, <1>7, Zenon
<1>9. {"samplesUp", "tasksUp", "selectedUp", "windowUp"} \subseteq Buffers
  BY DEF Buffers, HostBuffers
<1>10. /\ IsBuffer(grown["samplesUp"]) /\ IsBuffer(grown["tasksUp"])
       /\ IsBuffer(grown["selectedUp"]) /\ IsBuffer(grown["windowUp"])
       /\ IsBuffer(call.samples) /\ IsBuffer(plan.tasks) /\ IsBuffer(plan.selected)
  BY <1>1, <1>6, <1>9, FitSizes, BatchSizes DEF IsSampleBlock
<1>11. /\ Len(call.samples) <= Len(grown["samplesUp"]) /\ Len(plan.tasks) <= Len(grown["tasksUp"])
       /\ Len(plan.selected) <= Len(grown["selectedUp"])
       /\ Len(cells) <= Len(grown["windowUp"])
  <2>1. PICK N : N = Needs(WindowNeed)  OBVIOUS
  <2>2. N["samplesUp"] = Len(call.samples) /\ N["tasksUp"] = Len(plan.tasks)
        /\ N["selectedUp"] = Len(plan.selected) /\ N["windowUp"] = WindowNeed
    BY <2>1 DEF Needs
  <2>3. \A b \in Buffers : N[b] <= Len(grown[b])  BY <1>6, <2>1 DEF Fits
  <2>4. QED  BY <1>4, <1>9, <2>2, <2>3
<1>12. /\ DOMAIN x = DOMAIN grown["samplesUp"] /\ DOMAIN y = DOMAIN grown["tasksUp"]
       /\ DOMAIN z = DOMAIN grown["selectedUp"] /\ DOMAIN w = DOMAIN grown["windowUp"]
  BY <1>7, <1>10, OverwriteCells
<1>13. /\ DOMAIN mem' = Buffers
       /\ mem'["samplesUp"] = x /\ mem'["tasksUp"] = y /\ mem'["selectedUp"] = z
       /\ mem'["windowUp"] = w
       /\ \A b \in Buffers \ {"samplesUp", "tasksUp", "selectedUp", "windowUp"} :
            mem'[b] = grown[b]
  <2>1. DOMAIN grown = Buffers  BY <1>6 DEF Fits, Memory
  <2>2. QED  BY ONLY <1>8, <1>9, <2>1
<1>14. Fits(mem')
  <2>1. \A b \in Buffers : DOMAIN mem'[b] = DOMAIN grown[b]  BY <1>12, <1>13
  <2>2. PICK n : n = mem'  OBVIOUS
  <2>3. SameShape(grown, n)  BY <1>6, <1>13, <2>1, <2>2, Reshaped DEF Fits
  <2>4. QED  BY <1>6, <2>2, <2>3, FitsShape
<1>15. Begins(x, call.samples) /\ Begins(y, plan.tasks) /\ Begins(z, plan.selected)
       /\ Begins(w, cells)
  BY <1>4, <1>7, <1>10, <1>11, OverwriteCells
<1>16. Staged(mem')  BY <1>3, <1>13, <1>15 DEF Staged
<1>17. QED  BY <1>2, <1>14, <1>16

LEMMA UploadStep == SessionInv /\ Upload => SessionInv'
<1> SUFFICES ASSUME SessionInv, Upload PROVE SessionInv'  OBVIOUS
<1>1. stage = "planned" /\ stage' = "running" /\ api' = api /\ call' = call /\ plan' = plan
      /\ kept' = kept /\ submitted' = submitted /\ done' = done
  BY DEF Upload
<1>2. IsBatch(call, plan) /\ api \in {"opencl", "vulkan"}  BY <1>1 DEF SessionInv, BatchPlanned
<1>3. /\ Fits(mem')
      /\ api = "opencl" => Inputs(mem')
      /\ api = "vulkan" => Staged(mem') /\ windowCache' = windowCache
      /\ api = "opencl" /\ Generated(call) =>
           windowCache' = CachedWindows /\ windowCache'.cells = OwnWindows
      /\ ~Generated(call) => windowCache' = windowCache
  <2>1. CASE api = "opencl"
    <3>1. UploadOpenCl  BY <2>1 DEF Upload
    <3>2. QED  BY <1>1, <2>1, <3>1, UploadedOpenCl
  <2>2. CASE api = "vulkan"
    <3>1. UploadVulkan  BY <2>2 DEF Upload
    <3>2. QED  BY <1>1, <2>2, <3>1, UploadedVulkan
  <2>3. QED  BY <1>2, <2>1, <2>2
<1>4. submitted = 0 /\ done = 0  BY <1>1 DEF SessionInv, Progress
<1>5. /\ args' = args /\ Program' = Program /\ OwnWindows' = OwnWindows
      /\ WindowNeed' = WindowNeed /\ (OwnBuffers' <=> OwnBuffers)
      /\ (IsBatch(call, plan)' <=> IsBatch(call, plan))
      /\ \A n : Needs(n)' = Needs(n)
      /\ \A m : (Inputs(m)' <=> Inputs(m)) /\ (Staged(m)' <=> Staged(m))
  BY <1>1, BatchUnmoved
<1>6. BatchPlanned' /\ RefusedWhere'
  BY <1>1, <1>2, <1>5 DEF BatchPlanned, RefusedWhere
<1>7. Memory(mem') /\ \A b \in Buffers : Needs(WindowNeed)[b] <= Len(mem'[b])
  BY <1>3 DEF Fits
<1>8. BuffersKept'  BY <1>1, <1>7 DEF SessionInv, BuffersKept, Memory
<1>9. LongEnough'
  <2>1. Needs(WindowNeed)' = Needs(WindowNeed)
    <3>1. PICK n : n = WindowNeed  OBVIOUS
    <3>2. Needs(n)' = Needs(n)  BY <1>5
    <3>3. QED  BY <1>1, <1>5, Zenon DEF Needs
  <2>2. QED  BY <1>7, <2>1 DEF LongEnough
<1>10. CacheSound'
  <2>1. CASE api = "opencl" /\ Generated(call) /\ WindowMiss
    <3>1. windowCache' = [block |-> call.block, count |-> args.windows, profile |-> call.profile,
                          cells |-> Windows(args.windows, call.block, call.profile)]
      BY <1>3, <2>1 DEF CachedWindows
    <3>2. PICK b, k, p : b = call.block /\ k = args.windows /\ p = call.profile  OBVIOUS
    <3>3. windowCache' = [block |-> b, count |-> k, profile |-> p, cells |-> Windows(k, b, p)]
      BY <3>1, <3>2
    <3>4. windowCache'.cells = Windows(windowCache'.count, windowCache'.block, windowCache'.profile)
      BY ONLY <3>3
    <3>5. QED  BY <3>4 DEF CacheSound
  <2>2. CASE ~(api = "opencl" /\ Generated(call) /\ WindowMiss)
    <3>1. windowCache' = windowCache  BY <1>2, <1>3, <2>2 DEF CachedWindows
    <3>2. QED  BY <3>1 DEF SessionInv, CacheSound
  <2>3. QED  BY <2>1, <2>2
<1>11. WindowsKept'
  <2>1. ASSUME api = "opencl", OwnBuffers PROVE Begins(kept["window"], windowCache.cells)
    BY <1>1, <2>1 DEF SessionInv, WindowsKept
  <2>2. OwnBuffers => windowCache' = windowCache  BY <1>3 DEF OwnBuffers
  <2>3. QED  BY <1>1, <1>5, <2>1, <2>2 DEF WindowsKept
<1>12. WindowsCurrent'
  BY <1>1, <1>3, <1>5 DEF WindowsCurrent
<1>13. Progress'
  BY <1>1, <1>4, <1>5, <1>2, ProgramOrder DEF Progress
<1>14. InputsThere' /\ InputsStaged'
  BY <1>1, <1>3, <1>4, <1>5 DEF InputsThere, InputsStaged
<1>15. ShiftedDone' /\ AutocorDone' /\ LpcDone'
  BY <1>1, <1>4 DEF ShiftedDone, AutocorDone, LpcDone, After
<1>16. QED
  BY <1>1, <1>2, <1>6, <1>8, <1>9, <1>10, <1>11, <1>12, <1>13, <1>14, <1>15 DEF SessionInv

LEMMA SubmitStep == SessionInv /\ Submit => SessionInv'
<1> SUFFICES ASSUME SessionInv, Submit PROVE SessionInv'  OBVIOUS
<1>1. stage = "running" /\ stage' = stage /\ api' = api /\ call' = call /\ plan' = plan
      /\ kept' = kept /\ mem' = mem /\ windowCache' = windowCache /\ done' = done
      /\ submitted < Len(Program) /\ submitted' \in {Len(Program), submitted + 1}
  BY DEF Submit
<1>2. IsBatch(call, plan) /\ api \in {"opencl", "vulkan"}
  BY <1>1 DEF SessionInv, BatchPlanned
<1>3. /\ args' = args /\ Program' = Program /\ OwnWindows' = OwnWindows
      /\ WindowNeed' = WindowNeed /\ Frames' = Frames /\ (OwnBuffers' <=> OwnBuffers)
      /\ (IsBatch(call, plan)' <=> IsBatch(call, plan))
      /\ \A m : (Inputs(m)' <=> Inputs(m)) /\ (Staged(m)' <=> Staged(m))
      /\ \A m, f : ShiftedFor(m, f)' <=> ShiftedFor(m, f)
      /\ \A x : CellsOf(x)' <=> CellsOf(x)
  BY <1>1, BatchUnmoved
<1>4. BatchPlanned' /\ RefusedWhere'  BY <1>1, <1>2, <1>3 DEF BatchPlanned, RefusedWhere
<1>5. BuffersKept' /\ CacheSound'  BY <1>1 DEF SessionInv, BuffersKept, CacheSound
<1>6. WindowsKept' /\ WindowsCurrent'
  BY <1>1, <1>3 DEF SessionInv, WindowsKept, WindowsCurrent
<1>7. Progress'
  <2>1. PICK n : n = Len(Program)  OBVIOUS
  <2>2. Len(Program)' = n  BY <1>3, <2>1
  <2>3. /\ submitted \in Nat /\ done \in Nat /\ done <= submitted /\ submitted < n
        /\ submitted' \in {n, submitted + 1}
    BY <1>1, <2>1 DEF SessionInv, Progress
  <2>4. n \in Nat  BY <2>1, ProgramCells DEF ProgramIs
  <2>5. submitted' \in Nat /\ done' \in Nat /\ done' <= submitted' /\ submitted' <= n
    BY <1>1, <2>3, <2>4
  <2>6. QED  BY <1>1, <2>2, <2>5 DEF Progress
<1>8. LongEnough'
  <2>1. Needs(WindowNeed)' = Needs(WindowNeed)  BY <1>1, <1>3, Zenon DEF Needs
  <2>2. QED  BY <1>1, <2>1 DEF SessionInv, LongEnough
<1>9. InputsThere' /\ InputsStaged'
  <2>1. (Inputs(mem)' <=> Inputs(mem)) /\ (Staged(mem)' <=> Staged(mem))
    BY <1>1, <1>3 DEF Inputs, Staged
  <2>2. QED  BY <1>1, <2>1 DEF SessionInv, InputsThere, InputsStaged
<1>10. \A command : After(command)' <=> After(command)  BY <1>1, <1>3 DEF After
<1>11. ShiftedDone' /\ AutocorDone' /\ LpcDone'
  BY <1>1, <1>3, <1>10 DEF SessionInv, ShiftedDone, AutocorDone, LpcDone
<1>12. QED  BY <1>1, <1>2, <1>4, <1>5, <1>6, <1>7, <1>8, <1>9, <1>11 DEF SessionInv

LEMMA CallFailsStep == SessionInv /\ CallFails => SessionInv'
<1> SUFFICES ASSUME SessionInv, CallFails PROVE SessionInv'  OBVIOUS
<1>1. stage' = "failed" /\ api' = api /\ kept' = kept /\ mem' = mem /\ windowCache' = windowCache
  BY DEF CallFails
<1>2. BuffersKept' /\ CacheSound'  BY <1>1 DEF SessionInv, BuffersKept, CacheSound
<1>3. BatchPlanned' /\ RefusedWhere' /\ WindowsKept' /\ WindowsCurrent' /\ Progress'
      /\ LongEnough' /\ InputsThere' /\ InputsStaged'
  BY <1>1 DEF BatchPlanned, RefusedWhere, WindowsKept, WindowsCurrent, Progress, LongEnough,
              InputsThere, InputsStaged
<1>4. ShiftedDone' /\ AutocorDone' /\ LpcDone'
  BY <1>1 DEF ShiftedDone, AutocorDone, LpcDone, After
<1>5. QED  BY <1>1, <1>2, <1>3, <1>4 DEF SessionInv

LEMMA StutteringSession == SessionInv /\ UNCHANGED vars => SessionInv'
<1> SUFFICES ASSUME SessionInv, UNCHANGED vars PROVE SessionInv'  OBVIOUS
<1>1. stage' = stage /\ api' = api /\ call' = call /\ plan' = plan /\ kept' = kept /\ mem' = mem
      /\ windowCache' = windowCache /\ done' = done /\ submitted' = submitted
  BY DEF vars
<1>2. /\ args' = args /\ Program' = Program /\ OwnWindows' = OwnWindows
      /\ WindowNeed' = WindowNeed /\ Frames' = Frames /\ (OwnBuffers' <=> OwnBuffers)
      /\ (IsBatch(call, plan)' <=> IsBatch(call, plan))
      /\ \A m, f : ShiftedFor(m, f)' <=> ShiftedFor(m, f)
      /\ \A x : CellsOf(x)' <=> CellsOf(x)
  BY <1>1, BatchUnmoved
<1>3. BatchPlanned' /\ BuffersKept' /\ CacheSound' /\ WindowsKept' /\ WindowsCurrent' /\ Progress'
  BY <1>1, <1>2 DEF SessionInv, BatchPlanned, BuffersKept, CacheSound, WindowsKept,
                    WindowsCurrent, Progress
<1>4. RefusedWhere'
  BY <1>1, Zenon DEF SessionInv, RefusedWhere, ValidInputs, OptionsOf
<1>5. LongEnough'
  <2>1. Needs(WindowNeed)' = Needs(WindowNeed)  BY <1>1, <1>2, ZenonT(30) DEF Needs
  <2>2. LongEnough  BY DEF SessionInv
  <2>3. mem' = mem /\ (stage = "running")' = (stage = "running")  BY <1>1
  <2>4. QED  BY <2>1, <2>2, <2>3 DEF LongEnough
<1>6. InputsThere' /\ InputsStaged'
  <2>1. (Inputs(mem)' <=> Inputs(mem)) /\ (Staged(mem)' <=> Staged(mem))
    BY <1>1, <1>2 DEF Inputs, Staged
  <2>2. QED  BY <1>1, <2>1 DEF SessionInv, InputsThere, InputsStaged
<1>7. \A command : After(command)' <=> After(command)  BY <1>1, <1>2 DEF After
<1>8. ShiftedDone' /\ AutocorDone' /\ LpcDone'
  BY <1>1, <1>2, <1>7 DEF SessionInv, ShiftedDone, AutocorDone, LpcDone
<1>9. QED  BY <1>1, <1>3, <1>4, <1>5, <1>6, <1>8 DEF SessionInv

LEMMA DeviceStepStep == SessionInv /\ DeviceStep => SessionInv'
<1> SUFFICES ASSUME SessionInv, DeviceStep PROVE SessionInv'  OBVIOUS
<1>1. stage = "running" /\ stage' = stage /\ api' = api /\ call' = call /\ plan' = plan
      /\ kept' = kept /\ windowCache' = windowCache /\ submitted' = submitted
      /\ done < submitted /\ done' = done + 1 /\ mem' = Run(Program[done + 1], mem)
  BY DEF DeviceStep
<1>2. IsBatch(call, plan) /\ api \in {"opencl", "vulkan"}
  BY <1>1 DEF SessionInv, BatchPlanned
<1>3. /\ args' = args /\ Program' = Program /\ OwnWindows' = OwnWindows
      /\ WindowNeed' = WindowNeed /\ Frames' = Frames /\ (OwnBuffers' <=> OwnBuffers)
      /\ (IsBatch(call, plan)' <=> IsBatch(call, plan))
      /\ \A m : (Inputs(m)' <=> Inputs(m)) /\ (Staged(m)' <=> Staged(m))
      /\ \A m, f : ShiftedFor(m, f)' <=> ShiftedFor(m, f)
      /\ \A x : CellsOf(x)' <=> CellsOf(x)
  BY <1>1, BatchUnmoved
<1>4. done \in Nat /\ submitted \in Nat /\ submitted <= Len(Program)
  BY <1>1 DEF SessionInv, Progress
<1>5. Len(Program) \in Nat /\ done + 1 \in 1 .. Len(Program)
  <2>1. Len(Program) \in Nat  BY ProgramCells DEF ProgramIs, IsBuffer
  <2>2. QED  BY <1>1, <1>4, <2>1
<1>6. PICK command : command = Program[done + 1]  OBVIOUS
<1>7. PICK n : n = mem'  OBVIOUS
<1>8. n = Run(command, mem) /\ command \in Commands
  BY <1>1, <1>5, <1>6, <1>7, ProgramOrder
<1>9. Fits(mem)  BY <1>1 DEF SessionInv, BuffersKept, LongEnough, Fits
<1>10. SameShape(mem, n) /\ Inputs(n)
       /\ (command # "CopyInputs" => Inputs(mem))
  <2>1. CASE command = "CopyInputs"
    <3>1. api = "vulkan" /\ done + 1 = 1  BY <1>5, <1>6, <2>1, ProgramOrder
    <3>2. done = 0  BY <1>4, <3>1
    <3>3. Staged(mem)  BY <1>1, <3>1, <3>2 DEF SessionInv, InputsStaged
    <3>4. n = CopyInputs(mem)  BY <1>8, <2>1, RunIs
    <3>5. PICK m : m = mem  OBVIOUS
    <3>6. SameShape(m, CopyInputs(m)) /\ Inputs(CopyInputs(m))
      BY <1>2, <1>9, <3>1, <3>3, <3>5, CopyGives
    <3>7. QED  BY <2>1, <3>4, <3>5, <3>6
  <2>2. CASE command # "CopyInputs"
    <3>1. api = "opencl" \/ done > 0
      <4>1. ~(done + 1 = 1 /\ api = "vulkan")  BY <1>5, <1>6, <2>2, ProgramOrder
      <4>2. QED  BY <1>2, <1>4, <4>1
    <3>2. Inputs(mem)  BY <1>1, <3>1 DEF SessionInv, InputsThere
    <3>3. PICK m : m = mem  OBVIOUS
    <3>4. Memory(m)  BY <1>9, <3>3 DEF Fits
    <3>5. Keeps(m, n)  BY <1>8, <2>2, <3>3, <3>4, RunKeeps
    <3>6. Inputs(n)  BY <1>2, <1>9, <3>2, <3>3, <3>5, KeepsInputs
    <3>7. QED  BY <3>2, <3>3, <3>5, <3>6 DEF Keeps
  <2>3. QED  BY <2>1, <2>2
<1>11. Fits(n)
  <2>1. PICK m : m = mem  OBVIOUS
  <2>2. QED  BY <1>9, <1>10, <2>1, FitsShape
<1>12. BatchPlanned' /\ RefusedWhere'  BY <1>1, <1>2, <1>3 DEF BatchPlanned, RefusedWhere
<1>13. BuffersKept' /\ CacheSound'
  BY <1>1, <1>7, <1>11 DEF SessionInv, BuffersKept, CacheSound, Fits, Memory
<1>14. WindowsKept' /\ WindowsCurrent'
  BY <1>1, <1>3 DEF SessionInv, WindowsKept, WindowsCurrent
<1>15. Progress'
  <2>1. done' \in Nat /\ done' <= submitted'  BY <1>1, <1>4
  <2>2. QED  BY <1>1, <1>3, <1>4, <2>1 DEF Progress
<1>16. LongEnough'
  <2>1. Needs(WindowNeed)' = Needs(WindowNeed)  BY <1>1, <1>3, Zenon DEF Needs
  <2>2. QED  BY <1>1, <1>7, <1>11, <2>1 DEF LongEnough, Fits
<1>17. InputsThere' /\ InputsStaged'
  <2>1. Inputs(mem)'  BY <1>1, <1>3, <1>7, <1>10 DEF Inputs
  <2>2. done' # 0  BY <1>1, <1>4
  <2>3. QED  BY <2>1, <2>2 DEF InputsThere, InputsStaged
<1>18. \A c : After(c)' => command = c
  BY <1>1, <1>3, <1>6 DEF After
<1>19. \A c : done > 0 /\ Program[done] = c => After(c)  BY <1>1 DEF After
<1>20. done + 1 > 1 => done > 0 /\ (done + 1) - 1 = done  BY <1>4
<1>21. ShiftedDone'
  <2>1. ASSUME command = "FindWastedBits", NEW f \in Frames PROVE ShiftedFor(n, f)
    <3>1. n = FindWastedBits(mem, args)  BY <1>8, <2>1, RunIs
    <3>2. Inputs(mem)  BY <1>10, <2>1
    <3>3. PICK m : m = mem  OBVIOUS
    <3>4. ShiftedFor(FindWastedBits(m, args), f)  BY <1>2, <1>9, <3>2, <3>3, WastedGives
    <3>5. QED  BY <3>1, <3>3, <3>4
  <2>2. After("FindWastedBits")' => \A f \in Frames : ShiftedFor(mem, f)'
    BY <1>1, <1>3, <1>7, <1>18, <2>1, BatchUnmoved DEF ShiftedFor
  <2>3. QED  BY <1>3, <2>2 DEF ShiftedDone
<1>22. AutocorDone'
  <2>1. ASSUME command = "ComputeAutocor" PROVE CellsOf(n["autocor"])
    <3>1. n = ComputeAutocor(mem, args)  BY <1>8, <2>1, RunIs
    <3>2. Inputs(mem)  BY <1>10, <2>1
    <3>3. Generated(call) /\ done + 1 > 1 /\ Program[(done + 1) - 1] = "FindWastedBits"
      BY <1>5, <1>6, <2>1, ProgramOrder
    <3>4. After("FindWastedBits")  BY <1>19, <1>20, <3>3
    <3>5. \A f \in Frames : ShiftedFor(mem, f)  BY <3>4 DEF SessionInv, ShiftedDone
    <3>6. PICK m : m = mem  OBVIOUS
    <3>7. CellsOf(ComputeAutocor(m, args)["autocor"])
      BY <1>2, <1>9, <3>2, <3>3, <3>5, <3>6, AutocorGives
    <3>8. QED  BY <3>1, <3>6, <3>7
  <2>2. QED  BY <1>1, <1>3, <1>7, <1>18, <2>1 DEF AutocorDone, CellsOf
<1>23. LpcDone'
  <2>1. ASSUME command = "ComputeLpc" PROVE CellsOf(n["lpc"])
    <3>1. n = ComputeLpc(mem, args)  BY <1>8, <2>1, RunIs
    <3>3. Generated(call) /\ done + 1 > 1 /\ Program[(done + 1) - 1] = "ComputeAutocor"
      BY <1>5, <1>6, <2>1, ProgramOrder
    <3>4. After("ComputeAutocor")  BY <1>19, <1>20, <3>3
    <3>5. CellsOf(mem["autocor"])  BY <3>4 DEF SessionInv, AutocorDone
    <3>6. PICK m : m = mem  OBVIOUS
    <3>7. CellsOf(ComputeLpc(m, args)["lpc"])
      BY <1>2, <1>9, <3>3, <3>5, <3>6, LpcGives
    <3>8. QED  BY <3>1, <3>6, <3>7
  <2>2. QED  BY <1>1, <1>3, <1>7, <1>18, <2>1 DEF LpcDone, CellsOf
<1>24. QED
  BY <1>1, <1>2, <1>12, <1>13, <1>14, <1>15, <1>16, <1>17, <1>21, <1>22, <1>23 DEF SessionInv

LEMMA FinishStep == SessionInv /\ Finish => SessionInv'
<1> SUFFICES ASSUME SessionInv, Finish PROVE SessionInv'  OBVIOUS
<1>1. stage = "running" /\ stage' \in {"returned", "failed"} /\ api' = api /\ call' = call
      /\ plan' = plan /\ windowCache' = windowCache /\ mem' = mem /\ done = Len(Program)
      /\ kept' = IF OwnBuffers THEN kept ELSE mem
  BY DEF Finish, DeviceDone
<1>2. IsBatch(call, plan) /\ api \in {"opencl", "vulkan"}
  BY <1>1 DEF SessionInv, BatchPlanned
<1>3. (IsBatch(call, plan)' <=> IsBatch(call, plan))  BY <1>1, BatchUnmoved
<1>4. BatchPlanned' /\ RefusedWhere' /\ WindowsCurrent' /\ Progress' /\ LongEnough'
      /\ InputsThere' /\ InputsStaged'
  BY <1>1, <1>2, <1>3 DEF BatchPlanned, RefusedWhere, WindowsCurrent, Progress, LongEnough,
                          InputsThere, InputsStaged
<1>5. ShiftedDone' /\ AutocorDone' /\ LpcDone'
  BY <1>1 DEF ShiftedDone, AutocorDone, LpcDone, After
<1>6. BuffersKept' /\ CacheSound'
  BY <1>1 DEF SessionInv, BuffersKept, CacheSound, Memory
<1>7. WindowsKept'
  <2>1. CASE OwnBuffers
    BY <1>1, <2>1 DEF SessionInv, WindowsKept
  <2>2. ASSUME api = "opencl", ~OwnBuffers PROVE Begins(kept'["window"], windowCache'.cells)
    <3>1. Generated(call)  BY <2>2 DEF OwnBuffers
    <3>2. windowCache.cells = OwnWindows  BY <1>1, <2>2, <3>1 DEF SessionInv, WindowsCurrent
    <3>3. Inputs(mem)  BY <1>1, <2>2 DEF SessionInv, InputsThere
    <3>4. QED  BY <1>1, <2>2, <3>1, <3>2, <3>3 DEF Inputs
  <2>3. QED  BY <1>1, <2>1, <2>2 DEF WindowsKept
<1>8. QED  BY <1>1, <1>2, <1>4, <1>5, <1>6, <1>7 DEF SessionInv

\* The invariant every behaviour of a session keeps: its buffers fit, its cache holds the
\* windows its fields say, and each command finds what the ones before it are to leave.
THEOREM SessionInvariance == Spec => []SessionInv
<1>1. Init => SessionInv  BY InitialSession
<1>2. SessionInv /\ [Next]_vars => SessionInv'
  BY BeginStep, UploadStep, SubmitStep, DeviceStepStep, FinishStep, CallFailsStep,
     StutteringSession DEF Next
<1>3. QED  BY <1>1, <1>2, PTL DEF Spec

-----------------------------------------------------------------------------
(* What the invariant gives the properties.                                *)

\* The session takes every call the options allow but the one the property names.
LEMMA RefusedCalls == SessionInv => LegalCallsAccepted
<1> SUFFICES ASSUME SessionInv, stage = "refused"
             PROVE  api = "vulkan" /\ call.lpc > 0 /\ call.block < MinGeneratedBlock
  BY DEF LegalCallsAccepted
<1>1. call \in Calls /\ ~ValidInputs(call, BuildPlan(OptionsOf(call), call.samples))
  BY DEF SessionInv, RefusedWhere
<1>2. OptionsOf(call).maxLpcOrder # call.lpc  BY <1>1, LegalPlanned
<1>3. OptionsOf(call).maxLpcOrder =
        IF api = "vulkan" /\ call.block < MinGeneratedBlock THEN 0 ELSE call.lpc
  BY DEF OptionsOf
<1>4. call.lpc \in Nat  BY <1>1, OptionsLegal
<1>5. QED  BY <1>2, <1>3, <1>4

\* Powers of two grow.
LEMMA PowersGrow ==
  ASSUME NEW n \in 0 .. WordBits, NEW k \in 0 .. n
  PROVE  2^k <= 2^n
<1> DEFINE g == [i \in 0 .. WordBits |-> 2^i]
           T == {m \in Nat : m - 1 \in 0 .. WordBits => \A i \in 0 .. m - 1 : g[i] <= g[m - 1]}
<1>0. WordBits \in Nat  BY SubframesAssumption
<1>1. \A i \in 0 .. WordBits : g[i] \in Nat /\ g[i] = 2^i  BY PowerTyped
<1>2. ASSUME NEW i \in 0 .. WordBits, i + 1 \in 0 .. WordBits PROVE g[i + 1] = 2 * g[i]
  <2>1. g[i + 1] = 2^(i + 1)  BY <1>1, <1>2
  <2>2. 2^(i + 1) = 2 * 2^i  BY PowersAssumption
  <2>3. QED  BY <1>1, <2>1, <2>2
<1> HIDE DEF g
<1>3. 1 \in T
  <2>1. \A i \in 0 .. 1 - 1 : g[i] <= g[1 - 1]
    <3>1. \A i \in 0 .. 1 - 1 : i = 0  OBVIOUS
    <3>2. g[0] <= g[0]  BY <1>0, <1>1
    <3>3. QED  BY <3>1, <3>2
  <2>2. QED  BY <2>1
<1>4. ASSUME NEW m \in 1 .. (n + 1) - 1, m \in T PROVE m + 1 \in T
  <2>1. SUFFICES ASSUME m \in 0 .. WordBits, NEW i \in 0 .. m PROVE g[i] <= g[m]
    <3>1. (m + 1) - 1 = m /\ m + 1 \in Nat  OBVIOUS
    <3>2. QED  BY <3>1
  <2>2. m - 1 \in 0 .. WordBits /\ (m - 1) + 1 = m  BY <1>0, <2>1
  <2>3. g[m] = 2 * g[m - 1] /\ g[m - 1] \in Nat  BY <1>1, <1>2, <2>1, <2>2
  <2>4. CASE i = m  BY <1>1, <2>1, <2>4
  <2>5. CASE i \in 0 .. m - 1
    <3>1. g[i] <= g[m - 1]  BY <1>4, <2>2, <2>5
    <3>2. g[i] \in Nat  BY <1>0, <1>1, <2>1
    <3>3. QED  BY <2>3, <3>1, <3>2
  <2>6. QED  BY <2>1, <2>4, <2>5
<1>5. n + 1 \in T
  <2>1. n + 1 \in Nat /\ n + 1 \in 1 .. n + 1  BY <1>0
  <2>2. QED  BY <1>3, <1>4, <2>1, NumbersTo
<1>6. (n + 1) - 1 = n /\ n \in 0 .. WordBits /\ k \in 0 .. WordBits  BY <1>0
<1>7. g[k] <= g[n]  BY <1>5, <1>6
<1>8. QED  BY <1>1, <1>6, <1>7

LEMMA MultipleBeyond ==
  ASSUME NEW v \in Int, v # 0, NEW p \in Nat \ {0}, (v % p) = 0
  PROVE  v >= p \/ v <= -p
<1>1. CASE v > 0 /\ v < p
  <2>1. v % p = v  BY <1>1
  <2>2. QED  BY <1>1, <2>1
<1>2. CASE v < 0 /\ v > -p
  <2>1. v % p = v + p  BY <1>2
  <2>2. QED  BY <1>2, <2>1
<1>3. QED  BY <1>1, <1>2

\* Wasted bits do not depend on the width they are looked for in, once the samples fit.
LEMMA SameTrailingZeros ==
  ASSUME NEW v \in Int, FitsBits(v, DeviceBits), v # 0
  PROVE  /\ TrailingZeroBits(v, IntBits) = TrailingZeroBits(v, DeviceBits)
         /\ TrailingZeroBits(v, DeviceBits) \in 0 .. DeviceBits - 1
<1> DEFINE D == DeviceBits
           Z(b) == {z \in 0 .. b - 1 : v % 2^z = 0}
<1>1. D \in Nat \ {0} /\ IntBits \in Nat /\ D < IntBits /\ IntBits <= WordBits /\ WordBits \in Nat
  BY TaskPlansAssumption, SubframesAssumption
<1>2. 2^0 = 1
  <2>1. 2^0 \in Nat \ {0}  BY PowerTyped, <1>1
  <2>2. QED  OBVIOUS
<1>3. 0 \in Z(D)
  <2>1. v % 1 = 0  OBVIOUS
  <2>2. QED  BY <1>1, <1>2, <2>1
<1>4. ASSUME NEW z \in Z(IntBits) PROVE z \in Z(D)
  <2>1. z \in 0 .. WordBits /\ D - 1 \in 0 .. WordBits /\ D \in 0 .. WordBits  BY <1>1
  <2>2. PICK p \in Nat \ {0}, q \in Nat \ {0}, h \in Nat \ {0} : p = 2^z /\ q = 2^D /\ h = 2^(D - 1)
    BY <2>1, PowerTyped
  <2>3. v >= -h /\ v <= h - 1  BY <2>2 DEF FitsBits
  <2>4. q = 2 * h
    <3>1. 2^((D - 1) + 1) = 2 * 2^(D - 1)  BY <2>1, PowersAssumption
    <3>2. (D - 1) + 1 = D  BY <1>1
    <3>3. QED  BY <2>2, <3>1, <3>2
  <2>5. v % p = 0  BY <2>2
  <2>6. v >= p \/ v <= -p  BY <2>5, MultipleBeyond
  <2>7. p <= h  BY <2>3, <2>6
  <2>8. ASSUME z >= D PROVE FALSE
    <3>1. q <= p  BY <2>1, <2>2, <2>8, PowersGrow
    <3>2. QED  BY <2>2, <2>4, <2>7, <3>1
  <2>9. QED  BY <1>1, <2>1, <2>8
<1>5. \A z \in Z(D) : z \in Z(IntBits)  BY <1>1
<1>6. Z(IntBits) = Z(D)  BY <1>4, <1>5
<1>7. TrailingZeroBits(v, IntBits) = Max(Z(IntBits)) /\ TrailingZeroBits(v, D) = Max(Z(D))
  BY Zenon DEF TrailingZeroBits
<1>8. Max(Z(D)) \in Z(D)
  <2>1. Z(D) \subseteq 0 .. D /\ Z(D) # {} /\ D \in Nat
    <3>1. \A z \in Z(D) : z \in 0 .. D  BY <1>1
    <3> HIDE DEF Z
    <3>2. QED  BY <1>1, <1>3, <3>1
  <2> HIDE DEF Z
  <2>2. PICK T : T = Z(D)  OBVIOUS
  <2>3. QED  BY <2>1, <2>2, LargestNumber
<1>9. QED  BY <1>6, <1>7, <1>8

LEMMA SameWastedBits ==
  ASSUME NEW x, DOMAIN x # {}, \A i \in DOMAIN x : x[i] \in Int /\ FitsBits(x[i], DeviceBits)
  PROVE  WastedBitsOf(x) = CommonWastedBits(x, DeviceBits)
<1> DEFINE D == DeviceBits
           A == {TrailingZeroBits(x[i], D) : i \in DOMAIN x} \cup {D - 1}
           B == {TrailingZeroBits(x[i], IntBits) : i \in DOMAIN x}
<1>1. D \in Nat \ {0} /\ IntBits \in Nat /\ D < IntBits  BY TaskPlansAssumption
<1>2. \A i \in DOMAIN x : x[i] = 0 =>
        TrailingZeroBits(x[i], D) = D /\ TrailingZeroBits(x[i], IntBits) = IntBits
  BY Zenon DEF TrailingZeroBits
<1>3. \A i \in DOMAIN x : x[i] # 0 =>
        /\ TrailingZeroBits(x[i], IntBits) = TrailingZeroBits(x[i], D)
        /\ TrailingZeroBits(x[i], D) \in 0 .. D - 1
  BY SameTrailingZeros
<1>4. A \subseteq Int /\ B \subseteq Nat /\ B # {}  BY <1>1, <1>2, <1>3
<1>5. CommonWastedBits(x, D) = Min(A)  BY Zenon DEF CommonWastedBits
<1>6. CASE \A i \in DOMAIN x : x[i] = 0
  <2>1. WastedBitsOf(x) = D - 1  BY <1>6 DEF WastedBitsOf
  <2>2. D - 1 \in A /\ \A y \in A : D - 1 <= y  BY <1>1, <1>2, <1>6
  <2> HIDE DEF A
  <2>3. Min(A) = D - 1  BY <1>4, <2>2, MinIs
  <2>4. QED  BY <1>5, <2>1, <2>3
<1>7. CASE ~ \A i \in DOMAIN x : x[i] = 0
  <2>1. WastedBitsOf(x) = Min(B)  BY <1>7, Zenon DEF WastedBitsOf
  <2>2. PICK m \in B : \A y \in B : m <= y  BY <1>4, LeastNumber
  <2>3. Min(B) = m
    <3>1. PICK T : T = B  OBVIOUS
    <3> HIDE DEF B
    <3>2. T \subseteq Int /\ m \in T /\ \A y \in T : m <= y  BY <1>4, <2>2, <3>1
    <3>3. Min(T) = m  BY ONLY <3>2, MinIs
    <3>4. QED  BY <3>1, <3>3
  <2>4. PICK j \in DOMAIN x : x[j] # 0  BY <1>7
  <2>5. m <= D - 1 /\ m \in Nat
    <3>1. TrailingZeroBits(x[j], IntBits) \in B  OBVIOUS
    <3>2. TrailingZeroBits(x[j], IntBits) \in 0 .. D - 1  BY <1>3, <2>4
    <3> HIDE DEF B
    <3>3. m \in Nat /\ m <= TrailingZeroBits(x[j], IntBits)  BY <1>4, <2>2, <3>1
    <3>4. QED  BY <1>1, <3>2, <3>3
  <2>6. PICK i \in DOMAIN x : m = TrailingZeroBits(x[i], IntBits)  BY <2>2
  <2>7. x[i] # 0  BY <1>1, <1>2, <2>5, <2>6
  <2>8. m \in A  BY <1>3, <2>6, <2>7
  <2>9. ASSUME NEW y \in A PROVE m <= y
    <3>1. CASE y = D - 1  BY <2>5, <3>1
    <3>2. ASSUME NEW k \in DOMAIN x, y = TrailingZeroBits(x[k], D) PROVE m <= y
      <4>1. CASE x[k] = 0  BY <1>1, <1>2, <2>5, <3>2, <4>1
      <4>2. CASE x[k] # 0  BY <1>3, <2>2, <3>2, <4>2
      <4>3. QED  BY <4>1, <4>2
    <3>3. QED  BY <3>1, <3>2
  <2>10. Min(A) = m  BY <1>4, <2>8, <2>9, MinIs
  <2>11. QED  BY <1>5, <2>1, <2>3, <2>10
<1>8. QED  BY <1>6, <1>7

\* The lags and the predictors of a frame come from the samples the writer predicts.
LEMMA OwnCoefficients == SessionInv => CoefficientsFromOwnFrame
<1> SUFFICES ASSUME SessionInv, After("ComputeLpc"), NEW f \in Frames,
                    NEW w \in 0 .. args.windows - 1
             PROVE  mem["lpc"][f * args.windows + w + 1] =
                      [samples |-> OwnShifted(f),
                       window  |-> FrameOf(Windows(args.windows, call.block, call.profile),
                                           w * call.block, call.block)]
  BY DEF CoefficientsFromOwnFrame
<1>1. stage = "running" /\ IsBatch(call, plan)
  BY DEF After, SessionInv, BatchPlanned
<1>2. mem["lpc"][f * args.windows + w + 1] = OwnCell(f, w)
  BY DEF SessionInv, LpcDone, CellsOf
<1>3. OwnSamples(f) = OwnShifted(f)
  <2>1. /\ call.block \in Nat \ {0} /\ plan.frames \in Nat \ {0}
        /\ plan.frames * call.block = Len(call.samples) /\ call \in Calls
        /\ IsSampleBlock(call.samples)
    BY <1>1, BatchSizes DEF IsBatch
  <2>2. \A i \in DOMAIN call.samples :
          call.samples[i] \in Int /\ FitsBits(call.samples[i], DeviceBits)
    <3>1. call.samples \in Seq(Int)
          /\ \A i \in DOMAIN call.samples : FitsBits(call.samples[i], DeviceBits)
      BY <2>1, CallsAssumption
    <3>2. QED  BY <3>1
  <2>3. PICK b \in Nat \ {0}, n \in Nat \ {0} : b = call.block /\ n = plan.frames  BY <2>1
  <2>4. PICK off \in Nat : off = f * b /\ off + b <= n * b
    <3>1. f \in 0 .. n - 1  BY <2>3 DEF Frames
    <3>2. f * b \in Nat /\ f * b + b <= n * b  BY <3>1, FramePlace
    <3>3. QED  BY <3>2
  <2>5. OwnFrame(f) = FrameOf(call.samples, off, b)  BY <2>3, <2>4 DEF OwnFrame
  <2>6. PICK s : s = call.samples  OBVIOUS
  <2>7. IsBuffer(s) /\ off + b <= Len(s)
    BY <2>1, <2>3, <2>4, <2>6 DEF IsSampleBlock
  <2>8. /\ DOMAIN FrameOf(s, off, b) = 1 .. b
        /\ \A i \in 1 .. b : FrameOf(s, off, b)[i] = s[off + i]
    BY <2>7, FrameCells
  <2>9. PICK x : x = OwnFrame(f)  OBVIOUS
  <2>10. DOMAIN x # {} /\ \A i \in DOMAIN x : x[i] \in Int /\ FitsBits(x[i], DeviceBits)
    <3>1. DOMAIN x = 1 .. b /\ \A i \in 1 .. b : x[i] = s[off + i]
      BY <2>5, <2>6, <2>8, <2>9
    <3>2. \A i \in 1 .. b : off + i \in DOMAIN s  BY <2>7 DEF IsBuffer
    <3>3. QED  BY <2>2, <2>6, <3>1, <3>2
  <2>11. WastedBitsOf(x) = CommonWastedBits(x, DeviceBits)  BY <2>10, SameWastedBits
  <2>12. QED  BY <2>9, <2>11 DEF OwnSamples, OwnShifted
<1>4. QED  BY <1>2, <1>3 DEF OwnCell, OwnWindows

\* What the kernels index: the numbers and the places of the planned tasks.
LastSelected == Max(ToSet(plan.selected))
LastSample == Max({t.offset + t.block : t \in ToSet(plan.tasks)})

LEMMA PlannedReach ==
  ASSUME IsBatch(call, plan)
  PROVE  /\ LastSelected \in Nat /\ LastSelected + 1 <= Len(plan.tasks)
         /\ LastSample \in Nat /\ LastSample <= Len(call.samples)
<1>1. PICK n \in Nat \ {0}, k \in Nat \ {0}, b \in Nat \ {0} :
        n = plan.frames /\ k = plan.perFrame /\ b = call.block
  BY BatchSizes
<1>2. /\ n * k \in Nat \ {0} /\ Len(plan.tasks) = n * k /\ IsBuffer(plan.tasks)
      /\ IsBuffer(plan.selected) /\ Len(plan.selected) = n * k
      /\ \A i \in 1 .. n * k : plan.selected[i] = i - 1
      /\ n * b = Len(call.samples) /\ n * b \in Nat
      /\ IsPlan(plan, OptionsOf(call), call.samples)
  <2>1. n * k \in Nat \ {0}  BY n \in Nat \ {0}, k \in Nat \ {0}
  <2>2. QED  BY <1>1, <2>1, BatchSizes
<1>3. PICK N \in Nat \ {0} : N = n * k  BY <1>2
<1>4. PICK S : S = ToSet(plan.selected)  OBVIOUS
<1>5. S \subseteq 0 .. N - 1 /\ S # {}
  <2>1. DOMAIN plan.selected = 1 .. N /\ \A i \in 1 .. N : plan.selected[i] = i - 1
    BY <1>2, <1>3 DEF IsBuffer
  <2>2. S = {plan.selected[i] : i \in DOMAIN plan.selected}  BY <1>4 DEF ToSet
  <2>3. 1 \in 1 .. N /\ \A i \in 1 .. N : i - 1 \in 0 .. N - 1  OBVIOUS
  <2>4. QED  BY <2>1, <2>2, <2>3
<1>6. Max(S) \in 0 .. N - 1  BY <1>5, N - 1 \in Nat, LargestNumber
<1>7. PICK T : T = {t.offset + t.block : t \in ToSet(plan.tasks)}  OBVIOUS
<1>8. PICK M \in Nat : M = n * b  BY <1>2
<1>9. T \subseteq 0 .. M /\ T # {}
  <2>1. DOMAIN plan.tasks = 1 .. N  BY <1>2, <1>3 DEF IsBuffer
  <2>2. T = {plan.tasks[i].offset + plan.tasks[i].block : i \in 1 .. N}
    BY <1>7, <2>1 DEF ToSet
  <2>3. ASSUME NEW i \in 1 .. N PROVE plan.tasks[i].offset + plan.tasks[i].block \in 0 .. M
    <3>1. i \in DOMAIN plan.tasks  BY <2>1
    <3>2. PICK f \in 0 .. plan.frames - 1, j \in 1 .. plan.perFrame :
            plan.tasks[i] = TaskOf(plan, f, j)
      BY <1>2, <3>1, TaskPlace
    <3>3. plan.tasks[i].offset = f * b /\ plan.tasks[i].block = b
      <4>1. PlannedTask(plan.tasks[i], OptionsOf(call), f)  BY <1>2, <3>2, PlanTasks
      <4>2. OptionsOf(call).frameSamples = b  BY <1>1, BatchSizes
      <4>3. QED  BY <4>1, <4>2 DEF PlannedTask, Placed
    <3>4. f * b \in Nat /\ f * b + b <= n * b  BY <1>1, FramePlace
    <3>5. QED  BY <1>8, <3>3, <3>4
  <2>4. 1 \in 1 .. N  OBVIOUS
  <2>5. QED  BY <2>2, <2>3, <2>4
<1>10. Max(T) \in 0 .. M  BY <1>9, LargestNumber
<1>11. LastSelected = Max(S) /\ LastSample = Max(T)
  BY <1>4, <1>7, Zenon DEF LastSelected, LastSample
<1>12. Len(plan.tasks) = N /\ Len(call.samples) = M  BY <1>2, <1>3, <1>8
<1>13. QED
  <2>1. PICK u \in 0 .. N - 1, v \in 0 .. M : u = Max(S) /\ v = Max(T)  BY <1>6, <1>10
  <2>2. u \in Nat /\ u + 1 <= N /\ v \in Nat /\ v <= M  OBVIOUS
  <2>3. QED  BY <1>11, <1>12, <2>1, <2>2

\* The buffers a kernel of this batch indexes are long enough.
LEMMA ReachFits ==
  ASSUME IsBatch(call, plan), api \in {"opencl", "vulkan"}, NEW m, Fits(m), NEW b \in DeviceBuffers
  PROVE  Reach[b] <= Len(m[b])
<1>1. /\ \A d \in Buffers : IsBuffer(m[d])
      /\ Len(call.samples) <= Len(m["samples"]) /\ Len(plan.tasks) <= Len(m["tasks"])
      /\ Len(plan.selected) <= Len(m["selected"])
      /\ args.shifted => Len(call.samples) <= Len(m["shifted"])
      /\ Generated(call) => args.windows * call.block <= Len(m["window"])
      /\ plan.frames * args.windows <= Len(m["autocor"])
      /\ plan.frames * args.windows <= Len(m["lpc"])
      /\ plan.frames <= Len(m["best"]) /\ plan.frames <= Len(m["bestRice"])
      /\ api = "vulkan" => plan.frames + Len(plan.tasks) <= Len(m["bestRice"])
      /\ api # "vulkan" => Len(plan.tasks) <= Len(m["taskRice"])
  BY FitSizes
<1>2. /\ plan.frames \in Nat \ {0} /\ call.block \in Nat \ {0}
      /\ Len(plan.tasks) = plan.frames * plan.perFrame
      /\ Len(plan.selected) = plan.frames * plan.perFrame
      /\ IsBuffer(plan.tasks) /\ IsSampleBlock(call.samples)
  BY BatchSizes
<1>3. args.perFrame = plan.perFrame  BY ArgumentsTyped DEF args
<1>4. PICK s \in Nat, t \in Nat, L \in Nat, N \in Nat :
        /\ s = LastSample /\ t = LastSelected + 1
        /\ L = Len(call.samples) /\ N = Len(plan.tasks) /\ s <= L /\ t <= N
  BY <1>2, PlannedReach DEF IsBuffer, IsSampleBlock
<1>5. /\ b = "samples" => Reach[b] = s
      /\ b = "shifted" => Reach[b] = IF args.shifted THEN s ELSE 0
      /\ b = "tasks" => Reach[b] = t
      /\ b = "selected" => Reach[b] = plan.frames * plan.perFrame
      /\ b = "window" => Reach[b] = args.windows * call.block
      /\ b \in {"autocor", "lpc"} => Reach[b] = plan.frames * args.windows
      /\ b = "best" => Reach[b] = plan.frames
      /\ b = "taskRice" => Reach[b] = IF api = "vulkan" THEN 0 ELSE t
      /\ b = "bestRice" => Reach[b] = IF api = "vulkan" THEN plan.frames + t ELSE plan.frames
  <2>1. Reach =
          [samples  |-> LastSample,
           shifted  |-> IF args.shifted THEN LastSample ELSE 0,
           tasks    |-> LastSelected + 1,
           selected |-> plan.frames * args.perFrame,
           window   |-> args.windows * call.block,
           autocor  |-> plan.frames * args.windows,
           lpc      |-> plan.frames * args.windows,
           best     |-> plan.frames,
           taskRice |-> IF api = "vulkan" THEN 0 ELSE LastSelected + 1,
           bestRice |-> IF api = "vulkan" THEN plan.frames + LastSelected + 1 ELSE plan.frames]
    BY Zenon DEF Reach, LastSample, LastSelected
  <2>2. PICK l : l = LastSelected  OBVIOUS
  <2>3. l \in Int /\ t = l + 1  BY <1>2, <1>4, <2>2, PlannedReach
  <2>4. plan.frames + l + 1 = plan.frames + t  BY <1>2, <2>3
  <2>5. QED  BY <1>3, <1>4, <2>1, <2>2, <2>4
<1>6. b \in Buffers /\ Len(m[b]) \in Nat  BY <1>1 DEF IsBuffer, Buffers
<1>7. ~Generated(call) => args.windows * call.block = 0
  <2>1. ~Generated(call) => args.windows = 0  BY ArgumentsTyped DEF args
  <2>2. 0 * call.block = 0  BY <1>2
  <2>3. QED  BY <2>1, <2>2
<1>8. CASE b = "samples"  BY <1>1, <1>4, <1>5, <1>6, <1>8
<1>9. CASE b = "shifted"  BY <1>1, <1>4, <1>5, <1>6, <1>9
<1>10. CASE b = "tasks"  BY <1>1, <1>4, <1>5, <1>6, <1>10
<1>11. CASE b = "selected"  BY <1>1, <1>2, <1>5, <1>6, <1>11
<1>12. CASE b = "window"  BY <1>1, <1>5, <1>6, <1>7, <1>12
<1>13. CASE b \in {"autocor", "lpc", "best"}  BY <1>1, <1>5, <1>13
<1>14. CASE b = "taskRice"  BY <1>1, <1>4, <1>5, <1>6, <1>14
<1>15. CASE b = "bestRice"  BY <1>1, <1>2, <1>4, <1>5, <1>6, <1>15
<1>16. QED
  BY <1>8, <1>9, <1>10, <1>11, <1>12, <1>13, <1>14, <1>15 DEF DeviceBuffers

\* The sums an OpenCL work group keeps per leaf fit the local memory asked for.
LEMMA LeavesFit ==
  ASSUME IsBatch(call, plan), api = "opencl", NEW task
  PROVE  LeafCells(task, args) <= LocalCells
<1>1. args.maxPorder = call.porder /\ args.profile = call.profile /\ args.api = "opencl"
  BY ArgumentsTyped DEF args
<1>2. call.porder \in 0 .. MaxPartitionOrder /\ MaxPartitionOrder \in 0 .. WordBits
      /\ MaxRiceParameter \in Nat /\ WordBits \in Nat
  BY CallsAssumption, KernelsAssumption, SubframesAssumption DEF IsBatch
<1>3. Min({args.maxPorder, MaxPartitionOrder}) = call.porder
  <2>1. Min({call.porder, MaxPartitionOrder}) =
          IF call.porder <= MaxPartitionOrder THEN call.porder ELSE MaxPartitionOrder
    BY <1>2, LeastOfTwo
  <2>2. QED  BY <1>1, <1>2, <2>1
<1>4. PICK p \in Nat \ {0} : p = 2^call.porder
  <2>1. call.porder \in 0 .. WordBits  BY <1>2
  <2>2. QED  BY <2>1, PowerTyped
<1>5. PICK r \in Nat \ {0} : r = MaxRiceParameter + 1  BY <1>2
<1>6. p * 1 \in Nat /\ p * r \in Nat  OBVIOUS
<1>7. CASE ~UsesLeaves(task, args)
  <2>1. LeafCells(task, args) = 0  BY <1>7 DEF LeafCells
  <2>2. LocalCells \in Nat  BY <1>4, <1>5, <1>6 DEF LocalCells
  <2>3. QED  BY <2>1, <2>2
<1>8. CASE UsesLeaves(task, args)
  <2>1. call.porder <= LeafPorderLimit
        /\ (MeanRice(call.profile) => MeanEstimated(call.profile))
    BY <1>1, <1>3, <1>8 DEF UsesLeaves
  <2>2. MeanEstimated(call.profile) => MeanRice(call.profile)  BY DEF MeanRice
  <2>3. LeafCells(task, args) = p * (IF MeanRice(call.profile) THEN 1 ELSE r)
    BY <1>1, <1>3, <1>4, <1>5, <1>8 DEF LeafCells
  <2>4. ~(call.porder > LeafPorderLimit)
    <3>1. LeafPorderLimit \in Nat /\ call.porder \in Nat  BY <1>2, KernelsAssumption
    <3>2. QED  BY <2>1, <3>1
  <2>5. LocalCells = p * (IF MeanEstimated(call.profile) THEN 1 ELSE r)
    BY <1>4, <1>5, <2>1, <2>4 DEF LocalCells
  <2>6. QED  BY <1>6, <2>1, <2>2, <2>3, <2>5
<1>9. QED  BY <1>7, <1>8

LEMMA NothingBeyond == SessionInv => BuffersFit
<1> SUFFICES ASSUME SessionInv PROVE BuffersFit  OBVIOUS
<1>1. ASSUME stage = "running", NEW b \in DeviceBuffers PROVE Reach[b] <= Len(mem[b])
  <2>1. IsBatch(call, plan) /\ api \in {"opencl", "vulkan"}
    BY <1>1 DEF SessionInv, BatchPlanned
  <2>2. Fits(mem)  BY <1>1 DEF SessionInv, BuffersKept, LongEnough, Fits
  <2>3. PICK m : m = mem  OBVIOUS
  <2>4. QED  BY <2>1, <2>2, <2>3, ReachFits
<1>2. ASSUME Before("AnalyzeSubframeExact"), api = "opencl", NEW t \in DOMAIN plan.tasks
      PROVE  LeafCells(mem.tasks[t], args) <= LocalCells
  <2>1. IsBatch(call, plan)  BY <1>2 DEF SessionInv, BatchPlanned, Before
  <2>2. PICK task : task = mem.tasks[t]  OBVIOUS
  <2>3. QED  BY <1>2, <2>1, <2>2, LeavesFit
<1>3. QED  BY <1>1, <1>2 DEF BuffersFit

-----------------------------------------------------------------------------
(* Sums, term by term.                                                     *)

\* The sum of the first k terms of x.
SumTo(x, k) == SumSeq([i \in 1 .. k |-> x[i]])

SameTo(x, y, n) == \A i \in 1 .. n : x[i] = y[i]

LEMMA AddsAgree ==
  ASSUME NEW x, NEW y, NEW n \in Nat, NEW m \in Nat, n <= m, SameTo(x, y, n),
         NEW g, Adds(g, x, n), NEW h, Adds(h, y, m)
  PROVE  \A s \in SUBSET (1 .. n) : g[s] = h[s]
<1> DEFINE T == {k \in 1 .. n + 1 : \A s \in SUBSET (1 .. k - 1) : g[s] = h[s]}
<1>1. g = [s \in SUBSET (1 .. n) |-> IF s = {} THEN 0 ELSE g[s \ {Max(s)}] + x[Max(s)]]
  BY Zenon DEF Adds
<1>2. h = [s \in SUBSET (1 .. m) |-> IF s = {} THEN 0 ELSE h[s \ {Max(s)}] + y[Max(s)]]
  BY Zenon DEF Adds
<1>3. 1 .. n \subseteq 1 .. m  OBVIOUS
<1>4. 1 \in T
  <2>1. ASSUME NEW s \in SUBSET (1 .. 1 - 1) PROVE g[s] = h[s]
    <3>1. s = {} /\ {} \in SUBSET (1 .. n) /\ {} \in SUBSET (1 .. m)  OBVIOUS
    <3>2. g[{}] = 0  BY <1>1, <3>1
    <3>3. h[{}] = 0  BY <1>2, <3>1
    <3>4. QED  BY <3>1, <3>2, <3>3
  <2>2. 1 \in 1 .. n + 1  OBVIOUS
  <2>3. QED  BY <2>1, <2>2, Zenon
<1>5. ASSUME NEW k \in 1 .. (n + 1) - 1, k \in T PROVE k + 1 \in T
  <2>1. PICK j \in Nat : j = k - 1 /\ k = j + 1 /\ j + 1 = (k + 1) - 1 /\ j + 1 <= n
    BY k - 1 \in Nat
  <2>2. ASSUME NEW s \in SUBSET (1 .. j + 1) PROVE g[s] = h[s]
    <3>1. CASE j + 1 \in s
      <4>1. Max(s) = j + 1 /\ s \ {Max(s)} \in SUBSET (1 .. j)  BY <3>1, LastOfSet
      <4>2. g[s \ {Max(s)}] = h[s \ {Max(s)}]  BY <1>5, <2>1, <4>1
      <4>3. s # {} /\ s \in SUBSET (1 .. n) /\ s \in SUBSET (1 .. m) /\ j + 1 \in 1 .. n
        BY <1>3, <2>1, <3>1
      <4>4. g[s] = g[s \ {Max(s)}] + x[Max(s)]  BY <1>1, <4>3
      <4>5. h[s] = h[s \ {Max(s)}] + y[Max(s)]  BY <1>2, <4>3
      <4>6. x[Max(s)] = y[Max(s)]  BY <4>1, <4>3 DEF SameTo
      <4>7. QED  BY <4>2, <4>4, <4>5, <4>6
    <3>2. CASE j + 1 \notin s
      <4>1. s \in SUBSET (1 .. j)  BY <3>2, LastOfSet
      <4>2. QED  BY <1>5, <2>1, <4>1
    <3>3. QED  BY <3>1, <3>2
  <2>3. k + 1 \in 1 .. n + 1  OBVIOUS
  <2>4. QED  BY <2>1, <2>2, <2>3
<1>6. n + 1 \in T  BY <1>4, <1>5, NumbersTo, n + 1 \in Nat, n + 1 \in 1 .. n + 1
<1>7. (n + 1) - 1 = n  OBVIOUS
<1>8. QED  BY <1>6, <1>7

LEMMA SumIs ==
  ASSUME NEW x, NEW n \in Nat
  PROVE  \E g : Adds(g, x, n) /\ SumTo(x, n) = g[1 .. n]
<1> DEFINE y == [i \in 1 .. n |-> x[i]]
           iter == CHOOSE g : Adds(g, y, n)
<1>1. Adds(iter, y, n)  BY AddsExists, Zenon
<1>2. SumSeq(y) = iter[1 .. n]
  BY Zenon DEF SumSeq, FoldLeft, MapThenFoldSet, Adds
<1>3. PICK g : Adds(g, x, n)  BY AddsExists
<1>4. SameTo(x, y, n)  BY DEF SameTo
<1>5. SumTo(x, n) = SumSeq(y)  BY Zenon DEF SumTo
<1> HIDE DEF iter, y
<1>6. \A s \in SUBSET (1 .. n) : g[s] = iter[s]
  BY <1>1, <1>3, <1>4, AddsAgree, n <= n
<1>7. g[1 .. n] = iter[1 .. n]  BY <1>6
<1>8. QED  BY <1>2, <1>3, <1>5, <1>7

\* How a sum grows.
LEMMA SumToNone ==
  ASSUME NEW x
  PROVE  SumTo(x, 0) = 0
<1>1. PICK g : Adds(g, x, 0) /\ SumTo(x, 0) = g[1 .. 0]  BY SumIs
<1>2. g = [s \in SUBSET (1 .. 0) |-> IF s = {} THEN 0 ELSE g[s \ {Max(s)}] + x[Max(s)]]
  BY <1>1, Zenon DEF Adds
<1>3. 1 .. 0 = {} /\ 1 .. 0 \in SUBSET (1 .. 0)  OBVIOUS
<1>4. QED  BY <1>1, <1>2, <1>3

LEMMA SumToNext ==
  ASSUME NEW x, NEW k \in Nat
  PROVE  SumTo(x, k + 1) = SumTo(x, k) + x[k + 1]
<1>1. PICK g : Adds(g, x, k) /\ SumTo(x, k) = g[1 .. k]  BY SumIs
<1>2. PICK h : Adds(h, x, k + 1) /\ SumTo(x, k + 1) = h[1 .. k + 1]
  <2>1. k + 1 \in Nat  OBVIOUS
  <2>2. QED  BY <2>1, SumIs
<1>3. h = [s \in SUBSET (1 .. k + 1) |-> IF s = {} THEN 0 ELSE h[s \ {Max(s)}] + x[Max(s)]]
  BY <1>2, Zenon DEF Adds
<1>4. \A s \in SUBSET (1 .. k) : g[s] = h[s]
  <2>1. k + 1 \in Nat /\ k <= k + 1 /\ SameTo(x, x, k)  BY DEF SameTo
  <2>2. QED  BY <1>1, <1>2, <2>1, AddsAgree
<1> DEFINE s == 1 .. k + 1
<1>5. k + 1 \in s /\ s \subseteq 1 .. k + 1 /\ s # {} /\ s \ {k + 1} = 1 .. k  OBVIOUS
<1> HIDE DEF s
<1>6. Max(s) = k + 1  BY <1>5, LastOfSet
<1>7. h[s] = h[s \ {Max(s)}] + x[Max(s)]  BY <1>3, <1>5
<1>8. h[1 .. k] = g[1 .. k]  BY <1>4
<1>9. QED  BY <1>1, <1>2, <1>5, <1>6, <1>7, <1>8 DEF s

\* A sequence's sum is that of its terms.
LEMMA SumSeqTo ==
  ASSUME NEW n \in Nat, NEW x, x = [i \in 1 .. n |-> x[i]]
  PROVE  SumSeq(x) = SumTo(x, n)
BY Zenon DEF SumTo

LEMMA SumToSame ==
  ASSUME NEW n \in Nat, NEW x, NEW y, SameTo(x, y, n)
  PROVE  SumTo(x, n) = SumTo(y, n)
<1>1. [i \in 1 .. n |-> x[i]] = [i \in 1 .. n |-> y[i]]  BY DEF SameTo
<1>2. QED  BY <1>1, Zenon DEF SumTo

\* A set that has 0, and with a number below n the next one, has them all to n.
LEMMA NumbersFrom ==
  ASSUME NEW n \in Nat, NEW T, 0 \in T, \A k \in 0 .. n - 1 : k \in T => k + 1 \in T
  PROVE  \A k \in 0 .. n : k \in T
<1> DEFINE S == {k \in 1 .. n + 1 : k - 1 \in T}
<1>1. 1 \in S  OBVIOUS
<1>2. ASSUME NEW k \in 1 .. (n + 1) - 1, k \in S PROVE k + 1 \in S
  <2>1. k - 1 \in 0 .. n - 1 /\ k - 1 \in T /\ (k - 1) + 1 = k /\ (k + 1) - 1 = k  BY <1>2
  <2>2. k \in T  BY <2>1
  <2>3. k + 1 \in 1 .. n + 1 /\ (k + 1) - 1 \in T  BY <2>1, <2>2
  <2>4. QED  BY <2>3
<1> HIDE DEF S
<1>3. 1 .. n + 1 \subseteq S  BY <1>1, <1>2, NumbersTo, n + 1 \in Nat
<1>4. ASSUME NEW k \in 0 .. n PROVE k \in T
  <2>1. k + 1 \in 1 .. n + 1 /\ (k + 1) - 1 = k  OBVIOUS
  <2>2. k + 1 \in S  BY <1>3, <2>1
  <2>3. QED  BY <2>1, <2>2 DEF S
<1>5. QED  BY <1>4

Ints(x, n) == \A i \in 1 .. n : x[i] \in Int

LEMMA SumToTyped ==
  ASSUME NEW n \in Nat, NEW x, Ints(x, n)
  PROVE  \A k \in 0 .. n : SumTo(x, k) \in Int
<1> DEFINE T == {k \in 0 .. n : SumTo(x, k) \in Int}
<1>1. 0 \in T  BY SumToNone
<1>2. ASSUME NEW k \in 0 .. n - 1, k \in T PROVE k + 1 \in T
  <2>1. k \in Nat /\ k + 1 \in 1 .. n /\ k + 1 \in 0 .. n  OBVIOUS
  <2>2. SumTo(x, k + 1) = SumTo(x, k) + x[k + 1]  BY <2>1, SumToNext
  <2>3. x[k + 1] \in Int  BY <2>1 DEF Ints
  <2>4. QED  BY <1>2, <2>1, <2>2, <2>3
<1>3. \A k \in 0 .. n : k \in T  BY <1>1, <1>2, NumbersFrom
<1>4. QED  BY <1>3

\* The terms of x, then those of y, m and n of them, make those of z.
Joined(x, m, y, n, z) ==
  /\ \A i \in 1 .. m : z[i] = x[i]
  /\ \A i \in 1 .. n : z[m + i] = y[i]

LEMMA SumToJoin ==
  ASSUME NEW m \in Nat, NEW n \in Nat, NEW x, NEW y, NEW z, Joined(x, m, y, n, z),
         Ints(x, m), Ints(y, n)
  PROVE  SumTo(z, m + n) = SumTo(x, m) + SumTo(y, n)
<1> DEFINE T == {k \in 0 .. n : SumTo(z, m + k) = SumTo(x, m) + SumTo(y, k)}
<1>0. SumTo(x, m) \in Int /\ \A k \in 0 .. n : SumTo(y, k) \in Int
  BY SumToTyped, m \in 0 .. m
<1>1. 0 \in T
  <2>1. SameTo(z, x, m)  BY DEF Joined, SameTo
  <2>2. SumTo(z, m) = SumTo(x, m)  BY <2>1, SumToSame
  <2>3. m + 0 = m /\ SumTo(y, 0) = 0  BY SumToNone
  <2>4. QED  BY <1>0, <2>2, <2>3
<1>2. ASSUME NEW k \in 0 .. n - 1, k \in T PROVE k + 1 \in T
  <2>1. k \in Nat /\ k + 1 \in 1 .. n /\ k \in 0 .. n /\ k + 1 \in 0 .. n
        /\ m + k \in Nat /\ m + (k + 1) = (m + k) + 1
    OBVIOUS
  <2>2. SumTo(z, (m + k) + 1) = SumTo(z, m + k) + z[(m + k) + 1]  BY <2>1, SumToNext
  <2>3. SumTo(y, k + 1) = SumTo(y, k) + y[k + 1]  BY <2>1, SumToNext
  <2>4. z[m + (k + 1)] = y[k + 1]  BY <2>1 DEF Joined
  <2>5. y[k + 1] \in Int /\ SumTo(y, k) \in Int  BY <1>0, <2>1 DEF Ints
  <2>6. SumTo(z, m + k) = SumTo(x, m) + SumTo(y, k)  BY <1>2
  <2>7. SumTo(z, m + (k + 1)) = SumTo(x, m) + SumTo(y, k + 1)
    BY <1>0, <2>1, <2>2, <2>3, <2>4, <2>5, <2>6
  <2>8. QED  BY <2>1, <2>7
<1>3. \A k \in 0 .. n : k \in T  BY <1>1, <1>2, NumbersFrom
<1>4. QED  BY <1>3, n \in 0 .. n

-----------------------------------------------------------------------------
(* What the analysis computes is made of integers.                         *)

LEMMA SmallPower ==
  ASSUME NEW s \in 0 .. 15
  PROVE  2^s \in Nat \ {0}
<1>1. s \in 0 .. 7 \/ s \in 8 .. 15  OBVIOUS
<1>2. ASSUME s \in 0 .. 7 PROVE 2^s \in Nat \ {0}
  <2>1. s = 0 \/ s = 1 \/ s = 2 \/ s = 3 \/ s = 4 \/ s = 5 \/ s = 6 \/ s = 7  BY <1>2
  <2>2. 2^0 \in Nat \ {0} /\ 2^1 \in Nat \ {0} /\ 2^2 \in Nat \ {0} /\ 2^3 \in Nat \ {0}
        /\ 2^4 \in Nat \ {0} /\ 2^5 \in Nat \ {0} /\ 2^6 \in Nat \ {0} /\ 2^7 \in Nat \ {0}
    OBVIOUS
  <2>3. QED  BY <2>1, <2>2
<1>3. ASSUME s \in 8 .. 15 PROVE 2^s \in Nat \ {0}
  <2>1. s = 8 \/ s = 9 \/ s = 10 \/ s = 11 \/ s = 12 \/ s = 13 \/ s = 14 \/ s = 15  BY <1>3
  <2>2. 2^8 \in Nat \ {0} /\ 2^9 \in Nat \ {0} /\ 2^10 \in Nat \ {0} /\ 2^11 \in Nat \ {0}
        /\ 2^12 \in Nat \ {0} /\ 2^13 \in Nat \ {0} /\ 2^14 \in Nat \ {0} /\ 2^15 \in Nat \ {0}
    OBVIOUS
  <2>3. QED  BY <2>1, <2>2
<1>4. QED  BY <1>1, <1>2, <1>3

LEMMA SmallShiftTyped ==
  ASSUME NEW x \in Int, NEW s \in 0 .. 15
  PROVE  ArithmeticShiftRight(x, s) \in Int
<1>1. PICK d \in Nat \ {0} : d = 2^s  BY SmallPower
<1>2. ArithmeticShiftRight(x, s) = IF x >= 0 THEN x \div d ELSE -((-x + d - 1) \div d)
  BY <1>1, Zenon DEF ArithmeticShiftRight
<1>3. x \div d \in Int /\ (-x + d - 1) \div d \in Int  OBVIOUS
<1>4. QED  BY <1>2, <1>3

LEMMA WrappedTyped ==
  ASSUME NEW x \in Int
  PROVE  Wrapped(x) \in Int
<1>1. IntBits \in 0 .. WordBits /\ IntBits - 1 \in 0 .. WordBits
  BY TaskPlansAssumption, SubframesAssumption, SizesTyped
<1>2. PICK d \in Nat \ {0}, h \in Nat \ {0} : d = 2^IntBits /\ h = 2^(IntBits - 1)
  BY <1>1, PowerTyped
<1>3. Wrapped(x) = ((x + h) % d) - h  BY <1>2 DEF Wrapped
<1>4. (x + h) % d \in Int  OBVIOUS
<1>5. QED  BY <1>2, <1>3, <1>4

LEMMA SumToNat ==
  ASSUME NEW n \in Nat, NEW x, \A i \in 1 .. n : x[i] \in Nat
  PROVE  \A k \in 0 .. n : SumTo(x, k) \in Nat
<1> DEFINE T == {k \in 0 .. n : SumTo(x, k) \in Nat}
<1>1. 0 \in T  BY SumToNone
<1>2. ASSUME NEW k \in 0 .. n - 1, k \in T PROVE k + 1 \in T
  <2>1. k \in Nat /\ k + 1 \in 1 .. n /\ k + 1 \in 0 .. n  OBVIOUS
  <2>2. SumTo(x, k + 1) = SumTo(x, k) + x[k + 1]  BY <2>1, SumToNext
  <2>3. x[k + 1] \in Nat  BY <2>1
  <2>4. QED  BY <1>2, <2>1, <2>2, <2>3
<1>3. \A k \in 0 .. n : k \in T  BY <1>1, <1>2, NumbersFrom
<1>4. QED  BY <1>3

LEMMA SumNat ==
  ASSUME NEW n \in Nat, NEW x, DOMAIN x = 1 .. n, x = [i \in DOMAIN x |-> x[i]],
         \A i \in 1 .. n : x[i] \in Nat
  PROVE  SumSeq(x) \in Nat
<1>1. x = [i \in 1 .. n |-> x[i]]  OBVIOUS
<1>2. SumSeq(x) = SumTo(x, n)  BY <1>1, SumSeqTo
<1>3. SumTo(x, n) \in Nat  BY SumToNat, n \in 0 .. n
<1>4. QED  BY <1>2, <1>3

\* Residuals of the positions from and up to, but not including, to.
IntResiduals(r, from, to) == \A pos \in from .. to - 1 : r[pos] \in Int
IntCoefficients(task) == \A i \in 1 .. task.order : task.coefs[i] \in Int

LEMMA FixedResidualTyped ==
  ASSUME NEW x, IsSampleBlock(x), NEW order \in 0 .. 4, NEW pos \in order .. Len(x) - 1
  PROVE  FixedResidual(x, pos, order) \in Int
<1>1. Len(x) \in Nat /\ DOMAIN x = 1 .. Len(x) /\ pos \in Int
  BY DEF IsSampleBlock, IsBuffer
<1>2. \A j \in 0 .. order : x[pos + 1 - j] \in Int
  <2>1. ASSUME NEW j \in 0 .. order PROVE pos + 1 - j \in DOMAIN x  BY <1>1
  <2>2. QED  BY <2>1 DEF IsSampleBlock
<1>3. x[pos + 1] \in Int
  <2>1. pos + 1 \in DOMAIN x  BY <1>1
  <2>2. QED  BY <2>1 DEF IsSampleBlock
<1>4. ASSUME order >= 1 PROVE x[pos] \in Int
  <2>1. pos \in DOMAIN x  BY <1>1, <1>4
  <2>2. QED  BY <2>1 DEF IsSampleBlock
<1>5. ASSUME order >= 2 PROVE x[pos - 1] \in Int
  <2>1. pos - 1 \in DOMAIN x  BY <1>1, <1>5
  <2>2. QED  BY <2>1 DEF IsSampleBlock
<1>6. ASSUME order >= 3 PROVE x[pos - 2] \in Int
  <2>1. pos - 2 \in DOMAIN x  BY <1>1, <1>6
  <2>2. QED  BY <2>1 DEF IsSampleBlock
<1>7. ASSUME order >= 4 PROVE x[pos - 3] \in Int
  <2>1. pos - 3 \in DOMAIN x  BY <1>1, <1>7
  <2>2. QED  BY <2>1 DEF IsSampleBlock
<1>8. CASE order = 0
  <2>1. FixedResidual(x, pos, order) = x[pos + 1]  BY <1>8 DEF FixedResidual
  <2>2. QED  BY <1>3, <2>1
<1>9. CASE order = 1
  <2>1. FixedResidual(x, pos, order) = x[pos + 1] - x[pos]  BY <1>9 DEF FixedResidual
  <2>2. QED  BY <1>3, <1>4, <1>9, <2>1
<1>10. CASE order = 2
  <2>1. FixedResidual(x, pos, order) = x[pos + 1] - 2 * x[pos] + x[pos - 1]
    BY <1>10 DEF FixedResidual
  <2>2. QED  BY <1>3, <1>4, <1>5, <1>10, <2>1
<1>11. CASE order = 3
  <2>1. FixedResidual(x, pos, order) = x[pos + 1] - 3 * x[pos] + 3 * x[pos - 1] - x[pos - 2]
    BY <1>11 DEF FixedResidual
  <2>2. x[pos] \in Int  BY <1>4, <1>11
  <2>3. x[pos - 1] \in Int  BY <1>5, <1>11
  <2>4. x[pos - 2] \in Int  BY <1>6, <1>11
  <2>5. PICK a \in Int : a = x[pos + 1]  BY <1>3
  <2>6. PICK b \in Int : b = x[pos]  BY <2>2
  <2>7. PICK c \in Int : c = x[pos - 1]  BY <2>3
  <2>8. PICK d \in Int : d = x[pos - 2]  BY <2>4
  <2>9. a - 3 * b + 3 * c - d \in Int  OBVIOUS
  <2>10. QED  BY ONLY <2>1, <2>5, <2>6, <2>7, <2>8, <2>9
<1>12. CASE order = 4
  <2>1. FixedResidual(x, pos, order) =
          x[pos + 1] - 4 * x[pos] + 6 * x[pos - 1] - 4 * x[pos - 2] + x[pos - 3]
    BY <1>12 DEF FixedResidual
  <2>2. x[pos] \in Int  BY <1>4, <1>12
  <2>3. x[pos - 1] \in Int  BY <1>5, <1>12
  <2>4. x[pos - 2] \in Int  BY <1>6, <1>12
  <2>5. x[pos - 3] \in Int  BY <1>7, <1>12
  <2>6. PICK a \in Int : a = x[pos + 1]  BY <1>3
  <2>7. PICK b \in Int : b = x[pos]  BY <2>2
  <2>8. PICK c \in Int : c = x[pos - 1]  BY <2>3
  <2>9. PICK d \in Int : d = x[pos - 2]  BY <2>4
  <2>10. PICK e \in Int : e = x[pos - 3]  BY <2>5
  <2>11. a - 4 * b + 6 * c - 4 * d + e \in Int  OBVIOUS
  <2>12. QED  BY ONLY <2>1, <2>6, <2>7, <2>8, <2>9, <2>10, <2>11
<1>13. QED  BY <1>8, <1>9, <1>10, <1>11, <1>12

LEMMA LpcResidualTyped ==
  ASSUME NEW x, IsSampleBlock(x), NEW task, task.order \in Nat, IntCoefficients(task),
         task.shift \in 0 .. 15, NEW pos \in task.order .. Len(x) - 1, NEW useInt
  PROVE  LpcResidual(x, pos, task, useInt) \in Int
<1>1. Len(x) \in Nat /\ DOMAIN x = 1 .. Len(x) /\ pos \in Int
  BY DEF IsSampleBlock, IsBuffer
<1>2. PICK n \in Nat, c \in {task.coefs}, s \in 0 .. 15 : n = task.order /\ s = task.shift
  OBVIOUS
<1>3. PICK y : y = [i \in 1 .. n |-> c[i] * x[pos - n + i]]  OBVIOUS
<1>4. ASSUME NEW i \in 1 .. n PROVE y[i] \in Int
  <2>1. pos - n + i \in DOMAIN x  BY <1>1, <1>2
  <2>2. x[pos - n + i] \in Int  BY <2>1 DEF IsSampleBlock
  <2>3. c[i] \in Int  BY <1>2 DEF IntCoefficients
  <2>4. PICK a \in Int, b \in Int : a = c[i] /\ b = x[pos - n + i]  BY <2>2, <2>3
  <2>5. y[i] = a * b  BY <1>3, <2>4
  <2>6. QED  BY <2>5
<1>5. SumSeq(y) \in Int
  <2>1. DOMAIN y = 1 .. n  BY <1>3
  <2>2. QED  BY <1>4, <2>1, SumTyped
<1>6. DevicePrediction(x, pos, task) = SumSeq(y)  BY <1>2, <1>3, Zenon DEF DevicePrediction
<1>7. PICK v : v = IF useInt THEN Wrapped(DevicePrediction(x, pos, task))
                             ELSE DevicePrediction(x, pos, task)
  OBVIOUS
<1>8. v \in Int  BY <1>5, <1>6, <1>7, WrappedTyped
<1>9. LpcResidual(x, pos, task, useInt) = x[pos + 1] - ArithmeticShiftRight(v, s)
  BY <1>2, <1>7, Zenon DEF LpcResidual
<1>10. x[pos + 1] \in Int
  <2>1. pos + 1 \in DOMAIN x  BY <1>1, <1>2
  <2>2. QED  BY <2>1 DEF IsSampleBlock
<1>11. ArithmeticShiftRight(v, s) \in Int  BY <1>2, <1>8, SmallShiftTyped
<1>12. QED  BY <1>9, <1>10, <1>11

\* A task that can be analysed, of a block this long.
Analysable(task, n) ==
  /\ task.block = n /\ task.order \in Nat /\ task.order < n
  /\ task.type = "Fixed" => task.order <= 4
  /\ task.type # "Fixed" => task.type = "Lpc" /\ IntCoefficients(task) /\ task.shift \in 0 .. 15
                            /\ task.cbits \in 1 .. 15

LEMMA ResidualsTyped ==
  ASSUME NEW x, IsSampleBlock(x), NEW task, Analysable(task, Len(x)), NEW useInt
  PROVE  IntResiduals(DeviceResiduals(x, task, useInt), task.order, task.block)
<1>1. PICK n \in Nat, N \in Nat : n = task.order /\ N = task.block /\ N = Len(x) /\ n < N
  BY DEF Analysable, IsSampleBlock, IsBuffer
<1>2. PICK r : r = DeviceResiduals(x, task, useInt)  OBVIOUS
<1>3. r = [pos \in n .. N - 1 |-> IF task.type = "Lpc" THEN LpcResidual(x, pos, task, useInt)
                                                       ELSE FixedResidual(x, pos, n)]
  BY <1>1, <1>2, Zenon DEF DeviceResiduals
<1>4. ASSUME NEW pos \in n .. N - 1 PROVE r[pos] \in Int
  <2>1. r[pos] = IF task.type = "Lpc" THEN LpcResidual(x, pos, task, useInt)
                                      ELSE FixedResidual(x, pos, n)
    BY <1>3
  <2>2. CASE task.type = "Lpc"
    <3>1. IntCoefficients(task) /\ task.shift \in 0 .. 15 /\ task.order \in Nat
          /\ pos \in task.order .. Len(x) - 1
      BY <1>1, <2>2 DEF Analysable
    <3>2. LpcResidual(x, pos, task, useInt) \in Int  BY <3>1, LpcResidualTyped
    <3>3. QED  BY <2>1, <2>2, <3>2
  <2>3. CASE task.type # "Lpc"
    <3>0. task.type = "Fixed" /\ task.order <= 4  BY <2>3, Zenon DEF Analysable
    <3>1. n \in 0 .. 4 /\ pos \in n .. Len(x) - 1  BY <1>1, <3>0
    <3>2. FixedResidual(x, pos, n) \in Int  BY <3>1, FixedResidualTyped
    <3>3. QED  BY <2>1, <2>3, <3>2
  <2>4. QED  BY <2>2, <2>3
<1>5. QED  BY <1>1, <1>2, <1>4 DEF IntResiduals

LEMMA PowersMultiply ==
  ASSUME NEW a \in Nat, NEW b \in Nat, a + b <= WordBits
  PROVE  2^(a + b) = 2^a * 2^b
<1>0. WordBits \in Nat  BY SubframesAssumption
<1> DEFINE T == {k \in 0 .. b : 2^(a + k) = 2^a * 2^k}
<1>1. 0 \in T
  <2>1. 2^a \in Nat /\ 2^0 \in Nat \ {0}  BY <1>0, PowerTyped
  <2>2. PICK p \in Nat : p = 2^a  BY <2>1
  <2>3. 2^0 = 1  BY <2>1
  <2>4. a + 0 = a /\ p * 1 = p  OBVIOUS
  <2>5. QED  BY <2>2, <2>3, <2>4
<1>2. ASSUME NEW k \in 0 .. b - 1, k \in T PROVE k + 1 \in T
  <2>1. a + k \in 0 .. WordBits /\ k \in 0 .. WordBits /\ a \in 0 .. WordBits
        /\ a + (k + 1) = (a + k) + 1
    BY <1>0
  <2>2. 2^((a + k) + 1) = 2 * 2^(a + k) /\ 2^(k + 1) = 2 * 2^k  BY <2>1, PowersAssumption
  <2>3. PICK p \in Nat, q \in Nat : p = 2^a /\ q = 2^k  BY <2>1, PowerTyped
  <2>4. 2^(a + k) = p * q  BY <1>2, <2>3
  <2>5. 2 * (p * q) = p * (2 * q)  OBVIOUS
  <2>6. 2^(a + (k + 1)) = 2^a * 2^(k + 1)  BY <2>1, <2>2, <2>3, <2>4, <2>5
  <2>7. k + 1 \in 0 .. b  OBVIOUS
  <2>8. QED  BY <2>6, <2>7
<1>3. \A k \in 0 .. b : k \in T  BY <1>1, <1>2, NumbersFrom
<1>4. QED  BY <1>3, b \in 0 .. b

\* Where the partitions of a valid order lie.
LEMMA PartitionCells ==
  ASSUME NEW N \in Nat, NEW n \in Nat, NEW q \in 0 .. WordBits, ValidPartitionOrder(N, n, q),
         NEW task, task.block = N, task.order = n, NEW p \in 0 .. 2^q - 1
  PROVE  LET from == PartitionFrom(task, q, p)
             to   == PartitionTo(task, q, p)
         IN  /\ from \in Nat /\ to \in Nat /\ n <= from /\ from <= to /\ to <= N
             /\ ResidualCount(task, q, p) = to - from
             /\ p = 0 => from = n
             /\ p # 0 => from = p * (N \div 2^q)
             /\ to = (p + 1) * (N \div 2^q) /\ N = 2^q * (N \div 2^q)
             /\ N \div 2^q \in Nat \ {0}
<1>1. PICK d \in Nat \ {0} : d = 2^q  BY PowerTyped
<1>2. PICK w \in Nat : w = N \div d  OBVIOUS
<1>3. N % d = 0 /\ w > n  BY <1>1, <1>2 DEF ValidPartitionOrder
<1>4. N = d * w
  <2>1. N = d * (N \div d) + (N % d)  OBVIOUS
  <2>2. QED  BY <1>2, <1>3, <2>1
<1>5. PICK from, to : from = PartitionFrom(task, q, p) /\ to = PartitionTo(task, q, p)  OBVIOUS
<1>6. from = (IF p = 0 THEN n ELSE p * w) /\ to = (p + 1) * w
      /\ ResidualCount(task, q, p) = w - (IF p = 0 THEN n ELSE 0)
  BY <1>1, <1>2, <1>5 DEF PartitionFrom, PartitionTo, ResidualCount
<1>7. p \in Nat /\ p + 1 <= d  BY <1>1
<1>8. p * w \in Nat /\ (p + 1) * w = p * w + w /\ (p # 0 => w <= p * w)
  <2>1. p * w \in Nat /\ (p + 1) * w = p * w + w  BY <1>7
  <2>2. ASSUME p # 0 PROVE w <= p * w
    <3>1. PICK j \in Nat : p = j + 1  BY <1>7, <2>2, p - 1 \in Nat
    <3>2. (j + 1) * w = j * w + w /\ j * w \in Nat  OBVIOUS
    <3>3. QED  BY <3>1, <3>2
  <2>3. QED  BY <2>1, <2>2
<1>9. (p + 1) * w <= d * w
  <2>1. PICK j \in Nat : d = (p + 1) + j
    <3>1. d - (p + 1) \in Nat /\ d = (p + 1) + (d - (p + 1))  BY <1>7
    <3>2. QED  BY <3>1
  <2>2. d * w = (p + 1) * w + j * w /\ j * w \in Nat /\ (p + 1) * w \in Nat  BY <1>7, <2>1
  <2>3. QED  BY <2>2
<1>10. from \in Nat /\ to \in Nat /\ n <= from /\ from <= to /\ to <= N
  BY <1>3, <1>4, <1>6, <1>8, <1>9
<1>11. ResidualCount(task, q, p) = to - from  BY <1>6, <1>8
<1>12. w # 0  BY <1>3
<1>13. QED  BY <1>1, <1>2, <1>4, <1>5, <1>6, <1>10, <1>11, <1>12

LEMMA FoldedSumTyped ==
  ASSUME NEW r, NEW lo \in Int, NEW hi \in Int, IntResiduals(r, lo, hi),
         NEW from \in Int, NEW to \in Int, lo <= from, from <= to, to <= hi,
         NEW k \in 0 .. WordBits
  PROVE  FoldedSum(r, from, to, k) \in Int
<1>1. PICK d \in Nat \ {0} : d = 2^k  BY PowerTyped
<1>2. PICK n \in Nat : n = to - from  BY to - from \in Nat
<1>3. PICK x : x = [i \in 1 .. n |-> FoldSigned(r[from + i - 1]) \div d]  OBVIOUS
<1>4. ASSUME NEW i \in 1 .. n PROVE x[i] \in Int
  <2>1. from + i - 1 \in lo .. hi - 1  BY <1>2
  <2>2. PICK v \in Int : v = r[from + i - 1]  BY <2>1 DEF IntResiduals
  <2>3. FoldSigned(v) \in Int  BY DEF FoldSigned
  <2>4. PICK u \in Int : u = FoldSigned(v)  BY <2>3
  <2>5. u \div d \in Int  OBVIOUS
  <2>6. QED  BY <1>3, <2>2, <2>4, <2>5
<1>5. FoldedSum(r, from, to, k) = SumSeq(x)  BY <1>1, <1>2, <1>3, Zenon DEF FoldedSum
<1>6. DOMAIN x = 1 .. n  BY <1>3
<1>7. QED  BY <1>4, <1>5, <1>6, SumTyped

LEMMA AbsoluteSumTyped ==
  ASSUME NEW r, NEW lo \in Int, NEW hi \in Int, IntResiduals(r, lo, hi),
         NEW from \in Int, NEW to \in Int, lo <= from, from <= to, to <= hi
  PROVE  AbsoluteSum(r, from, to) \in Nat
<1>2. PICK n \in Nat : n = to - from  BY to - from \in Nat
<1>3. PICK x : x = [i \in 1 .. n |-> Magnitude(r[from + i - 1])]  OBVIOUS
<1>4. ASSUME NEW i \in 1 .. n PROVE x[i] \in Nat
  <2>1. from + i - 1 \in lo .. hi - 1  BY <1>2
  <2>2. PICK v \in Int : v = r[from + i - 1]  BY <2>1 DEF IntResiduals
  <2>3. Magnitude(v) \in Nat  BY DEF Magnitude
  <2>4. QED  BY <1>3, <2>2, <2>3
<1>5. AbsoluteSum(r, from, to) = SumSeq(x)  BY <1>2, <1>3, Zenon DEF AbsoluteSum
<1>6. DOMAIN x = 1 .. n /\ x = [i \in DOMAIN x |-> x[i]]  BY <1>3
<1>7. QED  BY <1>4, <1>5, <1>6, SumNat

\* Partition p of order q, its sums kept whole or per leaf of order L.
Partitioned(task, leaf, L, q) ==
  /\ L \in 0 .. WordBits /\ q \in 0 .. L
  /\ ValidPartitionOrder(task.block, task.order, q)
  /\ leaf => ValidPartitionOrder(task.block, task.order, L)

LeafOf(L, q, p, l) == p * 2^(L - q) + l - 1

LEMMA LeafNumbers ==
  ASSUME NEW L \in 0 .. WordBits, NEW q \in 0 .. L, NEW p \in 0 .. 2^q - 1,
         NEW l \in 1 .. 2^(L - q)
  PROVE  LeafOf(L, q, p, l) \in 0 .. 2^L - 1
<1>0. WordBits \in Nat /\ q \in 0 .. WordBits /\ L - q \in 0 .. WordBits
      /\ q \in Nat /\ L - q \in Nat /\ q + (L - q) = L /\ L <= WordBits
  BY SubframesAssumption
<1>1. PICK a \in Nat \ {0}, b \in Nat \ {0}, c \in Nat \ {0} : a = 2^q /\ b = 2^(L - q) /\ c = 2^L
  BY <1>0, PowerTyped
<1>2. c = a * b
  <2>1. PICK d \in Nat : d = L - q  BY <1>0
  <2>2. 2^(q + d) = 2^q * 2^d  BY <1>0, <2>1, PowersMultiply
  <2>3. q + d = L  BY <1>0, <2>1
  <2>4. QED  BY <1>1, <2>1, <2>2, <2>3
<1>3. p \in 0 .. a - 1 /\ l - 1 \in 0 .. b - 1  BY <1>1
<1>4. p * b + (l - 1) + 1 \in 1 .. a * b  BY <1>3, CellRow
<1>5. LeafOf(L, q, p, l) = p * b + l - 1  BY <1>1 DEF LeafOf
<1>6. p * b \in Nat  BY <1>3
<1>7. QED  BY <1>1, <1>2, <1>3, <1>4, <1>5, <1>6

\* The sums of a partition.
FoldedPart(r, task, leaf, L, q, p, k) ==
  PartitionSum(task, leaf, L, q, p, LAMBDA from, to : FoldedSum(r, from, to, k))
AbsolutePart(r, task, leaf, L, q, p) ==
  PartitionSum(task, leaf, L, q, p, LAMBDA from, to : AbsoluteSum(r, from, to))

\* The sums of its leaves.
FoldedLeaves(r, task, L, q, p, k) ==
  [l \in 1 .. 2^(L - q) |-> FoldedSum(r, PartitionFrom(task, L, LeafOf(L, q, p, l)),
                                         PartitionTo(task, L, LeafOf(L, q, p, l)), k)]
AbsoluteLeaves(r, task, L, q, p) ==
  [l \in 1 .. 2^(L - q) |-> AbsoluteSum(r, PartitionFrom(task, L, LeafOf(L, q, p, l)),
                                           PartitionTo(task, L, LeafOf(L, q, p, l)))]

LEMMA FoldedByLeaves ==
  ASSUME NEW r, NEW task, NEW leaf, leaf, NEW L, NEW q, NEW p, NEW k
  PROVE  FoldedPart(r, task, leaf, L, q, p, k) = SumSeq(FoldedLeaves(r, task, L, q, p, k))
BY Zenon DEF FoldedPart, PartitionSum, LeafSum, LeafOf, FoldedLeaves

LEMMA FoldedWhole ==
  ASSUME NEW r, NEW task, NEW leaf, ~leaf, NEW L, NEW q, NEW p, NEW k
  PROVE  FoldedPart(r, task, leaf, L, q, p, k) =
           FoldedSum(r, PartitionFrom(task, q, p), PartitionTo(task, q, p), k)
BY Zenon DEF FoldedPart, PartitionSum

LEMMA AbsoluteByLeaves ==
  ASSUME NEW r, NEW task, NEW leaf, leaf, NEW L, NEW q, NEW p
  PROVE  AbsolutePart(r, task, leaf, L, q, p) = SumSeq(AbsoluteLeaves(r, task, L, q, p))
BY Zenon DEF AbsolutePart, PartitionSum, LeafSum, LeafOf, AbsoluteLeaves

LEMMA AbsoluteWhole ==
  ASSUME NEW r, NEW task, NEW leaf, ~leaf, NEW L, NEW q, NEW p
  PROVE  AbsolutePart(r, task, leaf, L, q, p) =
           AbsoluteSum(r, PartitionFrom(task, q, p), PartitionTo(task, q, p))
BY Zenon DEF AbsolutePart, PartitionSum

\* The residuals of a task of its own.
TaskResiduals(r, task) ==
  /\ task.block \in Nat /\ task.order \in Nat
  /\ IntResiduals(r, task.order, task.block)

LEMMA PartTyped ==
  ASSUME NEW r, NEW task, TaskResiduals(r, task), NEW leaf, NEW L, NEW q,
         Partitioned(task, leaf, L, q), NEW p \in 0 .. 2^q - 1
  PROVE  /\ \A k \in 0 .. WordBits : FoldedPart(r, task, leaf, L, q, p, k) \in Int
         /\ AbsolutePart(r, task, leaf, L, q, p) \in Nat
         /\ ResidualCount(task, q, p) \in Nat
         /\ \A k \in 0 .. WordBits :
              FoldedSum(r, PartitionFrom(task, q, p), PartitionTo(task, q, p), k) \in Int
<1>0. L \in 0 .. WordBits /\ q \in 0 .. L /\ WordBits \in Nat /\ q \in 0 .. WordBits
      /\ L - q \in 0 .. WordBits
  BY SubframesAssumption DEF Partitioned
<1>1. PICK N \in Nat, n \in Nat : N = task.block /\ n = task.order  BY DEF TaskResiduals
<1>2. IntResiduals(r, n, N) /\ n \in Int /\ N \in Int  BY <1>1 DEF TaskResiduals
<1>3. ValidPartitionOrder(N, n, q)  BY <1>1 DEF Partitioned
<1>4. PICK from, to : from = PartitionFrom(task, q, p) /\ to = PartitionTo(task, q, p)  OBVIOUS
<1>5. from \in Nat /\ to \in Nat /\ n <= from /\ from <= to /\ to <= N
      /\ ResidualCount(task, q, p) = to - from
  BY <1>0, <1>1, <1>3, <1>4, PartitionCells
<1>6. ResidualCount(task, q, p) \in Nat  BY <1>5
<1>7. ASSUME NEW k \in 0 .. WordBits PROVE FoldedSum(r, from, to, k) \in Int
  <2>1. from \in Int /\ to \in Int  BY <1>5
  <2>2. QED  BY <1>2, <1>5, <2>1, FoldedSumTyped
<1>8. AbsoluteSum(r, from, to) \in Nat
  <2>1. from \in Int /\ to \in Int  BY <1>5
  <2>2. QED  BY <1>2, <1>5, <2>1, AbsoluteSumTyped
<1>9. CASE ~leaf
  <2>1. ASSUME NEW k \in 0 .. WordBits PROVE FoldedPart(r, task, leaf, L, q, p, k) \in Int
    <3>1. FoldedPart(r, task, leaf, L, q, p, k) = FoldedSum(r, from, to, k)
      BY <1>4, <1>9, Zenon DEF FoldedPart, PartitionSum
    <3>2. QED  BY <1>7, <3>1
  <2>2. AbsolutePart(r, task, leaf, L, q, p) = AbsoluteSum(r, from, to)
    BY <1>4, <1>9, AbsoluteWhole, Zenon
  <2>3. QED  BY <1>4, <1>6, <1>7, <1>8, <2>1, <2>2
<1>10. CASE leaf
  <2>1. PICK m \in Nat : m = 2^(L - q)  BY <1>0, PowerTyped
  <2>2. ValidPartitionOrder(N, n, L)  BY <1>1, <1>10 DEF Partitioned
  <2>3. ASSUME NEW l \in 1 .. m
        PROVE  /\ \A k \in 0 .. WordBits :
                    FoldedSum(r, PartitionFrom(task, L, LeafOf(L, q, p, l)),
                              PartitionTo(task, L, LeafOf(L, q, p, l)), k) \in Int
               /\ AbsoluteSum(r, PartitionFrom(task, L, LeafOf(L, q, p, l)),
                              PartitionTo(task, L, LeafOf(L, q, p, l))) \in Nat
    <3>1. PICK c : c = LeafOf(L, q, p, l)  OBVIOUS
    <3>2. c \in 0 .. 2^L - 1  BY <1>0, <2>1, <3>1, LeafNumbers
    <3>3. PICK f, t : f = PartitionFrom(task, L, c) /\ t = PartitionTo(task, L, c)  OBVIOUS
    <3>4. f \in Nat /\ t \in Nat /\ n <= f /\ f <= t /\ t <= N
      BY <1>0, <1>1, <2>2, <3>2, <3>3, PartitionCells
    <3>5. f \in Int /\ t \in Int  BY <3>4
    <3>6. \A k \in 0 .. WordBits : FoldedSum(r, f, t, k) \in Int
      BY <1>2, <3>4, <3>5, FoldedSumTyped
    <3>7. AbsoluteSum(r, f, t) \in Nat  BY <1>2, <3>4, <3>5, AbsoluteSumTyped
    <3>8. QED  BY <3>1, <3>3, <3>6, <3>7
  <2>4. ASSUME NEW k \in 0 .. WordBits PROVE FoldedPart(r, task, leaf, L, q, p, k) \in Int
    <3>1. PICK x : x = [l \in 1 .. m |->
                          FoldedSum(r, PartitionFrom(task, L, LeafOf(L, q, p, l)),
                                    PartitionTo(task, L, LeafOf(L, q, p, l)), k)]
      OBVIOUS
    <3>2. FoldedPart(r, task, leaf, L, q, p, k) = SumSeq(x)
      BY <1>10, <2>1, <3>1, Zenon DEF FoldedPart, PartitionSum, LeafSum, LeafOf
    <3>3. DOMAIN x = 1 .. m /\ \A l \in 1 .. m : x[l] \in Int  BY <2>3, <3>1
    <3>4. QED  BY <3>2, <3>3, SumTyped
  <2>5. AbsolutePart(r, task, leaf, L, q, p) \in Nat
    <3>1. PICK x : x = [l \in 1 .. m |->
                          AbsoluteSum(r, PartitionFrom(task, L, LeafOf(L, q, p, l)),
                                      PartitionTo(task, L, LeafOf(L, q, p, l)))]
      OBVIOUS
    <3>2. AbsolutePart(r, task, leaf, L, q, p) = SumSeq(x)
      BY <1>10, <2>1, <3>1, AbsoluteByLeaves, Zenon DEF AbsoluteLeaves
    <3>3. DOMAIN x = 1 .. m /\ x = [l \in DOMAIN x |-> x[l]] /\ \A l \in 1 .. m : x[l] \in Nat
      BY <2>3, <3>1
    <3>4. QED  BY <3>2, <3>3, SumNat
  <2>6. QED  BY <1>4, <1>6, <1>7, <2>4, <2>5
<1>11. QED  BY <1>9, <1>10

LEMMA MeanParameterTyped ==
  ASSUME NEW absSum \in Nat, NEW n \in Nat
  PROVE  MeanRiceParameter(absSum, n) \in 0 .. MaxRiceParameter
<1>0. MaxRiceParameter \in Nat  BY SubframesAssumption
<1> DEFINE mean == ((absSum - 1) * (2^18 \div n)) \div 2^18
           powers == {e \in 0 .. 30 : 2^e <= mean}
           wanted == Max(powers) + 1
<1>1. MeanRiceParameter(absSum, n) =
        IF n = 0 \/ absSum < 2 THEN 0
        ELSE IF mean = 0 THEN 0 ELSE Min({MaxRiceParameter, wanted})
  BY Zenon DEF MeanRiceParameter
<1>2. CASE n = 0 \/ absSum < 2 \/ mean = 0  BY <1>0, <1>1, <1>2
<1>3. CASE n # 0 /\ ~(absSum < 2) /\ mean # 0
  <2>1. mean \in Nat
    <3>1. PICK d \in Nat \ {0} : d = 2^18  OBVIOUS
    <3>2. PICK b \in Nat : b = d \div n  BY <1>3
    <3>3. PICK a \in Nat : a = absSum - 1  BY <1>3
    <3>4. PICK c \in Nat : c = a * b  OBVIOUS
    <3>5. c \div d \in Nat  OBVIOUS
    <3>6. QED  BY <3>1, <3>2, <3>3, <3>4, <3>5
  <2>2. 0 \in powers
    <3>1. 2^0 = 1
      <4>1. 2^0 \in Nat \ {0}  BY PowerTyped, SubframesAssumption
      <4>2. QED  OBVIOUS
    <3> HIDE DEF mean
    <3>2. QED  BY <1>3, <2>1, <3>1
  <2>3. powers \subseteq 0 .. 30 /\ powers # {} /\ 30 \in Nat  BY <2>2
  <2> HIDE DEF powers, mean
  <2>4. PICK P : P = powers  OBVIOUS
  <2>5. PICK e : e = Max(P)  OBVIOUS
  <2>6. e \in 0 .. 30  BY <2>3, <2>4, <2>5, LargestNumber
  <2>7. PICK w \in Int : w = e + 1  BY <2>6
  <2>8. Min({MaxRiceParameter, w}) = IF MaxRiceParameter <= w THEN MaxRiceParameter ELSE w
    BY <1>0, LeastOfTwo
  <2>9. wanted = w  BY <2>4, <2>5, <2>7
  <2> HIDE DEF wanted
  <2>10. QED  BY <1>0, <1>1, <1>3, <2>6, <2>7, <2>8, <2>9
<1>4. QED  BY <1>2, <1>3

LEMMA MeanBitsTyped ==
  ASSUME NEW k \in 0 .. MaxRiceParameter, NEW n \in Nat, NEW absSum \in Nat
  PROVE  MeanPartitionBits(k, n, absSum) \in Int
<1>0. /\ MaxRiceParameter \in Nat /\ WordBits \in Nat /\ WordBits > MaxRiceParameter
      /\ k \in Nat
  BY SubframesAssumption
<1>1. PICK coded : coded = IF k = 0 THEN 2 * absSum ELSE absSum \div 2^(k - 1)  OBVIOUS
<1>2. coded \in Nat
  <2>1. CASE k = 0  BY <1>1, <2>1
  <2>2. CASE k # 0
    <3>1. k - 1 \in 0 .. WordBits  BY <1>0, <2>2
    <3>2. PICK d \in Nat \ {0} : d = 2^(k - 1)  BY <3>1, PowerTyped
    <3>3. absSum \div d \in Nat  OBVIOUS
    <3>4. QED  BY <1>1, <2>2, <3>2, <3>3
  <2>3. QED  BY <2>1, <2>2
<1>3. PICK bits : bits = 4 + (1 + k) * n + coded  OBVIOUS
<1>4. bits \in Nat
  <2>1. (1 + k) * n \in Nat  BY <1>0
  <2>2. QED  BY <1>2, <1>3, <2>1
<1>5. PICK half \in Nat : half = n \div 2  OBVIOUS
<1>6. MeanPartitionBits(k, n, absSum) = IF bits > half THEN bits - half ELSE 0
  BY <1>1, <1>3, <1>5, Zenon DEF MeanPartitionBits
<1>7. QED  BY <1>4, <1>5, <1>6

\* Parameters that exist and costs that are numbers, for every partition of order q.
Choosable(c, q) ==
  /\ DOMAIN c = 1 .. 2^q
  /\ \A p \in 1 .. 2^q : c[p].k \in 0 .. MaxRiceParameter /\ c[p].bits \in Int

LEMMA ExactTyped ==
  ASSUME NEW r, NEW task, TaskResiduals(r, task), NEW leaf, NEW L, NEW q,
         Partitioned(task, leaf, L, q)
  PROVE  Choosable(ExactChoices(r, task, leaf, L, q), q)
<1>0. /\ MaxRiceParameter \in Nat /\ WordBits \in Nat /\ WordBits > MaxRiceParameter
  BY SubframesAssumption
<1>1. q \in 0 .. WordBits  BY <1>0 DEF Partitioned
<1>2. PICK d \in Nat \ {0} : d = 2^q  BY <1>1, PowerTyped
<1>3. ASSUME NEW p \in 1 .. d
      PROVE  \A e : e = ExactCosts(r, task, leaf, L, q, p - 1) =>
               FirstLeast(e) \in 0 .. MaxRiceParameter /\ 4 + e[FirstLeast(e)] \in Int
  <2>1. p - 1 \in 0 .. 2^q - 1  BY <1>2
  <2>2. PICK b : b = p - 1  OBVIOUS
  <2>3. /\ \A k \in 0 .. WordBits : FoldedPart(r, task, leaf, L, q, b, k) \in Int
        /\ ResidualCount(task, q, b) \in Nat
    BY <2>1, <2>2, PartTyped
  <2>4. PICK n \in Nat : n = ResidualCount(task, q, b)  BY <2>3
  <2>5. PICK costs : costs = ExactCosts(r, task, leaf, L, q, b)  OBVIOUS
  <2>6. costs = [k \in 0 .. MaxRiceParameter |->
                   FoldedPart(r, task, leaf, L, q, b, k) + n * (1 + k)]
    BY <2>4, <2>5, Zenon DEF ExactCosts, FoldedPart
  <2>7. ASSUME NEW k \in 0 .. MaxRiceParameter PROVE costs[k] \in Int
    <3>1. k \in 0 .. WordBits /\ k \in Nat  BY <1>0
    <3>2. FoldedPart(r, task, leaf, L, q, b, k) \in Int  BY <2>3, <3>1
    <3>3. n * (1 + k) \in Int  BY <3>1
    <3>4. QED  BY <2>6, <3>2, <3>3
  <2>8. DOMAIN costs = 0 .. MaxRiceParameter  BY <2>6
  <2>9. DOMAIN costs # {}  BY <1>0, <2>8
  <2>10. FirstLeast(costs) \in DOMAIN costs
    <3>1. DOMAIN costs \subseteq 0 .. MaxRiceParameter /\ \A k \in DOMAIN costs : costs[k] \in Int
      BY <2>7, <2>8
    <3>2. QED  BY <1>0, <2>9, <3>1, LeastFound
  <2>11. costs[FirstLeast(costs)] \in Int  BY <2>7, <2>8, <2>10
  <2>12. costs = ExactCosts(r, task, leaf, L, q, p - 1)  BY <2>2, <2>5, Zenon
  <2>13. FirstLeast(costs) \in 0 .. MaxRiceParameter  BY <2>8, <2>10
  <2>14. 4 + costs[FirstLeast(costs)] \in Int  BY <2>11
  <2>15. QED  BY <2>12, <2>13, <2>14, Zenon
<1>4. PICK c : c = ExactChoices(r, task, leaf, L, q)  OBVIOUS
<1>5. c = [p \in 1 .. d |->
             [k |-> FirstLeast(ExactCosts(r, task, leaf, L, q, p - 1)),
              bits |-> 4 + ExactCosts(r, task, leaf, L, q, p - 1)
                             [FirstLeast(ExactCosts(r, task, leaf, L, q, p - 1))]]]
  BY <1>2, <1>4, Zenon DEF ExactChoices
<1>6. ASSUME NEW p \in 1 .. d PROVE c[p].k \in 0 .. MaxRiceParameter /\ c[p].bits \in Int
  <2>1. PICK e : e = ExactCosts(r, task, leaf, L, q, p - 1)  OBVIOUS
  <2>2. PICK f : f = FirstLeast(e)  OBVIOUS
  <2>3. c[p] = [k |-> f, bits |-> 4 + e[f]]  BY <1>5, <2>1, <2>2
  <2>4. f \in 0 .. MaxRiceParameter /\ 4 + e[f] \in Int  BY <1>3, <2>1, <2>2, Zenon
  <2>5. QED  BY <2>3, <2>4
<1>7. DOMAIN c = 1 .. d  BY <1>5
<1>8. QED  BY <1>2, <1>4, <1>6, <1>7 DEF Choosable

LEMMA MeanTyped ==
  ASSUME NEW r, NEW task, TaskResiduals(r, task), NEW leaf, NEW L, NEW q,
         Partitioned(task, leaf, L, q)
  PROVE  Choosable(MeanChoices(r, task, leaf, L, q), q)
<1>0. WordBits \in Nat  BY SubframesAssumption
<1>1. q \in 0 .. WordBits  BY <1>0 DEF Partitioned
<1>2. PICK d \in Nat \ {0} : d = 2^q  BY <1>1, PowerTyped
<1>4. PICK c : c = MeanChoices(r, task, leaf, L, q)  OBVIOUS
<1>5. c = [p \in 1 .. d |->
             [k |-> MeanRiceParameter(AbsolutePart(r, task, leaf, L, q, p - 1),
                                      ResidualCount(task, q, p - 1)),
              bits |-> MeanPartitionBits(
                         MeanRiceParameter(AbsolutePart(r, task, leaf, L, q, p - 1),
                                           ResidualCount(task, q, p - 1)),
                         ResidualCount(task, q, p - 1),
                         AbsolutePart(r, task, leaf, L, q, p - 1))]]
  BY <1>2, <1>4, Zenon DEF MeanChoices, AbsolutePart
<1>6. ASSUME NEW p \in 1 .. d PROVE c[p].k \in 0 .. MaxRiceParameter /\ c[p].bits \in Int
  <2>1. p - 1 \in 0 .. 2^q - 1  BY <1>2
  <2>2. AbsolutePart(r, task, leaf, L, q, p - 1) \in Nat
        /\ ResidualCount(task, q, p - 1) \in Nat
    BY <2>1, PartTyped
  <2>3. PICK s \in Nat, n \in Nat : s = AbsolutePart(r, task, leaf, L, q, p - 1)
                                    /\ n = ResidualCount(task, q, p - 1)
    BY <2>2
  <2>4. PICK e : e = MeanRiceParameter(s, n)  OBVIOUS
  <2>5. e \in 0 .. MaxRiceParameter  BY <2>4, MeanParameterTyped
  <2>6. MeanPartitionBits(e, n, s) \in Int  BY <2>5, MeanBitsTyped
  <2>7. c[p] = [k |-> e, bits |-> MeanPartitionBits(e, n, s)]  BY <1>5, <2>3, <2>4
  <2>8. QED  BY <2>5, <2>6, <2>7
<1>7. DOMAIN c = 1 .. d  BY <1>5
<1>8. QED  BY <1>2, <1>4, <1>6, <1>7 DEF Choosable

LEMMA ChoiceBitsTyped ==
  ASSUME NEW q \in 0 .. WordBits, NEW c, Choosable(c, q)
  PROVE  BitsOfChoices(c) \in Int
<1>1. PICK d \in Nat \ {0} : d = 2^q  BY PowerTyped
<1>2. PICK x : x = [p \in DOMAIN c |-> c[p].bits]  OBVIOUS
<1>3. DOMAIN x = 1 .. d /\ \A p \in 1 .. d : x[p] \in Int  BY <1>1, <1>2 DEF Choosable
<1>4. BitsOfChoices(c) = SumSeq(x)  BY <1>2, Zenon DEF BitsOfChoices
<1>5. d \in Nat  OBVIOUS
<1>6. QED  BY <1>3, <1>4, <1>5, SumTyped

LEMMA RecountedTyped ==
  ASSUME NEW r, NEW task, TaskResiduals(r, task), NEW q \in 0 .. WordBits,
         Partitioned(task, FALSE, q, q), NEW c, Choosable(c, q)
  PROVE  RecountedBits(r, task, q, c) \in Int
<1>0. /\ MaxRiceParameter \in Nat /\ WordBits \in Nat /\ WordBits > MaxRiceParameter
  BY SubframesAssumption
<1>1. PICK d \in Nat \ {0} : d = 2^q  BY PowerTyped
<1>2. PICK x : x = [p \in 1 .. d |->
        4 + FoldedSum(r, PartitionFrom(task, q, p - 1), PartitionTo(task, q, p - 1), c[p].k)
          + ResidualCount(task, q, p - 1) * (1 + c[p].k)]
  OBVIOUS
<1>3. ASSUME NEW p \in 1 .. d PROVE x[p] \in Int
  <2>1. p - 1 \in 0 .. 2^q - 1  BY <1>1
  <2>2. PICK k : k = c[p].k  OBVIOUS
  <2>3. k \in 0 .. MaxRiceParameter  BY <1>1, <2>2 DEF Choosable
  <2>4. k \in 0 .. WordBits /\ k \in Nat  BY <1>0, <2>3
  <2>5. PICK b : b = p - 1  OBVIOUS
  <2>6. ResidualCount(task, q, b) \in Nat
        /\ \A j \in 0 .. WordBits :
             FoldedSum(r, PartitionFrom(task, q, b), PartitionTo(task, q, b), j) \in Int
    BY <2>1, <2>5, PartTyped
  <2>7. PICK n \in Nat, v \in Int : n = ResidualCount(task, q, b)
          /\ v = FoldedSum(r, PartitionFrom(task, q, b), PartitionTo(task, q, b), k)
    BY <2>4, <2>6
  <2>8. x[p] = 4 + v + n * (1 + k)  BY <1>2, <2>2, <2>5, <2>7
  <2>9. n * (1 + k) \in Int  BY <2>4
  <2>10. QED  BY <2>8, <2>9
<1>4. RecountedBits(r, task, q, c) = SumSeq(x)  BY <1>1, <1>2, Zenon DEF RecountedBits
<1>5. DOMAIN x = 1 .. d /\ d \in Nat  BY <1>2
<1>6. QED  BY <1>3, <1>4, <1>5, SumTyped

LEMMA BaseBitsTyped ==
  ASSUME NEW task, task.order \in Nat, task.wbits \in Int,
         task.type = "Lpc" => task.cbits \in Int
  PROVE  BaseBits(task) \in Int
<1>1. PICK n \in Nat, w \in Int : n = task.order /\ w = task.wbits  OBVIOUS
<1>2. DeviceBits \in Int  BY SizesTyped
<1>3. n * (DeviceBits - w) \in Int  BY <1>2
<1>4. PICK v \in Int : v = IF task.type = "Lpc" THEN 4 + 5 + task.order * task.cbits ELSE 0
  <2>1. CASE task.type = "Lpc"
    <3>1. PICK c \in Int : c = task.cbits  BY <2>1
    <3>2. n * c \in Int  OBVIOUS
    <3>3. QED  BY <1>1, <2>1, <3>1, <3>2
  <2>2. CASE task.type # "Lpc"  BY <2>2
  <2>3. QED  BY <2>1, <2>2
<1>5. BaseBits(task) = 8 + w + n * (DeviceBits - w) + 6 + v  BY <1>1, <1>4, Zenon DEF BaseBits
<1>6. QED  BY <1>2, <1>3, <1>5

\* What stays true of a task through a batch: its size is a number, and so is what its
\* residuals are made of.
Sound(task, lpc) ==
  /\ DOMAIN task = TaskFields
  /\ task.size \in Int /\ task.type \in {"Lpc", "Constant", "Fixed"}
  /\ task.type = "Fixed" => task.order \in Nat /\ task.order <= 4
  /\ task.type = "Lpc" =>
       task.order \in 1 .. lpc /\ (task.cbits = 0 \/ IntCoefficients(task))

LEMMA PlannedSound ==
  ASSUME NEW o, NEW f, NEW t, PlannedTask(t, o, f)
  PROVE  Sound(t, o.maxLpcOrder)
BY Zenon DEF PlannedTask, Sound

LEMMA MarkSound ==
  ASSUME NEW lpc, NEW t, Sound(t, lpc), NEW x
  PROVE  Sound(MarkWasted(t, x), lpc)
<1>1. PICK u : u = MarkWasted(t, x)  OBVIOUS
<1>2. PICK w, v : w = WastedBitsOf(x) /\ v = ActiveBits(x, WastedBitsOf(x))  OBVIOUS
<1>3. u = [t EXCEPT !.wbits = w, !.abits = v]  BY <1>1, <1>2, Zenon DEF MarkWasted
<1>4. DOMAIN t = TaskFields  BY Zenon DEF Sound
<1>5. DOMAIN u = TaskFields /\ u.size = t.size /\ u.type = t.type /\ u.order = t.order
      /\ u.cbits = t.cbits /\ u.coefs = t.coefs
  BY <1>3, <1>4 DEF TaskFields
<1>6. IntCoefficients(t) => IntCoefficients(u)  BY <1>5, Zenon DEF IntCoefficients
<1>7. Sound(u, lpc)  BY <1>5, <1>6, Zenon DEF Sound
<1>8. QED  BY <1>1, <1>7

LEMMA ResizedSound ==
  ASSUME NEW lpc, NEW t, Sound(t, lpc), NEW q, NEW z \in Int
  PROVE  Sound([t EXCEPT !.size = z], lpc) /\ Sound(Costed(t, q, z), lpc)
<1>1. PICK u : u = [t EXCEPT !.size = z]  OBVIOUS
<1>2. PICK v : v = [t EXCEPT !.porder = q, !.size = z]  OBVIOUS
<1>3. DOMAIN t = TaskFields  BY Zenon DEF Sound
<1>4. DOMAIN u = TaskFields /\ u.size = z /\ u.type = t.type /\ u.order = t.order
      /\ u.cbits = t.cbits /\ u.coefs = t.coefs
  BY <1>1, <1>3 DEF TaskFields
<1>5. DOMAIN v = TaskFields /\ v.size = z /\ v.type = t.type /\ v.order = t.order
      /\ v.cbits = t.cbits /\ v.coefs = t.coefs
  BY <1>2, <1>3 DEF TaskFields
<1>6. IntCoefficients(t) => IntCoefficients(u) /\ IntCoefficients(v)
  BY <1>4, <1>5, Zenon DEF IntCoefficients
<1>7. Sound(u, lpc)  BY <1>4, <1>6, Zenon DEF Sound
<1>8. Sound(v, lpc)  BY <1>5, <1>6, Zenon DEF Sound
<1>9. Costed(t, q, z) = v  BY <1>2, Zenon DEF Costed
<1>10. QED  BY <1>1, <1>7, <1>8, <1>9

LEMMA ClampedTyped ==
  ASSUME NEW x \in Int, NEW bits \in 1 .. 15
  PROVE  Clamped(x, bits) \in Int
<1>1. bits - 1 \in 0 .. 15  OBVIOUS
<1>2. PICK d \in Nat \ {0} : d = 2^(bits - 1)  BY <1>1, SmallPower
<1>3. PICK h \in Int, l \in Int : h = d - 1 /\ l = -(d - 1)  OBVIOUS
<1>4. PICK y \in Int : y = Min({x, h})
  BY LeastOfTwo
<1>5. Max({l, y}) \in Int  BY LeastOfTwo
<1>6. Clamped(x, bits) = Max({l, y})
  BY <1>2, <1>3, <1>4, Zenon DEF Clamped
<1>7. QED  BY <1>5, <1>6

\* What the device makes of a window: an order the options allow, numbers for its orders.
Usable(f, lpc) ==
  /\ f.guess \in 1 .. lpc
  /\ \A o \in 1 .. lpc : \A k \in 1 .. o : f.raw[o][k] \in Int

LEMMA QuantizedOrderSound ==
  ASSUME NEW lpc, NEW t, Sound(t, lpc), NEW f, Usable(f, lpc),
         t.type = "Lpc", NEW order \in 1 .. lpc, NEW precision \in 1 .. 15
  PROVE  Sound(QuantizedOrder(t, order, f, precision), lpc)
<1>1. PICK c : c = [i \in 1 .. order |-> Clamped(f.raw[order][i], precision)]  OBVIOUS
<1>2. PICK s, b : s = f.shift /\ b = CoefficientBits(c)  OBVIOUS
<1>3. PICK u : u = QuantizedOrder(t, order, f, precision)  OBVIOUS
<1>4. u = [t EXCEPT !.order = order, !.coefs = c, !.shift = s, !.cbits = b]
  BY <1>1, <1>2, <1>3, Zenon DEF QuantizedOrder
<1>5. DOMAIN t = TaskFields  BY Zenon DEF Sound
<1>6. DOMAIN u = TaskFields /\ u.size = t.size /\ u.type = t.type /\ u.order = order /\ u.coefs = c
  BY <1>4, <1>5 DEF TaskFields
<1>7. ASSUME NEW i \in 1 .. order PROVE c[i] \in Int
  <2>1. f.raw[order][i] \in Int  BY Zenon DEF Usable
  <2>2. Clamped(f.raw[order][i], precision) \in Int  BY <2>1, ClampedTyped
  <2>3. QED  BY <1>1, <2>2
<1>8. IntCoefficients(u)  BY <1>6, <1>7, Zenon DEF IntCoefficients
<1>10. Sound(u, lpc)
  BY <1>6, <1>8, Zenon DEF Sound
<1>11. QED  BY <1>3, <1>10

LEMMA QuantizedSound ==
  ASSUME NEW lpc, NEW t, Sound(t, lpc), t.type = "Lpc", NEW f, Usable(f, lpc),
         NEW a, a.precision \in 1 .. 15
  PROVE  Sound(QuantizedTask(t, f, a), lpc)
<1>1. t.order \in 1 .. lpc /\ f.guess \in 1 .. lpc  BY Zenon DEF Sound, Usable
<1>2. Sound(QuantizedOrder(t, t.order, f, a.precision), lpc)  BY <1>1, QuantizedOrderSound
<1>3. Sound(QuantizedOrder(t, f.guess, f, a.precision), lpc)  BY <1>1, QuantizedOrderSound
<1>4. Pruned \in Int  BY IntMaxTyped DEF Pruned
<1>5. Sound([t EXCEPT !.size = Pruned], lpc)  BY <1>4, ResizedSound
<1>6. \/ QuantizedTask(t, f, a) = QuantizedOrder(t, t.order, f, a.precision)
      \/ QuantizedTask(t, f, a) = QuantizedOrder(t, f.guess, f, a.precision)
      \/ QuantizedTask(t, f, a) = [t EXCEPT !.size = Pruned]
  BY Zenon DEF QuantizedTask
<1>7. QED  BY <1>2, <1>3, <1>5, <1>6, Zenon

-----------------------------------------------------------------------------
(* The size a task is left with is a number.                               *)

LEMMA SaturatedTyped ==
  ASSUME NEW b \in Int
  PROVE  Saturated(b) \in Int
<1>1. IntMax \in Int  BY IntMaxTyped
<1>2. QED  BY <1>1, LeastOfTwo DEF Saturated

\* The arguments a launch has: a largest partition order the kernels allow.
Launched(a) == a.maxPorder \in 0 .. MaxPartitionOrder

LEMMA TopOrder ==
  ASSUME NEW a, Launched(a)
  PROVE  Min({a.maxPorder, MaxPartitionOrder}) = a.maxPorder
<1>1. MaxPartitionOrder \in Int  BY KernelsAssumption
<1>2. PICK x \in Int : x = a.maxPorder /\ x <= MaxPartitionOrder  BY <1>1 DEF Launched
<1>3. Min({x, MaxPartitionOrder}) = x  BY <1>1, <1>2, LeastOfTwo
<1>4. QED  BY <1>2, <1>3

LEMMA OrdersTried ==
  ASSUME NEW a, Launched(a), NEW n \in Nat \ {0}, NEW task, Analysable(task, n)
  PROVE  /\ 0 \in PartitionOrders(task, a)
         /\ PartitionOrders(task, a) \subseteq 0 .. MaxPartitionOrder
         /\ \A q \in PartitionOrders(task, a) :
              q \in 0 .. WordBits
              /\ Partitioned(task, UsesLeaves(task, a), a.maxPorder, q)
              /\ Partitioned(task, FALSE, q, q)
<1>0. /\ WordBits \in Nat /\ MaxPartitionOrder \in 0 .. WordBits
  BY SubframesAssumption, KernelsAssumption
<1>1. PICK L \in 0 .. MaxPartitionOrder : L = a.maxPorder  BY DEF Launched
<1>2. PICK Q : Q = PartitionOrders(task, a)  OBVIOUS
<1>3. Q = {q \in 0 .. L : ValidPartitionOrder(task.block, task.order, q)}
  BY <1>1, <1>2, TopOrder, Zenon DEF PartitionOrders
<1>4. UsesLeaves(task, a) => ValidPartitionOrder(task.block, task.order, L)
  BY <1>1, TopOrder, Zenon DEF UsesLeaves
<1>5. ValidPartitionOrder(task.block, task.order, 0)
  <2>1. PICK N \in Nat, k \in Nat : N = task.block /\ k = task.order /\ k < N
    BY DEF Analysable
  <2>2. 2^0 = 1
    <3>1. 2^0 \in Nat \ {0}  BY <1>0, PowerTyped
    <3>2. QED  OBVIOUS
  <2>3. N % 1 = 0 /\ N \div 1 = N  OBVIOUS
  <2>4. QED  BY <2>1, <2>2, <2>3 DEF ValidPartitionOrder
<1>6. 0 \in Q  BY <1>0, <1>1, <1>3, <1>5
<1>7. ASSUME NEW q \in Q
      PROVE  q \in 0 .. MaxPartitionOrder /\ q \in 0 .. WordBits
             /\ Partitioned(task, UsesLeaves(task, a), a.maxPorder, q)
             /\ Partitioned(task, FALSE, q, q)
  <2>1. q \in 0 .. L /\ ValidPartitionOrder(task.block, task.order, q)  BY <1>3
  <2>2. L \in 0 .. WordBits /\ q \in 0 .. WordBits /\ q \in 0 .. q
        /\ q \in 0 .. MaxPartitionOrder
    BY <1>0, <2>1
  <2>3. Partitioned(task, UsesLeaves(task, a), L, q)
    BY <1>4, <2>1, <2>2, Zenon DEF Partitioned
  <2>4. Partitioned(task, FALSE, q, q)  BY <2>1, <2>2, Zenon DEF Partitioned
  <2>5. QED  BY <1>1, <2>2, <2>3, <2>4
<1>8. QED  BY <1>2, <1>6, <1>7

LEMMA ChoicesTyped ==
  ASSUME NEW a, Launched(a), NEW n \in Nat \ {0}, NEW task, Analysable(task, n),
         NEW r, TaskResiduals(r, task)
  PROVE  /\ DOMAIN ChoicesAt(r, task, a) = PartitionOrders(task, a)
         /\ \A q \in PartitionOrders(task, a) : Choosable(ChoicesAt(r, task, a)[q], q)
<1>1. PICK L : L = a.maxPorder  OBVIOUS
<1>2. PICK leaf : leaf = UsesLeaves(task, a)  OBVIOUS
<1>3. PICK c : c = ChoicesAt(r, task, a)  OBVIOUS
<1>4. c = [q \in PartitionOrders(task, a) |->
             IF MeanRice(a.profile) THEN MeanChoices(r, task, leaf, L, q)
                                    ELSE ExactChoices(r, task, leaf, L, q)]
  BY <1>1, <1>2, <1>3, TopOrder, Zenon DEF ChoicesAt
<1>5. ASSUME NEW q \in PartitionOrders(task, a) PROVE Choosable(c[q], q)
  <2>1. Partitioned(task, leaf, L, q)  BY <1>1, <1>2, OrdersTried
  <2>2. Choosable(MeanChoices(r, task, leaf, L, q), q)  BY <2>1, MeanTyped
  <2>3. Choosable(ExactChoices(r, task, leaf, L, q), q)  BY <2>1, ExactTyped
  <2>4. QED  BY <1>4, <2>2, <2>3
<1>6. DOMAIN c = PartitionOrders(task, a)  BY <1>4
<1>7. QED  BY <1>3, <1>5, <1>6

LEMMA BestOrder ==
  ASSUME NEW a, Launched(a), NEW n \in Nat \ {0}, NEW task, Analysable(task, n),
         NEW r, TaskResiduals(r, task)
  PROVE  BestChoice(task, a, ChoicesAt(r, task, a)) \in PartitionOrders(task, a)
<1>1. PICK c : c = ChoicesAt(r, task, a)  OBVIOUS
<1>2. PICK Q : Q = PartitionOrders(task, a)  OBVIOUS
<1>3. DOMAIN c = Q /\ \A q \in Q : Choosable(c[q], q)  BY <1>1, <1>2, ChoicesTyped
<1>4. 0 \in Q /\ Q \subseteq 0 .. MaxPartitionOrder /\ \A q \in Q : q \in 0 .. WordBits
  BY <1>2, OrdersTried
<1>5. PICK costs : costs = [q \in DOMAIN c |-> BitsOfChoices(c[q])]  OBVIOUS
<1>6. DOMAIN costs = Q /\ \A q \in Q : costs[q] \in Int
  <2>1. ASSUME NEW q \in Q PROVE costs[q] \in Int
    <3>1. BitsOfChoices(c[q]) \in Int  BY <1>3, <1>4, ChoiceBitsTyped
    <3>2. QED  BY <1>3, <1>5, <3>1
  <2>2. QED  BY <1>3, <1>5, <2>1
<1>7. FirstLeast(costs) \in Q /\ LastLeast(costs) \in Q
  <2>1. MaxPartitionOrder \in Nat  BY KernelsAssumption
  <2>2. DOMAIN costs \subseteq 0 .. MaxPartitionOrder /\ DOMAIN costs # {}
        /\ \A q \in DOMAIN costs : costs[q] \in Int
    BY <1>4, <1>6
  <2>3. QED  BY <1>6, <2>1, <2>2, LeastFound
<1>8. BestChoice(task, a, c) = IF MeanRice(a.profile) THEN LastLeast(costs) ELSE FirstLeast(costs)
  BY <1>5, Zenon DEF BestChoice
<1>9. QED  BY <1>1, <1>2, <1>7, <1>8

LEMMA SettledTyped ==
  ASSUME NEW a, Launched(a), NEW n \in Nat \ {0}, NEW task, Analysable(task, n), task.wbits \in Int,
         NEW r, TaskResiduals(r, task)
  PROVE  \E q : \E z \in Int : SettledBy(task, a, r, ChoicesAt(r, task, a)).task = Costed(task, q, z)
<1>1. PICK c : c = ChoicesAt(r, task, a)  OBVIOUS
<1>2. PICK q : q = BestChoice(task, a, c)  OBVIOUS
<1>3. q \in PartitionOrders(task, a)  BY <1>1, <1>2, BestOrder
<1>4. q \in 0 .. WordBits /\ Partitioned(task, FALSE, q, q)  BY <1>3, OrdersTried
<1>5. PICK d : d = c[q]  OBVIOUS
<1>6. Choosable(d, q)  BY <1>1, <1>3, <1>5, ChoicesTyped
<1>7. PICK base \in Int : base = BaseBits(task)
  <2>1. task.order \in Nat /\ (task.type = "Lpc" => task.cbits \in 1 .. 15)
    BY Zenon DEF Analysable
  <2>2. task.type = "Lpc" => task.cbits \in Int  BY <2>1
  <2>3. BaseBits(task) \in Int  BY <2>1, <2>2, BaseBitsTyped
  <2>4. QED  BY <2>3
<1>8. PICK body \in Int : body = IF MeanRice(a.profile) /\ ~MeanEstimated(a.profile)
                                 THEN RecountedBits(r, task, q, d) ELSE BitsOfChoices(d)
  <2>1. RecountedBits(r, task, q, d) \in Int  BY <1>4, <1>6, RecountedTyped
  <2>2. BitsOfChoices(d) \in Int  BY <1>4, <1>6, ChoiceBitsTyped
  <2>3. QED  BY <2>1, <2>2
<1>9. CostedBits(r, task, a, q, d) = base + body  BY <1>7, <1>8, Zenon DEF CostedBits
<1>10. PICK z \in Int : z = Saturated(base + body)
  <2>1. base + body \in Int  OBVIOUS
  <2>2. QED  BY <2>1, SaturatedTyped
<1>11. SettledBy(task, a, r, c) = Settled(task, a, r, q, d)
  BY <1>2, <1>5, Zenon DEF SettledBy
<1>12. Settled(task, a, r, q, d).task = [task EXCEPT !.porder = q, !.size = z]
  <2>1. PICK u, v : u = [task EXCEPT !.porder = q, !.size = z] /\ v = ParametersOf(d)  OBVIOUS
  <2>2. Settled(task, a, r, q, d) = [task |-> u, params |-> v]
    BY <1>9, <1>10, <2>1, Zenon DEF Settled
  <2>3. QED  BY <2>1, <2>2
<1>13. SettledBy(task, a, r, c).task = Costed(task, q, z)  BY <1>11, <1>12, Zenon DEF Costed
<1>14. QED  BY <1>1, <1>13, Zenon

LEMMA PredictableAnalysable ==
  ASSUME NEW lpc \in Nat, NEW task, Sound(task, lpc), task.type # "Constant", Predictable(task),
         NEW n, task.block = n
  PROVE  Analysable(task, n)
<1>1. task.type = "Fixed" \/ task.type = "Lpc"  BY Zenon DEF Sound
<1>2. CASE task.type = "Fixed"  BY <1>2, Zenon DEF Sound, Predictable, Analysable
<1>3. CASE task.type = "Lpc"
  <2>1. task.order \in 1 .. lpc /\ (task.cbits = 0 \/ IntCoefficients(task))
    BY <1>3, Zenon DEF Sound
  <2>2. task.order < task.block /\ task.shift \in 0 .. 15 /\ task.cbits \in 1 .. 15
    BY <1>3, Zenon DEF Predictable
  <2>3. task.order \in Nat  BY <2>1
  <2>4. task.cbits # 0  BY <2>2
  <2>5. IntCoefficients(task)  BY <2>1, <2>4
  <2>6. task.type # "Fixed"  BY <1>3
  <2>7. QED  BY <1>3, <2>2, <2>3, <2>5, <2>6, Zenon DEF Analysable
<1>4. QED  BY <1>1, <1>2, <1>3

LEMMA AnalyzedSound ==
  ASSUME NEW lpc \in Nat, NEW task, Sound(task, lpc), task.wbits \in Int,
         NEW a, Launched(a), NEW m, NEW x, x = CostedBlock(m, a, task), IsSampleBlock(x),
         Len(x) > 0, task.block = Len(x)
  PROVE  Sound(AnalyzedTask(m, a, task).task, lpc)
<1>0. Pruned \in Int  BY IntMaxTyped DEF Pruned
<1>1. PICK n \in Nat \ {0} : n = Len(x)
  <2>1. Len(x) \in Nat  BY Zenon DEF IsSampleBlock, IsBuffer
  <2>2. Len(x) \in Nat \ {0}  BY ONLY <2>1, Len(x) > 0
  <2>3. QED  BY <2>2, Zenon
<1>2. CASE task.size = Pruned
  <2>1. AnalyzedTask(m, a, task).task = [task EXCEPT !.size = Pruned]  BY <1>2, AnalyzedPruned
  <2>2. PICK z \in Int : z = Pruned  BY <1>0
  <2>3. Sound([task EXCEPT !.size = z], lpc)  BY ResizedSound
  <2>4. QED  BY <2>1, <2>2, <2>3, Zenon
<1>3. CASE task.size # Pruned /\ task.type = "Constant"
  <2>1. PICK o : o = OriginalFrame(m, task)  OBVIOUS
  <2>2. AnalyzedTask(m, a, task) = ConstantSettled(task, o)
    BY <1>3, <2>1, Zenon DEF AnalyzedTask
  <2>3. PICK z \in Int, y \in Int : z = 8 + DeviceBits /\ y = Pruned  BY <1>0, SizesTyped
  <2>4. PICK u, v : u = [task EXCEPT !.porder = 0, !.size = z]
                    /\ v = [[task EXCEPT !.porder = 0] EXCEPT !.size = y]
    OBVIOUS
  <2>5. ConstantSettled(task, o) = [task |-> u, params |-> <<>>]
        \/ ConstantSettled(task, o) = [task |-> v, params |-> <<>>]
    BY <2>3, <2>4, Zenon DEF ConstantSettled, Unsettled
  <2>6. Sound(u, lpc)  BY <2>4, ResizedSound, Zenon DEF Costed
  <2>7. Sound(v, lpc)
    <3>1. v = Costed(task, 0, y)
      <4>1. DOMAIN task = TaskFields  BY Zenon DEF Sound
      <4>2. QED  BY <2>4, <4>1 DEF Costed, TaskFields
    <3>2. QED  BY <3>1, ResizedSound
  <2>8. QED  BY <2>2, <2>5, <2>6, <2>7
<1>4. CASE task.size # Pruned /\ task.type # "Constant" /\ ~Predictable(task)
  <2>1. PICK y \in Int : y = Pruned  BY <1>0
  <2>2. PICK v : v = [[task EXCEPT !.porder = 0] EXCEPT !.size = y]  OBVIOUS
  <2>3. AnalyzedTask(m, a, task) = Unsettled([task EXCEPT !.porder = 0])
    BY <1>4, Zenon DEF AnalyzedTask
  <2>4. Unsettled([task EXCEPT !.porder = 0]) = [task |-> v, params |-> <<>>]
    BY <2>1, <2>2, Zenon DEF Unsettled
  <2>5. v = Costed(task, 0, y)
    <3>1. DOMAIN task = TaskFields  BY Zenon DEF Sound
    <3>2. QED  BY <2>2, <3>1 DEF Costed, TaskFields
  <2>6. Sound(v, lpc)  BY <2>5, ResizedSound
  <2>7. QED  BY <2>3, <2>4, <2>6
<1>5. CASE task.size # Pruned /\ task.type # "Constant" /\ Predictable(task)
  <2>1. Analysable(task, n)  BY <1>1, <1>5, PredictableAnalysable
  <2>2. PICK r : r = DeviceResiduals(x, task, UsesInt(task, a))  OBVIOUS
  <2>3. TaskResiduals(r, task)
    <3>1. IntResiduals(r, task.order, task.block)  BY <1>1, <2>1, <2>2, ResidualsTyped
    <3>2. task.block \in Nat /\ task.order \in Nat  BY <1>1, <2>1 DEF Analysable
    <3>3. QED  BY <3>1, <3>2 DEF TaskResiduals
  <2>4. PICK q, z : z \in Int
          /\ SettledBy(task, a, r, ChoicesAt(r, task, a)).task = Costed(task, q, z)
    BY <2>1, <2>3, SettledTyped
  <2>5. AnalyzedTask(m, a, task) = SettledBy(task, a, r, ChoicesAt(r, task, a))
    BY <1>5, <2>2, Zenon DEF AnalyzedTask
  <2>6. Sound(Costed(task, q, z), lpc)  BY <2>4, ResizedSound
  <2>7. QED  BY <2>4, <2>5, <2>6
<1>6. QED  BY <1>2, <1>3, <1>4, <1>5

LEMMA ShiftedTyped ==
  ASSUME NEW x, IsSampleBlock(x), NEW w \in 0 .. WordBits
  PROVE  IsSampleBlock(ShiftSamples(x, w)) /\ Len(ShiftSamples(x, w)) = Len(x)
<1>1. PICK d \in Nat \ {0} : d = 2^w  BY PowerTyped
<1>2. PICK n \in Nat : n = Len(x) /\ DOMAIN x = 1 .. n
  <2>1. Len(x) \in Nat /\ DOMAIN x = 1 .. Len(x)  BY Zenon DEF IsSampleBlock, IsBuffer
  <2>2. QED  BY <2>1, Zenon
<1>3. PICK y : y = ShiftSamples(x, w)  OBVIOUS
<1>4. y = [i \in DOMAIN x |-> IF x[i] < 0 THEN -((-x[i]) \div d) ELSE x[i] \div d]
  BY <1>1, <1>3, Zenon DEF ShiftSamples
<1>5. ASSUME NEW i \in DOMAIN x PROVE y[i] \in Int
  <2>1. PICK v \in Int : v = x[i]  BY DEF IsSampleBlock
  <2>2. v \div d \in Int /\ (-v) \div d \in Int  OBVIOUS
  <2>3. y[i] = IF v < 0 THEN -((-v) \div d) ELSE v \div d  BY <1>4, <2>1
  <2>4. QED  BY <2>2, <2>3
<1>6. DOMAIN y = 1 .. n  BY <1>2, <1>4
<1>7. IsBuffer(y) /\ Len(y) = n  BY <1>6, BufferOf
<1>8. IsSampleBlock(y)  BY <1>2, <1>5, <1>6, <1>7 DEF IsSampleBlock
<1>9. QED  BY <1>2, <1>3, <1>7, <1>8

LEMMA WastedTyped ==
  ASSUME NEW x, DOMAIN x # {}, \A i \in DOMAIN x : x[i] \in Int /\ FitsBits(x[i], DeviceBits)
  PROVE  WastedBitsOf(x) \in 0 .. WordBits
<1>0. DeviceBits \in Nat \ {0} /\ IntBits \in Nat /\ IntBits > DeviceBits /\ IntBits <= WordBits
      /\ WordBits \in Nat
  BY SizesTyped, TaskPlansAssumption, SubframesAssumption
<1>1. CASE \A i \in DOMAIN x : x[i] = 0
  <2>1. WastedBitsOf(x) = DeviceBits - 1  BY <1>1, Zenon DEF WastedBitsOf
  <2>2. QED  BY <1>0, <2>1
<1>2. CASE ~\A i \in DOMAIN x : x[i] = 0
  <2>1. PICK T : T = {TrailingZeroBits(x[i], IntBits) : i \in DOMAIN x}  OBVIOUS
  <2>2. WastedBitsOf(x) = Min(T)  BY <1>2, <2>1, Zenon DEF WastedBitsOf
  <2>3. ASSUME NEW i \in DOMAIN x PROVE TrailingZeroBits(x[i], IntBits) \in 0 .. IntBits
    <3>1. CASE x[i] = 0
      <4>1. TrailingZeroBits(x[i], IntBits) = IntBits  BY <3>1, Zenon DEF TrailingZeroBits
      <4>2. QED  BY <1>0, <4>1
    <3>2. CASE x[i] # 0
      <4>1. PICK v \in Int : v = x[i] /\ FitsBits(v, DeviceBits) /\ v # 0  BY <3>2
      <4>2. TrailingZeroBits(v, IntBits) \in 0 .. DeviceBits - 1  BY <4>1, SameTrailingZeros
      <4>3. QED  BY <1>0, <4>1, <4>2
    <3>3. QED  BY <3>1, <3>2
  <2>4. T \subseteq 0 .. IntBits /\ T # {}  BY <2>1, <2>3
  <2>5. T \subseteq Nat /\ T \subseteq Int  BY <1>0, <2>4
  <2>6. PICK m \in T : \A y \in T : m <= y  BY <2>4, <2>5, LeastNumber
  <2>7. Min(T) = m  BY <2>5, <2>6, MinIs
  <2>8. QED  BY <1>0, <2>2, <2>4, <2>6, <2>7
<1>3. QED  BY <1>1, <1>2

\* A frame of the batch, and the same frame without its wasted bits.
LEMMA OwnTyped ==
  ASSUME IsBatch(call, plan), NEW f \in Frames
  PROVE  /\ IsSampleBlock(OwnFrame(f)) /\ Len(OwnFrame(f)) = call.block
         /\ DOMAIN OwnFrame(f) # {}
         /\ \A i \in DOMAIN OwnFrame(f) :
              OwnFrame(f)[i] \in Int /\ FitsBits(OwnFrame(f)[i], DeviceBits)
         /\ WastedBitsOf(OwnFrame(f)) \in 0 .. WordBits
         /\ IsSampleBlock(OwnSamples(f)) /\ Len(OwnSamples(f)) = call.block
<1>1. /\ call.block \in Nat \ {0} /\ plan.frames \in Nat \ {0}
      /\ plan.frames * call.block = Len(call.samples) /\ call \in Calls
      /\ IsSampleBlock(call.samples)
  BY BatchSizes DEF IsBatch
<1>2. \A i \in DOMAIN call.samples :
        call.samples[i] \in Int /\ FitsBits(call.samples[i], DeviceBits)
  <2>1. call.samples \in Seq(Int)
        /\ \A i \in DOMAIN call.samples : FitsBits(call.samples[i], DeviceBits)
    BY <1>1, CallsAssumption
  <2>2. QED  BY <2>1
<1>3. PICK b \in Nat \ {0}, n \in Nat \ {0} : b = call.block /\ n = plan.frames  BY <1>1
<1>4. PICK off \in Nat : off = f * b /\ off + b <= n * b
  <2>1. f \in 0 .. n - 1  BY <1>3 DEF Frames
  <2>2. f * b \in Nat /\ f * b + b <= n * b  BY <2>1, FramePlace
  <2>3. QED  BY <2>2
<1>5. PICK s : s = call.samples  OBVIOUS
<1>6. PICK x : x = OwnFrame(f)  OBVIOUS
<1>7. x = FrameOf(s, off, b)  BY <1>3, <1>4, <1>5, <1>6 DEF OwnFrame
<1>8. IsSampleBlock(s) /\ off + b <= Len(s)  BY <1>1, <1>3, <1>4, <1>5
<1>9. /\ IsSampleBlock(x) /\ Len(x) = b /\ DOMAIN x = 1 .. b
      /\ \A j \in 1 .. b : x[j] = s[off + j]
  BY <1>7, <1>8, FrameBlock
<1>10. \A i \in DOMAIN x : x[i] \in Int /\ FitsBits(x[i], DeviceBits)
  <2>1. \A i \in 1 .. b : off + i \in DOMAIN s  BY <1>8 DEF IsSampleBlock, IsBuffer
  <2>2. QED  BY <1>2, <1>5, <1>9, <2>1
<1>11. DOMAIN x # {}
  <2>1. 1 \in 1 .. b  OBVIOUS
  <2>2. QED  BY <1>9, <2>1
<1>12. WastedBitsOf(x) \in 0 .. WordBits  BY <1>10, <1>11, WastedTyped
<1>13. PICK w \in 0 .. WordBits : w = WastedBitsOf(x)  BY <1>12
<1>14. IsSampleBlock(ShiftSamples(x, w)) /\ Len(ShiftSamples(x, w)) = b
  BY <1>9, ShiftedTyped
<1>15. OwnSamples(f) = ShiftSamples(x, w)  BY <1>6, <1>13 DEF OwnSamples
<1>16. QED  BY <1>3, <1>6, <1>9, <1>10, <1>11, <1>12, <1>14, <1>15

LEMMA ArgumentsMore ==
  ASSUME NEW c, NEW p, IsBatch(c, p), NEW a, a = ArgumentsOf(c, p)
  PROVE  /\ a.lpcTasks = IF Generated(c) THEN LpcTaskCount(OptionsOf(c)) ELSE 0
         /\ a.precision = c.precision /\ a.found = c.found /\ Launched(a)
<1> DEFINE s == IF Generated(c) THEN PrefixShape(p, 0)
                ELSE [lpcTasks |-> 0, perWindow |-> 0, windows |-> 0]
<1>1. a = [frames |-> p.frames, perFrame |-> p.perFrame, perWindow |-> s.perWindow,
           lpcTasks |-> s.lpcTasks, windows |-> s.windows, precision |-> c.precision,
           profile |-> c.profile, maxPorder |-> c.porder, found |-> c.found,
           shifted |-> ShiftedProfile(c, s), api |-> api]
  BY Zenon DEF ArgumentsOf
<1>2. ASSUME Generated(c) PROVE s.lpcTasks = LpcTaskCount(OptionsOf(c))
  <2>1. PICK o : o = OptionsOf(c)  OBVIOUS
  <2>2. IsPlan(p, o, c.samples)  BY <2>1, LegalPlanned DEF IsBatch
  <2>3. 0 \in 0 .. p.frames - 1  BY <2>2, PlanPlaces
  <2>4. LpcPrefix(p, 0) = LpcTaskCount(o)  BY <2>2, <2>3, PlanShape
  <2>5. PrefixShape(p, 0).lpcTasks = LpcPrefix(p, 0)  BY Zenon DEF PrefixShape
  <2>6. QED  BY <1>2, <2>1, <2>4, <2>5
<1>3. ASSUME ~Generated(c) PROVE s.lpcTasks = 0  BY <1>3
<1>4. a.lpcTasks = s.lpcTasks /\ a.precision = c.precision /\ a.found = c.found
      /\ a.maxPorder = c.porder
  BY <1>1
<1> HIDE DEF s
<1>5. c.porder \in 0 .. MaxPartitionOrder  BY CallsAssumption DEF IsBatch
<1>6. QED  BY <1>2, <1>3, <1>4, <1>5 DEF Launched

FrameNo(t) == (t - 1) \div plan.perFrame

LEMMA TaskInputs ==
  ASSUME IsBatch(call, plan), NEW m, Fits(m), Inputs(m), NEW t \in 1 .. Len(plan.tasks)
  PROVE  /\ t \in DOMAIN m["tasks"] /\ FrameNo(t) \in Frames
         /\ DOMAIN m["tasks"][t] = TaskFields
         /\ m["tasks"][t].offset = FrameNo(t) * call.block /\ m["tasks"][t].block = call.block
         /\ m["tasks"][t].type = plan.tasks[t].type
         /\ OriginalFrame(m, m["tasks"][t]) = OwnFrame(FrameNo(t))
         /\ (t - 1) % plan.perFrame < args.lpcTasks => m["tasks"][t].type = "Lpc"
<1>1. /\ IsPlan(plan, OptionsOf(call), call.samples)
      /\ plan.frames \in Nat \ {0} /\ plan.perFrame \in Nat \ {0}
      /\ IsBuffer(plan.tasks) /\ Len(plan.tasks) = plan.frames * plan.perFrame
  BY BatchSizes
<1>2. t \in DOMAIN plan.tasks  BY <1>1 DEF IsBuffer
<1>3. PICK f \in 0 .. plan.frames - 1, i \in 1 .. plan.perFrame :
        /\ t = f * plan.perFrame + i /\ (t - 1) \div plan.perFrame = f
        /\ plan.tasks[t] = TaskOf(plan, f, i)
  BY <1>1, <1>2, TaskPlace
<1>4. FrameNo(t) = f /\ f \in Frames  BY <1>3 DEF FrameNo, Frames
<1>5. plan.tasks[t].offset = f * call.block /\ plan.tasks[t].block = call.block
  BY <1>3, BatchTasks
<1>6. Shaped(m["tasks"][t], plan.tasks[t])  BY DEF Inputs
<1>7. IsBuffer(m["tasks"]) /\ Len(plan.tasks) <= Len(m["tasks"])
  BY FitSizes DEF Buffers, DeviceBuffers
<1>8. t \in DOMAIN m["tasks"]  BY <1>1, <1>7 DEF IsBuffer
<1>9. OriginalFrame(m, m["tasks"][t]) = OwnFrame(f)
  <2>1. FirstTask(m, args, f).offset = f * call.block
        /\ FirstTask(m, args, f).block = call.block
        /\ OriginalFrame(m, FirstTask(m, args, f)) = OwnFrame(f)
    BY <1>4, FrameInputs
  <2>2. m["tasks"][t].offset = f * call.block /\ m["tasks"][t].block = call.block
    BY <1>5, <1>6 DEF Shaped
  <2>3. QED  BY <2>1, <2>2 DEF OriginalFrame
<1>10. ASSUME (t - 1) % plan.perFrame < args.lpcTasks PROVE m["tasks"][t].type = "Lpc"
  <2>1. args.lpcTasks = IF Generated(call) THEN LpcTaskCount(OptionsOf(call)) ELSE 0
    BY ArgumentsMore DEF args
  <2>2. LpcTaskCount(OptionsOf(call)) \in Nat  BY <1>1, LpcCount DEF IsPlan
  <2>3. (t - 1) % plan.perFrame = i - 1
    <3>1. PICK n \in Nat, p \in Nat \ {0} : n = plan.frames /\ p = plan.perFrame  BY <1>1
    <3>2. PICK r \in 0 .. p - 1, g \in 0 .. n - 1 : r = i - 1 /\ g = f /\ i = r + 1
      <4>1. i - 1 \in 0 .. p - 1 /\ i = (i - 1) + 1  BY <3>1
      <4>2. f \in 0 .. n - 1  BY <3>1
      <4>3. QED  BY <4>1, <4>2, Zenon
    <3>3. ((g * p + r + 1) - 1) % p = r  BY CellRow
    <3>4. g * p + r + 1 = g * p + (r + 1)
      <4>1. g * p \in Nat  OBVIOUS
      <4>2. QED  BY <4>1
    <3>5. t = g * p + (r + 1)  BY <1>3, <3>1, <3>2
    <3>6. QED  BY <3>1, <3>2, <3>3, <3>4, <3>5
  <2>4. i <= LpcTaskCount(OptionsOf(call))
    <3>1. CASE Generated(call)
      <4>1. i - 1 < LpcTaskCount(OptionsOf(call))  BY <1>10, <2>1, <2>3, <3>1
      <4>2. QED  BY <2>2, <4>1, i \in Int
    <3>2. CASE ~Generated(call)
      <4>1. i - 1 < 0  BY <1>10, <2>1, <2>3, <3>2
      <4>2. QED  BY <4>1
    <3>3. QED  BY <3>1, <3>2
  <2>5. TaskOf(plan, f, i).type = "Lpc"
    <3>1. PICK o, x, p : o = OptionsOf(call) /\ x = call.samples /\ p = plan  OBVIOUS
    <3>2. IsPlan(p, o, x) /\ f \in 0 .. p.frames - 1 /\ i \in 1 .. p.perFrame  BY <1>1, <3>1
    <3>3. TaskOf(p, f, i).type = "Lpc" <=> i <= LpcTaskCount(o)  BY <3>2, PlanTasks
    <3>4. QED  BY <2>4, <3>1, <3>3
  <2>6. QED  BY <1>3, <1>6, <2>5 DEF Shaped
<1>11. QED  BY <1>4, <1>5, <1>6, <1>8, <1>9, <1>10 DEF Shaped

-----------------------------------------------------------------------------
(* The tasks of a batch in device memory.                                  *)

\* Every task of the plan is sound, and knows the wasted bits of its frame.
Tracked(m) == \A t \in 1 .. Len(plan.tasks) : Sound(m["tasks"][t], call.lpc)
Marked(m) ==
  \A t \in 1 .. Len(plan.tasks) :
    /\ m["tasks"][t].wbits = WastedBitsOf(OwnFrame(FrameNo(t)))
    /\ ShiftedBlock(m, args, m["tasks"][t]) = OwnSamples(FrameNo(t))

\* A step after which the tasks see the samples they saw before.
SeesSame(m, n) ==
  /\ n["shifted"] = m["shifted"]
  /\ \A t \in 1 .. Len(plan.tasks) : n["tasks"][t].wbits = m["tasks"][t].wbits

LEMMA MarkedStays ==
  ASSUME IsBatch(call, plan), NEW m, Fits(m), Inputs(m), Marked(m), NEW n, Keeps(m, n),
         SeesSame(m, n)
  PROVE  Marked(n)
<1>1. Fits(n)  BY FitsShape DEF Keeps
<1>2. Inputs(n)  BY KeepsInputs
<1>3. ASSUME NEW t \in 1 .. Len(plan.tasks)
      PROVE  /\ n["tasks"][t].wbits = WastedBitsOf(OwnFrame(FrameNo(t)))
             /\ ShiftedBlock(n, args, n["tasks"][t]) = OwnSamples(FrameNo(t))
  <2>1. PICK f : f = FrameNo(t)  OBVIOUS
  <2>2. PICK u, v : u = m["tasks"][t] /\ v = n["tasks"][t]  OBVIOUS
  <2>3. u.offset = f * call.block /\ u.block = call.block /\ OriginalFrame(m, u) = OwnFrame(f)
    BY <2>1, <2>2, TaskInputs
  <2>4. v.offset = f * call.block /\ v.block = call.block /\ OriginalFrame(n, v) = OwnFrame(f)
    BY <1>1, <1>2, <2>1, <2>2, TaskInputs
  <2>5. v.wbits = u.wbits /\ n["shifted"] = m["shifted"]  BY <2>2 DEF SeesSame
  <2>6. u.wbits = WastedBitsOf(OwnFrame(f)) /\ ShiftedBlock(m, args, u) = OwnSamples(f)
    BY <2>1, <2>2 DEF Marked
  <2>7. ShiftedBlock(n, args, v) = ShiftedBlock(m, args, u)
    BY <2>3, <2>4, <2>5 DEF ShiftedBlock
  <2>8. QED  BY <2>1, <2>2, <2>5, <2>6, <2>7
<1>4. QED  BY <1>3 DEF Marked

LEMMA WastedMarks ==
  ASSUME IsBatch(call, plan), NEW m, Fits(m), Inputs(m), Tracked(m)
  PROVE  Tracked(FindWastedBits(m, args)) /\ Marked(FindWastedBits(m, args))
<1>0. PICK n : n = FindWastedBits(m, args)  OBVIOUS
<1>1. n["tasks"] = WastedTasks(m, args) /\ n["shifted"] = WastedShifted(m, args)
      /\ n["samples"] = m["samples"]
  BY <1>0, FindWastedCells DEF Fits
<1>2. args.frames = plan.frames /\ args.perFrame = plan.perFrame
  BY ArgumentsTyped DEF args
<1>3. plan.frames * plan.perFrame \in Nat /\ Len(plan.tasks) = plan.frames * plan.perFrame
      /\ plan.perFrame \in Nat \ {0} /\ plan.frames \in Nat \ {0}
  BY BatchSizes
<1>4. ASSUME NEW t \in 1 .. Len(plan.tasks)
      PROVE  n["tasks"][t] = MarkWasted(m["tasks"][t], OwnFrame(FrameNo(t)))
  <2>1. ~(t > args.frames * args.perFrame)  BY <1>2, <1>3
  <2>2. t \in DOMAIN m["tasks"] /\ FrameNo(t) \in Frames  BY TaskInputs
  <2>3. WastedTasks(m, args)[t] =
          MarkWasted(m["tasks"][t], OriginalFrame(m, FirstTask(m, args, (t - 1) \div args.perFrame)))
    BY <2>1, <2>2 DEF WastedTasks
  <2>4. OriginalFrame(m, FirstTask(m, args, FrameNo(t))) = OwnFrame(FrameNo(t))
    BY <2>2, FrameInputs
  <2>5. QED  BY <1>1, <1>2, <2>3, <2>4 DEF FrameNo
<1>5. ASSUME NEW t \in 1 .. Len(plan.tasks) PROVE Sound(n["tasks"][t], call.lpc)
  <2>1. Sound(m["tasks"][t], call.lpc)  BY DEF Tracked
  <2>2. QED  BY <1>4, <2>1, MarkSound
<1>6. ASSUME NEW t \in 1 .. Len(plan.tasks)
      PROVE  /\ n["tasks"][t].wbits = WastedBitsOf(OwnFrame(FrameNo(t)))
             /\ ShiftedBlock(n, args, n["tasks"][t]) = OwnSamples(FrameNo(t))
  <2>1. PICK u : u = n["tasks"][t]  OBVIOUS
  <2>2. PICK f : f = FrameNo(t)  OBVIOUS
  <2>3. /\ f \in Frames /\ DOMAIN m["tasks"][t] = TaskFields
        /\ m["tasks"][t].offset = f * call.block /\ m["tasks"][t].block = call.block
    BY <2>2, TaskInputs
  <2>4. u.wbits = WastedBitsOf(OwnFrame(f)) /\ u.offset = f * call.block /\ u.block = call.block
    BY <1>4, <2>1, <2>2, <2>3, MarkedTask
  <2>5. PICK p : p = FirstTask(n, args, f)  OBVIOUS
  <2>6. ShiftedBlock(n, args, p) = OwnSamples(f)  BY <1>0, <2>3, <2>5, WastedGives DEF ShiftedFor
  <2>7. p.offset = f * call.block /\ p.block = call.block
    <3>1. Keeps(m, n)  BY <1>0, FindWastedKeeps DEF Fits
    <3>2. Fits(n) /\ Inputs(n)  BY <3>1, FitsShape, KeepsInputs DEF Keeps
    <3>3. QED  BY <2>3, <2>5, <3>2, FrameInputs
  <2>8. p.wbits = WastedBitsOf(OwnFrame(f))
    <3>1. f * plan.perFrame + 1 \in 1 .. plan.frames * plan.perFrame
          /\ ((f * plan.perFrame + 1) - 1) \div plan.perFrame = f
      BY <2>3, FrameInputs
    <3>2. PICK j : j = f * plan.perFrame + 1  OBVIOUS
    <3>3. j \in 1 .. Len(plan.tasks) /\ FrameNo(j) = f  BY <1>3, <3>1, <3>2 DEF FrameNo
    <3>4. p = n["tasks"][j]  BY <1>2, <2>5, <3>2 DEF FirstTask
    <3>5. DOMAIN m["tasks"][j] = TaskFields  BY <3>3, TaskInputs
    <3>6. QED  BY <1>4, <3>3, <3>4, <3>5, MarkedTask
  <2>9. ShiftedBlock(n, args, u) = ShiftedBlock(n, args, p)
    BY <2>4, <2>7, <2>8 DEF ShiftedBlock, OriginalFrame
  <2>10. QED  BY <2>1, <2>2, <2>4, <2>6, <2>9
<1>7. QED  BY <1>0, <1>5, <1>6 DEF Tracked, Marked

LEMMA OthersSee ==
  ASSUME NEW m, NEW n, n["tasks"] = m["tasks"], n["shifted"] = m["shifted"], Tracked(m)
  PROVE  Tracked(n) /\ SeesSame(m, n)
BY DEF Tracked, SeesSame

LEMMA AutocorOthers ==
  ASSUME NEW m, Memory(m), NEW a
  PROVE  /\ \A d \in Buffers \ {"autocor"} : ComputeAutocor(m, a)[d] = m[d]
         /\ \A d \in Buffers \ {"lpc"} : ComputeLpc(m, a)[d] = m[d]
<1>0. DOMAIN m = Buffers  BY DEF Memory
<1>1. PICK x : x = Overwrite(m["autocor"], AutocorCells(m, a))  OBVIOUS
<1>2. ComputeAutocor(m, a) = [m EXCEPT !["autocor"] = x]
  BY <1>1, Zenon DEF ComputeAutocor, WindowCells, AutocorCells
<1>3. PICK y : y = Overwrite(m["lpc"], LpcCells(m, a))  OBVIOUS
<1>4. ComputeLpc(m, a) = [m EXCEPT !["lpc"] = y]
  BY <1>3, Zenon DEF ComputeLpc, WindowCells, LpcCells
<1>5. QED  BY <1>0, <1>2, <1>4

\* The cells the two launches that change tasks alone write.
Quantized(m, a) ==
  [t \in DOMAIN m["tasks"] |->
     IF (t - 1) \div a.perFrame < a.frames /\ (t - 1) % a.perFrame < a.lpcTasks
     THEN QuantizedTask(m["tasks"][t],
            FoundFor(a, (t - 1) \div a.perFrame, ((t - 1) % a.perFrame) \div a.perWindow), a)
     ELSE m["tasks"][t]]
PrunedTasks(m, a) ==
  UNION {FixedTasksOf(m, a, f) \ {KeptFixed(m, a, f)} : f \in 0 .. a.frames - 1}
PrunedOf(m, a) ==
  [t \in DOMAIN m["tasks"] |->
     IF t \in PrunedTasks(m, a) THEN [m["tasks"][t] EXCEPT !.size = Pruned] ELSE m["tasks"][t]]

LEMMA TasksAlone ==
  ASSUME NEW m, Memory(m), NEW a
  PROVE  /\ QuantizeLpcOrders(m, a)["tasks"] = Quantized(m, a)
         /\ QuantizeLpcOrders(m, a)["shifted"] = m["shifted"]
         /\ PruneFixedOrderGuess(m, a)["tasks"] = PrunedOf(m, a)
         /\ PruneFixedOrderGuess(m, a)["shifted"] = m["shifted"]
<1>0. {"tasks", "shifted"} \subseteq DOMAIN m  BY DEF Memory, Buffers, DeviceBuffers
<1>1. PICK x, y : x = Quantized(m, a) /\ y = PrunedOf(m, a)  OBVIOUS
<1>2. QuantizeLpcOrders(m, a) = [m EXCEPT !["tasks"] = x]
  BY <1>1, Zenon DEF QuantizeLpcOrders, Quantized
<1>3. PruneFixedOrderGuess(m, a) = [m EXCEPT !["tasks"] = y]
  BY <1>1, Zenon DEF PruneFixedOrderGuess, PrunedOf, PrunedTasks
<1>4. QED  BY ONLY <1>0, <1>1, <1>2, <1>3

LEMMA AnalyzeShifts ==
  ASSUME NEW m, Memory(m), NEW a
  PROVE  AnalyzeSubframeExact(m, a)["shifted"] = m["shifted"]
<1>0. "shifted" \in DOMAIN m /\ TaskRiceBuffer(a) # "shifted"
  BY DEF Memory, Buffers, DeviceBuffers, TaskRiceBuffer
<1>1. PICK x, y, b : x = Analyzed(m, a) /\ y = AnalyzedRice(m, a) /\ b = TaskRiceBuffer(a)  OBVIOUS
<1>2. AnalyzeSubframeExact(m, a) = [[m EXCEPT !["tasks"] = x] EXCEPT ![b] = y]
  BY <1>1, AnalyzeCells
<1>3. QED  BY ONLY <1>0, <1>1, <1>2

\* None of them touches the wasted bits.
LEMMA WastedStay ==
  ASSUME NEW t, DOMAIN t = TaskFields
  PROVE  /\ \A f, a : QuantizedTask(t, f, a).wbits = t.wbits
         /\ [t EXCEPT !.size = Pruned].wbits = t.wbits
         /\ \A m, a : AnalyzedTask(m, a, t).task.wbits = t.wbits
<1>0. "wbits" \in DOMAIN t  BY DEF TaskFields
<1>1. \A z : [t EXCEPT !.size = z].wbits = t.wbits  BY <1>0
<1>2. \A q, z : Costed(t, q, z).wbits = t.wbits  BY <1>0 DEF Costed
<1>3. ASSUME NEW order, NEW f, NEW p PROVE QuantizedOrder(t, order, f, p).wbits = t.wbits
  <2>1. PICK c, s, b : c = [i \in 1 .. order |-> Clamped(f.raw[order][i], p)] /\ s = f.shift
                       /\ b = CoefficientBits(c)
    OBVIOUS
  <2>2. QuantizedOrder(t, order, f, p) = [t EXCEPT !.order = order, !.coefs = c, !.shift = s, !.cbits = b]
    BY <2>1, Zenon DEF QuantizedOrder
  <2>3. QED  BY ONLY <1>0, <2>2
<1>4. ASSUME NEW f, NEW a PROVE QuantizedTask(t, f, a).wbits = t.wbits
  <2>1. \/ QuantizedTask(t, f, a) = QuantizedOrder(t, t.order, f, a.precision)
        \/ QuantizedTask(t, f, a) = QuantizedOrder(t, f.guess, f, a.precision)
        \/ QuantizedTask(t, f, a) = [t EXCEPT !.size = Pruned]
    BY Zenon DEF QuantizedTask
  <2>2. [t EXCEPT !.size = Pruned].wbits = t.wbits  BY <1>0
  <2>3. QuantizedOrder(t, t.order, f, a.precision).wbits = t.wbits
        /\ QuantizedOrder(t, f.guess, f, a.precision).wbits = t.wbits
    BY <1>3
  <2>4. QED  BY ONLY <2>1, <2>2, <2>3
<1>5. ASSUME NEW m, NEW a PROVE AnalyzedTask(m, a, t).task.wbits = t.wbits
  <2>1. CASE t.size = Pruned
    <3>1. AnalyzedTask(m, a, t).task = [t EXCEPT !.size = Pruned]  BY <2>1, AnalyzedPruned
    <3>2. [t EXCEPT !.size = Pruned].wbits = t.wbits  BY <1>0
    <3>3. QED  BY <3>1, <3>2
  <2>2. CASE t.size # Pruned
    BY <1>2, <2>2, AnalyzedCosted, Zenon
  <2>3. QED  BY <2>1, <2>2
<1>6. QED  BY <1>1, <1>4, <1>5

LEMMA FoundUsable ==
  ASSUME IsBatch(call, plan), Generated(call), NEW f \in Int, NEW w \in Int
  PROVE  Usable(FoundFor(args, f, w), call.lpc)
<1>1. args.found = call.found /\ call \in Calls  BY ArgumentsMore DEF args, IsBatch
<1>2. call.lpc > 0  BY DEF Generated
<1>3. /\ Len(call.found) \in Nat \ {0}
      /\ \A i \in 1 .. Len(call.found) :
           /\ call.found[i].guess \in 1 .. call.lpc
           /\ \A o \in 1 .. call.lpc : \A k \in 1 .. o : call.found[i].raw[o][k] \in Int
  BY <1>1, <1>2, FoundAssumption, Zenon
<1>4. PICK n \in Nat \ {0} : n = Len(call.found)  BY <1>3, Zenon
<1>5. PICK s \in Int : s = f + w  OBVIOUS
<1>6. (s % n) + 1 \in 1 .. n  OBVIOUS
<1>7. PICK i \in 1 .. n : i = (s % n) + 1  BY <1>6
<1>8. FoundFor(args, f, w) = call.found[i]  BY <1>1, <1>4, <1>5, <1>7, Zenon DEF FoundFor
<1>9. QED  BY <1>3, <1>4, <1>8, Zenon DEF Usable

LEMMA WindowSlots ==
  ASSUME IsBatch(call, plan), Generated(call)
  PROVE  args.perWindow \in Nat \ {0}
<1>1. PICK o : o = OptionsOf(call)  OBVIOUS
<1>2. IsPlan(plan, o, call.samples)  BY <1>1, LegalPlanned DEF IsBatch
<1>3. o.maxLpcOrder # 0 /\ o.maxLpcOrder \in Nat
  <2>1. call.lpc \in Nat  BY OptionsLegal DEF IsBatch
  <2>2. QED  BY <1>1, <2>1 DEF IsBatch, Generated
<1>4. 0 \in 0 .. plan.frames - 1  BY <1>2, PlanPlaces
<1>5. PerWindow(plan, 0) = WindowTasks(o)  BY <1>2, <1>4, PlanShape
<1>6. WindowTasks(o) \in Nat \ {0}  BY <1>3 DEF WindowTasks
<1>7. args.perWindow = PrefixShape(plan, 0).perWindow
  BY Zenon DEF args, ArgumentsOf, Generated
<1>8. PrefixShape(plan, 0).perWindow = PerWindow(plan, 0)  BY Zenon DEF PrefixShape
<1>9. QED  BY <1>5, <1>6, <1>7, <1>8

LEMMA QuantizeTracks ==
  ASSUME IsBatch(call, plan), Generated(call), NEW m, Fits(m), Inputs(m), Tracked(m)
  PROVE  Tracked(QuantizeLpcOrders(m, args)) /\ SeesSame(m, QuantizeLpcOrders(m, args))
<1>1. PICK n : n = QuantizeLpcOrders(m, args)  OBVIOUS
<1>2. n["tasks"] = Quantized(m, args) /\ n["shifted"] = m["shifted"]
  BY <1>1, TasksAlone DEF Fits
<1>3. args.perFrame = plan.perFrame /\ args.precision \in 1 .. 15
  <2>1. args.perFrame = plan.perFrame /\ args.precision = call.precision
    BY ArgumentsTyped, ArgumentsMore DEF args
  <2>2. QED  BY <2>1, CallsAssumption DEF IsBatch
<1>4. plan.perFrame \in Nat \ {0} /\ Len(plan.tasks) \in Nat  BY BatchSizes DEF IsBuffer
<1>5. ASSUME NEW t \in 1 .. Len(plan.tasks)
      PROVE  Sound(n["tasks"][t], call.lpc) /\ n["tasks"][t].wbits = m["tasks"][t].wbits
  <2>1. PICK u : u = m["tasks"][t]  OBVIOUS
  <2>2. t \in DOMAIN m["tasks"] /\ DOMAIN u = TaskFields
        /\ ((t - 1) % plan.perFrame < args.lpcTasks => u.type = "Lpc")
    BY <2>1, TaskInputs
  <2>3. Sound(u, call.lpc)  BY <2>1 DEF Tracked
  <2>4. PICK g \in Int, w \in Int : g = (t - 1) \div args.perFrame
          /\ w = ((t - 1) % args.perFrame) \div args.perWindow
    <3>1. PICK p \in Nat \ {0} : p = args.perFrame  BY <1>3, <1>4
    <3>2. PICK q \in Nat \ {0} : q = args.perWindow  BY WindowSlots
    <3>3. PICK j \in Int : j = t - 1  BY <1>4
    <3>4. j \div p \in Int /\ (j % p) \in Nat  OBVIOUS
    <3>5. PICK s \in Nat : s = (j % p)  BY <3>4
    <3>6. s \div q \in Int  OBVIOUS
    <3>7. QED  BY <3>1, <3>2, <3>3, <3>4, <3>5, <3>6
  <2>5. PICK f : f = FoundFor(args, g, w)  OBVIOUS
  <2>6. n["tasks"][t] = IF g < args.frames /\ (t - 1) % args.perFrame < args.lpcTasks
                        THEN QuantizedTask(u, f, args) ELSE u
    BY <1>2, <2>1, <2>2, <2>4, <2>5, Zenon DEF Quantized
  <2>7. CASE (t - 1) % args.perFrame < args.lpcTasks
    <3>1. u.type = "Lpc"  BY <1>3, <2>2, <2>7
    <3>2. Usable(f, call.lpc)  BY <2>5, FoundUsable
    <3>3. Sound(QuantizedTask(u, f, args), call.lpc)  BY <1>3, <2>3, <3>1, <3>2, QuantizedSound
    <3>4. QuantizedTask(u, f, args).wbits = u.wbits  BY <2>2, WastedStay
    <3>5. QED  BY <2>1, <2>3, <2>6, <3>3, <3>4
  <2>8. CASE ~((t - 1) % args.perFrame < args.lpcTasks)
    BY <2>1, <2>3, <2>6, <2>8
  <2>9. QED  BY <2>7, <2>8
<1>6. QED  BY <1>1, <1>2, <1>5 DEF Tracked, SeesSame

LEMMA PruneTracks ==
  ASSUME IsBatch(call, plan), NEW m, Fits(m), Inputs(m), Tracked(m)
  PROVE  Tracked(PruneFixedOrderGuess(m, args)) /\ SeesSame(m, PruneFixedOrderGuess(m, args))
<1>1. PICK n : n = PruneFixedOrderGuess(m, args)  OBVIOUS
<1>2. n["tasks"] = PrunedOf(m, args) /\ n["shifted"] = m["shifted"]
  BY <1>1, TasksAlone DEF Fits
<1>3. ASSUME NEW t \in 1 .. Len(plan.tasks)
      PROVE  Sound(n["tasks"][t], call.lpc) /\ n["tasks"][t].wbits = m["tasks"][t].wbits
  <2>1. PICK u : u = m["tasks"][t]  OBVIOUS
  <2>2. t \in DOMAIN m["tasks"] /\ DOMAIN u = TaskFields  BY <2>1, TaskInputs
  <2>3. Sound(u, call.lpc)  BY <2>1 DEF Tracked
  <2>4. PICK z \in Int : z = Pruned  BY IntMaxTyped DEF Pruned
  <2>5. PICK v : v = [u EXCEPT !.size = z]  OBVIOUS
  <2>6. Sound([u EXCEPT !.size = z], call.lpc)  BY <2>3, ResizedSound
  <2>7. Sound(v, call.lpc)  BY <2>5, <2>6
  <2>8. v.wbits = u.wbits
    <3>1. "wbits" \in DOMAIN u  BY <2>2 DEF TaskFields
    <3>2. QED  BY <2>5, <3>1
  <2>9. n["tasks"][t] = v \/ n["tasks"][t] = u
    BY <1>2, <2>1, <2>2, <2>4, <2>5, Zenon DEF PrunedOf
  <2>10. QED  BY <2>1, <2>3, <2>7, <2>8, <2>9
<1>4. QED  BY <1>1, <1>2, <1>3 DEF Tracked, SeesSame

LEMMA AnalyzeTracks ==
  ASSUME IsBatch(call, plan), NEW m, Fits(m), Inputs(m), Tracked(m), Marked(m)
  PROVE  Tracked(AnalyzeSubframeExact(m, args)) /\ SeesSame(m, AnalyzeSubframeExact(m, args))
<1>1. PICK n : n = AnalyzeSubframeExact(m, args)  OBVIOUS
<1>2. n["tasks"] = Analyzed(m, args) /\ n["shifted"] = m["shifted"]
  BY <1>1, AnalyzeKeeps, AnalyzeShifts DEF Fits
<1>3. Launched(args)  BY ArgumentsMore DEF args
<1>4. call.block \in Nat \ {0}  BY BatchSizes
<1>5. PICK lpc \in Nat : lpc = call.lpc  BY OptionsLegal DEF IsBatch
<1>6. ASSUME NEW t \in 1 .. Len(plan.tasks)
      PROVE  Sound(n["tasks"][t], lpc) /\ n["tasks"][t].wbits = m["tasks"][t].wbits
  <2>1. PICK u : u = m["tasks"][t]  OBVIOUS
  <2>2. PICK f : f = FrameNo(t)  OBVIOUS
  <2>3. t \in DOMAIN m["tasks"] /\ DOMAIN u = TaskFields /\ u.block = call.block /\ f \in Frames
    BY <2>1, <2>2, TaskInputs
  <2>4. Sound(u, lpc)  BY <1>5, <2>1 DEF Tracked
  <2>5. u.wbits = WastedBitsOf(OwnFrame(f)) /\ ShiftedBlock(m, args, u) = OwnSamples(f)
    BY <2>1, <2>2 DEF Marked
  <2>6. /\ WastedBitsOf(OwnFrame(f)) \in 0 .. WordBits
        /\ IsSampleBlock(OwnSamples(f)) /\ Len(OwnSamples(f)) = call.block
    BY <2>3, OwnTyped
  <2>7. PICK x : x = CostedBlock(m, args, u)  OBVIOUS
  <2>8. IsSampleBlock(x) /\ Len(x) = call.block
    <3>1. PICK y, w : y = OwnSamples(f) /\ w = u.wbits  OBVIOUS
    <3>2. w \in 0 .. WordBits /\ IsSampleBlock(y) /\ Len(y) = call.block
      BY <2>5, <2>6, <3>1
    <3>3. IsSampleBlock(ShiftSamples(y, w)) /\ Len(ShiftSamples(y, w)) = call.block
      BY <3>2, ShiftedTyped
    <3>4. x = ShiftSamples(y, w) \/ x = y  BY <2>5, <2>7, <3>1, Zenon DEF CostedBlock
    <3>5. QED  BY <3>2, <3>3, <3>4
  <2>9. u.wbits \in Int  BY <2>5, <2>6
  <2>10. Len(x) > 0 /\ u.block = Len(x)  BY <1>4, <2>3, <2>8
  <2>11. Sound(AnalyzedTask(m, args, u).task, lpc)
    BY <1>3, <2>4, <2>7, <2>8, <2>9, <2>10, AnalyzedSound
  <2>12. AnalyzedTask(m, args, u).task.wbits = u.wbits  BY <2>3, WastedStay
  <2>13. n["tasks"][t] = AnalyzedTask(m, args, u).task \/ n["tasks"][t] = u
    BY <1>2, <2>1, <2>3, Zenon DEF Analyzed
  <2>14. QED  BY <2>1, <2>4, <2>11, <2>12, <2>13
<1>7. QED  BY <1>1, <1>2, <1>5, <1>6 DEF Tracked, SeesSame

\* What every command after the wasted bits leaves of the tasks.
LEMMA CommandTracks ==
  ASSUME IsBatch(call, plan), NEW m, Fits(m), Inputs(m), Tracked(m), Marked(m),
         NEW command \in Commands \ {"CopyInputs", "FindWastedBits"},
         command = "QuantizeLpcOrders" => Generated(call)
  PROVE  Tracked(Run(command, m)) /\ Marked(Run(command, m))
<1>0. Memory(m)  BY DEF Fits
<1>1. PICK n : n = Run(command, m)  OBVIOUS
<1>2. Keeps(m, n)  BY <1>0, <1>1, RunKeeps
<1>3. "tasks" \in Buffers /\ "shifted" \in Buffers  BY DEF Buffers, DeviceBuffers
<1>4. Tracked(n) /\ SeesSame(m, n)
  <2>1. CASE command = "QuantizeLpcOrders"  BY <1>1, <2>1, RunIs, QuantizeTracks
  <2>2. CASE command = "PruneFixedOrderGuess"  BY <1>1, <2>2, RunIs, PruneTracks
  <2>3. CASE command = "AnalyzeSubframeExact"  BY <1>1, <2>3, RunIs, AnalyzeTracks
  <2>4. CASE command \notin {"QuantizeLpcOrders", "PruneFixedOrderGuess", "AnalyzeSubframeExact"}
    <3>1. n["tasks"] = m["tasks"] /\ n["shifted"] = m["shifted"]
      <4>1. CASE command = "ComputeAutocor"
        <5>0. PICK a : a = args  OBVIOUS
        <5>1. n = ComputeAutocor(m, a)  BY <1>1, <4>1, <5>0, RunIs, Zenon
        <5>2. \A d \in Buffers \ {"autocor"} : ComputeAutocor(m, a)[d] = m[d]  BY ONLY <1>0, AutocorOthers
        <5>3. QED  BY ONLY <1>3, <5>1, <5>2
      <4>2. CASE command = "ComputeLpc"
        <5>0. PICK a : a = args  OBVIOUS
        <5>1. n = ComputeLpc(m, a)  BY <1>1, <4>2, <5>0, RunIs, Zenon
        <5>2. \A d \in Buffers \ {"lpc"} : ComputeLpc(m, a)[d] = m[d]  BY ONLY <1>0, AutocorOthers
        <5>3. QED  BY ONLY <1>3, <5>1, <5>2
      <4>3. CASE command = "ChooseBestMethod"
        <5>0. PICK a : a = args  OBVIOUS
        <5>1. n = ChooseBestMethod(m, a)  BY <1>1, <4>3, <5>0, RunIs, Zenon
        <5>2. \A d \in Buffers \ {"best"} : ChooseBestMethod(m, a)[d] = m[d]  BY ONLY <1>0, ChooseKeeps
        <5>3. QED  BY ONLY <1>3, <5>1, <5>2
      <4>4. CASE command = "WriteBestRiceParameters"
        <5>0. PICK a : a = args  OBVIOUS
        <5>1. n = WriteBestRiceParameters(m, a)  BY <1>1, <4>4, <5>0, RunIs, Zenon
        <5>2. \A d \in Buffers \ {"bestRice"} : WriteBestRiceParameters(m, a)[d] = m[d]  BY ONLY <1>0, WriteBestKeeps
        <5>3. QED  BY ONLY <1>3, <5>1, <5>2
      <4>5. CASE command = "ReadBest"
        <5>1. PICK y : y = SubSeq(m.best, 1, plan.frames)  OBVIOUS
        <5>2. n = [m EXCEPT !["bestDown"] = Overwrite(@, y)]
          BY <1>1, <4>5, <5>1, RunIs, Zenon
        <5>3. \A d \in Buffers \ {"bestDown"} : n[d] = m[d]  BY <1>0, <5>2, ReadKeeps
        <5>4. QED  BY <1>3, <5>3
      <4>6. CASE command = "ReadRice"
        <5>1. PICK y : y = SubSeq(m.bestRice, 1, plan.frames)  OBVIOUS
        <5>2. n = [m EXCEPT !["riceDown"] = Overwrite(@, y)]
          BY <1>1, <4>6, <5>1, RunIs, Zenon
        <5>3. \A d \in Buffers \ {"riceDown"} : n[d] = m[d]  BY <1>0, <5>2, ReadKeeps
        <5>4. QED  BY <1>3, <5>3
      <4>7. QED  BY <2>4, <4>1, <4>2, <4>3, <4>4, <4>5, <4>6 DEF Commands
    <3>2. QED  BY <3>1, OthersSee
  <2>5. QED  BY <2>1, <2>2, <2>3, <2>4
<1>5. Marked(n)  BY <1>2, <1>4, MarkedStays
<1>6. QED  BY <1>1, <1>4, <1>5

\* What the inputs leave of the tasks is what was planned.
LEMMA PlannedTracked ==
  ASSUME IsBatch(call, plan), NEW m, Begins(m["tasks"], plan.tasks)
  PROVE  Tracked(m)
<1>1. PICK o : o = OptionsOf(call)  OBVIOUS
<1>2. /\ IsPlan(plan, o, call.samples) /\ IsBuffer(plan.tasks) /\ o.maxLpcOrder = call.lpc
  BY <1>1, BatchSizes DEF IsBatch
<1>3. ASSUME NEW t \in 1 .. Len(plan.tasks) PROVE Sound(m["tasks"][t], call.lpc)
  <2>1. t \in DOMAIN plan.tasks  BY <1>2 DEF IsBuffer
  <2>2. PICK f \in 0 .. plan.frames - 1, i \in 1 .. plan.perFrame :
          plan.tasks[t] = TaskOf(plan, f, i)
    BY <1>2, <2>1, TaskPlace
  <2>3. PlannedTask(plan.tasks[t], o, f)  BY <1>2, <2>2, PlanTasks
  <2>4. PICK u : u = plan.tasks[t]  OBVIOUS
  <2>5. Sound(u, o.maxLpcOrder)  BY <2>3, <2>4, PlannedSound
  <2>6. m["tasks"][t] = u  BY <2>4 DEF Begins
  <2>7. QED  BY <1>2, <2>5, <2>6
<1>4. QED  BY <1>3 DEF Tracked

\* The task chosen for a frame is a least one of the frame's own.
LEMMA BestIsLeast ==
  ASSUME IsBatch(call, plan), NEW m, Fits(m), Inputs(m), Tracked(m), NEW f \in Frames
  PROVE  /\ BestTask(m, args, f) \in OwnTasks(f)
         /\ \A u \in OwnTasks(f) : m["tasks"][BestTask(m, args, f)].size <= m["tasks"][u].size
<1>1. args.perFrame = plan.perFrame  BY ArgumentsTyped DEF args
<1>2. PICK n \in Nat \ {0}, p \in Nat \ {0} : n = plan.frames /\ p = plan.perFrame
  BY BatchSizes
<1>3. /\ n * p \in Nat /\ Len(plan.tasks) = n * p /\ DOMAIN plan.tasks = 1 .. n * p
      /\ Len(plan.selected) = n * p /\ \A i \in 1 .. n * p : plan.selected[i] = i - 1
  BY <1>2, BatchSizes DEF IsBuffer
<1>4. f \in 0 .. n - 1  BY <1>2 DEF Frames
<1>5. PICK b \in Nat : b = f * p  BY <1>4
<1>6. ASSUME NEW i \in 1 .. p
      PROVE  b + i \in 1 .. n * p /\ ((b + i) - 1) \div p = f /\ m["selected"][b + i] + 1 = b + i
  <2>1. PICK r \in 0 .. p - 1 : r = i - 1  OBVIOUS
  <2>2. f * p + r + 1 \in 1 .. n * p /\ ((f * p + r + 1) - 1) \div p = f
    BY <1>4, CellRow
  <2>3. f * p + r + 1 = b + i  BY <1>5, <2>1
  <2>4. b + i \in 1 .. n * p /\ ((b + i) - 1) \div p = f  BY <2>2, <2>3
  <2>5. m["selected"][b + i] = plan.selected[b + i]  BY <1>3, <2>4 DEF Inputs, Begins
  <2>6. PICK c \in Int : c = b + i  OBVIOUS
  <2>7. m["selected"][c] = c - 1  BY <1>3, <2>4, <2>5, <2>6
  <2>8. m["selected"][b + i] + 1 = b + i  BY <2>6, <2>7
  <2>9. QED  BY <2>4, <2>8
<1>7. PICK s : s = [i \in 1 .. p |-> m["tasks"][m["selected"][b + i] + 1].size]  OBVIOUS
<1>8. DOMAIN s = 1 .. p /\ \A i \in 1 .. p : s[i] = m["tasks"][b + i].size /\ s[i] \in Int
  <2>1. ASSUME NEW i \in 1 .. p PROVE m["tasks"][b + i].size \in Int
    <3>1. b + i \in 1 .. Len(plan.tasks)  BY <1>3, <1>6
    <3>2. QED  BY <3>1 DEF Tracked, Sound
  <2>2. \A i \in 1 .. p : m["selected"][b + i] + 1 = b + i  BY <1>6
  <2>3. QED  BY <1>7, <2>1, <2>2
<1>9. FirstLeast(s) \in 1 .. p /\ \A j \in 1 .. p : s[FirstLeast(s)] <= s[j]
  <2>1. p \in Nat /\ DOMAIN s \subseteq 0 .. p /\ 1 \in DOMAIN s /\ \A k \in DOMAIN s : s[k] \in Int
    BY <1>8
  <2>2. DOMAIN s # {}  BY <2>1
  <2>3. FirstLeast(s) \in DOMAIN s /\ \A j \in DOMAIN s : s[FirstLeast(s)] <= s[j]
    BY <2>1, <2>2, LeastFound
  <2>4. QED  BY <1>8, <2>3
<1>10. PICK k \in 1 .. p : k = FirstLeast(s)  BY <1>9
<1>11. BestTask(m, args, f) = b + k
  <2>1. BestTask(m, args, f) = m["selected"][b + FirstLeast(s)] + 1
    BY <1>1, <1>2, <1>5, <1>7, Zenon DEF BestTask
  <2>2. QED  BY <1>6, <1>10, <2>1
<1>12. b + k \in OwnTasks(f)
  BY <1>2, <1>3, <1>6 DEF OwnTasks
<1>13. ASSUME NEW u \in OwnTasks(f)
       PROVE  m["tasks"][b + k].size <= m["tasks"][u].size
  <2>1. u \in 1 .. n * p /\ (u - 1) \div p = f  BY <1>2, <1>3 DEF OwnTasks
  <2>2. PICK g \in 0 .. n - 1, r \in 0 .. p - 1 : g = (u - 1) \div p /\ u = g * p + r + 1
    <3>1. n \in Nat /\ p \in Nat \ {0} /\ u \in 1 .. n * p  BY <2>1
    <3>2. /\ (u - 1) \div p \in 0 .. n - 1 /\ (u - 1) % p \in 0 .. p - 1
          /\ u = ((u - 1) \div p) * p + ((u - 1) % p) + 1
      BY ONLY <3>1, RowCell
    <3>3. QED  BY ONLY <3>2
  <2>3. r + 1 \in 1 .. p /\ u = b + (r + 1)  BY <1>5, <2>1, <2>2
  <2>4. PICK j \in 1 .. p : j = r + 1  BY <2>3
  <2>5. s[k] <= s[j]  BY <1>9, <1>10
  <2>6. QED  BY <1>8, <2>3, <2>4, <2>5
<1>14. QED  BY <1>11, <1>12, <1>13

LEMMA SameBest ==
  ASSUME NEW m, NEW n, n["tasks"] = m["tasks"], n["selected"] = m["selected"], NEW a, NEW f
  PROVE  BestTask(n, a, f) = BestTask(m, a, f)
BY Zenon DEF BestTask

-----------------------------------------------------------------------------
(* What the last four commands of a batch make of the analysis.            *)

BestChosen(m) == \A f \in Frames : m["best"][f + 1] = m["tasks"][BestTask(m, args, f)]
RiceOf(m, f) == m[TaskRiceBuffer(args)][TaskRiceCell(args, BestTask(m, args, f))]
RiceChosen(m) == \A f \in Frames : m["bestRice"][f + 1] = RiceOf(m, f)
TasksRead(m) == \A f \in Frames : m["bestDown"][f + 1] = m["best"][f + 1]
RiceRead(m) == \A f \in Frames : m["riceDown"][f + 1] = m["bestRice"][f + 1]

LEMMA CellsLeft ==
  ASSUME NEW N \in Nat, NEW x, DOMAIN x = 1 .. N, NEW y, IsBuffer(y),
         NEW c \in 1 .. Len(y), c > N
  PROVE  Overwrite(y, x)[c] = y[c]
<1>1. Len(x) = N  BY BufferOf
<1>2. Overwrite(y, x) = [i \in 1 .. Len(y) |-> IF i <= Len(x) THEN x[i] ELSE y[i]]
  BY DEF Overwrite, IsBuffer
<1>3. ~(c <= N)  BY DEF IsBuffer
<1>4. QED  BY <1>1, <1>2, <1>3

LEMMA FrameCell ==
  ASSUME IsBatch(call, plan), NEW f \in Frames
  PROVE  f + 1 \in 1 .. plan.frames /\ (f + 1) - 1 = f /\ args.frames = plan.frames
         /\ plan.frames \in Nat
<1>1. args.frames = plan.frames  BY ArgumentsTyped DEF args
<1>2. plan.frames \in Nat  BY BatchSizes
<1>3. QED  BY <1>1, <1>2 DEF Frames

LEMMA ChooseChooses ==
  ASSUME IsBatch(call, plan), NEW m, Fits(m)
  PROVE  BestChosen(ChooseBestMethod(m, args))
<1>1. PICK a : a = args  OBVIOUS
<1>2. PICK n : n = ChooseBestMethod(m, a)  OBVIOUS
<1>3. PICK x : x = [f \in 1 .. a.frames |-> m["tasks"][BestTask(m, a, f - 1)]]  OBVIOUS
<1>4. Memory(m)  BY DEF Fits
<1>5. (\A d \in Buffers \ {"best"} : n[d] = m[d]) /\ n["best"] = Overwrite(m["best"], x)
  BY ONLY <1>2, <1>3, <1>4, ChooseKeeps
<1>6. n["tasks"] = m["tasks"] /\ n["selected"] = m["selected"]
  BY <1>5 DEF Buffers, DeviceBuffers
<1>7. "best" \in Buffers  BY DEF Buffers, DeviceBuffers
<1>8. IsBuffer(m["best"]) /\ plan.frames <= Len(m["best"])  BY <1>7, FitSizes
<1>9. ASSUME NEW f \in Frames PROVE n["best"][f + 1] = n["tasks"][BestTask(n, a, f)]
  <2>1. f + 1 \in 1 .. plan.frames /\ (f + 1) - 1 = f /\ a.frames = plan.frames
        /\ plan.frames \in Nat
    BY <1>1, FrameCell
  <2>0. PICK N \in Nat : N = plan.frames  BY <2>1
  <2>2. PICK c \in 1 .. N : N = plan.frames /\ c = f + 1 /\ c - 1 = f  BY <2>0, <2>1
  <2>3. DOMAIN x = 1 .. N /\ x[c] = m["tasks"][BestTask(m, a, f)]  BY <1>3, <2>1, <2>2
  <2>4. n["best"][c] = x[c]  BY <1>5, <1>8, <2>2, <2>3, CellsWritten
  <2>5. BestTask(n, a, f) = BestTask(m, a, f)  BY <1>6, SameBest
  <2>6. QED  BY <1>6, <2>2, <2>3, <2>4, <2>5
<1>10. QED  BY <1>1, <1>2, <1>9 DEF BestChosen

LEMMA WriteKeepsRice ==
  ASSUME IsBatch(call, plan), NEW m, Fits(m), Inputs(m), Tracked(m)
  PROVE  /\ RiceChosen(WriteBestRiceParameters(m, args))
         /\ BestChosen(m) => BestChosen(WriteBestRiceParameters(m, args))
<1>1. PICK a : a = args  OBVIOUS
<1>2. PICK n : n = WriteBestRiceParameters(m, a)  OBVIOUS
<1>3. PICK x : x = [f \in 1 .. a.frames |->
                      m[TaskRiceBuffer(a)][TaskRiceCell(a, BestTask(m, a, f - 1))]]
  OBVIOUS
<1>4. Memory(m)  BY DEF Fits
<1>5. (\A d \in Buffers \ {"bestRice"} : n[d] = m[d])
      /\ n["bestRice"] = Overwrite(m["bestRice"], x)
  BY ONLY <1>2, <1>3, <1>4, WriteBestKeeps
<1>6. n["tasks"] = m["tasks"] /\ n["selected"] = m["selected"] /\ n["best"] = m["best"]
      /\ n["taskRice"] = m["taskRice"]
  BY <1>5 DEF Buffers, DeviceBuffers
<1>7. "bestRice" \in Buffers  BY DEF Buffers, DeviceBuffers
<1>8. /\ IsBuffer(m["bestRice"]) /\ plan.frames <= Len(m["bestRice"])
      /\ api = "vulkan" => plan.frames + Len(plan.tasks) <= Len(m["bestRice"])
  BY <1>7, FitSizes
<1>9. a.api = api  BY <1>1, ArgumentsTyped DEF args
<1>10. ASSUME NEW f \in Frames
       PROVE  /\ n["bestRice"][f + 1] = RiceOf(n, f)
              /\ BestTask(n, a, f) = BestTask(m, a, f)
  <2>1. f + 1 \in 1 .. plan.frames /\ (f + 1) - 1 = f /\ a.frames = plan.frames
        /\ plan.frames \in Nat
    BY <1>1, FrameCell
  <2>0. PICK N \in Nat : N = plan.frames  BY <2>1
  <2>2. PICK c \in 1 .. N : N = plan.frames /\ c = f + 1 /\ c - 1 = f  BY <2>0, <2>1
  <2>3. PICK t : t = BestTask(m, a, f)  OBVIOUS
  <2>4. DOMAIN x = 1 .. N /\ x[c] = m[TaskRiceBuffer(a)][TaskRiceCell(a, t)]
    BY <1>3, <2>1, <2>2, <2>3
  <2>5. n["bestRice"][c] = x[c]  BY <1>5, <1>8, <2>2, <2>4, CellsWritten
  <2>6. BestTask(n, a, f) = t  BY <1>6, <2>3, SameBest
  <2>7. n[TaskRiceBuffer(a)][TaskRiceCell(a, t)] = m[TaskRiceBuffer(a)][TaskRiceCell(a, t)]
    <3>1. CASE api = "vulkan"
      <4>1. TaskRiceBuffer(a) = "bestRice" /\ TaskRiceCell(a, t) = a.frames + t
        BY <1>9, <3>1 DEF TaskRiceBuffer, TaskRiceCell
      <4>2. t \in OwnTasks(f)  BY <1>1, <2>3, BestIsLeast
      <4>3. IsBuffer(plan.tasks)  BY BatchSizes
      <4>4. t \in 1 .. Len(plan.tasks) /\ Len(plan.tasks) \in Nat
        BY <4>2, <4>3 DEF OwnTasks, IsBuffer
      <4>5. PICK r \in Nat : r = Len(m["bestRice"])  BY <1>8 DEF IsBuffer
      <4>6. PICK d \in 1 .. r : d = N + t /\ d > N
        <5>1. PICK L \in Nat : L = Len(plan.tasks)  BY <4>4
        <5>2. t \in 1 .. L  BY <4>4, <5>1
        <5>3. N + L <= r  BY <1>8, <2>2, <3>1, <4>5, <5>1
        <5>4. N + t \in 1 .. r /\ N + t > N  BY <5>2, <5>3
        <5>5. QED  BY ONLY <5>4
      <4>7. n["bestRice"][d] = m["bestRice"][d]
        BY <1>5, <1>8, <2>4, <4>5, <4>6, CellsLeft
      <4>8. QED  BY <2>1, <2>2, <4>1, <4>6, <4>7
    <3>2. CASE api # "vulkan"
      <4>1. TaskRiceBuffer(a) = "taskRice"  BY <1>9, <3>2 DEF TaskRiceBuffer
      <4>2. QED  BY <1>6, <4>1
    <3>3. QED  BY <3>1, <3>2
  <2>8. QED  BY <1>1, <2>2, <2>3, <2>4, <2>5, <2>6, <2>7 DEF RiceOf
<1>11. RiceChosen(n)  BY <1>10 DEF RiceChosen
<1>12. BestChosen(m) => BestChosen(n)  BY <1>1, <1>6, <1>10 DEF BestChosen
<1>13. QED  BY <1>1, <1>2, <1>11, <1>12

\* A read copies the cells of the frames, and leaves the device's buffers.
LEMMA ReadCopies ==
  ASSUME IsBatch(call, plan), NEW m, Fits(m), Inputs(m)
  PROVE  /\ TasksRead(Run("ReadBest", m)) /\ RiceRead(Run("ReadRice", m))
         /\ \A d \in Buffers \ {"bestDown"} : Run("ReadBest", m)[d] = m[d]
         /\ \A d \in Buffers \ {"riceDown"} : Run("ReadRice", m)[d] = m[d]
<1>1. Memory(m)  BY DEF Fits
<1>2. PICK x, y : x = SubSeq(m.best, 1, plan.frames) /\ y = SubSeq(m.bestRice, 1, plan.frames)
  OBVIOUS
<1>3. PICK n, o : n = Run("ReadBest", m) /\ o = Run("ReadRice", m)  OBVIOUS
<1>4. PICK v, w : v = Overwrite(m["bestDown"], x) /\ w = Overwrite(m["riceDown"], y)  OBVIOUS
<1>5. n = [m EXCEPT !["bestDown"] = v] /\ o = [m EXCEPT !["riceDown"] = w]
  BY <1>2, <1>3, <1>4, RunIs, Zenon
<1>6. n["bestDown"] = Overwrite(m["bestDown"], x) /\ \A d \in Buffers \ {"bestDown"} : n[d] = m[d]
  <2>1. DOMAIN m = Buffers /\ "bestDown" \in Buffers  BY <1>1 DEF Memory, Buffers, HostBuffers
  <2>2. QED  BY <1>4, <1>5, <2>1
<1>7. o["riceDown"] = Overwrite(m["riceDown"], y) /\ \A d \in Buffers \ {"riceDown"} : o[d] = m[d]
  <2>1. DOMAIN m = Buffers /\ "riceDown" \in Buffers  BY <1>1 DEF Memory, Buffers, HostBuffers
  <2>2. QED  BY <1>4, <1>5, <2>1
<1>8. {"best", "bestRice", "bestDown", "riceDown"} \subseteq Buffers
  BY DEF Buffers, DeviceBuffers, HostBuffers
<1>9. /\ IsBuffer(m["best"]) /\ IsBuffer(m["bestRice"])
      /\ IsBuffer(m["bestDown"]) /\ IsBuffer(m["riceDown"])
      /\ plan.frames <= Len(m["best"]) /\ plan.frames <= Len(m["bestRice"])
      /\ plan.frames <= Len(m["bestDown"]) /\ plan.frames <= Len(m["riceDown"])
  BY <1>8, FitSizes
<1>10. PICK N \in Nat : N = plan.frames  BY BatchSizes
<1>11. ASSUME NEW b, IsBuffer(b), N <= Len(b), NEW d, IsBuffer(d), N <= Len(d), NEW c \in 1 .. N
       PROVE  Overwrite(d, SubSeq(b, 1, N))[c] = b[c]
  <2>1. PICK s : s = SubSeq(b, 1, N)  OBVIOUS
  <2>2. DOMAIN s = 1 .. N /\ s[c] = b[c]
    <3>1. FrameOf(b, 0, N) = [i \in 1 .. N |-> b[0 + i]]
      <4>1. 0 \in Nat /\ N \in Nat /\ 0 + N <= Len(b) /\ IsBuffer(b)  BY <1>10, <1>11
      <4>2. QED  BY ONLY <4>1, FrameCells
    <3>2. FrameOf(b, 0, N) = s
      <4>1. 0 + 1 = 1 /\ 0 + N = N  BY <1>10
      <4>2. QED  BY <2>1, <4>1 DEF FrameOf
    <3>3. 0 + c = c  OBVIOUS
    <3>4. QED  BY <3>1, <3>2, <3>3
  <2>3. Overwrite(d, s)[c] = s[c]  BY <1>10, <1>11, <2>2, CellsWritten
  <2>4. QED  BY <2>1, <2>2, <2>3
<1>12. ASSUME NEW f \in Frames
       PROVE  n["bestDown"][f + 1] = n["best"][f + 1] /\ o["riceDown"][f + 1] = o["bestRice"][f + 1]
  <2>1. PICK c \in 1 .. N : c = f + 1  BY <1>10, FrameCell
  <2>2. n["bestDown"][c] = m["best"][c]  BY <1>2, <1>6, <1>9, <1>10, <1>11
  <2>3. o["riceDown"][c] = m["bestRice"][c]  BY <1>2, <1>7, <1>9, <1>10, <1>11
  <2>4. QED  BY <1>6, <1>7, <1>8, <2>1, <2>2, <2>3
<1>13. TasksRead(n) /\ RiceRead(o)  BY <1>12 DEF TasksRead, RiceRead
<1>14. QED  BY <1>3, <1>6, <1>7, <1>13

-----------------------------------------------------------------------------
(* The invariant of the results.                                           *)

\* The place of the analysis in the program: four commands follow it.
AnalyzeAt == Uploads + Generations + Guesses + 2

\* What k of the commands after the analysis have made.
ResultsOf(m, k) ==
  /\ k > 0 => BestChosen(m)
  /\ k > 1 => RiceChosen(m)
  /\ k > 2 => TasksRead(m)
  /\ k > 3 => RiceRead(m)

TrackedThere == stage = "running" /\ (api = "opencl" \/ done > 0) => Tracked(mem)
MarkedThere == stage = "running" /\ done > Uploads => Marked(mem)
ResultsThere == stage = "running" => ResultsOf(mem, done - AnalyzeAt)

ResultInv == TrackedThere /\ MarkedThere /\ ResultsThere /\ BestOfOwnFrame

\* What each place of the program holds.
LEMMA ProgramPlaces ==
  ASSUME IsBatch(call, plan), NEW i \in 1 .. Len(Program)
  PROVE  /\ Uploads \in {0, 1} /\ AnalyzeAt \in Nat /\ AnalyzeAt > Uploads + 1
         /\ Len(Program) = AnalyzeAt + 4 /\ Program[i] \in Commands
         /\ Program[i] = "CopyInputs" <=> i = 1 /\ api = "vulkan"
         /\ Program[i] = "FindWastedBits" <=> i = Uploads + 1
         /\ Program[i] = "QuantizeLpcOrders" => Generated(call)
         /\ i = AnalyzeAt => Program[i] = "AnalyzeSubframeExact"
         /\ i = AnalyzeAt + 1 => Program[i] = "ChooseBestMethod"
         /\ i = AnalyzeAt + 2 => Program[i] = "WriteBestRiceParameters"
         /\ i = AnalyzeAt + 3 => Program[i] = "ReadBest"
         /\ i = AnalyzeAt + 4 => Program[i] = "ReadRice"
<1> DEFINE u == Uploads
           g == Generations
           h == Guesses
<1>1. u \in {0, 1} /\ g \in {0, 3} /\ h \in {0, 1} /\ (g = 3 => Generated(call))
  BY DEF Uploads, Generations, Guesses
<1>2. ProgramIs(Program, u, g, h)  BY ProgramCells
<1>3. /\ Program[i] \in Commands
      /\ Program[i] = "CopyInputs" <=> i = 1 /\ api = "vulkan"
      /\ Program[i] = "FindWastedBits" => i = Uploads + 1
  BY ProgramOrder
<1> HIDE DEF u, g, h
<1>4. PICK P : P = Program  OBVIOUS
<1>5. Len(P) = u + g + h + 6 /\ P[u + 1] = "FindWastedBits"  BY <1>2, <1>4 DEF ProgramIs
<1>6. /\ P[u + g + h + 2] = "AnalyzeSubframeExact" /\ P[u + g + h + 3] = "ChooseBestMethod"
      /\ P[u + g + h + 4] = "WriteBestRiceParameters"
      /\ P[u + g + h + 5] = "ReadBest" /\ P[u + g + h + 6] = "ReadRice"
  BY <1>2, <1>4 DEF ProgramIs
<1>7. PICK a \in Nat : a = u + g + h + 2  BY <1>1
<1>8. AnalyzeAt = a  BY <1>7 DEF AnalyzeAt, u, g, h
<1>9. Len(P) = a + 4 /\ a > u + 1  BY <1>1, <1>5, <1>7
<1>10. /\ P[a] = "AnalyzeSubframeExact" /\ P[a + 1] = "ChooseBestMethod"
       /\ P[a + 2] = "WriteBestRiceParameters" /\ P[a + 3] = "ReadBest" /\ P[a + 4] = "ReadRice"
  <2>1. a + 1 = u + g + h + 3 /\ a + 2 = u + g + h + 4 /\ a + 3 = u + g + h + 5
        /\ a + 4 = u + g + h + 6
    BY <1>1, <1>7
  <2>2. QED  BY <1>6, <1>7, <2>1
<1>11. P[i] = "QuantizeLpcOrders" => Generated(call)
  <2>1. CASE g = 3  BY <1>1, <2>1
  <2>2. CASE g = 0
    <3>1. i \in 1 .. u + h + 6  BY <1>1, <1>4, <1>5, <2>2
    <3>2. \/ (u = 1 /\ i = 1) \/ i = u + 1 \/ (h = 1 /\ i = u + 2)
          \/ i \in {u + h + 2, u + h + 3, u + h + 4, u + h + 5, u + h + 6}
      BY <1>1, <3>1
    <3>3. /\ u = 1 => P[1] = "CopyInputs"
          /\ h = 1 => P[u + 2] = "PruneFixedOrderGuess"
      <4>1. (u = 1 => P[1] = "CopyInputs") /\ (h = 1 => P[u + g + 2] = "PruneFixedOrderGuess")
        BY <1>2, <1>4 DEF ProgramIs
      <4>2. u + g + 2 = u + 2  BY <1>1, <2>2
      <4>3. QED  BY <4>1, <4>2
    <3>4. /\ P[u + h + 2] = "AnalyzeSubframeExact" /\ P[u + h + 3] = "ChooseBestMethod"
          /\ P[u + h + 4] = "WriteBestRiceParameters"
          /\ P[u + h + 5] = "ReadBest" /\ P[u + h + 6] = "ReadRice"
      <4>1. u + g + h + 2 = u + h + 2 /\ u + g + h + 3 = u + h + 3 /\ u + g + h + 4 = u + h + 4
            /\ u + g + h + 5 = u + h + 5 /\ u + g + h + 6 = u + h + 6
        BY <1>1, <2>2
      <4>2. QED  BY <1>6, <4>1
    <3>5. P[i] # "QuantizeLpcOrders"
      <4>1. CASE u = 1 /\ i = 1  BY <3>3, <4>1
      <4>2. CASE i = u + 1  BY <1>5, <4>2
      <4>3. CASE h = 1 /\ i = u + 2  BY <3>3, <4>3
      <4>4. CASE i \in {u + h + 2, u + h + 3, u + h + 4, u + h + 5, u + h + 6}  BY <3>4, <4>4
      <4>5. QED  BY <3>2, <4>1, <4>2, <4>3, <4>4
    <3>6. QED  BY <3>5
  <2>3. QED  BY <1>1, <2>1, <2>2
<1>12. QED
  <2>1. Uploads = u  BY DEF u
  <2>2. i = Uploads + 1 => Program[i] = "FindWastedBits"  BY <1>4, <1>5, <2>1
  <2>3. Uploads \in {0, 1} /\ a > Uploads + 1  BY <1>1, <1>9, <2>1
  <2>4. i = a => P[i] = "AnalyzeSubframeExact"  BY <1>10
  <2>5. i = a + 1 => P[i] = "ChooseBestMethod"  BY <1>10
  <2>6. i = a + 2 => P[i] = "WriteBestRiceParameters"  BY <1>10
  <2>7. i = a + 3 => P[i] = "ReadBest"  BY <1>10
  <2>8. i = a + 4 => P[i] = "ReadRice"  BY <1>10
  <2>9. Len(Program) = a + 4  BY <1>4, <1>9
  <2>10. QED  BY <1>3, <1>4, <1>8, <1>11, <2>2, <2>3, <2>4, <2>5, <2>6, <2>7, <2>8, <2>9

\* What depends on the batch and its backend only.
LEMMA ResultsUnmoved ==
  ASSUME UNCHANGED <<api, call, plan>>
  PROVE  /\ \A m : (Tracked(m)' <=> Tracked(m)) /\ (Marked(m)' <=> Marked(m))
         /\ \A m, k : ResultsOf(m, k)' <=> ResultsOf(m, k)
         /\ AnalyzeAt' = AnalyzeAt /\ Uploads' = Uploads
<1>1. api' = api /\ call' = call /\ plan' = plan  OBVIOUS
<1>2. args' = args /\ Frames' = Frames /\ \A f : OwnSamples(f)' = OwnSamples(f)
  BY BatchUnmoved
<1>3. AnalyzeAt' = AnalyzeAt /\ Uploads' = Uploads
  BY <1>1, Zenon DEF AnalyzeAt, Uploads, Generations, Guesses
<1>4. \A m : Tracked(m)' <=> Tracked(m)  BY <1>1 DEF Tracked
<1>5. \A t : FrameNo(t)' = FrameNo(t)  BY <1>1 DEF FrameNo
<1>6. \A f : OwnFrame(f)' = OwnFrame(f)  BY <1>1 DEF OwnFrame
<1>7. \A m : Marked(m)' <=> Marked(m)  BY <1>1, <1>2, <1>5, <1>6 DEF Marked
<1>8. \A m : /\ BestChosen(m)' <=> BestChosen(m)
             /\ RiceChosen(m)' <=> RiceChosen(m)
             /\ TasksRead(m)' <=> TasksRead(m)
             /\ RiceRead(m)' <=> RiceRead(m)
  BY <1>2 DEF BestChosen, RiceChosen, RiceOf, TasksRead, RiceRead
<1>9. \A m, k : ResultsOf(m, k)' <=> ResultsOf(m, k)  BY <1>8 DEF ResultsOf
<1>10. QED  BY <1>3, <1>4, <1>7, <1>9

\* A command after the analysis leaves what the ones before it made, and adds its own.
LEMMA OtherResults ==
  ASSUME NEW m, NEW n, n["tasks"] = m["tasks"], n["selected"] = m["selected"],
         n["taskRice"] = m["taskRice"], n["best"] = m["best"], n["bestRice"] = m["bestRice"]
  PROVE  /\ BestChosen(m) => BestChosen(n)
         /\ RiceChosen(m) => RiceChosen(n)
         /\ n["bestDown"] = m["bestDown"] /\ TasksRead(m) => TasksRead(n)
<1>1. \A f : BestTask(n, args, f) = BestTask(m, args, f)  BY Zenon DEF BestTask
<1>2. BestChosen(m) => BestChosen(n)  BY <1>1 DEF BestChosen
<1>3. n[TaskRiceBuffer(args)] = m[TaskRiceBuffer(args)]  BY DEF TaskRiceBuffer
<1>4. RiceChosen(m) => RiceChosen(n)  BY <1>1, <1>3 DEF RiceChosen, RiceOf
<1>5. n["bestDown"] = m["bestDown"] /\ TasksRead(m) => TasksRead(n)  BY DEF TasksRead
<1>6. QED  BY <1>2, <1>4, <1>5

LEMMA CommandResults ==
  ASSUME IsBatch(call, plan), NEW m, Fits(m), Inputs(m), Tracked(m), NEW k \in 0 .. 3,
         ResultsOf(m, k), NEW command,
         /\ k = 0 => command = "ChooseBestMethod"
         /\ k = 1 => command = "WriteBestRiceParameters"
         /\ k = 2 => command = "ReadBest"
         /\ k = 3 => command = "ReadRice"
  PROVE  ResultsOf(Run(command, m), k + 1)
<1>1. PICK n : n = Run(command, m)  OBVIOUS
<1>2. /\ (k > 0 => BestChosen(m)) /\ (k > 1 => RiceChosen(m))
      /\ (k > 2 => TasksRead(m))
  BY DEF ResultsOf
<1>3. CASE k = 0
  <2>1. n = ChooseBestMethod(m, args)  BY <1>1, <1>3, RunIs, Zenon
  <2>2. BestChosen(n)  BY <2>1, ChooseChooses
  <2>3. QED  BY <1>1, <1>3, <2>2 DEF ResultsOf
<1>4. CASE k = 1
  <2>1. n = WriteBestRiceParameters(m, args)  BY <1>1, <1>4, RunIs, Zenon
  <2>2. BestChosen(m)  BY <1>2, <1>4
  <2>3. BestChosen(n) /\ RiceChosen(n)  BY <2>1, <2>2, WriteKeepsRice
  <2>4. QED  BY <1>1, <1>4, <2>3 DEF ResultsOf
<1>5. CASE k = 2
  <2>1. n = Run("ReadBest", m)  BY <1>1, <1>5
  <2>2. TasksRead(n) /\ \A d \in Buffers \ {"bestDown"} : n[d] = m[d]  BY <2>1, ReadCopies
  <2>3. /\ n["tasks"] = m["tasks"] /\ n["selected"] = m["selected"]
        /\ n["taskRice"] = m["taskRice"] /\ n["best"] = m["best"] /\ n["bestRice"] = m["bestRice"]
    BY <2>2 DEF Buffers, DeviceBuffers
  <2>4. BestChosen(m) /\ RiceChosen(m)  BY <1>2, <1>5
  <2>5. BestChosen(n) /\ RiceChosen(n)  BY <2>3, <2>4, OtherResults
  <2>6. QED  BY <1>1, <1>5, <2>2, <2>5 DEF ResultsOf
<1>6. CASE k = 3
  <2>1. n = Run("ReadRice", m)  BY <1>1, <1>6
  <2>2. RiceRead(n) /\ \A d \in Buffers \ {"riceDown"} : n[d] = m[d]  BY <2>1, ReadCopies
  <2>3. /\ n["tasks"] = m["tasks"] /\ n["selected"] = m["selected"]
        /\ n["taskRice"] = m["taskRice"] /\ n["best"] = m["best"] /\ n["bestRice"] = m["bestRice"]
        /\ n["bestDown"] = m["bestDown"]
    BY <2>2 DEF Buffers, DeviceBuffers, HostBuffers
  <2>4. BestChosen(m) /\ RiceChosen(m) /\ TasksRead(m)  BY <1>2, <1>6
  <2>5. BestChosen(n) /\ RiceChosen(n) /\ TasksRead(n)  BY <2>3, <2>4, OtherResults
  <2>6. QED  BY <1>1, <1>6, <2>2, <2>5 DEF ResultsOf
<1>7. QED  BY <1>3, <1>4, <1>5, <1>6

LEMMA DeviceStepResults == SessionInv /\ ResultInv /\ DeviceStep => ResultInv'
<1> SUFFICES ASSUME SessionInv, ResultInv, DeviceStep PROVE ResultInv'  OBVIOUS
<1>1. stage = "running" /\ stage' = stage /\ api' = api /\ call' = call /\ plan' = plan
      /\ submitted' = submitted
      /\ done < submitted /\ done' = done + 1 /\ mem' = Run(Program[done + 1], mem)
  BY DEF DeviceStep
<1>2. IsBatch(call, plan) /\ api \in {"opencl", "vulkan"}
  BY <1>1 DEF SessionInv, BatchPlanned
<1>3. done \in Nat /\ submitted \in Nat /\ submitted <= Len(Program)
  BY <1>1 DEF SessionInv, Progress
<1>4. Len(Program) \in Nat  BY ProgramCells DEF ProgramIs, IsBuffer
<1>5. PICK i \in 1 .. Len(Program) : i = done + 1  BY <1>1, <1>3, <1>4
<1>6. PICK command : command = Program[i]  OBVIOUS
<1>7. PICK u, a \in Nat : u = Uploads /\ a = AnalyzeAt
  BY <1>2, <1>5, ProgramPlaces
<1>8. /\ u \in {0, 1} /\ a \in Nat /\ a > u + 1 /\ Len(Program) = a + 4 /\ command \in Commands
      /\ (command = "CopyInputs" <=> i = 1 /\ api = "vulkan")
      /\ (command = "FindWastedBits" <=> i = u + 1)
      /\ (command = "QuantizeLpcOrders" => Generated(call))
      /\ (u = 1 <=> api = "vulkan")
  BY <1>2, <1>6, <1>7, ProgramPlaces DEF Uploads
<1>9. /\ i = a + 1 => command = "ChooseBestMethod"
      /\ i = a + 2 => command = "WriteBestRiceParameters"
      /\ i = a + 3 => command = "ReadBest"
      /\ i = a + 4 => command = "ReadRice"
  BY <1>2, <1>6, <1>7, ProgramPlaces
<1>10. Fits(mem)  BY <1>1 DEF SessionInv, BuffersKept, LongEnough, Fits
<1>11. PICK m, n : m = mem /\ n = mem'  OBVIOUS
<1>12. n = Run(command, m)  BY <1>1, <1>5, <1>6, <1>11
<1>13. /\ Tracked(n)
       /\ done' > u => Marked(n)
       /\ ResultsOf(n, done' - a)
  <2>1. CASE command = "CopyInputs"
    <3>1. api = "vulkan" /\ done = 0 /\ u = 1  BY <1>3, <1>5, <1>8, <2>1
    <3>2. Staged(m)  BY <1>1, <1>11, <3>1 DEF SessionInv, InputsStaged
    <3>3. n = CopyInputs(m)  BY <1>12, <2>1, RunIs
    <3>4. Fits(m)  BY <1>10, <1>11
    <3>5. Begins(n["tasks"], plan.tasks)  BY <1>2, <3>1, <3>2, <3>3, <3>4, CopyGives
    <3>6. Tracked(n)  BY <1>2, <3>5, PlannedTracked
    <3>7. ~(done' > u) /\ done' - a <= 0  BY <1>1, <1>8, <3>1
    <3>8. ResultsOf(n, done' - a)
      <4>1. PICK k \in Int : k = done' - a  BY <1>1, <1>3, <1>8
      <4>2. k <= 0  BY <3>7, <4>1
      <4>3. ResultsOf(n, k)  BY <4>2 DEF ResultsOf
      <4>4. QED  BY <4>1, <4>3
    <3>9. QED  BY <3>6, <3>7, <3>8
  <2>2. CASE command # "CopyInputs"
    <3>1. api = "opencl" \/ done > 0  BY <1>2, <1>3, <1>5, <1>8, <2>2
    <3>2. Inputs(m) /\ Tracked(m)
      BY <1>1, <1>11, <3>1 DEF SessionInv, InputsThere, ResultInv, TrackedThere
    <3>3. Fits(m)  BY <1>10, <1>11
    <3>4. CASE command = "FindWastedBits"
      <4>1. n = FindWastedBits(m, args)  BY <1>12, <3>4, RunIs
      <4>2. Tracked(n) /\ Marked(n)  BY <1>2, <3>2, <3>3, <4>1, WastedMarks
      <4>3. PICK k \in Int : k = done' - a  BY <1>1, <1>3, <1>8
      <4>4. k <= 0  BY <1>1, <1>3, <1>5, <1>8, <3>4, <4>3
      <4>5. ResultsOf(n, k)  BY <4>4 DEF ResultsOf
      <4>6. QED  BY <4>2, <4>3, <4>5
    <3>5. CASE command # "FindWastedBits"
      <4>1. done > u
        <5>1. i # u + 1 /\ (u = 1 => i # 1)  BY <1>8, <2>2, <3>5
        <5>2. QED  BY <1>3, <1>5, <1>8, <5>1
      <4>2. Marked(m)  BY <1>1, <1>7, <1>11, <4>1 DEF ResultInv, MarkedThere
      <4>3. command \in Commands \ {"CopyInputs", "FindWastedBits"}  BY <1>8, <2>2, <3>5
      <4>4. command = "QuantizeLpcOrders" => Generated(call)  BY <1>8
      <4>5. Tracked(n) /\ Marked(n)
        BY <1>2, <1>12, <3>2, <3>3, <4>2, <4>3, <4>4, CommandTracks
      <4>6. PICK k \in Int : k = done - a  BY <1>3, <1>8
      <4>7. done' - a = k + 1  BY <1>1, <1>3, <1>8, <4>6
      <4>8. ResultsOf(n, k + 1)
        <5>1. CASE k < 0
          <6>1. PICK j \in Int : j = k + 1 /\ j <= 0  BY <5>1
          <6>2. ResultsOf(n, j)  BY <6>1 DEF ResultsOf
          <6>3. QED  BY <6>1, <6>2
        <5>2. CASE k >= 0
          <6>1. k \in 0 .. 3 /\ i = a + k + 1  BY <1>3, <1>5, <1>8, <4>6, <5>2
          <6>2. ResultsOf(m, k)  BY <1>1, <1>7, <1>11, <4>6 DEF ResultInv, ResultsThere
          <6>3. /\ k = 0 => command = "ChooseBestMethod"
                /\ k = 1 => command = "WriteBestRiceParameters"
                /\ k = 2 => command = "ReadBest"
                /\ k = 3 => command = "ReadRice"
            BY <1>8, <1>9, <6>1
          <6>4. ResultsOf(Run(command, m), k + 1)
            BY <1>2, <3>2, <3>3, <6>1, <6>2, <6>3, CommandResults
          <6>5. QED  BY <1>12, <6>4
        <5>3. QED  BY <5>1, <5>2
      <4>9. QED  BY <4>5, <4>7, <4>8
    <3>6. QED  BY <3>4, <3>5
  <2>3. QED  BY <2>1, <2>2
<1>14. TrackedThere'
  <2>1. Tracked(n)'  BY <1>1, <1>13, ResultsUnmoved
  <2>2. QED  BY <1>1, <1>11, <1>13, ResultsUnmoved DEF TrackedThere, Tracked
<1>15. MarkedThere'
  BY <1>1, <1>7, <1>11, <1>13, ResultsUnmoved DEF MarkedThere
<1>16. ResultsThere'
  BY <1>1, <1>7, <1>11, <1>13, ResultsUnmoved DEF ResultsThere
<1>17. BestOfOwnFrame'  BY <1>1 DEF BestOfOwnFrame
<1>18. QED  BY <1>14, <1>15, <1>16, <1>17 DEF ResultInv

LEMMA InitialResults == Init => ResultInv
BY DEF Init, ResultInv, TrackedThere, MarkedThere, ResultsThere, BestOfOwnFrame

LEMMA UploadResults == SessionInv /\ ResultInv /\ Upload => ResultInv'
<1> SUFFICES ASSUME SessionInv, ResultInv, Upload PROVE ResultInv'  OBVIOUS
<1>1. stage = "planned" /\ stage' = "running" /\ api' = api /\ call' = call /\ plan' = plan
      /\ done' = done
  BY DEF Upload
<1>2. IsBatch(call, plan) /\ done = 0  BY <1>1 DEF SessionInv, BatchPlanned, Progress
<1>3. PICK n : n = mem'  OBVIOUS
<1>4. ASSUME api = "opencl" PROVE Tracked(n)
  <2>1. UploadOpenCl  BY <1>4 DEF Upload
  <2>2. Begins(n["tasks"], plan.tasks)  BY <1>1, <1>3, <1>4, <2>1, UploadedOpenCl
  <2>3. QED  BY <1>2, <2>2, PlannedTracked
<1>5. TrackedThere'
  BY <1>1, <1>2, <1>3, <1>4, ResultsUnmoved DEF TrackedThere
<1>6. PICK i \in 1 .. Len(Program) : i = 1
  <2>1. Len(Program) \in Nat /\ Len(Program) >= 6
    BY ProgramCells DEF ProgramIs, IsBuffer, Uploads, Generations, Guesses
  <2>2. QED  BY <2>1
<1>7. Uploads \in {0, 1} /\ AnalyzeAt \in Nat /\ AnalyzeAt > Uploads + 1
  BY <1>2, <1>6, ProgramPlaces
<1>8. ~(done > Uploads) /\ done - AnalyzeAt <= 0 /\ done - AnalyzeAt \in Int
  BY <1>2, <1>7
<1>9. MarkedThere'  BY <1>1, <1>8, ResultsUnmoved DEF MarkedThere
<1>10. ResultsThere'
  <2>1. PICK k \in Int : k = done - AnalyzeAt  BY <1>8
  <2>2. k <= 0  BY <1>8, <2>1
  <2>3. ResultsOf(n, k)  BY <2>2 DEF ResultsOf
  <2>4. QED  BY <1>1, <1>3, <2>1, <2>3, ResultsUnmoved DEF ResultsThere
<1>11. BestOfOwnFrame'  BY <1>1 DEF BestOfOwnFrame
<1>12. QED  BY <1>5, <1>9, <1>10, <1>11 DEF ResultInv

LEMMA FinishResults == SessionInv /\ ResultInv /\ Finish => ResultInv'
<1> SUFFICES ASSUME SessionInv, ResultInv, Finish PROVE ResultInv'  OBVIOUS
<1>1. /\ stage = "running" /\ stage' \in {"returned", "failed"} /\ api' = api /\ call' = call
      /\ plan' = plan /\ mem' = mem /\ done = Len(Program)
      /\ result' = [tasks |-> SubSeq(mem.bestDown, 1, plan.frames),
                    rice |-> SubSeq(mem.riceDown, 1, plan.frames)]
  BY DEF Finish, DeviceDone
<1>2. IsBatch(call, plan) /\ api \in {"opencl", "vulkan"}
  BY <1>1 DEF SessionInv, BatchPlanned
<1>3. TrackedThere' /\ MarkedThere' /\ ResultsThere'
  BY <1>1 DEF TrackedThere, MarkedThere, ResultsThere
<1>4. PICK i \in 1 .. Len(Program) : i = Len(Program)
  <2>1. Len(Program) \in Nat /\ Len(Program) >= 6
    BY ProgramCells DEF ProgramIs, IsBuffer, Uploads, Generations, Guesses
  <2>2. QED  BY <2>1
<1>5. Uploads \in {0, 1} /\ AnalyzeAt \in Nat /\ AnalyzeAt > Uploads + 1
      /\ Len(Program) = AnalyzeAt + 4
  BY <1>2, <1>4, ProgramPlaces
<1>6. done - AnalyzeAt = 4 /\ done > 0  BY <1>1, <1>5
<1>7. PICK m : m = mem  OBVIOUS
<1>8. ResultsOf(m, 4)  BY <1>1, <1>6, <1>7 DEF ResultInv, ResultsThere
<1>9. BestChosen(m) /\ RiceChosen(m) /\ TasksRead(m) /\ RiceRead(m)  BY <1>8 DEF ResultsOf
<1>10. Fits(m) /\ Inputs(m) /\ Tracked(m)
  BY <1>1, <1>2, <1>6, <1>7
     DEF SessionInv, BuffersKept, LongEnough, Fits, InputsThere, ResultInv, TrackedThere
<1>11. PICK N \in Nat : N = plan.frames  BY <1>2, BatchSizes
<1>12. {"bestDown", "riceDown"} \subseteq Buffers  BY DEF Buffers, HostBuffers
<1>13. IsBuffer(m["bestDown"]) /\ IsBuffer(m["riceDown"])
       /\ N <= Len(m["bestDown"]) /\ N <= Len(m["riceDown"])
  BY <1>2, <1>10, <1>11, <1>12, FitSizes
<1>14. ASSUME NEW b, IsBuffer(b), N <= Len(b), NEW c \in 1 .. N
       PROVE  SubSeq(b, 1, N)[c] = b[c]
  <2>1. FrameOf(b, 0, N) = [j \in 1 .. N |-> b[0 + j]]
    <3>1. 0 \in Nat /\ N \in Nat /\ 0 + N <= Len(b) /\ IsBuffer(b)  BY <1>11, <1>14
    <3>2. QED  BY ONLY <3>1, FrameCells
  <2>2. FrameOf(b, 0, N) = SubSeq(b, 1, N)
    <3>1. 0 + 1 = 1 /\ 0 + N = N  BY <1>11
    <3>2. QED  BY <3>1 DEF FrameOf
  <2>3. 0 + c = c  OBVIOUS
  <2>4. QED  BY <2>1, <2>2, <2>3
<1>15. ASSUME NEW f \in Frames
       PROVE  LET t == BestTask(m, args, f)
              IN  /\ t \in OwnTasks(f)
                  /\ result'.tasks[f + 1] = m["tasks"][t]
                  /\ \A u \in OwnTasks(f) : m["tasks"][t].size <= m["tasks"][u].size
                  /\ result'.rice[f + 1] = m[TaskRiceBuffer(args)][TaskRiceCell(args, t)]
  <2>1. PICK t : t = BestTask(m, args, f)  OBVIOUS
  <2>2. t \in OwnTasks(f) /\ \A u \in OwnTasks(f) : m["tasks"][t].size <= m["tasks"][u].size
    BY <1>2, <1>10, <2>1, BestIsLeast
  <2>3. PICK c \in 1 .. N : c = f + 1  BY <1>2, <1>11, FrameCell
  <2>4. SubSeq(m["bestDown"], 1, N)[c] = m["bestDown"][c]  BY <1>13, <1>14
  <2>5. SubSeq(m["riceDown"], 1, N)[c] = m["riceDown"][c]  BY <1>13, <1>14
  <2>6. result'.tasks[c] = m["bestDown"][c] /\ result'.rice[c] = m["riceDown"][c]
    BY <1>1, <1>7, <1>11, <2>4, <2>5
  <2>7. m["bestDown"][c] = m["tasks"][t]  BY <1>9, <2>1, <2>3 DEF BestChosen, TasksRead
  <2>8. m["riceDown"][c] = m[TaskRiceBuffer(args)][TaskRiceCell(args, t)]
    BY <1>9, <2>1, <2>3 DEF RiceChosen, RiceRead, RiceOf
  <2>9. QED  BY <2>1, <2>2, <2>3, <2>6, <2>7, <2>8
<1>16. args' = args /\ Frames' = Frames  BY <1>1, BatchUnmoved
<1>17. \A f : OwnTasks(f)' = OwnTasks(f)  BY <1>1 DEF OwnTasks
<1>18. BestOfOwnFrame'
  <2>1. SUFFICES ASSUME NEW f \in Frames
                 PROVE  \E t \in OwnTasks(f) :
                          /\ result'.tasks[f + 1] = m["tasks"][t]
                          /\ \A u \in OwnTasks(f) : m["tasks"][t].size <= m["tasks"][u].size
                          /\ result'.rice[f + 1] = m[TaskRiceBuffer(args)][TaskRiceCell(args, t)]
    BY <1>1, <1>7, <1>16, <1>17 DEF BestOfOwnFrame
  <2>2. QED  BY <1>15
<1>19. QED  BY <1>3, <1>18 DEF ResultInv

\* The other steps change nothing the results depend on, or leave the batch.
LEMMA OtherStepsResults ==
  ResultInv /\ (Begin \/ Submit \/ CallFails \/ UNCHANGED vars) => ResultInv'
<1>1. ASSUME ResultInv, stage' \notin {"running", "returned"} PROVE ResultInv'
  BY <1>1 DEF ResultInv, TrackedThere, MarkedThere, ResultsThere, BestOfOwnFrame
<1>2. Begin => stage' \notin {"running", "returned"}  BY DEF Begin
<1>3. CallFails => stage' \notin {"running", "returned"}  BY DEF CallFails
<1>4. ASSUME ResultInv, UNCHANGED <<api, call, stage, plan, mem, done, result>> PROVE ResultInv'
  <2>1. args' = args /\ Frames' = Frames  BY <1>4, BatchUnmoved
  <2>2. TrackedThere' /\ MarkedThere' /\ ResultsThere'
    BY <1>4, ResultsUnmoved DEF ResultInv, TrackedThere, MarkedThere, ResultsThere
  <2>3. \A f : OwnTasks(f)' = OwnTasks(f)  BY <1>4 DEF OwnTasks
  <2>4. BestOfOwnFrame'  BY <1>4, <2>1, <2>3 DEF ResultInv, BestOfOwnFrame
  <2>5. QED  BY <2>2, <2>4 DEF ResultInv
<1>5. Submit => UNCHANGED <<api, call, stage, plan, mem, done, result>>  BY DEF Submit
<1>6. UNCHANGED vars => UNCHANGED <<api, call, stage, plan, mem, done, result>>  BY DEF vars
<1>7. QED  BY <1>1, <1>2, <1>3, <1>4, <1>5, <1>6

-----------------------------------------------------------------------------
(* The order guessed from a block: the device's sums and the writer's, and *)
(* the same block without its wasted bits.                                 *)

\* A search has one answer: what leads all others.
LEMMA LeastLeads ==
  ASSUME NEW n \in Nat, NEW f, DOMAIN f \subseteq 0 .. n, DOMAIN f # {},
         \A k \in DOMAIN f : f[k] \in Int
  PROVE  FirstLeast(f) \in DOMAIN f /\ \A j \in DOMAIN f : Leads(f, FirstLeast(f), j)
<1>1. \E k \in DOMAIN f : \A j \in DOMAIN f : f[k] < f[j] \/ (f[k] = f[j] /\ k <= j)
  BY LeastExists DEF Leads
<1>2. /\ FirstLeast(f) \in DOMAIN f
      /\ \A j \in DOMAIN f : f[FirstLeast(f)] < f[j] \/ (f[FirstLeast(f)] = f[j] /\ FirstLeast(f) <= j)
  BY <1>1, Zenon DEF FirstLeast
<1>3. QED  BY <1>2 DEF Leads

LEMMA LeastOnly ==
  ASSUME NEW n \in Nat, NEW f, DOMAIN f \subseteq 0 .. n,
         \A k \in DOMAIN f : f[k] \in Int,
         NEW k \in DOMAIN f, \A j \in DOMAIN f : Leads(f, k, j)
  PROVE  FirstLeast(f) = k
<1>1. DOMAIN f # {}  OBVIOUS
<1>2. PICK l \in DOMAIN f : l = FirstLeast(f) /\ \A j \in DOMAIN f : Leads(f, l, j)
  BY <1>1, LeastLeads
<1>3. f[l] \in Int /\ f[k] \in Int /\ l \in 0 .. n /\ k \in 0 .. n  OBVIOUS
<1>4. Leads(f, l, k) /\ Leads(f, k, l)  BY <1>2
<1>5. l = k  BY <1>3, <1>4 DEF Leads
<1>6. QED  BY <1>2, <1>5

\* Sums of up to four terms.
LEMMA FewTerms ==
  ASSUME NEW x
  PROVE  /\ SumTo(x, 0) = 0
         /\ SumTo(x, 1) = 0 + x[1]
         /\ SumTo(x, 2) = 0 + x[1] + x[2]
         /\ SumTo(x, 3) = 0 + x[1] + x[2] + x[3]
         /\ SumTo(x, 4) = 0 + x[1] + x[2] + x[3] + x[4]
<1>1. SumTo(x, 0) = 0  BY SumToNone
<1>2. SumTo(x, 0 + 1) = SumTo(x, 0) + x[0 + 1]  BY SumToNext, 0 \in Nat
<1>3. SumTo(x, 1 + 1) = SumTo(x, 1) + x[1 + 1]  BY SumToNext, 1 \in Nat
<1>4. SumTo(x, 2 + 1) = SumTo(x, 2) + x[2 + 1]  BY SumToNext, 2 \in Nat
<1>5. SumTo(x, 3 + 1) = SumTo(x, 3) + x[3 + 1]  BY SumToNext, 3 \in Nat
<1>6. QED  BY <1>1, <1>2, <1>3, <1>4, <1>5

\* No shift.
LEMMA Unshifted ==
  ASSUME NEW v \in Int
  PROVE  ArithmeticShiftRight(v, 0) = v
<1>1. 2^0 = 1  OBVIOUS
<1>2. ArithmeticShiftRight(v, 0) = IF v >= 0 THEN v \div 1 ELSE -((-v + 1 - 1) \div 1)
  BY <1>1, Zenon DEF ArithmeticShiftRight
<1>3. v \div 1 = v /\ (-v + 1 - 1) \div 1 = -v  OBVIOUS
<1>4. QED  BY <1>2, <1>3

\* What a fixed predictor subtracts.
LEMMA FixedPredicts ==
  ASSUME NEW x, IsSampleBlock(x), NEW k \in 0 .. 4, NEW i \in k + 1 .. Len(x)
  PROVE  x[i] - Prediction(x, i, FixedPredictor(k)) = FixedResidual(x, i - 1, k)
<1>1. PICK c : c = FixedPredictor(k).coefs  OBVIOUS
<1>2. PICK y : y = [j \in DOMAIN c |-> c[j] * x[i - j]]  OBVIOUS
<1>3. FixedPredictor(k).shift = 0 /\ DOMAIN c = 1 .. k  BY <1>1, FixedCoefficients
<1>4. Prediction(x, i, FixedPredictor(k)) = ArithmeticShiftRight(SumSeq(y), 0)
  BY <1>1, <1>2, <1>3, Zenon DEF Prediction
<1>5. k \in Nat /\ y = [j \in 1 .. k |-> y[j]]  BY <1>2, <1>3
<1>6. SumSeq(y) = SumTo(y, k)  BY <1>5, SumSeqTo
<1>7. \A j \in 1 .. k : y[j] = c[j] * x[i - j]  BY <1>2, <1>3
<1>8. Len(x) \in Nat /\ \A j \in 0 .. k : i - j \in DOMAIN x
  BY DEF IsSampleBlock, IsBuffer
<1>9. \A j \in 0 .. k : x[i - j] \in Int  BY <1>8 DEF IsSampleBlock
<1>10. PICK p \in Int : p = i - 1  BY <1>8
<1>11. CASE k = 0
  <2>1. SumTo(y, 0) = 0  BY FewTerms
  <2>2. ArithmeticShiftRight(0, 0) = 0  BY Unshifted
  <2>3. FixedResidual(x, p, 0) = x[p + 1] /\ p + 1 = i  BY <1>10 DEF FixedResidual
  <2>4. x[i] \in Int
    <3>1. x[i - 0] \in Int /\ i - 0 = i  BY <1>9, <1>10
    <3>2. QED  BY <3>1
  <2>5. QED  BY <1>4, <1>6, <1>10, <1>11, <2>1, <2>2, <2>3, <2>4
<1>12. CASE k = 1
  <2>1. x[i - 0] \in Int /\ x[i - 1] \in Int /\ i - 0 = i  BY <1>9, <1>10, <1>12
  <2>2. PICK a \in Int : a = x[i]  BY <2>1
  <2>3. PICK b \in Int : b = x[i - 1]  BY <2>1
  <2>4. y[1] = c[1] * x[i - 1] /\ c[1] = 1
    BY <1>1, <1>7, <1>12 DEF FixedPredictor
  <2>5. y[1] = b  BY <2>3, <2>4
  <2>6. SumTo(y, 1) = b  BY <2>5, FewTerms
  <2>7. ArithmeticShiftRight(b, 0) = b  BY Unshifted
  <2>8. FixedResidual(x, p, 1) = x[p + 1] - x[p] /\ p + 1 = i  BY <1>10 DEF FixedResidual
  <2>9. QED  BY <1>4, <1>6, <1>10, <1>12, <2>2, <2>3, <2>6, <2>7, <2>8
<1>13. CASE k = 2
  <2>1. x[i - 0] \in Int /\ x[i - 1] \in Int /\ x[i - 2] \in Int /\ i - 0 = i
    BY <1>9, <1>13
  <2>2. PICK a \in Int : a = x[i]  BY <2>1, <1>8
  <2>3. PICK b \in Int : b = x[i - 1]  BY <2>1, <1>8
  <2>4. PICK d \in Int : d = x[i - 2]  BY <2>1, <1>8
  <2>5. c[1] = 2 /\ c[2] = -1  BY <1>1, <1>13 DEF FixedPredictor
  <2>6. /\ y[1] = c[1] * x[i - 1]
         /\ y[2] = c[2] * x[i - 2]
    BY <1>7, <1>13
  <2>7. y[1] = (2) * b /\ y[2] = (-1) * d
    BY <2>2, <2>3, <2>4, <2>5, <2>6
  <2>8. 0 + (2) * b + (-1) * d \in Int  OBVIOUS
  <2>9. PICK v \in Int : v = 0 + (2) * b + (-1) * d  BY <2>8
  <2>10. SumTo(y, 2) = v  BY <2>7, <2>9, FewTerms
  <2>11. ArithmeticShiftRight(v, 0) = v  BY Unshifted
  <2>12. FixedResidual(x, p, 2) = x[p + 1] - 2 * x[p] + x[p - 1]
    BY DEF FixedResidual
  <2>13. p + 1 = i /\ p - 1 = i - 2  BY <1>10
  <2>14. FixedResidual(x, p, 2) = a - 2 * b + d
    BY <1>10, <2>2, <2>3, <2>4, <2>12, <2>13
  <2>15. Prediction(x, i, FixedPredictor(k)) = v  BY <1>4, <1>6, <1>13, <2>10, <2>11
  <2>16. a - v = a - 2 * b + d  BY ONLY <2>9
  <2>17. QED  BY <1>13, <1>10, <2>2, <2>14, <2>15, <2>16
<1>14. CASE k = 3
  <2>1. x[i - 0] \in Int /\ x[i - 1] \in Int /\ x[i - 2] \in Int /\ x[i - 3] \in Int /\ i - 0 = i
    BY <1>9, <1>14
  <2>2. PICK a \in Int : a = x[i]  BY <2>1, <1>8
  <2>3. PICK b \in Int : b = x[i - 1]  BY <2>1, <1>8
  <2>4. PICK d \in Int : d = x[i - 2]  BY <2>1, <1>8
  <2>5. PICK e \in Int : e = x[i - 3]  BY <2>1, <1>8
  <2>6. c[1] = 3 /\ c[2] = -3 /\ c[3] = 1  BY <1>1, <1>14 DEF FixedPredictor
  <2>7. /\ y[1] = c[1] * x[i - 1]
         /\ y[2] = c[2] * x[i - 2]
         /\ y[3] = c[3] * x[i - 3]
    BY <1>7, <1>14
  <2>8. y[1] = (3) * b /\ y[2] = (-3) * d /\ y[3] = (1) * e
    BY <2>2, <2>3, <2>4, <2>5, <2>6, <2>7
  <2>9. 0 + (3) * b + (-3) * d + (1) * e \in Int  OBVIOUS
  <2>10. PICK v \in Int : v = 0 + (3) * b + (-3) * d + (1) * e  BY <2>9
  <2>11. SumTo(y, 3) = v  BY <2>8, <2>10, FewTerms
  <2>12. ArithmeticShiftRight(v, 0) = v  BY Unshifted
  <2>13. FixedResidual(x, p, 3) = x[p + 1] - 3 * x[p] + 3 * x[p - 1] - x[p - 2]
    BY DEF FixedResidual
  <2>14. p + 1 = i /\ p - 1 = i - 2 /\ p - 2 = i - 3  BY <1>10
  <2>15. FixedResidual(x, p, 3) = a - 3 * b + 3 * d - e
    BY <1>10, <2>2, <2>3, <2>4, <2>5, <2>13, <2>14
  <2>16. Prediction(x, i, FixedPredictor(k)) = v  BY <1>4, <1>6, <1>14, <2>11, <2>12
  <2>17. a - v = a - 3 * b + 3 * d - e  BY ONLY <2>10
  <2>18. QED  BY <1>14, <1>10, <2>2, <2>15, <2>16, <2>17
<1>15. CASE k = 4
  <2>1. x[i - 0] \in Int /\ x[i - 1] \in Int /\ x[i - 2] \in Int /\ x[i - 3] \in Int /\ x[i - 4] \in Int /\ i - 0 = i
    BY <1>9, <1>15
  <2>2. PICK a \in Int : a = x[i]  BY <2>1, <1>8
  <2>3. PICK b \in Int : b = x[i - 1]  BY <2>1, <1>8
  <2>4. PICK d \in Int : d = x[i - 2]  BY <2>1, <1>8
  <2>5. PICK e \in Int : e = x[i - 3]  BY <2>1, <1>8
  <2>6. PICK g \in Int : g = x[i - 4]  BY <2>1, <1>8
  <2>7. c[1] = 4 /\ c[2] = -6 /\ c[3] = 4 /\ c[4] = -1  BY <1>1, <1>15 DEF FixedPredictor
  <2>8. /\ y[1] = c[1] * x[i - 1]
         /\ y[2] = c[2] * x[i - 2]
         /\ y[3] = c[3] * x[i - 3]
         /\ y[4] = c[4] * x[i - 4]
    BY <1>7, <1>15
  <2>9. y[1] = (4) * b /\ y[2] = (-6) * d /\ y[3] = (4) * e /\ y[4] = (-1) * g
    BY <2>2, <2>3, <2>4, <2>5, <2>6, <2>7, <2>8
  <2>10. 0 + (4) * b + (-6) * d + (4) * e + (-1) * g \in Int  OBVIOUS
  <2>11. PICK v \in Int : v = 0 + (4) * b + (-6) * d + (4) * e + (-1) * g  BY <2>10
  <2>12. SumTo(y, 4) = v  BY <2>9, <2>11, FewTerms
  <2>13. ArithmeticShiftRight(v, 0) = v  BY Unshifted
  <2>14. FixedResidual(x, p, 4) = x[p + 1] - 4 * x[p] + 6 * x[p - 1] - 4 * x[p - 2] + x[p - 3]
    BY DEF FixedResidual
  <2>15. p + 1 = i /\ p - 1 = i - 2 /\ p - 2 = i - 3 /\ p - 3 = i - 4  BY <1>10
  <2>16. FixedResidual(x, p, 4) = a - 4 * b + 6 * d - 4 * e + g
    BY <1>10, <2>2, <2>3, <2>4, <2>5, <2>6, <2>14, <2>15
  <2>17. Prediction(x, i, FixedPredictor(k)) = v  BY <1>4, <1>6, <1>15, <2>12, <2>13
  <2>18. a - v = a - 4 * b + 6 * d - 4 * e + g  BY ONLY <2>11
  <2>19. QED  BY <1>15, <1>10, <2>2, <2>16, <2>17, <2>18
<1>16. QED  BY <1>11, <1>12, <1>13, <1>14, <1>15

\* The error of a fixed order over a block.
FixedError(x, k) == AbsSum(Residuals(x, FixedPredictor(k)))

LEMMA FixedErrorSum ==
  ASSUME NEW x, IsSampleBlock(x), NEW k \in 0 .. 4, k < Len(x)
  PROVE  FixedError(x, k) =
           SumSeq([i \in 1 .. Len(x) - k |-> Magnitude(FixedResidual(x, k + i - 1, k))])
<1>1. Len(x) \in Nat  BY DEF IsSampleBlock, IsBuffer
<1>2. PICK r : r = Residuals(x, FixedPredictor(k))  OBVIOUS
<1>3. Order(FixedPredictor(k)) = k  BY FixedCoefficients DEF Order
<1>4. r = [i \in 1 .. Len(x) - k |-> x[i + k] - Prediction(x, i + k, FixedPredictor(k))]
  BY <1>2, <1>3, Zenon DEF Residuals
<1>5. ASSUME NEW i \in 1 .. Len(x) - k PROVE r[i] = FixedResidual(x, k + i - 1, k)
  <2>1. PICK j \in k + 1 .. Len(x) : j = i + k  BY <1>1
  <2>2. x[j] - Prediction(x, j, FixedPredictor(k)) = FixedResidual(x, j - 1, k)
    BY FixedPredicts
  <2>3. j - 1 = k + i - 1  BY <1>1, <2>1
  <2>4. r[i] = x[j] - Prediction(x, j, FixedPredictor(k))  BY <1>4, <2>1, Zenon
  <2>5. QED  BY <2>2, <2>3, <2>4
<1>6. DOMAIN r = 1 .. Len(x) - k  BY <1>4
<1>7. [i \in DOMAIN r |-> Magnitude(r[i])] =
        [i \in 1 .. Len(x) - k |-> Magnitude(FixedResidual(x, k + i - 1, k))]
  BY <1>5, <1>6
<1>8. FixedError(x, k) = SumSeq([i \in DOMAIN r |-> Magnitude(r[i])])
  BY <1>2, Zenon DEF FixedError, AbsSum
<1>9. QED  BY <1>7, <1>8

\* What the device sums for a fixed task.
LEMMA DeviceError ==
  ASSUME NEW x, IsSampleBlock(x), NEW k \in 0 .. 4, k < Len(x),
         NEW task, task.type = "Fixed", task.order = k, task.block = Len(x)
  PROVE  AbsoluteSum(DeviceResiduals(x, task, FALSE), task.order, task.block) = FixedError(x, k)
<1>0. Len(x) \in Nat  BY Zenon DEF IsSampleBlock, IsBuffer
<1>1. PICK n \in Nat : n = Len(x)  BY <1>0, Zenon
<1>2. PICK r : r = DeviceResiduals(x, task, FALSE)  OBVIOUS
<1>3. r = [pos \in k .. n - 1 |-> FixedResidual(x, pos, k)]
  BY <1>1, <1>2 DEF DeviceResiduals
<1>4. \A i \in 1 .. n - k : k + i - 1 \in k .. n - 1  BY <1>1
<1>5. \A i \in 1 .. n - k : r[k + i - 1] = FixedResidual(x, k + i - 1, k)  BY <1>3, <1>4
<1>6. [i \in 1 .. n - k |-> Magnitude(r[k + i - 1])] =
        [i \in 1 .. n - k |-> Magnitude(FixedResidual(x, k + i - 1, k))]
  BY <1>5
<1>7. AbsoluteSum(r, k, n) = SumSeq([i \in 1 .. n - k |-> Magnitude(r[k + i - 1])])
  BY Zenon DEF AbsoluteSum
<1>8. FixedError(x, k) = SumSeq([i \in 1 .. n - k |-> Magnitude(FixedResidual(x, k + i - 1, k))])
  BY <1>1, FixedErrorSum
<1>9. QED  BY <1>1, <1>2, <1>6, <1>7, <1>8

\* The terms of y, n of them, are d times those of x.
Scaled(x, y, d, n) == \A i \in 1 .. n : y[i] = d * x[i]

LEMMA SumScaled ==
  ASSUME NEW n \in Nat, NEW d \in Int, NEW x, NEW y, Ints(x, n), Scaled(x, y, d, n)
  PROVE  SumTo(y, n) = d * SumTo(x, n)
<1> DEFINE T == {k \in 0 .. n : SumTo(y, k) = d * SumTo(x, k)}
<1>0. \A k \in 0 .. n : SumTo(x, k) \in Int  BY SumToTyped
<1>1. 0 \in T
  <2>1. SumTo(y, 0) = 0 /\ SumTo(x, 0) = 0  BY SumToNone
  <2>2. QED  BY <2>1
<1>2. ASSUME NEW k \in 0 .. n - 1, k \in T PROVE k + 1 \in T
  <2>1. k \in Nat /\ k + 1 \in 1 .. n /\ k \in 0 .. n /\ k + 1 \in 0 .. n  OBVIOUS
  <2>2. SumTo(y, k + 1) = SumTo(y, k) + y[k + 1] /\ SumTo(x, k + 1) = SumTo(x, k) + x[k + 1]
    BY <2>1, SumToNext
  <2>3. x[k + 1] \in Int /\ y[k + 1] = d * x[k + 1]  BY <2>1 DEF Ints, Scaled
  <2>4. PICK a \in Int : a = SumTo(x, k)  BY <1>0, <2>1
  <2>5. PICK b \in Int : b = x[k + 1]  BY <2>3
  <2>6. d * a + d * b = d * (a + b)  OBVIOUS
  <2>7. SumTo(y, k) = d * a  BY <1>2, <2>4
  <2>8. SumTo(y, k + 1) = d * SumTo(x, k + 1)  BY <2>2, <2>3, <2>4, <2>5, <2>6, <2>7
  <2>9. QED  BY <2>1, <2>8
<1>3. \A k \in 0 .. n : k \in T  BY <1>1, <1>2, NumbersFrom
<1>4. QED  BY <1>3, n \in 0 .. n

\* So are residuals.
LEMMA ResidualScaled ==
  ASSUME NEW x, IsSampleBlock(x), NEW y, NEW d \in Int, Scaled(x, y, d, Len(x)),
         NEW k \in 0 .. 4, NEW pos \in k .. Len(x) - 1
  PROVE  FixedResidual(y, pos, k) = d * FixedResidual(x, pos, k)
<1>1. Len(x) \in Nat /\ DOMAIN x = 1 .. Len(x) /\ pos \in Int
  BY DEF IsSampleBlock, IsBuffer
<1>2. ASSUME NEW j \in 0 .. k PROVE x[pos + 1 - j] \in Int /\ y[pos + 1 - j] = d * x[pos + 1 - j]
  <2>1. pos + 1 - j \in 1 .. Len(x)  BY <1>1
  <2>2. QED  BY <1>1, <2>1 DEF IsSampleBlock, Scaled
<1>3. /\ pos + 1 - 0 = pos + 1 /\ pos + 1 - 1 = pos /\ pos + 1 - 2 = pos - 1
      /\ pos + 1 - 3 = pos - 2 /\ pos + 1 - 4 = pos - 3
  BY <1>1
<1>4. PICK a \in Int : a = x[pos + 1] /\ y[pos + 1] = d * a
  <2>1. 0 \in 0 .. k  OBVIOUS
  <2>2. x[pos + 1] \in Int /\ y[pos + 1] = d * x[pos + 1]  BY <1>2, <1>3, <2>1
  <2>3. QED  BY <2>2
<1>5. CASE k = 0
  <2>1. \A z : FixedResidual(z, pos, 0) = z[pos + 1]  BY DEF FixedResidual
  <2>2. QED  BY <1>4, <1>5, <2>1
<1>6. ASSUME k >= 1 PROVE \E b \in Int : b = x[pos] /\ y[pos] = d * b
  <2>1. 1 \in 0 .. k  BY <1>6
  <2>2. x[pos] \in Int /\ y[pos] = d * x[pos]  BY <1>2, <1>3, <2>1
  <2>3. QED  BY <2>2
<1>7. ASSUME k >= 2 PROVE \E b \in Int : b = x[pos - 1] /\ y[pos - 1] = d * b
  <2>1. 2 \in 0 .. k  BY <1>7
  <2>2. x[pos - 1] \in Int /\ y[pos - 1] = d * x[pos - 1]  BY <1>2, <1>3, <2>1
  <2>3. QED  BY <2>2
<1>8. ASSUME k >= 3 PROVE \E b \in Int : b = x[pos - 2] /\ y[pos - 2] = d * b
  <2>1. 3 \in 0 .. k  BY <1>8
  <2>2. x[pos - 2] \in Int /\ y[pos - 2] = d * x[pos - 2]  BY <1>2, <1>3, <2>1
  <2>3. QED  BY <2>2
<1>9. ASSUME k >= 4 PROVE \E b \in Int : b = x[pos - 3] /\ y[pos - 3] = d * b
  <2>1. 4 \in 0 .. k  BY <1>9
  <2>2. x[pos - 3] \in Int /\ y[pos - 3] = d * x[pos - 3]  BY <1>2, <1>3, <2>1
  <2>3. QED  BY <2>2
<1>10. CASE k = 1
  <2>1. PICK b \in Int : b = x[pos] /\ y[pos] = d * b  BY <1>6, <1>10
  <2>2. \A z : FixedResidual(z, pos, 1) = z[pos + 1] - z[pos]  BY DEF FixedResidual
  <2>3. d * a - d * b = d * (a - b)  OBVIOUS
  <2>4. QED  BY <1>4, <1>10, <2>1, <2>2, <2>3
<1>11. CASE k = 2
  <2>1. PICK b \in Int : b = x[pos] /\ y[pos] = d * b  BY <1>6, <1>11
  <2>2. PICK c \in Int : c = x[pos - 1] /\ y[pos - 1] = d * c  BY <1>7, <1>11
  <2>3. \A z : FixedResidual(z, pos, 2) = z[pos + 1] - 2 * z[pos] + z[pos - 1]
    BY DEF FixedResidual
  <2>4. d * a - 2 * (d * b) + d * c = d * (a - 2 * b + c)  OBVIOUS
  <2>5. QED  BY <1>4, <1>11, <2>1, <2>2, <2>3, <2>4
<1>12. CASE k = 3
  <2>1. PICK b \in Int : b = x[pos] /\ y[pos] = d * b  BY <1>6, <1>12
  <2>2. PICK c \in Int : c = x[pos - 1] /\ y[pos - 1] = d * c  BY <1>7, <1>12
  <2>3. PICK e \in Int : e = x[pos - 2] /\ y[pos - 2] = d * e  BY <1>8, <1>12
  <2>4. \A z : FixedResidual(z, pos, 3) = z[pos + 1] - 3 * z[pos] + 3 * z[pos - 1] - z[pos - 2]
    BY DEF FixedResidual
  <2>5. d * a - 3 * (d * b) + 3 * (d * c) - d * e = d * (a - 3 * b + 3 * c - e)  OBVIOUS
  <2>6. FixedResidual(x, pos, 3) = a - 3 * b + 3 * c - e  BY <1>4, <2>1, <2>2, <2>3, <2>4
  <2>7. FixedResidual(y, pos, 3) = d * a - 3 * (d * b) + 3 * (d * c) - d * e
    BY <1>4, <2>1, <2>2, <2>3, <2>4
  <2>8. QED  BY <1>12, <2>5, <2>6, <2>7
<1>13. CASE k = 4
  <2>1. PICK b \in Int : b = x[pos] /\ y[pos] = d * b  BY <1>6, <1>13
  <2>2. PICK c \in Int : c = x[pos - 1] /\ y[pos - 1] = d * c  BY <1>7, <1>13
  <2>3. PICK e \in Int : e = x[pos - 2] /\ y[pos - 2] = d * e  BY <1>8, <1>13
  <2>4. PICK g \in Int : g = x[pos - 3] /\ y[pos - 3] = d * g  BY <1>9, <1>13
  <2>5. \A z : FixedResidual(z, pos, 4) =
                 z[pos + 1] - 4 * z[pos] + 6 * z[pos - 1] - 4 * z[pos - 2] + z[pos - 3]
    BY DEF FixedResidual
  <2>6. d * a - 4 * (d * b) + 6 * (d * c) - 4 * (d * e) + d * g
          = d * (a - 4 * b + 6 * c - 4 * e + g)
    OBVIOUS
  <2>7. FixedResidual(x, pos, 4) = a - 4 * b + 6 * c - 4 * e + g
    BY <1>4, <2>1, <2>2, <2>3, <2>4, <2>5
  <2>8. FixedResidual(y, pos, 4) = d * a - 4 * (d * b) + 6 * (d * c) - 4 * (d * e) + d * g
    BY <1>4, <2>1, <2>2, <2>3, <2>4, <2>5
  <2>9. QED  BY <1>13, <2>6, <2>7, <2>8
<1>14. QED  BY <1>5, <1>10, <1>11, <1>12, <1>13

LEMMA MagnitudeScaled ==
  ASSUME NEW v \in Int, NEW d \in Nat
  PROVE  Magnitude(d * v) = d * Magnitude(v) /\ Magnitude(v) \in Nat
<1>1. Magnitude(v) = (IF v < 0 THEN -v ELSE v)
      /\ Magnitude(d * v) = (IF d * v < 0 THEN -(d * v) ELSE d * v)
  BY DEF Magnitude
<1>2. CASE v < 0
  <2>1. d * v <= 0 /\ d * (-v) = -(d * v)  BY <1>2
  <2>2. QED  BY <1>1, <1>2, <2>1
<1>3. CASE v >= 0
  <2>1. d * v >= 0  BY <1>3
  <2>2. QED  BY <1>1, <1>3, <2>1
<1>4. QED  BY <1>2, <1>3

LEMMA ErrorScaled ==
  ASSUME NEW x, IsSampleBlock(x), NEW y, IsSampleBlock(y), Len(y) = Len(x), NEW d \in Nat,
         Scaled(x, y, d, Len(x)), NEW k \in 0 .. 4, k < Len(x)
  PROVE  FixedError(y, k) = d * FixedError(x, k)
<1>0. Len(x) \in Nat  BY Zenon DEF IsSampleBlock, IsBuffer
<1>1. PICK n \in Nat : n = Len(x)  BY <1>0, Zenon
<1>2. PICK s : s = [i \in 1 .. n - k |-> Magnitude(FixedResidual(x, k + i - 1, k))]  OBVIOUS
<1>3. PICK t : t = [i \in 1 .. n - k |-> Magnitude(FixedResidual(y, k + i - 1, k))]  OBVIOUS
<1>4. FixedError(x, k) = SumSeq(s) /\ FixedError(y, k) = SumSeq(t)
  BY <1>1, <1>2, <1>3, FixedErrorSum
<1>5. PICK m \in Nat : m = n - k  BY <1>1
<1>6. ASSUME NEW i \in 1 .. m PROVE s[i] \in Int /\ t[i] = d * s[i]
  <2>1. PICK pos \in k .. Len(x) - 1 : pos = k + i - 1  BY <1>1, <1>5
  <2>2. PICK v \in Int : v = FixedResidual(x, pos, k)  BY FixedResidualTyped
  <2>3. FixedResidual(y, pos, k) = d * v  BY <2>2, ResidualScaled
  <2>4. Magnitude(d * v) = d * Magnitude(v) /\ Magnitude(v) \in Nat  BY MagnitudeScaled
  <2>5. s[i] = Magnitude(v) /\ t[i] = Magnitude(d * v)
    BY <1>2, <1>3, <1>5, <2>1, <2>2, <2>3, Zenon
  <2>6. QED  BY <2>4, <2>5
<1>7. Ints(s, m) /\ Scaled(s, t, d, m)  BY <1>6 DEF Ints, Scaled
<1>8. SumTo(t, m) = d * SumTo(s, m)  BY <1>7, SumScaled, d \in Int
<1>9. s = [i \in 1 .. m |-> s[i]] /\ t = [i \in 1 .. m |-> t[i]]  BY <1>2, <1>3, <1>5
<1>10. SumSeq(s) = SumTo(s, m) /\ SumSeq(t) = SumTo(t, m)  BY <1>9, SumSeqTo
<1>11. QED  BY <1>4, <1>8, <1>10

\* The orders tried, and the one that leads.
LEMMA GuessLeads ==
  ASSUME NEW x, IsSampleBlock(x), Len(x) > 0
  PROVE  /\ MaxFixedOrder(x) \in 0 .. 4 /\ MaxFixedOrder(x) < Len(x)
         /\ \A k \in 0 .. MaxFixedOrder(x) : FixedError(x, k) \in Int
         /\ GuessFixedOrder(x) \in 0 .. MaxFixedOrder(x)
         /\ \A k \in 0 .. MaxFixedOrder(x) :
              \/ FixedError(x, GuessFixedOrder(x)) < FixedError(x, k)
              \/ FixedError(x, GuessFixedOrder(x)) = FixedError(x, k) /\ GuessFixedOrder(x) <= k
<1>1. Len(x) \in Nat \ {0}  BY DEF IsSampleBlock, IsBuffer
<1>2. MaxFixedOrder(x) \in 0 .. 4 /\ MaxFixedOrder(x) < Len(x)
  <2>1. CASE Len(x) > 1
    <3>1. Min({4, Len(x) - 1}) = IF 4 <= Len(x) - 1 THEN 4 ELSE Len(x) - 1
      BY <1>1, LeastOfTwo
    <3>2. QED  BY <1>1, <2>1, <3>1 DEF MaxFixedOrder
  <2>2. CASE ~(Len(x) > 1)  BY <1>1, <2>2 DEF MaxFixedOrder
  <2>3. QED  BY <2>1, <2>2
<1>3. PICK n \in 0 .. 4 : n = MaxFixedOrder(x) /\ n < Len(x)  BY <1>2
<1>4. ASSUME NEW k \in 0 .. n PROVE FixedError(x, k) \in Int
  <2>1. k \in 0 .. 4 /\ k < Len(x)  BY <1>1, <1>3
  <2>2. QED  BY <2>1, FixedResidualSumTyped DEF FixedError
<1>5. PICK f : f = [k \in 0 .. n |-> FixedError(x, k)]  OBVIOUS
<1>6. DOMAIN f = 0 .. n /\ \A k \in 0 .. n : f[k] = FixedError(x, k) /\ f[k] \in Int
  BY <1>4, <1>5
<1>7. GuessFixedOrder(x) = FirstLeast(f)
  BY <1>3, <1>5, Zenon DEF GuessFixedOrder, FixedError
<1>8. FirstLeast(f) \in DOMAIN f /\ \A j \in DOMAIN f : Leads(f, FirstLeast(f), j)
  <2>1. n \in Nat /\ 0 \in DOMAIN f /\ DOMAIN f \subseteq 0 .. n  BY <1>6
  <2>2. DOMAIN f # {}  BY <2>1
  <2>3. QED  BY <1>6, <2>1, <2>2, LeastLeads
<1>9. PICK g \in 0 .. n : g = GuessFixedOrder(x) /\ \A j \in 0 .. n : Leads(f, g, j)
  BY <1>6, <1>7, <1>8
<1>10. \A j \in 0 .. n : \/ FixedError(x, g) < FixedError(x, j)
                         \/ FixedError(x, g) = FixedError(x, j) /\ g <= j
  BY <1>6, <1>9 DEF Leads
<1>11. QED  BY <1>3, <1>4, <1>9, <1>10

LEMMA GuessOnly ==
  ASSUME NEW x, IsSampleBlock(x), Len(x) > 0, NEW g \in 0 .. MaxFixedOrder(x),
         \A k \in 0 .. MaxFixedOrder(x) :
           \/ FixedError(x, g) < FixedError(x, k)
           \/ FixedError(x, g) = FixedError(x, k) /\ g <= k
  PROVE  GuessFixedOrder(x) = g
<1>1. PICK n \in Nat : n = MaxFixedOrder(x)  BY GuessLeads
<1>2. PICK h \in 0 .. n : h = GuessFixedOrder(x)  BY <1>1, GuessLeads
<1>3. \/ FixedError(x, h) < FixedError(x, g)
      \/ FixedError(x, h) = FixedError(x, g) /\ h <= g
  BY <1>1, <1>2, GuessLeads
<1>4. \/ FixedError(x, g) < FixedError(x, h)
      \/ FixedError(x, g) = FixedError(x, h) /\ g <= h
  BY <1>1, <1>2
<1>5. FixedError(x, g) \in Int /\ FixedError(x, h) \in Int  BY <1>1, <1>2, GuessLeads
<1>6. h = g  BY <1>1, <1>3, <1>4, <1>5
<1>7. QED  BY <1>2, <1>6

LEMMA GuessScaled ==
  ASSUME NEW x, IsSampleBlock(x), NEW y, IsSampleBlock(y), Len(y) = Len(x), Len(x) > 0,
         NEW d \in Nat \ {0}, Scaled(x, y, d, Len(x))
  PROVE  GuessFixedOrder(y) = GuessFixedOrder(x)
<1>1. MaxFixedOrder(y) = MaxFixedOrder(x)  BY DEF MaxFixedOrder
<1>2. PICK n \in 0 .. 4 : n = MaxFixedOrder(x) /\ n < Len(x)  BY GuessLeads
<1>3. PICK g \in 0 .. n : g = GuessFixedOrder(x)  BY <1>2, GuessLeads
<1>4. ASSUME NEW k \in 0 .. n
      PROVE  FixedError(x, k) \in Int /\ FixedError(y, k) = d * FixedError(x, k)
  <2>1. k \in 0 .. 4 /\ k < Len(x)
    <3>1. Len(x) \in Nat  BY Zenon DEF IsSampleBlock, IsBuffer
    <3>2. QED  BY <1>2, <3>1
  <2>2. FixedError(y, k) = d * FixedError(x, k)  BY <2>1, ErrorScaled, d \in Nat
  <2>3. QED  BY <1>2, <2>2, GuessLeads
<1>5. ASSUME NEW k \in 0 .. n
      PROVE  \/ FixedError(y, g) < FixedError(y, k)
             \/ FixedError(y, g) = FixedError(y, k) /\ g <= k
  <2>1. PICK a \in Int, b \in Int : a = FixedError(x, g) /\ b = FixedError(x, k)  BY <1>4
  <2>2. a < b \/ (a = b /\ g <= k)  BY <1>2, <1>3, <2>1, GuessLeads
  <2>3. a < b => d * a < d * b  OBVIOUS
  <2>4. QED  BY <1>4, <2>1, <2>2, <2>3
<1>6. Len(y) > 0  OBVIOUS
<1>7. GuessFixedOrder(y) = g  BY <1>1, <1>2, <1>5, <1>6, GuessOnly
<1>8. QED  BY <1>3, <1>7

-----------------------------------------------------------------------------
\* No sample loses a bit that is set.
LEMMA ZerosDivide ==
  ASSUME NEW v \in Int, FitsBits(v, DeviceBits), v # 0,
         NEW w \in Nat, w <= TrailingZeroBits(v, IntBits)
  PROVE  \E q \in Int : v = 2^w * q
<1> DEFINE Z == {z \in 0 .. IntBits - 1 : v % 2^z = 0}
<1>1. IntBits \in Nat \ {0} /\ IntBits <= WordBits /\ WordBits \in Nat
  BY TaskPlansAssumption, SubframesAssumption, SizesTyped
<1>2. TrailingZeroBits(v, IntBits) = Max(Z)  BY Zenon DEF TrailingZeroBits
<1>3. 0 \in Z
  <2>1. 2^0 = 1 /\ v % 1 = 0  OBVIOUS
  <2>2. QED  BY <1>1, <2>1
<1>4. PICK T : T = Z  OBVIOUS
<1>5. T \subseteq 0 .. IntBits /\ T # {}
  <2>1. 0 \in T /\ \A z \in T : z \in 0 .. IntBits - 1  BY <1>3, <1>4
  <2>2. \A z \in T : z \in 0 .. IntBits  BY <1>1, <2>1
  <2>3. QED  BY ONLY <2>1, <2>2
<1>6. Max(T) \in T  BY <1>1, <1>5, LargestNumber
<1>7. PICK z \in 0 .. IntBits - 1 : z = Max(T) /\ (v % 2^z) = 0  BY <1>4, <1>6
<1>8. w <= z  BY <1>2, <1>4, <1>7
<1>9. PICK e \in Nat : e = z - w  BY <1>8
<1>10. w + e = z /\ z \in 0 .. WordBits /\ w \in 0 .. WordBits /\ e \in 0 .. WordBits
  BY <1>1, <1>7, <1>8, <1>9
<1>11. 2^(w + e) = 2^w * 2^e  BY <1>10, PowersMultiply
<1>12. PICK a \in Nat \ {0}, b \in Nat \ {0}, c \in Nat \ {0} : a = 2^w /\ b = 2^e /\ c = 2^z
  BY <1>10, PowerTyped
<1>13. c = a * b  BY <1>10, <1>11, <1>12
<1>14. (v % c) = 0  BY <1>7, <1>12
<1>15. PICK q \in Int : v = c * q
  <2>1. v = c * (v \div c) + (v % c) /\ v \div c \in Int  OBVIOUS
  <2>2. PICK q \in Int : q = v \div c  BY <2>1
  <2>3. c * q \in Int /\ v = c * q + 0  BY <1>14, <2>1, <2>2
  <2>4. v = c * q  BY <2>3
  <2>5. QED  BY <2>4
<1>16. b * q \in Int /\ (a * b) * q = a * (b * q)  OBVIOUS
<1>17. QED  BY <1>12, <1>13, <1>15, <1>16

LEMMA ShiftExact ==
  ASSUME NEW d \in Nat \ {0}, NEW q \in Int, NEW v, v = d * q
  PROVE  v = d * (IF v < 0 THEN -((-v) \div d) ELSE v \div d)
<1>1. (d * q) \div d = q  OBVIOUS
<1>2. (d * (-q)) \div d = -q  OBVIOUS
<1>3. d * (-q) = -(d * q) /\ -(-q) = q  OBVIOUS
<1>4. QED  BY <1>1, <1>2, <1>3

LEMMA WastedExact ==
  ASSUME NEW x, IsSampleBlock(x), DOMAIN x # {},
         \A i \in DOMAIN x : x[i] \in Int /\ FitsBits(x[i], DeviceBits)
  PROVE  \E d \in Nat \ {0} : Scaled(ShiftSamples(x, WastedBitsOf(x)), x, d, Len(x))
<1>1. PICK w \in 0 .. WordBits : w = WastedBitsOf(x)  BY WastedTyped
<1>2. PICK d \in Nat \ {0} : d = 2^w  BY PowerTyped
<1>3. PICK y : y = ShiftSamples(x, w)  OBVIOUS
<1>4. y = [i \in DOMAIN x |-> IF x[i] < 0 THEN -((-x[i]) \div d) ELSE x[i] \div d]
  BY <1>2, <1>3, Zenon DEF ShiftSamples
<1>5. ASSUME NEW i \in DOMAIN x PROVE \E q \in Int : x[i] = d * q
  <2>1. PICK v \in Int : v = x[i] /\ FitsBits(v, DeviceBits)  OBVIOUS
  <2>2. CASE v = 0
    <3>1. 0 = d * 0 /\ 0 \in Int  OBVIOUS
    <3>2. QED  BY <2>1, <2>2, <3>1
  <2>3. CASE v # 0
    <3>1. PICK B : B = {TrailingZeroBits(x[j], IntBits) : j \in DOMAIN x}  OBVIOUS
    <3>2. w = Min(B)
      <4>1. ~\A j \in DOMAIN x : x[j] = 0  BY <2>1, <2>3
      <4>2. QED  BY <1>1, <3>1, <4>1, Zenon DEF WastedBitsOf
    <3>3. B \subseteq Nat
      <4>1. ASSUME NEW j \in DOMAIN x PROVE TrailingZeroBits(x[j], IntBits) \in Nat
        <5>1. PICK u \in Int : u = x[j] /\ FitsBits(u, DeviceBits)  OBVIOUS
        <5>2. CASE u = 0
          <6>1. TrailingZeroBits(u, IntBits) = IntBits  BY <5>2, Zenon DEF TrailingZeroBits
          <6>2. QED  BY <5>1, <6>1, SizesTyped
        <5>3. CASE u # 0
          <6>1. /\ TrailingZeroBits(u, IntBits) = TrailingZeroBits(u, DeviceBits)
                /\ TrailingZeroBits(u, DeviceBits) \in 0 .. DeviceBits - 1
            BY <5>1, <5>3, SameTrailingZeros
          <6>2. QED  BY <5>1, <6>1, SizesTyped
        <5>4. QED  BY <5>2, <5>3
      <4>2. QED  BY <3>1, <4>1
    <3>4. TrailingZeroBits(v, IntBits) \in B  BY <2>1, <3>1
    <3>5. PICK m \in B : \A z \in B : m <= z
      <4>1. B # {}  BY <3>4
      <4>2. QED  BY <3>3, <4>1, LeastNumber
    <3>6. Min(B) = m
      <4>1. B \subseteq Int  BY <3>3
      <4>2. QED  BY <3>5, <4>1, MinIs
    <3>7. w \in Nat /\ w <= TrailingZeroBits(v, IntBits)  BY <3>2, <3>3, <3>4, <3>5, <3>6
    <3>8. \E q \in Int : v = 2^w * q  BY <2>1, <2>3, <3>7, ZerosDivide
    <3>9. QED  BY <1>2, <2>1, <3>8
  <2>4. QED  BY <2>2, <2>3
<1>6. ASSUME NEW i \in DOMAIN x PROVE x[i] = d * y[i]
  <2>1. PICK q \in Int : x[i] = d * q  BY <1>5
  <2>2. PICK v : v = x[i]  OBVIOUS
  <2>3. v = d * (IF v < 0 THEN -((-v) \div d) ELSE v \div d)  BY <2>1, <2>2, ShiftExact
  <2>4. y[i] = IF v < 0 THEN -((-v) \div d) ELSE v \div d  BY <1>4, <2>2
  <2>5. QED  BY <2>2, <2>3, <2>4
<1>7. DOMAIN x = 1 .. Len(x)  BY DEF IsSampleBlock, IsBuffer
<1>8. Scaled(y, x, d, Len(x))  BY <1>6, <1>7 DEF Scaled
<1>9. QED  BY <1>1, <1>3, <1>8

\* A frame without its wasted bits, as the writer and as the kernels make it.
LEMMA OwnShiftedSame ==
  ASSUME IsBatch(call, plan), NEW f \in Frames
  PROVE  OwnSamples(f) = OwnShifted(f)
<1>1. PICK x : x = OwnFrame(f)  OBVIOUS
<1>2. DOMAIN x # {} /\ \A i \in DOMAIN x : x[i] \in Int /\ FitsBits(x[i], DeviceBits)
  BY <1>1, OwnTyped
<1>3. WastedBitsOf(x) = CommonWastedBits(x, DeviceBits)  BY <1>2, SameWastedBits
<1>4. QED  BY <1>1, <1>3 DEF OwnSamples, OwnShifted

\* The host's guess, made before the shift, is the one the writer makes after it.
LEMMA HostGuess ==
  ASSUME IsBatch(call, plan), NEW f \in Frames
  PROVE  GuessFixedOrder(OwnFrame(f)) = GuessFixedOrder(OwnSamples(f))
<1>1. PICK x, y : x = OwnFrame(f) /\ y = OwnSamples(f)  OBVIOUS
<1>2. /\ IsSampleBlock(x) /\ Len(x) = call.block /\ DOMAIN x # {}
      /\ \A i \in DOMAIN x : x[i] \in Int /\ FitsBits(x[i], DeviceBits)
      /\ IsSampleBlock(y) /\ Len(y) = call.block
  BY <1>1, OwnTyped
<1>3. y = ShiftSamples(x, WastedBitsOf(x))  BY <1>1 DEF OwnSamples
<1>4. PICK d \in Nat \ {0} : Scaled(y, x, d, Len(x))  BY <1>2, <1>3, WastedExact
<1>5. Len(x) = Len(y) /\ Len(y) > 0 /\ Scaled(y, x, d, Len(y))
  BY <1>2, <1>4, BatchSizes
<1>6. GuessFixedOrder(x) = GuessFixedOrder(y)  BY <1>2, <1>5, GuessScaled
<1>7. QED  BY <1>1, <1>6

-----------------------------------------------------------------------------
(* The fixed tasks of a frame, and what becomes of them.                   *)

\* How many a frame has, and where they are.
FixedTasks == TasksPerFrame(OptionsOf(call)) - LpcTaskCount(OptionsOf(call)) - 1
FixedAt(f, k) == f * plan.perFrame + (LpcTaskCount(OptionsOf(call)) + 2 + k)

LEMMA FixedFields ==
  ASSUME NEW o, NEW f, NEW k
  PROVE  FixedTask(o, f, k).type = "Fixed" /\ FixedTask(o, f, k).order = k
         /\ FixedTask(o, f, k).size = DeviceBits * o.frameSamples
BY DEF FixedTask, CommonTask

LEMMA UnprunedSize ==
  ASSUME NEW o, LegalOptions(o)
  PROVE  DeviceBits * o.frameSamples # Pruned
<1>1. PICK d \in Nat \ {0}, M \in Nat \ {0}, P \in Nat :
        d = DeviceBits /\ M = MaxDeviceBlock /\ P = Pruned
  BY SizesTyped, IntMaxTyped DEF Pruned
<1>2. PICK n \in 1 .. M : n = o.frameSamples  BY <1>1 DEF LegalOptions
<1>3. d * M < P  BY <1>1, LimitsAssumption
<1>4. PICK e \in Nat : M = n + e  OBVIOUS
<1>5. d * M = d * n + d * e /\ d * e \in Nat /\ d * n \in Nat  BY <1>4
<1>6. QED  BY <1>1, <1>2, <1>3, <1>5

FixedSlots(o) == 0 .. TasksPerFrame(o) - LpcTaskCount(o) - 2
FixedSlot(o, k) == LpcTaskCount(o) + 2 + k
FixedOrderOf(o, b, k) == FixedOrdersOf(o, b)[k + 1]

LEMMA FixedInGroup ==
  ASSUME NEW o, LegalOptions(o), NEW b, NEW f, NEW k, k \in FixedSlots(o)
  PROVE  /\ FixedSlot(o, k) \in 1 .. TasksPerFrame(o)
         /\ FrameTasks(o, f, b)[FixedSlot(o, k)] = FixedTask(o, f, FixedOrderOf(o, b, k))
<1>1. PICK L \in Nat : L = LpcTaskCount(o)  BY LpcCount
<1>2. PICK n \in Nat : n = TasksPerFrame(o)  BY GroupSize
<1>3. PICK i \in L + 2 .. n : i = L + 2 + k  BY <1>1, <1>2 DEF FixedSlots
<1>4. FrameTasks(o, f, b)[i] = FixedTask(o, f, FixedOrdersOf(o, b)[i - L - 1])
  BY <1>1, <1>2, GroupTasks
<1>5. i - L - 1 = k + 1 /\ i \in 1 .. n
  <2>1. k \in Int  BY <1>1, <1>2 DEF FixedSlots
  <2>2. QED  BY <1>3, <2>1
<1>6. FixedSlot(o, k) = i  BY <1>1, <1>3 DEF FixedSlot
<1>7. FixedOrdersOf(o, b)[i - L - 1] = FixedOrderOf(o, b, k)  BY <1>5 DEF FixedOrderOf
<1>8. QED  BY <1>2, <1>4, <1>5, <1>6, <1>7

LEMMA FixedCounted ==
  ASSUME IsBatch(call, plan)
  PROVE  /\ FixedTasks \in 1 .. 5 /\ LegalOptions(OptionsOf(call))
         /\ plan.guessed => FixedTasks = FixedTaskCount(OptionsOf(call))
         /\ OrderGuess(call.profile) /\ ~plan.guessed => FixedTasks = 1
<1>1. PICK o : o = OptionsOf(call)  OBVIOUS
<1>2. IsPlan(plan, o, call.samples)  BY <1>1, BatchSizes
<1>3. LegalOptions(o) /\ plan.guessed = GuessedOnDevice(o)  BY <1>2, PlanPlaces
<1>4. PICK L \in Nat, F \in 1 .. 5 : L = LpcTaskCount(o) /\ F = FixedTaskCount(o)
  BY <1>3, LpcCount, FixedCount
<1>5. o.profile = call.profile  BY <1>1, OptionsLegal DEF IsBatch
<1>6. TasksPerFrame(o) = L + 1 + (IF OrderGuess(o.profile) /\ ~GuessedOnDevice(o) THEN 1 ELSE F)
  BY <1>4, Zenon DEF TasksPerFrame
<1>7. FixedTasks = TasksPerFrame(o) - L - 1  BY <1>1, <1>4 DEF FixedTasks
<1>8. FixedTasks = IF OrderGuess(o.profile) /\ ~GuessedOnDevice(o) THEN 1 ELSE F
  <2>1. CASE OrderGuess(o.profile) /\ ~GuessedOnDevice(o)  BY <1>6, <1>7, <2>1
  <2>2. CASE ~(OrderGuess(o.profile) /\ ~GuessedOnDevice(o))  BY <1>6, <1>7, <2>2
  <2>3. QED  BY <2>1, <2>2
<1>9. QED  BY <1>1, <1>3, <1>4, <1>5, <1>8

LEMMA FixedPlaced ==
  ASSUME IsBatch(call, plan), NEW f \in Frames, NEW k \in 0 .. FixedTasks - 1
  PROVE  /\ FixedAt(f, k) \in 1 .. Len(plan.tasks) /\ FrameNo(FixedAt(f, k)) = f
         /\ FixedAt(f, k) \in Nat
         /\ plan.tasks[FixedAt(f, k)].type = "Fixed"
         /\ plan.tasks[FixedAt(f, k)].size # Pruned
         /\ plan.tasks[FixedAt(f, k)].order = FixedOrdersOf(OptionsOf(call), OwnFrame(f))[k + 1]
<1>1. PICK o : o = OptionsOf(call)  OBVIOUS
<1>2. IsPlan(plan, o, call.samples) /\ o.frameSamples = call.block  BY <1>1, BatchSizes
<1>3. /\ LegalOptions(o) /\ plan.perFrame = TasksPerFrame(o)
      /\ Len(plan.tasks) = plan.frames * plan.perFrame
  BY <1>2, PlanPlaces
<1>4. PICK n \in Nat \ {0}, p \in Nat \ {0} : n = plan.frames /\ p = plan.perFrame
  BY BatchSizes
<1>5. k \in FixedSlots(o)
  <2>1. PICK L \in Nat : L = LpcTaskCount(o)  BY <1>3, LpcCount
  <2>2. k \in 0 .. (p - L - 1) - 1  BY <1>1, <1>3, <1>4, <2>1 DEF FixedTasks
  <2>3. QED  BY <1>3, <1>4, <2>1, <2>2 DEF FixedSlots
<1>6. PICK b : b = OwnFrame(f)  OBVIOUS
<1>7. PICK i \in 1 .. p : i = FixedSlot(o, k)
  BY <1>3, <1>4, <1>5, FixedInGroup
<1>8. FrameTasks(o, f, b)[i] = FixedTask(o, f, FixedOrdersOf(o, b)[k + 1])
  <2>1. FrameTasks(o, f, b)[FixedSlot(o, k)] = FixedTask(o, f, FixedOrderOf(o, b, k))
    BY ONLY <1>3, <1>5, FixedInGroup
  <2>2. QED  BY <1>7, <2>1 DEF FixedOrderOf
<1>9. f \in 0 .. n - 1  BY <1>4 DEF Frames
<1>10. TaskOf(plan, f, i) = FrameTasks(o, f, b)[i]
  <2>1. b = FrameOf(call.samples, f * o.frameSamples, o.frameSamples)
    BY <1>2, <1>6 DEF OwnFrame
  <2>2. PICK x, q : x = call.samples /\ q = plan  OBVIOUS
  <2>3. IsBuffer(x) /\ Len(x) > 0 /\ Len(x) % o.frameSamples = 0 /\ q = BuildPlan(o, x)
    BY <1>2, <2>2 DEF IsPlan, IsSampleBlock
  <2>4. \A g \in 0 .. q.frames - 1, j \in 1 .. q.perFrame :
          TaskOf(q, g, j) = FrameTasks(o, g, FrameOf(x, g * o.frameSamples, o.frameSamples))[j]
    BY <1>3, <2>3, PlanCells
  <2>5. QED  BY <1>4, <1>9, <2>1, <2>2, <2>4
<1>11. PICK t : t = FixedAt(f, k)  OBVIOUS
<1>12. t = f * p + i  BY <1>1, <1>4, <1>7, <1>11 DEF FixedAt, FixedSlot
<1>13. t \in 1 .. n * p /\ (t - 1) \div p = f /\ t \in Nat
  <2>1. PICK r \in 0 .. p - 1 : i = r + 1  BY i - 1 \in 0 .. p - 1
  <2>2. f * p + r + 1 \in 1 .. n * p /\ ((f * p + r + 1) - 1) \div p = f
    BY <1>9, CellRow
  <2>3. f * p \in Nat  BY <1>9
  <2>4. t = f * p + r + 1  BY <1>12, <2>1, <2>3
  <2>5. t \in Nat  BY <2>1, <2>3, <2>4
  <2>6. QED  BY <2>2, <2>4, <2>5
<1>14. plan.tasks[t] = FixedTask(o, f, FixedOrdersOf(o, b)[k + 1])
  BY <1>4, <1>8, <1>10, <1>12 DEF TaskOf
<1>15. DeviceBits * o.frameSamples # Pruned  BY <1>3, UnprunedSize
<1>16. PICK u, e : u = plan.tasks[t] /\ e = FixedOrdersOf(o, b)[k + 1]  OBVIOUS
<1>17. u.type = "Fixed" /\ u.order = e /\ u.size # Pruned
  <2>1. u = FixedTask(o, f, e)  BY <1>14, <1>16
  <2>2. QED  BY <1>15, <2>1, FixedFields
<1>18. FrameNo(t) = f  BY <1>4, <1>13 DEF FrameNo
<1>19. t \in 1 .. Len(plan.tasks)  BY <1>3, <1>4, <1>13
<1>20. QED  BY <1>1, <1>6, <1>11, <1>13, <1>16, <1>17, <1>18, <1>19

\* There are no others.
LEMMA FixedFound ==
  ASSUME IsBatch(call, plan), NEW t \in 1 .. Len(plan.tasks), plan.tasks[t].type = "Fixed"
  PROVE  FrameNo(t) \in Frames /\ \E k \in 0 .. FixedTasks - 1 : t = FixedAt(FrameNo(t), k)
<1>1. PICK o : o = OptionsOf(call)  OBVIOUS
<1>2. IsPlan(plan, o, call.samples) /\ IsBuffer(plan.tasks)  BY <1>1, BatchSizes
<1>3. LegalOptions(o) /\ plan.perFrame = TasksPerFrame(o)  BY <1>2, PlanPlaces
<1>4. t \in DOMAIN plan.tasks  BY <1>2 DEF IsBuffer
<1>5. PICK f \in 0 .. plan.frames - 1, i \in 1 .. plan.perFrame :
        /\ t = f * plan.perFrame + i /\ (t - 1) \div plan.perFrame = f
        /\ plan.tasks[t] = TaskOf(plan, f, i)
  BY <1>2, <1>4, TaskPlace
<1>6. PICK L \in Nat, p \in Nat : L = LpcTaskCount(o) /\ p = plan.perFrame
  BY <1>3, LpcCount, GroupSize
<1>7. i \in 1 .. p  BY <1>6
<1>8. ~(i <= L)
  <2>1. PICK q, x : q = plan /\ x = call.samples  OBVIOUS
  <2>2. IsPlan(q, o, x) /\ f \in 0 .. q.frames - 1 /\ i \in 1 .. q.perFrame
    BY <1>2, <2>1
  <2>3. TaskOf(q, f, i).type = "Lpc" <=> i <= LpcTaskCount(o)  BY <2>2, PlanTasks
  <2>4. QED  BY <1>5, <1>6, <2>1, <2>3
<1>9. i # L + 1
  <2>1. PICK q, x : q = plan /\ x = call.samples  OBVIOUS
  <2>2. IsBuffer(x) /\ Len(x) > 0 /\ Len(x) % o.frameSamples = 0 /\ q = BuildPlan(o, x)
    BY <1>2, <2>1 DEF IsPlan, IsSampleBlock
  <2>3. \A g \in 0 .. q.frames - 1, j \in 1 .. q.perFrame :
          TaskOf(q, g, j) = FrameTasks(o, g, FrameOf(x, g * o.frameSamples, o.frameSamples))[j]
    BY <1>3, <2>2, PlanCells
  <2>4. PICK b : b = FrameOf(x, f * o.frameSamples, o.frameSamples)  OBVIOUS
  <2>5. plan.tasks[t] = FrameTasks(o, f, b)[i]  BY <1>5, <2>1, <2>3, <2>4
  <2>6. FrameTasks(o, f, b)[LpcTaskCount(o) + 1] = ConstantTask(o, f)  BY <1>3, GroupTasks
  <2>7. ConstantTask(o, f).type = "Constant"  BY DEF ConstantTask, CommonTask
  <2>8. QED  BY <1>6, <2>5, <2>6, <2>7
<1>10. PICK k \in Int : k = i - L - 2  BY <1>7
<1>11. k \in 0 .. (p - L - 1) - 1 /\ i = L + 2 + k  BY <1>7, <1>8, <1>9, <1>10
<1>12. FixedTasks = p - L - 1  BY <1>1, <1>3, <1>6 DEF FixedTasks
<1>13. t = FixedAt(f, k)  BY <1>1, <1>5, <1>6, <1>11 DEF FixedAt
<1>14. FrameNo(t) = f /\ f \in Frames  BY <1>5 DEF FrameNo, Frames
<1>15. QED  BY <1>11, <1>12, <1>13, <1>14

\* Their orders: all of them in turn, or the one the host guessed.
LEMMA FixedOrdersPlanned ==
  ASSUME IsBatch(call, plan), NEW f \in Frames
  PROVE  /\ plan.guessed =>
              /\ FixedTasks = MaxFixedOrder(OwnSamples(f)) + 1
              /\ \A k \in 0 .. FixedTasks - 1 : plan.tasks[FixedAt(f, k)].order = k
         /\ OrderGuess(call.profile) /\ ~plan.guessed =>
              /\ FixedTasks = 1
              /\ plan.tasks[FixedAt(f, 0)].order = GuessFixedOrder(OwnSamples(f))
<1>1. PICK o : o = OptionsOf(call)  OBVIOUS
<1>2. IsPlan(plan, o, call.samples) /\ o.frameSamples = call.block /\ call.block \in Nat \ {0}
  BY <1>1, BatchSizes
<1>3. LegalOptions(o) /\ plan.guessed = GuessedOnDevice(o)  BY <1>2, PlanPlaces
<1>4. o.profile = call.profile  BY <1>1, OptionsLegal DEF IsBatch
<1>5. ASSUME plan.guessed
      PROVE  /\ FixedTasks = MaxFixedOrder(OwnSamples(f)) + 1
             /\ \A k \in 0 .. FixedTasks - 1 : plan.tasks[FixedAt(f, k)].order = k
  <2>1. PICK F \in 1 .. 5 : F = FixedTaskCount(o) /\ F = FixedTasks
    BY <1>1, <1>3, <1>5, FixedCount, FixedCounted
  <2>2. PICK n \in Nat \ {0} : n = call.block  BY <1>2
  <2>3. F = Min({4, n - 1}) + 1  BY <1>2, <2>1, <2>2 DEF FixedTaskCount, LargestFixed
  <2>4. Len(OwnSamples(f)) = n  BY <2>2, OwnTyped
  <2>5. Min({4, n - 1}) = IF 4 <= n - 1 THEN 4 ELSE n - 1
    BY LeastOfTwo, 4 \in Int, n - 1 \in Int
  <2>6. MaxFixedOrder(OwnSamples(f)) = IF n > 1 THEN Min({4, n - 1}) ELSE 0
    BY <2>4 DEF MaxFixedOrder
  <2>7. FixedTasks = MaxFixedOrder(OwnSamples(f)) + 1  BY <2>1, <2>3, <2>5, <2>6
  <2>8. ASSUME NEW k \in 0 .. FixedTasks - 1 PROVE plan.tasks[FixedAt(f, k)].order = k
    <3>1. PICK b : b = OwnFrame(f)  OBVIOUS
    <3>2. plan.tasks[FixedAt(f, k)].order = FixedOrdersOf(o, b)[k + 1]
      BY <1>1, <3>1, FixedPlaced
    <3>3. FixedOrdersOf(o, b) = [i \in 1 .. F |-> i - 1]
      BY <1>3, <1>5, <2>1 DEF FixedOrdersOf
    <3>4. k \in 0 .. F - 1  BY <2>1
    <3>5. k + 1 \in 1 .. F /\ (k + 1) - 1 = k  BY <3>4
    <3>6. QED  BY <3>2, <3>3, <3>5
  <2>9. QED  BY <2>7, <2>8
<1>6. ASSUME OrderGuess(call.profile), ~plan.guessed
      PROVE  /\ FixedTasks = 1
             /\ plan.tasks[FixedAt(f, 0)].order = GuessFixedOrder(OwnSamples(f))
  <2>1. FixedTasks = 1  BY <1>6, FixedCounted
  <2>2. 0 \in 0 .. FixedTasks - 1  BY <2>1
  <2>3. PICK b : b = OwnFrame(f)  OBVIOUS
  <2>4. plan.tasks[FixedAt(f, 0)].order = FixedOrdersOf(o, b)[0 + 1]
    BY <1>1, <2>2, <2>3, FixedPlaced
  <2>5. FixedOrdersOf(o, b) = <<GuessFixedOrder(b)>>
    BY <1>3, <1>4, <1>6 DEF FixedOrdersOf
  <2>6. plan.tasks[FixedAt(f, 0)].order = GuessFixedOrder(b)  BY <2>4, <2>5
  <2>7. GuessFixedOrder(b) = GuessFixedOrder(OwnSamples(f))  BY <2>3, HostGuess
  <2>8. QED  BY <2>1, <2>6, <2>7
<1>7. QED  BY <1>5, <1>6

-----------------------------------------------------------------------------
(* The fixed tasks in device memory, as planned and as guessed.            *)

AsPlanned(task, planned) == task.order = planned.order /\ task.size = planned.size
FixedPlanned(m) ==
  \A t \in 1 .. Len(plan.tasks) :
    plan.tasks[t].type = "Fixed" => AsPlanned(m["tasks"][t], plan.tasks[t])
FixedGuessed(m) ==
  \A t \in 1 .. Len(plan.tasks) :
    plan.tasks[t].type = "Fixed" =>
      /\ m["tasks"][t].order = plan.tasks[t].order
      /\ m["tasks"][t].size # Pruned <=>
           plan.tasks[t].order = GuessFixedOrder(OwnSamples(FrameNo(t)))

LEMMA InputsPlanFixed ==
  ASSUME NEW m, Begins(m["tasks"], plan.tasks)
  PROVE  FixedPlanned(m)
BY DEF FixedPlanned, AsPlanned, Begins

\* The commands before the guess leave them as planned.
LEMMA WastedFixed ==
  ASSUME IsBatch(call, plan), NEW m, Fits(m), Inputs(m), FixedPlanned(m)
  PROVE  FixedPlanned(FindWastedBits(m, args))
<1>0. PICK n, a : n = FindWastedBits(m, a) /\ a = args  OBVIOUS
<1>1. n["tasks"] = WastedTasks(m, a)  BY <1>0, FindWastedCells DEF Fits
<1>2. ASSUME NEW t \in 1 .. Len(plan.tasks), plan.tasks[t].type = "Fixed"
      PROVE  AsPlanned(n["tasks"][t], plan.tasks[t])
  <2>1. PICK u, x : u = m["tasks"][t]
          /\ x = OriginalFrame(m, FirstTask(m, a, (t - 1) \div a.perFrame))
    OBVIOUS
  <2>2. t \in DOMAIN m["tasks"] /\ DOMAIN u = TaskFields  BY <2>1, TaskInputs
  <2>3. n["tasks"][t] = u \/ n["tasks"][t] = MarkWasted(u, x)
    BY <1>1, <2>1, <2>2, Zenon DEF WastedTasks
  <2>4. MarkWasted(u, x).order = u.order /\ MarkWasted(u, x).size = u.size
    <3>1. PICK v, w : v = WastedBitsOf(x) /\ w = ActiveBits(x, v)  OBVIOUS
    <3>2. MarkWasted(u, x) = [u EXCEPT !.wbits = v, !.abits = w]
      BY <3>1, Zenon DEF MarkWasted
    <3>3. {"wbits", "abits", "order", "size"} \subseteq DOMAIN u  BY <2>2 DEF TaskFields
    <3>4. QED  BY ONLY <3>2, <3>3
  <2>5. AsPlanned(u, plan.tasks[t])  BY <1>2, <2>1 DEF FixedPlanned
  <2>6. QED  BY <2>3, <2>4, <2>5 DEF AsPlanned
<1>3. QED  BY <1>0, <1>2 DEF FixedPlanned

LEMMA QuantizedFixed ==
  ASSUME IsBatch(call, plan), NEW m, Fits(m), Inputs(m), FixedPlanned(m)
  PROVE  FixedPlanned(QuantizeLpcOrders(m, args))
<1>0. PICK n, a : n = QuantizeLpcOrders(m, a) /\ a = args  OBVIOUS
<1>1. n["tasks"] = Quantized(m, a)  BY <1>0, TasksAlone DEF Fits
<1>2. a.perFrame = plan.perFrame  BY <1>0, ArgumentsTyped DEF args
<1>3. ASSUME NEW t \in 1 .. Len(plan.tasks), plan.tasks[t].type = "Fixed"
      PROVE  AsPlanned(n["tasks"][t], plan.tasks[t])
  <2>1. /\ t \in DOMAIN m["tasks"] /\ m["tasks"][t].type = "Fixed"
        /\ (t - 1) % plan.perFrame < args.lpcTasks => m["tasks"][t].type = "Lpc"
    BY <1>3, TaskInputs
  <2>2. ~((t - 1) % a.perFrame < a.lpcTasks)  BY <1>0, <1>2, <2>1
  <2>3. n["tasks"][t] = m["tasks"][t]  BY <1>1, <2>1, <2>2, Zenon DEF Quantized
  <2>4. QED  BY <1>3, <2>3 DEF FixedPlanned
<1>4. QED  BY <1>0, <1>3 DEF FixedPlanned

LEMMA FixedStaysPlanned ==
  ASSUME IsBatch(call, plan), NEW m, Fits(m), Inputs(m), FixedPlanned(m),
         NEW command \in {"FindWastedBits", "ComputeAutocor", "ComputeLpc", "QuantizeLpcOrders"}
  PROVE  FixedPlanned(Run(command, m))
<1>0. Memory(m)  BY DEF Fits
<1>1. "tasks" \in Buffers  BY DEF Buffers, DeviceBuffers
<1>2. PICK n : n = Run(command, m)  OBVIOUS
<1>3. PICK a : a = args  OBVIOUS
<1>4. CASE command = "FindWastedBits"  BY <1>4, RunIs, WastedFixed
<1>5. CASE command = "QuantizeLpcOrders"  BY <1>5, RunIs, QuantizedFixed
<1>6. CASE command = "ComputeAutocor"
  <2>1. n = ComputeAutocor(m, a)  BY <1>2, <1>3, <1>6, RunIs, Zenon
  <2>2. \A d \in Buffers \ {"autocor"} : ComputeAutocor(m, a)[d] = m[d]
    BY ONLY <1>0, AutocorOthers
  <2>3. n["tasks"] = m["tasks"]  BY ONLY <1>1, <2>1, <2>2
  <2>4. QED  BY <1>2, <2>3 DEF FixedPlanned
<1>7. CASE command = "ComputeLpc"
  <2>1. n = ComputeLpc(m, a)  BY <1>2, <1>3, <1>7, RunIs, Zenon
  <2>2. \A d \in Buffers \ {"lpc"} : ComputeLpc(m, a)[d] = m[d]
    BY ONLY <1>0, AutocorOthers
  <2>3. n["tasks"] = m["tasks"]  BY ONLY <1>1, <2>1, <2>2
  <2>4. QED  BY <1>2, <2>3 DEF FixedPlanned
<1>8. QED  BY <1>4, <1>5, <1>6, <1>7

\* The fixed tasks a work group of the guess looks at are those of its frame.
LEMMA FixedTasksAre ==
  ASSUME IsBatch(call, plan), NEW m, Fits(m), Inputs(m), NEW f \in Frames, NEW t
  PROVE  t \in FixedTasksOf(m, args, f) <=>
           t \in 1 .. Len(plan.tasks) /\ FrameNo(t) = f /\ plan.tasks[t].type = "Fixed"
<1>1. PICK a : a = args /\ a.perFrame = plan.perFrame  BY ArgumentsTyped DEF args
<1>2. PICK n \in Nat \ {0}, p \in Nat \ {0} : n = plan.frames /\ p = plan.perFrame
  BY BatchSizes
<1>3. /\ n * p \in Nat /\ Len(plan.tasks) = n * p
      /\ Len(plan.selected) = n * p /\ \A i \in 1 .. n * p : plan.selected[i] = i - 1
  BY <1>2, BatchSizes
<1>4. f \in 0 .. n - 1  BY <1>2 DEF Frames
<1>5. PICK b \in Nat : b = f * p  BY <1>4
<1>6. ASSUME NEW i \in 1 .. p
      PROVE  b + i \in 1 .. n * p /\ ((b + i) - 1) \div p = f /\ m["selected"][b + i] + 1 = b + i
  <2>1. PICK r \in 0 .. p - 1 : r = i - 1  OBVIOUS
  <2>2. f * p + r + 1 \in 1 .. n * p /\ ((f * p + r + 1) - 1) \div p = f
    BY <1>4, CellRow
  <2>3. f * p + r + 1 = b + i  BY <1>5, <2>1
  <2>4. b + i \in 1 .. n * p /\ ((b + i) - 1) \div p = f  BY <2>2, <2>3
  <2>5. m["selected"][b + i] = plan.selected[b + i]  BY <1>3, <2>4 DEF Inputs, Begins
  <2>6. PICK c \in Int : c = b + i  OBVIOUS
  <2>7. m["selected"][c] = c - 1  BY <1>3, <2>4, <2>5, <2>6
  <2>8. m["selected"][b + i] + 1 = b + i  BY <2>6, <2>7
  <2>9. QED  BY <2>4, <2>8
<1>7. ASSUME NEW u \in 1 .. n * p, (u - 1) \div p = f PROVE \E i \in 1 .. p : u = b + i
  <2>1. /\ (u - 1) \div p \in 0 .. n - 1 /\ (u - 1) % p \in 0 .. p - 1
        /\ u = ((u - 1) \div p) * p + ((u - 1) % p) + 1
    <3>1. n \in Nat /\ p \in Nat \ {0} /\ u \in 1 .. n * p  OBVIOUS
    <3>2. QED  BY ONLY <3>1, RowCell
  <2>2. PICK r \in 0 .. p - 1 : r = ((u - 1) % p)  BY <2>1
  <2>3. u = f * p + r + 1  BY <1>7, <2>1, <2>2
  <2>4. r + 1 \in 1 .. p /\ u = b + (r + 1)
    <3>1. u = b + r + 1  BY ONLY <1>5, <2>3
    <3>2. b \in Nat /\ p \in Nat /\ r \in 0 .. p - 1  OBVIOUS
    <3>3. QED  BY ONLY <3>1, <3>2
  <2>5. QED  BY <2>4
<1>8. PICK S : S = {m["selected"][b + i] + 1 : i \in 1 .. p}  OBVIOUS
<1>9. \A u : u \in S <=> u \in 1 .. n * p /\ (u - 1) \div p = f
  <2>1. S = {b + i : i \in 1 .. p}
    <3>1. \A i \in 1 .. p : m["selected"][b + i] + 1 = b + i  BY <1>6
    <3>2. QED  BY <1>8, <3>1
  <2>2. ASSUME NEW u \in S PROVE u \in 1 .. n * p /\ (u - 1) \div p = f
    <3>1. PICK i \in 1 .. p : u = b + i  BY <2>1
    <3>2. QED  BY <1>6, <3>1
  <2>3. ASSUME NEW u \in 1 .. n * p, (u - 1) \div p = f PROVE u \in S
    <3>1. PICK i \in 1 .. p : u = b + i  BY <1>7, <2>3
    <3>2. QED  BY <2>1, <3>1
  <2>4. QED  BY <2>2, <2>3
<1>10. FixedTasksOf(m, a, f) = {u \in S : m["tasks"][u].type = "Fixed"}
  BY <1>1, <1>2, <1>5, <1>8, Zenon DEF FixedTasksOf
<1>11. \A u \in 1 .. n * p : m["tasks"][u].type = plan.tasks[u].type
  BY <1>3, TaskInputs
<1>12. t \in FixedTasksOf(m, a, f) <=>
         t \in 1 .. n * p /\ (t - 1) \div p = f /\ plan.tasks[t].type = "Fixed"
  BY <1>9, <1>10, <1>11
<1>13. FrameNo(t) = (t - 1) \div p  BY <1>2 DEF FrameNo
<1>14. QED  BY <1>1, <1>3, <1>12, <1>13

\* Where they are, and what the guess sums for each.
LEMMA GuessedSums ==
  ASSUME IsBatch(call, plan), plan.guessed, NEW m, Fits(m), Inputs(m), Marked(m),
         FixedPlanned(m), NEW f \in Frames, NEW k \in 0 .. FixedTasks - 1
  PROVE  /\ FixedAt(f, k) \in FixedTasksOf(m, args, f)
         /\ GuessSum(m, args, m["tasks"][FixedAt(f, k)]) = FixedError(OwnSamples(f), k)
         /\ k \in 0 .. MaxFixedOrder(OwnSamples(f))
<1>1. PICK t : t = FixedAt(f, k)  OBVIOUS
<1>2. t \in 1 .. Len(plan.tasks) /\ FrameNo(t) = f /\ plan.tasks[t].type = "Fixed"
  BY <1>1, FixedPlaced
<1>3. t \in FixedTasksOf(m, args, f)  BY <1>2, FixedTasksAre
<1>4. PICK u : u = m["tasks"][t]  OBVIOUS
<1>5. u.type = "Fixed" /\ u.block = call.block  BY <1>2, <1>4, TaskInputs
<1>6. u.order = k
  <2>1. plan.tasks[t].order = k  BY <1>1, FixedOrdersPlanned
  <2>2. u.order = plan.tasks[t].order  BY <1>2, <1>4 DEF FixedPlanned, AsPlanned
  <2>3. QED  BY <2>1, <2>2
<1>7. PICK x : x = OwnSamples(f)  OBVIOUS
<1>8. IsSampleBlock(x) /\ Len(x) = call.block /\ Len(x) > 0  BY <1>7, OwnTyped, BatchSizes
<1>9. FixedTasks = MaxFixedOrder(x) + 1  BY <1>7, FixedOrdersPlanned
<1>10. MaxFixedOrder(x) \in 0 .. 4 /\ MaxFixedOrder(x) < Len(x)  BY <1>8, GuessLeads
<1>11. PICK M \in 0 .. 4 : M = MaxFixedOrder(x)  BY <1>10
<1>12. Len(x) \in Nat  BY <1>8, Zenon DEF IsSampleBlock, IsBuffer
<1>13. k \in 0 .. M  BY <1>9, <1>11
<1>14. k \in 0 .. 4 /\ k < Len(x)  BY <1>10, <1>11, <1>12, <1>13
<1>15. AbsoluteSum(DeviceResiduals(x, u, FALSE), u.order, u.block) = FixedError(x, k)
  BY <1>5, <1>6, <1>8, <1>14, DeviceError
<1>16. ShiftedBlock(m, args, u) = x  BY <1>2, <1>4, <1>7 DEF Marked
<1>17. GuessSum(m, args, u) = FixedError(x, k)  BY <1>15, <1>16, Zenon DEF GuessSum
<1>18. QED  BY <1>1, <1>3, <1>4, <1>7, <1>11, <1>13, <1>17

LEMMA GuessKept ==
  ASSUME IsBatch(call, plan), plan.guessed, NEW m, Fits(m), Inputs(m), Marked(m),
         FixedPlanned(m), NEW f \in Frames
  PROVE  /\ GuessFixedOrder(OwnSamples(f)) \in 0 .. FixedTasks - 1
         /\ KeptFixed(m, args, f) = FixedAt(f, GuessFixedOrder(OwnSamples(f)))
<1>1. PICK x : x = OwnSamples(f)  OBVIOUS
<1>2. IsSampleBlock(x) /\ Len(x) > 0
  <2>1. IsSampleBlock(x) /\ Len(x) = call.block  BY <1>1, OwnTyped
  <2>2. QED  BY <2>1, BatchSizes
<1>3. PICK M \in 0 .. 4 : M = MaxFixedOrder(x)  BY <1>2, GuessLeads
<1>4. FixedTasks = M + 1  BY <1>1, <1>3, FixedOrdersPlanned
<1>5. PICK g \in 0 .. M : g = GuessFixedOrder(x)  BY <1>2, <1>3, GuessLeads
<1>6. PICK e : e = [k \in 0 .. M |-> FixedError(x, k)]  OBVIOUS
<1>7. /\ \A k \in 0 .. M : e[k] \in Int
      /\ \A k \in 0 .. M : e[g] < e[k] \/ (e[g] = e[k] /\ g <= k)
  <2>1. /\ \A k \in 0 .. MaxFixedOrder(x) : FixedError(x, k) \in Int
        /\ \A k \in 0 .. MaxFixedOrder(x) :
             \/ FixedError(x, GuessFixedOrder(x)) < FixedError(x, k)
             \/ FixedError(x, GuessFixedOrder(x)) = FixedError(x, k) /\ GuessFixedOrder(x) <= k
    BY <1>2, GuessLeads
  <2>2. \A k \in 0 .. M : e[k] = FixedError(x, k)  BY <1>6
  <2>3. e[g] = FixedError(x, GuessFixedOrder(x))  BY <1>5, <2>2
  <2>4. \A k \in 0 .. M : FixedError(x, k) \in Int  BY <1>3, <2>1
  <2>5. \A k \in 0 .. M :
          \/ FixedError(x, GuessFixedOrder(x)) < FixedError(x, k)
          \/ FixedError(x, GuessFixedOrder(x)) = FixedError(x, k) /\ GuessFixedOrder(x) <= k
    BY <1>3, <2>1
  <2>6. \A k \in 0 .. M : e[k] \in Int  BY ONLY <2>2, <2>4
  <2>7. ASSUME NEW k \in 0 .. M PROVE e[g] < e[k] \/ (e[g] = e[k] /\ g <= k)
    BY <1>5, <2>2, <2>3, <2>5
  <2>8. QED  BY <2>6, <2>7
<1>8. PICK T : T = FixedTasksOf(m, args, f)  OBVIOUS
<1>9. PICK s : s = [t \in T |-> GuessSum(m, args, m["tasks"][t])]  OBVIOUS
<1>10. ASSUME NEW k \in 0 .. M PROVE FixedAt(f, k) \in T /\ s[FixedAt(f, k)] = e[k]
  <2>1. k \in 0 .. FixedTasks - 1  BY <1>4
  <2>2. FixedAt(f, k) \in T /\ GuessSum(m, args, m["tasks"][FixedAt(f, k)]) = FixedError(x, k)
    BY <1>1, <1>8, <2>1, GuessedSums
  <2>3. QED  BY <1>6, <1>9, <2>2
<1>11. ASSUME NEW t \in T PROVE \E k \in 0 .. M : t = FixedAt(f, k)
  <2>1. t \in 1 .. Len(plan.tasks) /\ FrameNo(t) = f /\ plan.tasks[t].type = "Fixed"
    BY <1>8, FixedTasksAre
  <2>2. PICK k \in 0 .. FixedTasks - 1 : t = FixedAt(f, k)  BY <2>1, FixedFound
  <2>3. k \in 0 .. M  BY <1>4
  <2>4. QED  BY <2>2, <2>3
<1>12. PICK N \in Nat : N = Len(plan.tasks)
  <2>1. Len(plan.tasks) \in Nat  BY BatchSizes
  <2>2. QED  BY <2>1
<1>13. DOMAIN s \subseteq 0 .. N
  <2>1. \A t \in T : t \in 1 .. N  BY <1>8, <1>12, FixedTasksAre
  <2>2. QED  BY <1>9, <2>1
<1>14. PICK c \in Int : c = f * plan.perFrame + (LpcTaskCount(OptionsOf(call)) + 2)
  <2>1. IsPlan(plan, OptionsOf(call), call.samples)  BY BatchSizes
  <2>2. LegalOptions(OptionsOf(call))  BY <2>1, PlanPlaces
  <2>3. PICK L \in Nat : L = LpcTaskCount(OptionsOf(call))  BY <2>2, LpcCount
  <2>4. PICK n \in Nat, p \in Nat : n = plan.frames /\ p = plan.perFrame  BY BatchSizes
  <2>5. PICK h \in Nat : h = f  BY <2>4 DEF Frames
  <2>6. h * p \in Nat  OBVIOUS
  <2>7. h * p + (L + 2) \in Int  BY <2>6
  <2>8. QED  BY <2>3, <2>4, <2>5, <2>7
<1>15. \A k \in 0 .. M : FixedAt(f, k) = c + k
  <2>1. IsPlan(plan, OptionsOf(call), call.samples)  BY BatchSizes
  <2>2. LegalOptions(OptionsOf(call))  BY <2>1, PlanPlaces
  <2>3. PICK L \in Nat : L = LpcTaskCount(OptionsOf(call))  BY <2>2, LpcCount
  <2>4. PICK n \in Nat, p \in Nat : n = plan.frames /\ p = plan.perFrame  BY BatchSizes
  <2>5. PICK h \in Nat : h = f  BY <2>4 DEF Frames
  <2>6. PICK q \in Nat : q = h * p  OBVIOUS
  <2>7. c = q + (L + 2)  BY <1>14, <2>3, <2>4, <2>5, <2>6
  <2>8. \A k \in 0 .. M : FixedAt(f, k) = q + (L + 2 + k)
    BY <2>3, <2>4, <2>5, <2>6 DEF FixedAt
  <2>9. \A k \in 0 .. M : q + (L + 2 + k) = q + (L + 2) + k  OBVIOUS
  <2>10. QED  BY ONLY <2>7, <2>8, <2>9
<1>16. \A t \in DOMAIN s : s[t] \in Int
  <2>1. ASSUME NEW t \in T PROVE s[t] \in Int
    <3>1. PICK k \in 0 .. M : t = FixedAt(f, k)  BY <1>11
    <3>2. QED  BY <1>7, <1>10, <3>1
  <2>2. QED  BY <1>9, <2>1
<1>17. PICK b : b = FixedAt(f, g)  OBVIOUS
<1>18. b \in DOMAIN s  BY <1>9, <1>10, <1>17
<1>19. ASSUME NEW t \in DOMAIN s PROVE Leads(s, b, t)
  <2>1. PICK k \in 0 .. M : t = FixedAt(f, k)  BY <1>9, <1>11
  <2>2. s[b] = e[g] /\ s[t] = e[k]  BY <1>10, <1>17, <2>1
  <2>3. g <= k => b <= t  BY <1>15, <1>17, <2>1
  <2>4. QED  BY <1>7, <2>2, <2>3 DEF Leads
<1>20. FirstLeast(s) = b  BY <1>12, <1>13, <1>16, <1>18, <1>19, LeastOnly
<1>21. KeptFixed(m, args, f) = FirstLeast(s)  BY <1>8, <1>9, Zenon DEF KeptFixed
<1>22. g \in 0 .. FixedTasks - 1  BY <1>4
<1>23. QED  BY <1>1, <1>5, <1>17, <1>20, <1>21, <1>22

LEMMA GuessPrunes ==
  ASSUME IsBatch(call, plan), plan.guessed, NEW m, Fits(m), Inputs(m), Marked(m),
         FixedPlanned(m)
  PROVE  FixedGuessed(PruneFixedOrderGuess(m, args))
<1>0. PICK n, a : n = PruneFixedOrderGuess(m, a) /\ a = args  OBVIOUS
<1>1. n["tasks"] = PrunedOf(m, a)  BY <1>0, TasksAlone DEF Fits
<1>2. a.frames = plan.frames  BY <1>0, ArgumentsTyped DEF args
<1>3. ASSUME NEW t \in 1 .. Len(plan.tasks), plan.tasks[t].type = "Fixed"
      PROVE  /\ n["tasks"][t].order = plan.tasks[t].order
             /\ n["tasks"][t].size # Pruned <=>
                  plan.tasks[t].order = GuessFixedOrder(OwnSamples(FrameNo(t)))
  <2>1. PICK f \in Frames : f = FrameNo(t)  BY <1>3, FixedFound
  <2>2. PICK k \in 0 .. FixedTasks - 1 : t = FixedAt(f, k)  BY <1>3, <2>1, FixedFound
  <2>3. PICK g \in 0 .. FixedTasks - 1 : g = GuessFixedOrder(OwnSamples(f))
    BY GuessKept
  <2>4. KeptFixed(m, a, f) = FixedAt(f, g)  BY <1>0, <2>3, GuessKept
  <2>5. plan.tasks[FixedAt(f, k)].order = k /\ plan.tasks[FixedAt(f, g)].order = g
    BY FixedOrdersPlanned
  <2>6. t = FixedAt(f, g) <=> k = g  BY <2>2, <2>5
  <2>7. t \in PrunedTasks(m, a) <=> t # FixedAt(f, g)
    <3>1. t \in FixedTasksOf(m, a, f)  BY <1>0, <1>3, <2>1, FixedTasksAre
    <3>2. f \in 0 .. a.frames - 1  BY <1>2 DEF Frames
    <3>3. \A h \in 0 .. a.frames - 1 : t \in FixedTasksOf(m, a, h) => h = f
      BY <1>0, <1>2, <2>1, FixedTasksAre DEF Frames
    <3>4. t \in PrunedTasks(m, a) <=>
            \E h \in 0 .. a.frames - 1 : t \in FixedTasksOf(m, a, h) /\ t # KeptFixed(m, a, h)
      <4>1. PICK H, w : H = 0 .. a.frames - 1
              /\ w = [h \in H |-> FixedTasksOf(m, a, h) \ {KeptFixed(m, a, h)}]
        OBVIOUS
      <4>2. PrunedTasks(m, a) = UNION {w[h] : h \in H}  BY <4>1, Zenon DEF PrunedTasks
      <4>3. t \in PrunedTasks(m, a) <=> \E h \in H : t \in w[h]  BY <4>2
      <4>4. \A h \in H : t \in w[h] <=> t \in FixedTasksOf(m, a, h) /\ t # KeptFixed(m, a, h)
        BY <4>1
      <4>5. QED  BY ONLY <4>1, <4>3, <4>4
    <3>5. QED  BY ONLY <2>4, <3>1, <3>2, <3>3, <3>4
  <2>8. PICK u : u = m["tasks"][t]  OBVIOUS
  <2>9. t \in DOMAIN m["tasks"] /\ DOMAIN u = TaskFields  BY <2>8, TaskInputs
  <2>10. u.order = plan.tasks[t].order /\ u.size = plan.tasks[t].size
    BY <1>3, <2>8 DEF FixedPlanned, AsPlanned
  <2>11. u.size # Pruned  BY <2>2, <2>10, FixedPlaced
  <2>12. PICK z : z = Pruned  OBVIOUS
  <2>13. PICK v : v = [u EXCEPT !.size = z]  OBVIOUS
  <2>14. v.size = z /\ v.order = u.order
    <3>1. "size" \in DOMAIN u /\ "order" \in DOMAIN u  BY <2>9 DEF TaskFields
    <3>2. QED  BY <2>13, <3>1
  <2>15. n["tasks"][t] = IF t \in PrunedTasks(m, a) THEN v ELSE u
    BY <1>1, <2>8, <2>9, <2>12, <2>13, Zenon DEF PrunedOf
  <2>16. plan.tasks[t].order = k  BY <2>2, <2>5
  <2>17. CASE k = g
    <3>1. n["tasks"][t] = u  BY <2>6, <2>7, <2>15, <2>17
    <3>2. QED  BY <2>1, <2>3, <2>10, <2>11, <2>16, <2>17, <3>1
  <2>18. CASE k # g
    <3>1. n["tasks"][t] = v  BY <2>6, <2>7, <2>15, <2>18
    <3>2. QED  BY <2>1, <2>3, <2>10, <2>12, <2>14, <2>16, <2>18, <3>1
  <2>19. QED  BY <2>17, <2>18
<1>4. QED  BY <1>0, <1>3 DEF FixedGuessed

-----------------------------------------------------------------------------
(* The guess in the program, and the invariant of a batch on its way there. *)

\* The commands before the guess, or before the analysis if nothing is guessed.
GuessAt == Uploads + Generations + 1
EarlyCommands == {"FindWastedBits", "ComputeAutocor", "ComputeLpc", "QuantizeLpcOrders"}

LEMMA GuessPlace ==
  ASSUME NEW i \in 1 .. Len(Program)
  PROVE  /\ Uploads \in {0, 1} /\ GuessAt \in Nat /\ GuessAt > Uploads
         /\ AnalyzeAt = GuessAt + Guesses + 1 /\ Guesses \in {0, 1}
         /\ i <= GuessAt => Program[i] = "CopyInputs" \/ Program[i] \in EarlyCommands
         /\ plan.guessed /\ i = GuessAt + 1 => Program[i] = "PruneFixedOrderGuess"
         /\ Program[i] = "AnalyzeSubframeExact" => i = AnalyzeAt
<1> DEFINE u == Uploads
           g == Generations
           h == Guesses
<1>1. u \in {0, 1} /\ g \in {0, 3} /\ h \in {0, 1} /\ (plan.guessed => h = 1)
  BY DEF Uploads, Generations, Guesses
<1>2. ProgramIs(Program, u, g, h)  BY ProgramCells
<1>3. AnalyzeAt = u + g + h + 2 /\ GuessAt = u + g + 1 /\ Uploads = u /\ Guesses = h
  BY DEF AnalyzeAt, GuessAt
<1> HIDE DEF u, g, h
<1>4. PICK P : P = Program  OBVIOUS
<1>5. /\ Len(P) = u + g + h + 6 /\ P[u + 1] = "FindWastedBits"
      /\ u = 1 => P[1] = "CopyInputs"
  BY <1>2, <1>4 DEF ProgramIs
<1>6. g = 3 => P[u + 2] = "ComputeAutocor" /\ P[u + 3] = "ComputeLpc"
               /\ P[u + 4] = "QuantizeLpcOrders"
  BY <1>2, <1>4 DEF ProgramIs
<1>7. h = 1 => P[u + g + 2] = "PruneFixedOrderGuess"  BY <1>2, <1>4 DEF ProgramIs
<1>8. /\ P[u + g + h + 3] = "ChooseBestMethod"
      /\ P[u + g + h + 4] = "WriteBestRiceParameters"
      /\ P[u + g + h + 5] = "ReadBest" /\ P[u + g + h + 6] = "ReadRice"
  BY <1>2, <1>4 DEF ProgramIs
<1>9. i \in 1 .. u + g + h + 6  BY <1>4, <1>5
<1>10. ASSUME i <= u + g + 1 PROVE P[i] = "CopyInputs" \/ P[i] \in EarlyCommands
  <2>1. \/ u = 1 /\ i = 1
        \/ i = u + 1
        \/ g = 3 /\ i \in {u + 2, u + 3, u + 4}
    BY <1>1, <1>9, <1>10
  <2>2. CASE u = 1 /\ i = 1  BY <1>5, <2>2
  <2>3. CASE i = u + 1  BY <1>5, <2>3 DEF EarlyCommands
  <2>4. CASE g = 3 /\ i \in {u + 2, u + 3, u + 4}  BY <1>6, <2>4 DEF EarlyCommands
  <2>5. QED  BY <2>1, <2>2, <2>3, <2>4
<1>11. ASSUME plan.guessed, i = u + g + 1 + 1 PROVE P[i] = "PruneFixedOrderGuess"
  <2>1. i = u + g + 2  BY <1>1, <1>11
  <2>2. QED  BY <1>1, <1>7, <1>11, <2>1
<1>12. ASSUME P[i] = "AnalyzeSubframeExact" PROVE i = u + g + h + 2
  <2>1. \/ i <= u + g + 1
        \/ h = 1 /\ i = u + g + 2
        \/ i = u + g + h + 2
        \/ i \in {u + g + h + 3, u + g + h + 4, u + g + h + 5, u + g + h + 6}
    BY <1>1, <1>9
  <2>2. CASE i <= u + g + 1  BY <1>10, <1>12, <2>2 DEF EarlyCommands
  <2>3. CASE h = 1 /\ i = u + g + 2  BY <1>7, <1>12, <2>3
  <2>4. CASE i \in {u + g + h + 3, u + g + h + 4, u + g + h + 5, u + g + h + 6}
    BY <1>8, <1>12, <2>4
  <2>5. QED  BY <2>1, <2>2, <2>3, <2>4
<1>13. /\ u + g + 1 \in Nat /\ u + g + 1 > u /\ u + g + h + 2 = (u + g + 1) + h + 1
  BY <1>1
<1>14. QED  BY <1>1, <1>3, <1>4, <1>10, <1>11, <1>12, <1>13

\* The fixed tasks are as planned until the guess, and after it what it leaves.
PlannedThere ==
  stage = "running" /\ (api = "opencl" \/ done > 0) /\ done <= GuessAt => FixedPlanned(mem)
GuessedThere ==
  stage = "running" /\ plan.guessed /\ done = GuessAt + 1 => FixedGuessed(mem)

GuessInv == PlannedThere /\ GuessedThere

LEMMA GuessUnmoved ==
  ASSUME UNCHANGED <<api, call, plan>>
  PROVE  /\ \A m : (FixedPlanned(m)' <=> FixedPlanned(m)) /\ (FixedGuessed(m)' <=> FixedGuessed(m))
         /\ GuessAt' = GuessAt
<1>1. api' = api /\ call' = call /\ plan' = plan  OBVIOUS
<1>2. \A f : OwnSamples(f)' = OwnSamples(f)  BY BatchUnmoved
<1>3. \A t : FrameNo(t)' = FrameNo(t)  BY <1>1 DEF FrameNo
<1>4. GuessAt' = GuessAt  BY <1>1, Zenon DEF GuessAt, Uploads, Generations
<1>5. \A m : FixedPlanned(m)' <=> FixedPlanned(m)  BY <1>1 DEF FixedPlanned, AsPlanned
<1>6. \A m : FixedGuessed(m)' <=> FixedGuessed(m)  BY <1>1, <1>2, <1>3 DEF FixedGuessed
<1>7. QED  BY <1>4, <1>5, <1>6

LEMMA InitialGuess == Init => GuessInv
BY DEF Init, GuessInv, PlannedThere, GuessedThere

LEMMA UploadGuess == SessionInv /\ GuessInv /\ Upload => GuessInv'
<1> SUFFICES ASSUME SessionInv, GuessInv, Upload PROVE GuessInv'  OBVIOUS
<1>1. stage = "planned" /\ stage' = "running" /\ api' = api /\ call' = call /\ plan' = plan
      /\ done' = done
  BY DEF Upload
<1>2. IsBatch(call, plan) /\ done = 0  BY <1>1 DEF SessionInv, BatchPlanned, Progress
<1>3. PICK n : n = mem'  OBVIOUS
<1>4. ASSUME api = "opencl" PROVE FixedPlanned(n)
  <2>1. UploadOpenCl  BY <1>4 DEF Upload
  <2>2. Begins(n["tasks"], plan.tasks)  BY <1>1, <1>3, <1>4, <2>1, UploadedOpenCl
  <2>3. QED  BY <2>2, InputsPlanFixed
<1>5. PlannedThere'  BY <1>1, <1>2, <1>3, <1>4, GuessUnmoved DEF PlannedThere
<1>6. PICK i \in 1 .. Len(Program) : i = 1
  <2>1. Len(Program) \in Nat /\ Len(Program) >= 6
    BY ProgramCells DEF ProgramIs, IsBuffer, Uploads, Generations, Guesses
  <2>2. QED  BY <2>1
<1>7. GuessAt \in Nat  BY <1>6, GuessPlace
<1>8. done # GuessAt + 1  BY <1>2, <1>7
<1>9. GuessedThere'  BY <1>1, <1>8, GuessUnmoved DEF GuessedThere
<1>10. QED  BY <1>5, <1>9 DEF GuessInv

LEMMA DeviceStepGuess == SessionInv /\ ResultInv /\ GuessInv /\ DeviceStep => GuessInv'
<1> SUFFICES ASSUME SessionInv, ResultInv, GuessInv, DeviceStep PROVE GuessInv'  OBVIOUS
<1>1. stage = "running" /\ stage' = stage /\ api' = api /\ call' = call /\ plan' = plan
      /\ done < submitted /\ done' = done + 1 /\ mem' = Run(Program[done + 1], mem)
  BY DEF DeviceStep
<1>2. IsBatch(call, plan) /\ api \in {"opencl", "vulkan"}
  BY <1>1 DEF SessionInv, BatchPlanned
<1>3. done \in Nat /\ submitted \in Nat /\ submitted <= Len(Program)
  BY <1>1 DEF SessionInv, Progress
<1>4. Len(Program) \in Nat  BY ProgramCells DEF ProgramIs, IsBuffer
<1>5. PICK i \in 1 .. Len(Program) : i = done + 1  BY <1>1, <1>3, <1>4
<1>6. PICK command : command = Program[i]  OBVIOUS
<1>7. PICK u \in {0, 1}, c \in Nat : u = Uploads /\ c = GuessAt /\ c > u
  BY <1>5, GuessPlace
<1>8. /\ command = "CopyInputs" <=> i = 1 /\ api = "vulkan"
      /\ i <= c => command = "CopyInputs" \/ command \in EarlyCommands
      /\ plan.guessed /\ i = c + 1 => command = "PruneFixedOrderGuess"
  BY <1>2, <1>6, <1>7, ProgramPlaces, GuessPlace
<1>9. PICK m, n : m = mem /\ n = mem'  OBVIOUS
<1>10. n = Run(command, m)  BY <1>1, <1>5, <1>6, <1>9
<1>11. Fits(m)  BY <1>1, <1>9 DEF SessionInv, BuffersKept, LongEnough, Fits
<1>12. i \in Nat  BY <1>4
<1>13. ASSUME i <= c PROVE FixedPlanned(n)
  <2>1. CASE command = "CopyInputs"
    <3>1. api = "vulkan" /\ done = 0  BY <1>3, <1>5, <1>8, <2>1
    <3>2. Staged(m)  BY <1>1, <1>9, <3>1 DEF SessionInv, InputsStaged
    <3>3. n = CopyInputs(m)  BY <1>10, <2>1, RunIs
    <3>4. Begins(n["tasks"], plan.tasks)  BY <1>2, <1>11, <3>1, <3>2, <3>3, CopyGives
    <3>5. QED  BY <3>4, InputsPlanFixed
  <2>2. CASE command # "CopyInputs"
    <3>1. command \in EarlyCommands  BY <1>8, <1>13, <2>2
    <3>2. api = "opencl" \/ done > 0  BY <1>2, <1>3, <1>5, <1>8, <2>2
    <3>3. Inputs(m)  BY <1>1, <1>9, <3>2 DEF SessionInv, InputsThere
    <3>4. done <= GuessAt  BY <1>3, <1>5, <1>7, <1>13
    <3>5. FixedPlanned(m)  BY <1>1, <1>9, <3>2, <3>4 DEF GuessInv, PlannedThere
    <3>6. QED
      BY <1>2, <1>10, <1>11, <3>1, <3>3, <3>5, FixedStaysPlanned DEF EarlyCommands
  <2>3. QED  BY <2>1, <2>2
<1>14. ASSUME plan.guessed, i = c + 1 PROVE FixedGuessed(n)
  <2>1. command = "PruneFixedOrderGuess"  BY <1>8, <1>14
  <2>2. done = c /\ done > u /\ done > 0  BY <1>3, <1>5, <1>7, <1>14
  <2>3. Inputs(m)  BY <1>1, <1>9, <2>2 DEF SessionInv, InputsThere
  <2>4. done <= GuessAt  BY <1>3, <1>7, <2>2
  <2>5. FixedPlanned(m)  BY <1>1, <1>9, <2>2, <2>4 DEF GuessInv, PlannedThere
  <2>6. Marked(m)  BY <1>1, <1>7, <1>9, <2>2 DEF ResultInv, MarkedThere
  <2>7. n = PruneFixedOrderGuess(m, args)  BY <1>10, <2>1, RunIs
  <2>8. QED  BY <1>2, <1>11, <1>14, <2>3, <2>5, <2>6, <2>7, GuessPrunes
<1>15. done' = i  BY <1>1, <1>5
<1>16. PlannedThere'
  BY <1>1, <1>7, <1>9, <1>13, <1>15, GuessUnmoved DEF PlannedThere
<1>17. GuessedThere'
  BY <1>1, <1>7, <1>9, <1>14, <1>15, GuessUnmoved DEF GuessedThere
<1>18. QED  BY <1>16, <1>17 DEF GuessInv

LEMMA OtherStepsGuess ==
  GuessInv /\ (Begin \/ Submit \/ Finish \/ CallFails \/ UNCHANGED vars) => GuessInv'
<1>1. ASSUME stage' # "running" PROVE GuessInv'
  BY <1>1 DEF GuessInv, PlannedThere, GuessedThere
<1>2. Begin \/ Finish \/ CallFails => stage' # "running"  BY DEF Begin, Finish, CallFails
<1>3. ASSUME GuessInv, UNCHANGED <<api, call, stage, plan, mem, done>> PROVE GuessInv'
  BY <1>3, GuessUnmoved DEF GuessInv, PlannedThere, GuessedThere
<1>4. Submit => UNCHANGED <<api, call, stage, plan, mem, done>>  BY DEF Submit
<1>5. UNCHANGED vars => UNCHANGED <<api, call, stage, plan, mem, done>>  BY DEF vars
<1>6. QED  BY <1>1, <1>2, <1>3, <1>4, <1>5

\* What the analysis starts from.
LeftFixed(m, f) ==
  {u \in OwnTasks(f) : m["tasks"][u].type = "Fixed" /\ m["tasks"][u].size # Pruned}

LEMMA OneOrderLeft ==
  ASSUME IsBatch(call, plan), OrderGuess(call.profile), NEW m, Fits(m), Inputs(m),
         plan.guessed => FixedGuessed(m), ~plan.guessed => FixedPlanned(m), NEW f \in Frames
  PROVE  {m["tasks"][t].order : t \in LeftFixed(m, f)} = {GuessFixedOrder(OwnShifted(f))}
<1>1. PICK g : g = GuessFixedOrder(OwnSamples(f))  OBVIOUS
<1>2. GuessFixedOrder(OwnShifted(f)) = g
  <2>1. OwnSamples(f) = OwnShifted(f)  BY OwnShiftedSame
  <2>2. QED  BY <1>1, <2>1
<1>3. \A t : t \in LeftFixed(m, f) <=>
        /\ t \in 1 .. Len(plan.tasks) /\ FrameNo(t) = f
        /\ plan.tasks[t].type = "Fixed" /\ m["tasks"][t].size # Pruned
  <2>1. DOMAIN plan.tasks = 1 .. Len(plan.tasks)  BY BatchSizes DEF IsBuffer
  <2>2. \A t : t \in OwnTasks(f) <=> t \in 1 .. Len(plan.tasks) /\ FrameNo(t) = f
    BY <2>1, Zenon DEF OwnTasks, FrameNo
  <2>3. \A t \in 1 .. Len(plan.tasks) : m["tasks"][t].type = plan.tasks[t].type
    BY TaskInputs
  <2>4. QED  BY <2>2, <2>3, Zenon DEF LeftFixed
<1>4. CASE plan.guessed
  <2>1. ASSUME NEW t \in LeftFixed(m, f) PROVE m["tasks"][t].order = g
    BY <1>1, <1>3, <1>4, <2>1 DEF FixedGuessed
  <2>2. g \in 0 .. FixedTasks - 1
    <3>1. PICK x : x = OwnSamples(f)  OBVIOUS
    <3>2. IsSampleBlock(x) /\ Len(x) = call.block  BY <3>1, OwnTyped
    <3>3. Len(x) > 0  BY <3>2, BatchSizes
    <3>4. PICK M \in 0 .. 4 : M = MaxFixedOrder(x)  BY <3>2, <3>3, GuessLeads
    <3>5. g \in 0 .. M  BY <1>1, <3>1, <3>2, <3>3, <3>4, GuessLeads
    <3>6. FixedTasks = M + 1  BY <1>4, <3>1, <3>4, FixedOrdersPlanned
    <3>7. QED  BY <3>5, <3>6
  <2>3. PICK t : t = FixedAt(f, g)  OBVIOUS
  <2>4. t \in 1 .. Len(plan.tasks) /\ FrameNo(t) = f /\ plan.tasks[t].type = "Fixed"
    BY <2>2, <2>3, FixedPlaced
  <2>5. plan.tasks[t].order = g  BY <1>4, <2>2, <2>3, FixedOrdersPlanned
  <2>6. m["tasks"][t].size # Pruned  BY <1>1, <1>4, <2>4, <2>5 DEF FixedGuessed
  <2>7. t \in LeftFixed(m, f)  BY <1>3, <2>4, <2>6
  <2>8. QED  BY <1>2, <2>1, <2>7
<1>5. CASE ~plan.guessed
  <2>1. FixedTasks = 1 /\ plan.tasks[FixedAt(f, 0)].order = g
    BY <1>1, <1>5, FixedOrdersPlanned
  <2>2. 0 \in 0 .. FixedTasks - 1  BY <2>1
  <2>3. PICK t : t = FixedAt(f, 0)  OBVIOUS
  <2>4. /\ t \in 1 .. Len(plan.tasks) /\ FrameNo(t) = f /\ plan.tasks[t].type = "Fixed"
        /\ plan.tasks[t].size # Pruned
    BY <2>2, <2>3, FixedPlaced
  <2>5. m["tasks"][t].order = g /\ m["tasks"][t].size # Pruned
    BY <1>5, <2>1, <2>3, <2>4 DEF FixedPlanned, AsPlanned
  <2>6. t \in LeftFixed(m, f)  BY <1>3, <2>4, <2>5
  <2>7. ASSUME NEW v \in LeftFixed(m, f) PROVE v = t
    <3>1. v \in 1 .. Len(plan.tasks) /\ FrameNo(v) = f /\ plan.tasks[v].type = "Fixed"
      BY <1>3
    <3>2. PICK k \in 0 .. FixedTasks - 1 : v = FixedAt(f, k)  BY <3>1, FixedFound
    <3>3. k = 0  BY <2>1
    <3>4. QED  BY <2>3, <3>2, <3>3
  <2>8. QED  BY <1>2, <2>5, <2>6, <2>7
<1>6. QED  BY <1>4, <1>5

LEMMA GuessSettled == SessionInv /\ GuessInv => GuessAgreesWithWriter
<1> SUFFICES ASSUME SessionInv, GuessInv, Before("AnalyzeSubframeExact"),
                    OrderGuess(call.profile), NEW f \in Frames
             PROVE  {mem.tasks[t].order : t \in {u \in OwnTasks(f) :
                       mem.tasks[u].type = "Fixed" /\ mem.tasks[u].size # Pruned}}
                      = {GuessFixedOrder(OwnShifted(f))}
  BY DEF GuessAgreesWithWriter
<1>1. stage = "running" /\ done < Len(Program) /\ Program[done + 1] = "AnalyzeSubframeExact"
  BY DEF Before
<1>2. IsBatch(call, plan)  BY <1>1 DEF SessionInv, BatchPlanned
<1>3. done \in Nat  BY <1>1 DEF SessionInv, Progress
<1>4. Len(Program) \in Nat  BY ProgramCells DEF ProgramIs, IsBuffer
<1>5. PICK i \in 1 .. Len(Program) : i = done + 1  BY <1>1, <1>3, <1>4
<1>6. i = AnalyzeAt  BY <1>1, <1>5, GuessPlace
<1>7. PICK u \in {0, 1}, c \in Nat, h \in {0, 1} :
        u = Uploads /\ c = GuessAt /\ h = Guesses /\ c > u /\ AnalyzeAt = c + h + 1
  BY <1>5, GuessPlace
<1>8. done = c + h /\ done > 0  BY <1>3, <1>5, <1>6, <1>7
<1>9. PICK m : m = mem  OBVIOUS
<1>10. Fits(m) /\ Inputs(m)
  BY <1>1, <1>8, <1>9 DEF SessionInv, BuffersKept, LongEnough, Fits, InputsThere
<1>11. ASSUME plan.guessed PROVE FixedGuessed(m)
  <2>1. h = 1  BY <1>7, <1>11 DEF Guesses
  <2>2. done = GuessAt + 1  BY <1>7, <1>8, <2>1
  <2>3. QED  BY <1>1, <1>9, <1>11, <2>2 DEF GuessInv, GuessedThere
<1>12. ASSUME ~plan.guessed PROVE FixedPlanned(m)
  <2>1. h = 0  BY <1>7, <1>12 DEF Guesses
  <2>2. done <= GuessAt  BY <1>7, <1>8, <2>1
  <2>3. QED  BY <1>1, <1>8, <1>9, <2>2 DEF GuessInv, PlannedThere
<1>13. {m["tasks"][t].order : t \in LeftFixed(m, f)} = {GuessFixedOrder(OwnShifted(f))}
  BY <1>2, <1>10, <1>11, <1>12, OneOrderLeft
<1>14. QED  BY <1>9, <1>13 DEF LeftFixed

\* A batch's tasks, wasted bits and results are what its commands so far make of them.
THEOREM ResultInvariance == Spec => []ResultInv
<1>1. Init => ResultInv  BY InitialResults
<1>2. SessionInv /\ ResultInv /\ [Next]_vars => ResultInv'
  BY UploadResults, DeviceStepResults, FinishResults, OtherStepsResults DEF Next
<1>3. QED  BY <1>1, <1>2, SessionInvariance, PTL DEF Spec

-----------------------------------------------------------------------------
(* What the runs check.                                                    *)

\* The session refuses no call its options allow, except a Vulkan call with LPC for
\* blocks too short to get LPC tasks (validate_options, build_vulkan_mixed_lpc_task_plan).
THEOREM CallsAreTaken == Spec => []LegalCallsAccepted
BY SessionInvariance, RefusedCalls, PTL

\* Whatever batches came before, no kernel indexes past a buffer of this one, nor past
\* the local memory of its work group (ensure_opencl_buffer, ensure_device_buffer).
THEOREM NothingReachedBeyond == Spec => []BuffersFit
BY SessionInvariance, NothingBeyond, PTL

\* The coefficients of a frame come from its own samples, without the wasted bits the
\* writer will take off, seen through the windows of this batch (cached_window_valid).
THEOREM CoefficientsAreOwn == Spec => []CoefficientsFromOwnFrame
BY SessionInvariance, OwnCoefficients, PTL

\* Every frame of a batch that returns gets a least candidate of its own group, with
\* that candidate's Rice parameters, though the session's buffers hold what other batches
\* left in them and the two searches for the least are made apart
\* (ldcompressChooseBestMethod, ldcompressWriteBestRiceParameters).
THEOREM BestIsOfOwnFrame == Spec => []BestOfOwnFrame
<1>1. ResultInv => BestOfOwnFrame  BY DEF ResultInv
<1>2. QED  BY <1>1, ResultInvariance, PTL

\* When the analysis starts, the fixed tasks left of a frame have one order, the one the
\* CPU writer guesses from the same frame: whether the host guessed it before the wasted
\* bits went, or the device pruned the others, with sums of its own formulas over the
\* shifted samples (guess_fixed_order, ldcompressPruneFixedOrderGuess).
THEOREM GuessIsTheWriters == Spec => []GuessAgreesWithWriter
<1>1. Init => GuessInv  BY InitialGuess
<1>2. SessionInv /\ ResultInv /\ GuessInv /\ [Next]_vars => GuessInv'
  BY UploadGuess, DeviceStepGuess, OtherStepsGuess DEF Next
<1>3. SessionInv /\ GuessInv => GuessAgreesWithWriter  BY GuessSettled
<1>4. QED  BY <1>1, <1>2, <1>3, SessionInvariance, ResultInvariance, PTL DEF Spec
=============================================================================
