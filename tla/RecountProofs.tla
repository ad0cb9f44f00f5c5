--------------------------- MODULE RecountProofs ---------------------------
(* What the arithmetic of module Recount computes, for every size of the tick and
   of the int, every minimum time and every number of workers.                *)
EXTENDS Recount, FiniteSetTheorems, WellFoundedInduction, TLAPS

-----------------------------------------------------------------------------
(* Division. *)

LEMMA DivIs ==
  ASSUME NEW a \in Nat, NEW b \in Nat \ {0}
  PROVE  a \div b \in Nat /\ b * (a \div b) <= a /\ a < b * (a \div b) + b
OBVIOUS

LEMMA ModSmall ==
  ASSUME NEW a \in Nat, NEW b \in Nat, a < b
  PROVE  a % b = a
OBVIOUS

(* A product of natural numbers is one, and is monotonic. *)
LEMMA Product ==
  ASSUME NEW a \in Nat, NEW b \in Nat
  PROVE  a * b \in Nat
OBVIOUS

LEMMA Monotonic ==
  ASSUME NEW a \in Nat, NEW b \in Nat, NEW c \in Nat, a <= b
  PROVE  a * c <= b * c
OBVIOUS

LEMMA Cancel ==
  ASSUME NEW a \in Int, NEW b \in Int, NEW c \in Nat \ {0}, c * a <= c * b
  PROVE  a <= b
OBVIOUS

(* A quotient is at least q if the dividend is at least q times the divisor. *)
LEMMA DivAtLeast ==
  ASSUME NEW a \in Nat, NEW b \in Nat \ {0}, NEW q \in Nat, b * q <= a
  PROVE  q <= a \div b
OBVIOUS

-----------------------------------------------------------------------------
(* The largest of a finite set of numbers. *)

LEMMA LeastOf ==
  ASSUME NEW T \in SUBSET Nat, T # {}
  PROVE  \E i \in T : \A j \in T : i <= j
<1> DEFINE R == {ss \in Nat \X Nat : ss[1] < ss[2]}
<1>1. IsWellFoundedOn(R, Nat)
  BY NatLessThanWellFounded DEF OpToRel
<1>2. \A i, j \in Nat : <<j, i>> \notin R => i <= j
  OBVIOUS
<1> HIDE DEF R
<1>3. PICK i \in T : \A j \in T : <<j, i>> \notin R
  BY <1>1, WFMin
<1> QED
  BY <1>2, <1>3

HasMax(S) == \E m \in S : \A x \in S : x <= m

(* By contradiction: of the sets that have no largest element take one with the
   fewest elements, and remove one.                                           *)
LEMMA MaxExists ==
  ASSUME NEW S \in SUBSET Int, S # {}, IsFiniteSet(S)
  PROVE  HasMax(S)
<1> SUFFICES ASSUME ~HasMax(S)
             PROVE  FALSE
  OBVIOUS
<1> DEFINE Bad(Q) == Q # {} /\ IsFiniteSet(Q) /\ ~HasMax(Q)
           Sizes == {n \in Nat : \E Q \in SUBSET Int : Bad(Q) /\ Cardinality(Q) = n}
<1>1. Cardinality(S) \in Sizes
  BY FS_CardinalityType
<1>2. PICK n \in Sizes : \A k \in Sizes : n <= k
  BY <1>1, LeastOf
<1>3. PICK Q \in SUBSET Int : Bad(Q) /\ Cardinality(Q) = n
  BY <1>2
<1>4. PICK x \in Q : TRUE
  BY <1>3
<1>5. IsFiniteSet(Q \ {x}) /\ Cardinality(Q \ {x}) = n - 1 /\ Cardinality(Q \ {x}) \in Nat
  BY <1>3, <1>4, FS_RemoveElement, FS_CardinalityType
<1>6. CASE Q \ {x} = {}
  <2>1. Q = {x}
    BY <1>4, <1>6
  <2> QED
    BY <1>3, <2>1 DEF HasMax
<1>7. CASE Q \ {x} # {}
  <2>1. HasMax(Q \ {x})
    <3>1. n - 1 \notin Sizes
      BY <1>2
    <3> QED
      BY <1>3, <1>5, <1>7, <3>1
  <2>2. PICK m \in Q \ {x} : \A y \in Q \ {x} : y <= m
    BY <2>1 DEF HasMax
  <2>3. HasMax(Q)
    <3>1. CASE x <= m
      BY <1>3, <2>2, <3>1 DEF HasMax
    <3>2. CASE ~(x <= m)
      <4>1. \A y \in Q : y <= x
        BY <1>3, <1>4, <2>2, <3>2
      <4> QED
        BY <1>4, <4>1 DEF HasMax
    <3> QED
      BY <3>1, <3>2
  <2> QED
    BY <1>3, <2>3
<1> QED
  BY <1>6, <1>7

LEMMA MaxIs ==
  ASSUME NEW S \in SUBSET Int, S # {}, IsFiniteSet(S)
  PROVE  Max(S) \in S /\ \A x \in S : x <= Max(S)
<1>1. \E m \in S : \A x \in S : m >= x
  BY MaxExists DEF HasMax
<1>2. Max(S) \in S /\ \A x \in S : Max(S) >= x
  BY <1>1 DEF Max
<1> QED
  BY <1>2

(* The largest of the values that f has on a finite set. *)
LEMMA MaxOver ==
  ASSUME NEW D, IsFiniteSet(D), D # {}, NEW f \in [D -> Int]
  PROVE  /\ \E x \in D : f[x] = Max({f[y] : y \in D})
         /\ \A x \in D : f[x] <= Max({f[y] : y \in D})
<1> DEFINE S == {f[y] : y \in D}
<1>1. f \in Surjection(D, S)
  BY DEF Surjection, Range
<1>2. IsFiniteSet(S)
  BY <1>1, FS_Surjection
<1>3. S \in SUBSET Int /\ S # {}
  OBVIOUS
<1>4. Max(S) \in S /\ \A x \in S : x <= Max(S)
  BY <1>2, <1>3, MaxIs
<1> QED
  BY <1>4

-----------------------------------------------------------------------------
(* The minimum time. *)

LEMMA ThresholdType ==
  ASSUME NEW minTime \in Nat
  PROVE  Threshold(minTime) \in Int
<1>1. minTime * Second \in Nat
  BY RecountAssumption, Product
<1>2. (minTime * Second + IntMax + 1) % (2 * (IntMax + 1)) \in Int
  BY <1>1, RecountAssumption
<1> QED
  BY <1>2, RecountAssumption DEF Threshold

(* A minimum time that fits into an int is what the program compares with. *)
LEMMA ThresholdIs ==
  ASSUME NEW minTime \in Nat, ~Overflows(minTime)
  PROVE  Threshold(minTime) = minTime * Second /\ minTime * Second \in Nat
<1>1. minTime * Second \in Nat /\ minTime * Second <= IntMax
  BY RecountAssumption, Product DEF Overflows
<1> DEFINE m == minTime * Second
<1> HIDE DEF m
<1>2. m \in Nat /\ m <= IntMax
  BY <1>1 DEF m
<1>3. /\ m + IntMax + 1 \in Nat /\ 2 * (IntMax + 1) \in Nat
      /\ m + IntMax + 1 < 2 * (IntMax + 1)
  BY <1>2, RecountAssumption
<1>4. (m + IntMax + 1) % (2 * (IntMax + 1)) = m + IntMax + 1
  BY <1>3, ModSmall
<1>5. Threshold(minTime) = m
  BY <1>2, <1>4, RecountAssumption DEF Threshold, m
<1> QED
  BY <1>1, <1>5 DEF m

-----------------------------------------------------------------------------
(* The durations of the streams of a direction. *)

(* Everybody's duration lasts at least until its own last packet.  The longest of
   them is not shorter than the time in which packets came, longer by at most
   the timeout, and just that time if nobody or everybody ran into the timeout. *)
THEOREM DurationsFair ==
  ASSUME NEW D, IsFiniteSet(D), D # {}, NEW own \in [D -> Nat], NEW cut \in [D -> BOOLEAN]
  PROVE  LET time == Durations(own, cut)
             came == Max({own[w] : w \in D})
             longest == Max({time[w] : w \in D})
         IN  /\ time \in [D -> Nat]
             /\ \A w \in D : own[w] <= time[w]
             /\ came <= longest /\ longest <= came + StreamRun * Second
             /\ (\A w, u \in D : cut[w] = cut[u]) => \A w \in D : time[w] = came
<1> DEFINE W(w) == IF cut[w] THEN StreamRun * Second ELSE 0
           total == [w \in D |-> own[w] + W(w)]
           end == Max({total[w] : w \in D})
           time == Durations(own, cut)
           came == Max({own[w] : w \in D})
           longest == Max({time[w] : w \in D})
<1>0. DOMAIN own = D
  OBVIOUS
<1>1. StreamRun * Second \in Nat
  BY RecountAssumption, Product
<1>2. \A w \in D : own[w] \in Nat /\ W(w) \in Nat /\ W(w) <= StreamRun * Second
                   /\ total[w] = own[w] + W(w)
  BY <1>1
<1>3. total \in [D -> Int] /\ own \in [D -> Int]
  BY <1>2
<1>4. (\E x \in D : total[x] = end) /\ \A x \in D : total[x] <= end
  <2> HIDE DEF total
  <2> QED
    BY <1>3, MaxOver
<1>5. (\E x \in D : own[x] = came) /\ \A x \in D : own[x] <= came
  BY <1>3, MaxOver
<1>6. \A w \in D : time[w] = end - W(w)
  <2>1. {own[w] + W(w) : w \in D} = {total[w] : w \in D}
    BY <1>2
  <2>2. time = [w \in D |-> Max({own[u] + W(u) : u \in D}) - W(w)]
    BY <1>0 DEF Durations
  <2> QED
    BY <2>1, <2>2
<1>7. time \in [D -> Nat] /\ \A w \in D : own[w] <= time[w]
  <2>1. DOMAIN time = D /\ time = [w \in D |-> time[w]]
    BY <1>0 DEF Durations
  <2> HIDE DEF time, total, W, end
  <2>2. \A w \in D : own[w] <= time[w] /\ time[w] \in Nat
    BY <1>2, <1>4, <1>6
  <2> QED
    BY <2>1, <2>2
<1> HIDE DEF time, total, W, end, came
<1>8. (\E x \in D : time[x] = longest) /\ \A x \in D : time[x] <= longest
  <2>1. time \in [D -> Int]
    BY <1>7
  <2> QED
    BY <2>1, MaxOver
<1> HIDE DEF longest
<1>9. came \in Nat /\ longest \in Nat /\ end \in Nat
  BY <1>2, <1>4, <1>5, <1>7, <1>8
<1>10. came <= longest
  BY <1>2, <1>5, <1>7, <1>8, <1>9
<1>11. longest <= came + StreamRun * Second
  <2>1. PICK x \in D : total[x] = end
    BY <1>4
  <2>2. end <= came + StreamRun * Second
    BY <1>1, <1>2, <1>5, <1>9, <2>1
  <2> QED
    BY <1>1, <1>2, <1>6, <1>8, <1>9, <2>2
<1>12. ASSUME \A w, u \in D : cut[w] = cut[u]
       PROVE  \A w \in D : time[w] = came
  <2>1. \A w, u \in D : W(w) = W(u)
    BY <1>12 DEF W
  <2>2. PICK x \in D : total[x] = end
    BY <1>4
  <2>3. PICK y \in D : own[y] = came
    BY <1>5
  <2>4. total[y] <= end /\ own[x] <= came
    BY <1>4, <1>5
  <2>5. end = came + W(x)
    BY <1>2, <1>9, <2>1, <2>2, <2>3, <2>4
  <2> QED
    BY <1>2, <1>6, <1>9, <2>1, <2>5
<1> QED
  BY <1>7, <1>10, <1>11, <1>12 DEF time, came, longest

-----------------------------------------------------------------------------
(* The next count. *)

LEMMA ToleranceIs ==
  ASSUME NEW async
  PROVE  Tolerance(async) \in Nat /\ Tolerance(async) >= 120
BY DEF Tolerance

LEMMA MultipliedType ==
  ASSUME NEW count \in Nat, NEW t \in Nat, NEW minTime \in Nat, NEW countMul \in Nat,
         NEW async
  PROVE  Multiplied(count, t, minTime, countMul, async) \in Nat
<1> DEFINE time == IF t = 0 THEN 1 ELSE t
           T == Threshold(minTime)
           tol == Tolerance(async)
<1>1. time \in Nat \ {0} /\ T \in Int /\ tol \in Nat
  BY ThresholdType, ToleranceIs
<1>2. /\ Multiplied(count, t, minTime, countMul, async) =
           IF countMul # 0 THEN count * countMul
           ELSE IF T < time THEN (count * tol) \div 100
           ELSE (count * T * tol) \div (time * 100)
  BY DEF Multiplied
<1> HIDE DEF time, T, tol
<1>3. CASE countMul # 0
  BY <1>2, <1>3, Product
<1>4. CASE countMul = 0 /\ T < time
  <2>1. count * tol \in Nat
    BY <1>1, Product
  <2>2. (count * tol) \div 100 \in Nat
    BY <2>1, DivIs
  <2> QED
    BY <1>2, <1>4, <2>2
<1>5. CASE countMul = 0 /\ ~(T < time)
  <2>1. T \in Nat
    BY <1>1, <1>5
  <2>2. count * T \in Nat
    BY <2>1, Product
  <2>3. (count * T) * tol \in Nat
    BY <1>1, <2>2, Product
  <2>4. time * 100 \in Nat \ {0}
    BY <1>1
  <2>5. ((count * T) * tol) \div (time * 100) \in Nat
    BY <2>3, <2>4, DivIs
  <2> QED
    BY <1>2, <1>5, <2>5
<1> QED
  BY <1>3, <1>4, <1>5

(* A recount raises the count, however short or long the stream was: no rounding
   keeps a test in the same round for ever, because a count is at least 5 and
   the tolerance at least a fifth.                                            *)
THEOREM RecountRaises ==
  ASSUME NEW count \in Nat, 5 <= count, NEW t \in Nat, NEW minTime \in Nat,
         NEW countMul \in Nat \ {1}, NEW async
  PROVE  Multiplied(count, t, minTime, countMul, async) > count
<1> DEFINE time == IF t = 0 THEN 1 ELSE t
           T == Threshold(minTime)
           tol == Tolerance(async)
<1>1. time \in Nat \ {0} /\ T \in Int /\ tol \in Nat /\ tol >= 120
  BY ThresholdType, ToleranceIs
<1>2. /\ Multiplied(count, t, minTime, countMul, async) =
           IF countMul # 0 THEN count * countMul
           ELSE IF T < time THEN (count * tol) \div 100
           ELSE (count * T * tol) \div (time * 100)
  BY DEF Multiplied
<1> HIDE DEF time, T, tol
<1>3. CASE countMul # 0
  <2>1. 2 * count <= countMul * count
    BY <1>3, Monotonic
  <2> QED
    BY <1>2, <1>3, <2>1
<1>4. 120 * count <= tol * count /\ tol * count \in Nat /\ tol * count = count * tol
  BY <1>1, Monotonic, Product
<1>5. CASE countMul = 0 /\ T < time
  <2>1. 100 * (count + 1) <= count * tol
    BY <1>4
  <2>2. count + 1 <= (count * tol) \div 100
    BY <1>4, <2>1, DivAtLeast
  <2>3. (count * tol) \div 100 \in Nat
    BY <1>4, DivIs
  <2> QED
    BY <1>2, <1>5, <2>2, <2>3
<1>6. CASE countMul = 0 /\ ~(T < time)
  <2>1. T \in Nat /\ time <= T
    BY <1>1, <1>6
  <2> DEFINE k == count * tol
  <2>2. k \in Nat /\ 100 * (count + 1) <= k
    BY <1>4
  <2> HIDE DEF k
  <2>3. time * k <= T * k /\ T * k \in Nat
    BY <1>1, <2>1, <2>2, Monotonic, Product
  <2>4. (100 * (count + 1)) * time <= k * time
    BY <1>1, <2>2, Monotonic
  <2>5. (time * 100) * (count + 1) = (100 * (count + 1)) * time
    BY <1>1
  <2>6. k * time = time * k
    BY <1>1, <2>2
  <2>7. (count * T) * tol = T * k
    BY <1>1, <2>1 DEF k
  <2>8. time * 100 \in Nat \ {0} /\ (time * 100) * (count + 1) \in Nat
    BY <1>1
  <2>9. (time * 100) * (count + 1) <= T * k
    BY <2>3, <2>4, <2>5, <2>6, <2>8, <1>1, <2>2
  <2>10. count + 1 <= (T * k) \div (time * 100)
    BY <2>3, <2>8, <2>9, DivAtLeast
  <2>11. (T * k) \div (time * 100) \in Nat
    BY <2>3, <2>8, DivIs
  <2> QED
    BY <1>2, <1>6, <2>7, <2>10, <2>11
<1> QED
  BY <1>3, <1>5, <1>6

(* The default recount of a stream that was too short, in a division that can be
   reasoned about.                                                            *)
LEMMA MultipliedIs ==
  ASSUME NEW count \in Nat, NEW t \in Nat \ {0}, NEW minTime \in Nat, NEW async,
         ~Overflows(minTime), t < minTime * Second
  PROVE  LET raised == Multiplied(count, t, minTime, 0, async)
             goal == count * (minTime * Second) * Tolerance(async)
         IN  /\ raised \in Nat /\ goal \in Nat
             /\ (t * 100) * raised <= goal /\ goal < (t * 100) * raised + t * 100
<1> DEFINE T == minTime * Second
           tol == Tolerance(async)
<1>1. Threshold(minTime) = T /\ T \in Nat
  BY ThresholdIs
<1>2. tol \in Nat
  BY ToleranceIs
<1>3. Multiplied(count, t, minTime, 0, async) = (count * T * tol) \div (t * 100)
  BY <1>1 DEF Multiplied
<1> HIDE DEF T, tol
<1>4. count * T \in Nat
  BY <1>1, Product
<1>5. (count * T) * tol \in Nat
  BY <1>2, <1>4, Product
<1>6. t * 100 \in Nat \ {0}
  OBVIOUS
<1> QED
  BY <1>3, <1>5, <1>6, DivIs DEF T, tol

(* On a link that takes r tenths of a tick per packet, a stream of count packets
   that was too short is long enough after one recount: what the division cuts
   off the new count is less than what the tolerance adds.                    *)
THEOREM RecountSuffices ==
  ASSUME NEW count \in Nat, 5 <= count, NEW r \in Nat \ {0}, 10 <= count * r,
         NEW minTime \in Nat, ~Overflows(minTime), NEW async,
         (count * r) \div 10 < minTime * Second
  PROVE  LET raised == Multiplied(count, (count * r) \div 10, minTime, 0, async)
         IN  (raised * r) \div 10 >= minTime * Second
<1> DEFINE X == count * r
           M == X \div 10
           T == minTime * Second
           tol == Tolerance(async)
           c == Multiplied(count, M, minTime, 0, async)
<1>1. X \in Nat /\ 10 <= X
  BY Product
<1>2. T \in Nat
  BY ThresholdIs
<1>3. tol \in Nat /\ 120 <= tol
  BY ToleranceIs
<1> HIDE DEF X
<1>4. M \in Nat \ {0} /\ 10 * M <= X /\ X < 10 * M + 10
  BY <1>1
<1>5. M < T
  BY DEF X
<1>6. c \in Nat /\ count * T * tol \in Nat /\ count * T * tol < (M * 100) * c + M * 100
  <2> HIDE DEF M
  <2> QED
    BY <1>4, <1>5, MultipliedIs
<1>7. (c * r) \div 10 = (Multiplied(count, (count * r) \div 10, minTime, 0, async) * r) \div 10
  BY DEF X
<1> HIDE DEF M, T, tol, c
<1>8. count * T \in Nat /\ (count * T) * 120 <= (count * T) * tol
  <2>1. count * T \in Nat
    BY <1>2, Product
  <2> DEFINE k == count * T
  <2> HIDE DEF k
  <2>2. k \in Nat
    BY <2>1 DEF k
  <2>3. 120 * k <= tol * k
    BY <1>3, <2>2, Monotonic
  <2>4. k * 120 <= k * tol
    BY <1>3, <2>2, <2>3
  <2> QED
    BY <2>1, <2>4 DEF k
<1>9. (count * T) * 120 < 100 * (M * (c + 1))
  <2>1. (M * 100) * c + M * 100 = 100 * (M * (c + 1))
    BY <1>4, <1>6
  <2>2. 100 * (M * (c + 1)) \in Nat
    BY <1>4, <1>6
  <2>3. (count * T) * 120 \in Nat
    BY <1>8
  <2> QED
    BY <1>6, <1>8, <2>1, <2>2, <2>3
<1>10. X * T \in Nat /\ (10 * M) * T <= X * T
  BY <1>1, <1>2, <1>4, Monotonic, Product
<1>11. 12 * T < (c + 1) * r
  <2>1. ((count * T) * 120) * r < (100 * (M * (c + 1))) * r
    BY <1>4, <1>6, <1>8, <1>9
  <2>2. ((count * T) * 120) * r = 120 * (X * T)
    BY <1>2 DEF X
  <2>3. (100 * (M * (c + 1))) * r = (100 * M) * ((c + 1) * r)
    BY <1>4, <1>6
  <2>4. 120 * ((10 * M) * T) = (100 * M) * (12 * T)
    BY <1>2, <1>4
  <2>5. (100 * M) * (12 * T) < (100 * M) * ((c + 1) * r)
    <3> DEFINE u == (10 * M) * T
               v == X * T
               e == (100 * M) * (12 * T)
               g == (100 * M) * ((c + 1) * r)
    <3>1. u \in Nat /\ v \in Nat /\ e \in Nat /\ g \in Nat
      BY <1>2, <1>4, <1>6, <1>10
    <3>2. u <= v /\ 120 * u = e /\ 120 * v < g
      BY <1>10, <2>1, <2>2, <2>3, <2>4
    <3> HIDE DEF u, v, e, g
    <3>3. e < g
      BY <3>1, <3>2
    <3> QED
      BY <3>3 DEF e, g
  <2> DEFINE a == 12 * T
             b == (c + 1) * r
             k == 100 * M
  <2>6. a \in Nat /\ b \in Nat /\ k \in Nat \ {0}
    BY <1>2, <1>4, <1>6
  <2>7. k * a < k * b
    BY <2>5
  <2> HIDE DEF a, b, k
  <2>8. ~(b <= a)
    <3> SUFFICES ASSUME b <= a
                 PROVE  FALSE
      OBVIOUS
    <3>1. b * k <= a * k
      BY <2>6, Monotonic
    <3> QED
      BY <2>6, <2>7, <3>1
  <2>9. a < b
    BY <2>6, <2>8
  <2> QED
    BY <2>9 DEF a, b
<1>12. r < 2 * T
  <2>1. 5 * r <= count * r
    BY Monotonic
  <2> QED
    BY <1>1, <1>2, <1>4, <1>5, <2>1 DEF X
<1>13. 10 * T <= c * r /\ c * r \in Nat
  <2>1. (c + 1) * r = c * r + r
    BY <1>6
  <2>2. c * r \in Nat
    BY <1>6, Product
  <2> DEFINE y == c * r
  <2> HIDE DEF y
  <2>3. y \in Nat /\ 12 * T < y + r
    BY <1>11, <2>1, <2>2 DEF y
  <2>4. 10 * T <= y
    BY <1>2, <1>12, <2>3
  <2> QED
    BY <2>2, <2>4 DEF y
<1>14. T <= (c * r) \div 10
  BY <1>2, <1>13, DivAtLeast
<1>15. (c * r) \div 10 \in Nat
  BY <1>13, DivIs
<1> QED
  BY <1>2, <1>7, <1>14, <1>15 DEF T
=============================================================================
