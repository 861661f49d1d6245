--------------------------- MODULE ArtifactProofs ---------------------------
(***************************************************************************)
(* What is done to the two artifacts after they are built.                 *)
(*   - The repair of conv inputs in the quantized HAR, for layers of any   *)
(*     number of inputs under any names and widths: greedy matching is     *)
(*     complete, and it is stable.                                         *)
(*   - The resources of a HEF under patches, for all sizes, tokenizers and *)
(*     numbers of patches: what a patch has verified is what the server    *)
(*     runs with, the other resources stay as they were built, and the     *)
(*     audit reads what the descriptors sign.                              *)
(***************************************************************************)
EXTENDS ConvInputs, HefFile, SequenceTheorems, FiniteSetTheorems,
        WellFoundedInduction, TLAPS

(***************************************************************************)
(* The repair of conv inputs.                                              *)
(***************************************************************************)
HnLayer == [type : STRING, input : Seq(DOMAIN Feat), want : Seq(Nat \ {0})]

(* Only inputs of convs change, and none of a layer the loop has not seen. *)
LayersInv ==
  /\ parsed \in Nets
  /\ layers \in Seq(HnLayer) /\ Len(layers) = Len(parsed)
  /\ at \in Nat \ {0}
  /\ pc \in {"scan", "match", "written"}
  /\ pc = "match" => at <= Len(layers) /\ Misaligned(Layer)
  /\ pc = "written" => at > Len(layers)
  /\ \A k \in 1 .. Len(layers) : at <= k => layers[k] = parsed[k]

(* What the layers behind the loop are like. *)
SeenInv ==
  \A k \in 1 .. Len(layers) : k < at =>
    /\ Misaligned(layers[k]) => ~ Alignable(parsed[k]) /\ layers[k] = parsed[k]
    /\ StableOrder(layers[k].input, parsed[k].input)

Changed == { k \in 1 .. Len(layers) : layers[k] # parsed[k] }
CountInv == fixed = Cardinality(Changed)

(* Where the inputs placed and those still in the pool come from: f and g  *)
(* have all places of the layer's inputs between them, the pool keeps      *)
(* their order, and what was placed came before what is left of its width. *)
ComesFrom(input, new, rest, f, g) ==
  /\ f \in [1 .. Len(new) -> 1 .. Len(input)]
  /\ g \in [1 .. Len(rest) -> 1 .. Len(input)]
  /\ \A i \in 1 .. Len(new) : new[i] = input[f[i]]
  /\ \A i \in 1 .. Len(rest) : rest[i] = input[g[i]]
  /\ \A m \in 1 .. Len(input) :
       (\E i \in 1 .. Len(new) : f[i] = m) \/ (\E i \in 1 .. Len(rest) : g[i] = m)
  /\ \A i, j \in 1 .. Len(rest) : i < j => g[i] < g[j]
  /\ \A i, j \in 1 .. Len(new) : i < j /\ Feat[new[i]] = Feat[new[j]] => f[i] < f[j]
  /\ \A i \in 1 .. Len(new), j \in 1 .. Len(rest) : Feat[new[i]] = Feat[rest[j]] => f[i] < g[j]

(* Each width still to come has an input of its own in the pool.           *)
Serves(want, done, rest, h) ==
  /\ h \in [done + 1 .. Len(want) -> 1 .. Len(rest)]
  /\ \A i, j \in done + 1 .. Len(want) : h[i] = h[j] => i = j
  /\ \A i \in done + 1 .. Len(want) : Feat[rest[h[i]]] = want[i]

MatchInv ==
  pc = "match" =>
    /\ placed \in Seq(DOMAIN Feat) /\ pool \in Seq(DOMAIN Feat)
    /\ Len(placed) + Len(pool) = Len(Layer.input)
    /\ \A i \in 1 .. Len(placed) : Feat[placed[i]] = Layer.want[i]
    /\ \E f \in [1 .. Len(placed) -> 1 .. Len(Layer.input)],
           g \in [1 .. Len(pool) -> 1 .. Len(Layer.input)] :
         ComesFrom(Layer.input, placed, pool, f, g)
    /\ Alignable(Layer) =>
         \E h \in [Len(placed) + 1 .. Len(Layer.want) -> 1 .. Len(pool)] :
           Serves(Layer.want, Len(placed), pool, h)

ConvInv == LayersInv /\ SeenInv /\ CountInv /\ MatchInv

-----------------------------------------------------------------------------

(* Removing one element shifts those behind it. *)
LEMMA RemoveAtShifts ==
  ASSUME NEW S, NEW s \in Seq(S), NEW i \in 1 .. Len(s)
  PROVE  /\ RemoveAt(s, i) \in Seq(S)
         /\ Len(RemoveAt(s, i)) = Len(s) - 1
         /\ \A j \in 1 .. Len(s) - 1 : RemoveAt(s, i)[j] = IF j < i THEN s[j] ELSE s[j + 1]
<1>. DEFINE front == SubSeq(s, 1, i - 1)
            back  == SubSeq(s, i + 1, Len(s))
<1>0. Len(s) \in Nat /\ \A j \in 1 .. Len(s) : s[j] \in S
  BY LenProperties, ElementOfSeq
<1>1. front \in Seq(S) /\ Len(front) = i - 1 /\ \A j \in 1 .. i - 1 : front[j] = s[j]
  BY <1>0, SubSeqProperties, Z3
<1>2. /\ back \in Seq(S) /\ Len(back) = Len(s) - i
      /\ \A j \in 1 .. Len(s) - i : back[j] = s[i + j]
  <2>1. \A j \in i + 1 .. Len(s) : s[j] \in S
    BY <1>0
  <2>2. /\ back \in Seq(S)
        /\ Len(back) = IF i + 1 <= Len(s) THEN Len(s) - (i + 1) + 1 ELSE 0
        /\ \A j \in 1 .. Len(s) - (i + 1) + 1 : back[j] = s[(i + 1) + j - 1]
    BY <1>0, <2>1, SubSeqProperties
  <2>. QED BY <1>0, <2>2
<1>. HIDE DEF front, back
<1>3. /\ front \o back \in Seq(S)
      /\ Len(front \o back) = Len(s) - 1
      /\ \A j \in 1 .. Len(s) - 1 : (front \o back)[j] = IF j <= i - 1 THEN front[j] ELSE back[j - (i - 1)]
  <2>1. /\ front \o back \in Seq(S)
        /\ Len(front \o back) = Len(front) + Len(back)
        /\ \A j \in 1 .. Len(front) + Len(back) :
             (front \o back)[j] = IF j <= Len(front) THEN front[j] ELSE back[j - Len(front)]
    BY <1>1, <1>2, ConcatProperties
  <2>2. Len(front) = i - 1 /\ Len(front) + Len(back) = Len(s) - 1
    BY <1>0, <1>1, <1>2
  <2>. QED BY <2>1, <2>2
<1>4. \A j \in 1 .. Len(s) - 1 : (front \o back)[j] = IF j < i THEN s[j] ELSE s[j + 1]
  <2>1. ASSUME NEW j \in 1 .. Len(s) - 1, j < i PROVE (front \o back)[j] = s[j]
    <3>1. j \in 1 .. i - 1
      BY <1>0, <2>1
    <3>. QED BY <1>0, <1>1, <1>3, <2>1, <3>1
  <2>2. ASSUME NEW j \in 1 .. Len(s) - 1, ~ (j < i) PROVE (front \o back)[j] = s[j + 1]
    <3>1. j - (i - 1) \in 1 .. Len(s) - i /\ i + (j - (i - 1)) = j + 1 /\ ~ (j <= i - 1)
      BY <1>0, <2>2
    <3>2. (front \o back)[j] = back[j - (i - 1)]
      BY <1>3, <3>1
    <3>. QED BY <1>2, <3>1, <3>2
  <2>. QED BY <2>1, <2>2
<1>. QED BY <1>3, <1>4 DEF RemoveAt, front, back

(* The input the loop takes leaves a pool that still comes from the layer. *)
LEMMA TakeFirst ==
  ASSUME NEW input \in Seq(DOMAIN Feat), NEW new \in Seq(DOMAIN Feat), NEW rest \in Seq(DOMAIN Feat),
         NEW f, NEW g, ComesFrom(input, new, rest, f, g),
         NEW i \in 1 .. Len(rest),
         \A j \in 1 .. Len(rest) : Feat[rest[j]] = Feat[rest[i]] => i <= j
  PROVE  \E ff \in [1 .. Len(new) + 1 -> 1 .. Len(input)], gg \in [1 .. Len(rest) - 1 -> 1 .. Len(input)] :
           ComesFrom(input, Append(new, rest[i]), RemoveAt(rest, i), ff, gg)
<1>. DEFINE n  == Len(new) + 1
            m  == Len(rest) - 1
            ff == [ j \in 1 .. n |-> IF j = n THEN g[i] ELSE f[j] ]
            gg == [ j \in 1 .. m |-> IF j < i THEN g[j] ELSE g[j + 1] ]
            now == Append(new, rest[i])
            left == RemoveAt(rest, i)
<1>1. Len(new) \in Nat /\ Len(rest) \in Nat /\ Len(input) \in Nat /\ rest[i] \in DOMAIN Feat
  BY ElementOfSeq, LenProperties
<1>2. /\ Len(now) = n /\ now[n] = rest[i]
      /\ \A j \in 1 .. Len(new) : now[j] = new[j]
  BY <1>1, AppendProperties
<1>3. /\ Len(left) = m
      /\ \A j \in 1 .. m : left[j] = IF j < i THEN rest[j] ELSE rest[j + 1]
  BY RemoveAtShifts
<1>. HIDE DEF now, left
<1>f. \A j \in 1 .. Len(new) : f[j] \in 1 .. Len(input) /\ new[j] = input[f[j]]
  BY DEF ComesFrom
<1>g. \A j \in 1 .. Len(rest) : g[j] \in 1 .. Len(input) /\ rest[j] = input[g[j]]
  BY DEF ComesFrom
<1>4. ff \in [1 .. n -> 1 .. Len(input)] /\ gg \in [1 .. m -> 1 .. Len(input)]
  <2>1. \A j \in 1 .. n : j # n => j \in 1 .. Len(new)
    BY <1>1
  <2>2. \A j \in 1 .. m : j \in 1 .. Len(rest) /\ j + 1 \in 1 .. Len(rest)
    BY <1>1
  <2>3. \A j \in 1 .. n : (IF j = n THEN g[i] ELSE f[j]) \in 1 .. Len(input)
    BY <1>f, <1>g, <2>1
  <2>4. \A j \in 1 .. m : (IF j < i THEN g[j] ELSE g[j + 1]) \in 1 .. Len(input)
    BY <1>g, <2>2
  <2>. HIDE DEF n, m
  <2>. QED BY <2>3, <2>4
<1>5. \A j \in 1 .. n : now[j] = input[ff[j]]
  BY <1>1, <1>2 DEF ComesFrom
<1>6. \A j \in 1 .. m : left[j] = input[gg[j]]
  BY <1>1, <1>3 DEF ComesFrom
<1>7. ASSUME NEW k \in 1 .. Len(input)
      PROVE  (\E j \in 1 .. n : ff[j] = k) \/ (\E j \in 1 .. m : gg[j] = k)
  <2>1. ASSUME NEW j \in 1 .. Len(new), f[j] = k PROVE j \in 1 .. n /\ ff[j] = k
    BY <1>1, <2>1
  <2>2. ASSUME NEW j \in 1 .. Len(rest), g[j] = k, j < i PROVE j \in 1 .. m /\ gg[j] = k
    BY <1>1, <2>2
  <2>3. ASSUME NEW j \in 1 .. Len(rest), g[j] = k, j = i PROVE n \in 1 .. n /\ ff[n] = k
    BY <1>1, <2>3
  <2>4. ASSUME NEW j \in 1 .. Len(rest), g[j] = k, j > i PROVE j - 1 \in 1 .. m /\ gg[j - 1] = k
    BY <1>1, <2>4
  <2>5. (\E j \in 1 .. Len(new) : f[j] = k) \/ (\E j \in 1 .. Len(rest) : g[j] = k)
    BY DEF ComesFrom
  <2>6. ASSUME NEW j \in 1 .. Len(rest), g[j] = k
        PROVE  (\E l \in 1 .. n : ff[l] = k) \/ (\E l \in 1 .. m : gg[l] = k)
    <3>1. j < i \/ j = i \/ j > i
      OBVIOUS
    <3>. HIDE DEF ff, gg, n, m
    <3>. QED BY <2>6, <3>1, <2>2, <2>3, <2>4
  <2>. HIDE DEF ff, gg, n, m
  <2>. QED BY <2>1, <2>5, <2>6
<1>8. \A j, k \in 1 .. m : j < k => gg[j] < gg[k]
  BY <1>1 DEF ComesFrom
<1>9. \A j, k \in 1 .. n : j < k /\ Feat[now[j]] = Feat[now[k]] => ff[j] < ff[k]
  <2>1. ASSUME NEW j \in 1 .. n, NEW k \in 1 .. n, j < k, Feat[now[j]] = Feat[now[k]], k < n
        PROVE  ff[j] < ff[k]
    <3>1. j \in 1 .. Len(new) /\ k \in 1 .. Len(new) /\ j # n /\ k # n
      BY <1>1, <2>1
    <3>2. Feat[new[j]] = Feat[new[k]]
      BY <1>2, <2>1, <3>1
    <3>3. f[j] < f[k]
      BY <2>1, <3>1, <3>2 DEF ComesFrom
    <3>. QED BY <3>1, <3>3
  <2>2. ASSUME NEW j \in 1 .. n, j < n, Feat[now[j]] = Feat[now[n]]
        PROVE  ff[j] < ff[n]
    <3>1. j \in 1 .. Len(new) /\ j # n /\ n \in 1 .. n
      BY <1>1, <2>2
    <3>2. Feat[new[j]] = Feat[rest[i]]
      BY <1>2, <2>2, <3>1
    <3>3. f[j] < g[i]
      BY <3>1, <3>2 DEF ComesFrom
    <3>. QED BY <3>1, <3>3
  <2>3. \A j, k \in 1 .. n : j < k => k < n \/ (k = n /\ j < n)
    BY <1>1
  <2>. HIDE DEF ff, n
  <2>. QED BY <2>1, <2>2, <2>3
<1>10. ASSUME NEW j \in 1 .. n, NEW k \in 1 .. m, Feat[now[j]] = Feat[left[k]]
       PROVE  ff[j] < gg[k]
  <2>1. CASE j < n
    <3>1. j \in 1 .. Len(new) /\ j # n
      BY <1>1, <2>1
    <3>2. \A l \in 1 .. Len(rest) : Feat[new[j]] = Feat[rest[l]] => f[j] < g[l]
      BY <3>1 DEF ComesFrom
    <3>3. k \in 1 .. Len(rest) /\ k + 1 \in 1 .. Len(rest) /\ now[j] = new[j]
      BY <1>1, <1>2, <3>1
    <3>4. CASE k < i
      BY <1>3, <1>10, <3>1, <3>2, <3>3, <3>4
    <3>5. CASE ~ (k < i)
      BY <1>3, <1>10, <3>1, <3>2, <3>3, <3>5
    <3>. QED BY <3>4, <3>5
  <2>2. CASE j = n
    <3>1. ~ (k < i)
      BY <1>1, <1>2, <1>3, <1>10, <2>2
    <3>2. k + 1 \in 1 .. Len(rest) /\ i < k + 1
      BY <1>1, <3>1
    <3>. QED BY <1>1, <2>2, <3>1, <3>2 DEF ComesFrom
  <2>. QED BY <1>1, <2>1, <2>2
<1>11. ComesFrom(input, now, left, ff, gg)
  <2>. HIDE DEF ff, gg, n, m
  <2>. QED BY <1>2, <1>3, <1>4, <1>5, <1>6, <1>7, <1>8, <1>9, <1>10 DEF ComesFrom
<1>. QED BY <1>4, <1>11 DEF now, left

(* Taking any input of the next width is right: the width that would have  *)
(* got it gets the one that is now free.                                   *)
LEMMA AnyOfItsWidth ==
  ASSUME NEW want \in Seq(Nat \ {0}), NEW done \in Nat, done < Len(want),
         NEW rest \in Seq(DOMAIN Feat), NEW h, Serves(want, done, rest, h),
         NEW i \in 1 .. Len(rest), Feat[rest[i]] = want[done + 1]
  PROVE  \E hh \in [done + 2 .. Len(want) -> 1 .. Len(rest) - 1] :
           Serves(want, done + 1, RemoveAt(rest, i), hh)
<1>. DEFINE free  == h[done + 1]
            swap(k) == IF h[k] = i THEN free ELSE h[k]
            shift(j) == IF j < i THEN j ELSE j - 1
            hh == [ k \in done + 2 .. Len(want) |-> shift(swap(k)) ]
            left == RemoveAt(rest, i)
<1>1. /\ Len(want) \in Nat /\ Len(rest) \in Nat
      /\ Len(left) = Len(rest) - 1
      /\ \A j \in 1 .. Len(rest) - 1 : left[j] = IF j < i THEN rest[j] ELSE rest[j + 1]
  BY RemoveAtShifts, LenProperties
<1>. HIDE DEF left
<1>2. free \in 1 .. Len(rest) /\ \A k \in done + 2 .. Len(want) : h[k] \in 1 .. Len(rest) /\ h[k] # free
  <2>1. done + 1 \in done + 1 .. Len(want) /\ \A k \in done + 2 .. Len(want) : k \in done + 1 .. Len(want) /\ k # done + 1
    BY <1>1
  <2>. QED BY <2>1 DEF Serves
<1>3. ASSUME NEW k \in done + 2 .. Len(want)
      PROVE  /\ swap(k) \in 1 .. Len(rest) /\ swap(k) # i
             /\ Feat[rest[swap(k)]] = want[k]
  <2>1. k \in done + 1 .. Len(want) /\ Feat[rest[h[k]]] = want[k]
    BY <1>1 DEF Serves
  <2>2. done + 1 \in done + 1 .. Len(want) /\ Feat[rest[free]] = want[done + 1]
    BY <1>1 DEF Serves
  <2>3. CASE h[k] = i
    BY <1>2, <2>1, <2>2, <2>3
  <2>4. CASE h[k] # i
    BY <1>2, <2>1, <2>4
  <2>. QED BY <2>3, <2>4
<1>4. \A k, l \in done + 2 .. Len(want) : swap(k) = swap(l) => k = l
  <2>1. \A k, l \in done + 2 .. Len(want) : h[k] = h[l] => k = l
    BY <1>1 DEF Serves
  <2>. QED BY <1>2, <2>1
<1>. HIDE DEF swap, free
<1>5. hh \in [done + 2 .. Len(want) -> 1 .. Len(left)]
  <2>1. \A a \in 1 .. Len(rest) : a # i => shift(a) \in 1 .. Len(left)
    <3>. HIDE DEF hh
    <3>. QED BY <1>1
  <2>. HIDE DEF shift
  <2>. QED BY <1>3, <2>1
<1>6. \A k, l \in done + 2 .. Len(want) : hh[k] = hh[l] => k = l
  <2>1. ASSUME NEW k \in done + 2 .. Len(want), NEW l \in done + 2 .. Len(want), hh[k] = hh[l]
        PROVE  swap(k) = swap(l)
    <3>1. hh[k] = shift(swap(k)) /\ hh[l] = shift(swap(l))
      OBVIOUS
    <3>2. \A a, b \in 1 .. Len(rest) : a # i /\ b # i /\ shift(a) = shift(b) => a = b
      <4>1. Len(rest) \in Nat /\ i \in 1 .. Len(rest)
        BY <1>1
      <4>. QED BY ONLY <4>1
    <3>. HIDE DEF hh, shift
    <3>. QED BY <1>3, <2>1, <3>1, <3>2
  <2>. QED BY <1>4, <2>1
<1>7. \A k \in done + 2 .. Len(want) : Feat[left[hh[k]]] = want[k]
  <2>1. ASSUME NEW k \in done + 2 .. Len(want) PROVE left[hh[k]] = rest[swap(k)]
    <3>1. hh[k] = shift(swap(k))
      OBVIOUS
    <3>2. \A a \in 1 .. Len(rest) : a # i => left[shift(a)] = rest[a]
      <4>1. ASSUME NEW a \in 1 .. Len(rest), a < i PROVE left[shift(a)] = rest[a]
        <5>1. shift(a) = a /\ a \in 1 .. Len(rest) - 1
          BY <1>1, <4>1
        <5>. HIDE DEF shift, hh
        <5>. QED BY <1>1, <4>1, <5>1
      <4>2. ASSUME NEW a \in 1 .. Len(rest), a > i PROVE left[shift(a)] = rest[a]
        <5>1. shift(a) = a - 1 /\ a - 1 \in 1 .. Len(rest) - 1 /\ ~ (a - 1 < i) /\ (a - 1) + 1 = a
          BY <1>1, <4>2
        <5>. HIDE DEF shift
        <5>. QED BY <1>1, <5>1
      <4>. HIDE DEF shift
      <4>. QED BY <1>1, <4>1, <4>2
    <3>. HIDE DEF hh, shift
    <3>. QED BY <1>3, <3>1, <3>2
  <2>. HIDE DEF hh
  <2>. QED BY <1>3, <2>1
<1>8. done + 2 = (done + 1) + 1
  OBVIOUS
<1>9. Serves(want, done + 1, left, hh)
  <2>. HIDE DEF hh
  <2>. QED BY <1>5, <1>6, <1>7, <1>8 DEF Serves
<1>. QED BY <1>1, <1>5, <1>9 DEF left

(* A nonempty set of numbers has a least one. *)
LEMMA Least ==
  ASSUME NEW T \in SUBSET Nat, T # {}
  PROVE  \E x \in T : \A y \in T : x <= y
<1>. DEFINE R == OpToRel(<, Nat)
<1>1. IsWellFoundedOn(R, Nat)
  BY NatLessThanWellFounded
<1>2. \A x, y \in Nat : <<y, x>> \in R <=> y < x
  BY DEF OpToRel
<1>. HIDE DEF R
<1>3. PICK x \in T : \A y \in T : ~ (<<y, x>> \in R)
  BY <1>1, WFMin
<1>4. \A y \in T : x \in Nat /\ y \in Nat /\ ~ (y < x)
  BY <1>2, <1>3
<1>5. \A y \in T : x <= y
  BY <1>4
<1>. QED BY <1>5

(* At the start all inputs are in the pool. *)
LEMMA NothingPlaced ==
  ASSUME NEW input \in Seq(DOMAIN Feat)
  PROVE  \E f \in [1 .. Len(<< >>) -> 1 .. Len(input)], g \in [1 .. Len(input) -> 1 .. Len(input)] :
           ComesFrom(input, << >>, input, f, g)
<1>. DEFINE f == [ j \in 1 .. Len(<< >>) |-> j ]
            g == [ j \in 1 .. Len(input) |-> j ]
<1>1. Len(<< >>) = 0 /\ Len(input) \in Nat
  BY LenProperties
<1>2. f \in [1 .. Len(<< >>) -> 1 .. Len(input)] /\ g \in [1 .. Len(input) -> 1 .. Len(input)]
  BY <1>1
<1>3. ComesFrom(input, << >>, input, f, g)
  BY <1>1, <1>2 DEF ComesFrom
<1>. QED BY <1>2, <1>3

(* An order with the declared widths serves every one of them. *)
LEMMA OrderServes ==
  ASSUME NEW layer \in HnLayer, Len(layer.input) = Len(layer.want), Alignable(layer)
  PROVE  \E h \in [0 + 1 .. Len(layer.want) -> 1 .. Len(layer.input)] :
           Serves(layer.want, 0, layer.input, h)
<1>1. /\ layer.input \in Seq(DOMAIN Feat) /\ DOMAIN layer.input = 1 .. Len(layer.input)
      /\ Len(layer.input) \in Nat /\ 0 + 1 = 1
  BY LenProperties DEF HnLayer
<1>2. PICK pi \in Bijection(DOMAIN layer.input, DOMAIN layer.input) :
        \A k \in DOMAIN layer.input : Feat[layer.input[pi[k]]] = layer.want[k]
  BY DEF Alignable
<1>3. /\ pi \in [1 .. Len(layer.want) -> 1 .. Len(layer.input)]
      /\ \A i, j \in 1 .. Len(layer.want) : pi[i] = pi[j] => i = j
  BY <1>1 DEF Bijection, Injection, IsInjective
<1>4. Serves(layer.want, 0, layer.input, pi)
  BY <1>1, <1>2, <1>3 DEF Serves
<1>. QED BY <1>1, <1>3, <1>4

(* A layer as it was read is in a stable order. *)
LEMMA UntouchedIsStable ==
  ASSUME NEW was \in Seq(DOMAIN Feat)
  PROVE  StableOrder(was, was)
<1>. DEFINE pi == [ k \in DOMAIN was |-> k ]
<1>1. DOMAIN was = 1 .. Len(was) /\ Len(was) \in Nat /\ was \in [1 .. Len(was) -> DOMAIN Feat]
  BY LenProperties
<1>2. pi \in Bijection(DOMAIN was, DOMAIN was)
  BY DEF Bijection, Injection, Surjection, IsInjective
<1>3. was = [ k \in DOMAIN was |-> was[pi[k]] ]
  BY <1>1
<1>4. \A i, j \in DOMAIN was : i < j => pi[i] < pi[j]
  BY <1>1
<1>. HIDE DEF pi
<1>. QED BY <1>2, <1>3, <1>4 DEF StableOrder

(* When the pool is empty, what was placed is the inputs in a stable order.*)
LEMMA PlacedIsStable ==
  ASSUME NEW was \in Seq(DOMAIN Feat), NEW now \in Seq(DOMAIN Feat), NEW rest,
         Len(now) = Len(was), Len(rest) = 0,
         NEW f, NEW g, ComesFrom(was, now, rest, f, g)
  PROVE  StableOrder(now, was)
<1>1. /\ DOMAIN was = 1 .. Len(was) /\ Len(was) \in Nat
      /\ DOMAIN now = 1 .. Len(was) /\ now \in [1 .. Len(was) -> DOMAIN Feat]
  BY LenProperties
<1>2. /\ f \in [1 .. Len(was) -> 1 .. Len(was)]
      /\ \A m \in 1 .. Len(was) : \E i \in 1 .. Len(was) : f[i] = m
      /\ \A i \in 1 .. Len(was) : now[i] = was[f[i]]
      /\ \A i, j \in 1 .. Len(was) : i < j /\ Feat[now[i]] = Feat[now[j]] => f[i] < f[j]
  BY <1>1 DEF ComesFrom
<1>3. f \in Surjection(1 .. Len(was), 1 .. Len(was))
  BY <1>2 DEF Surjection
<1>4. IsFiniteSet(1 .. Len(was))
  BY <1>1, FS_Interval
<1>5. f \in Injection(1 .. Len(was), 1 .. Len(was))
  BY <1>3, <1>4, FS_SurjSameCardinalityImpliesInj
<1>6. f \in Bijection(DOMAIN was, DOMAIN was)
  BY <1>1, <1>3, <1>5 DEF Bijection
<1>7. now = [ k \in DOMAIN was |-> was[f[k]] ]
  BY <1>1, <1>2
<1>. QED BY <1>1, <1>2, <1>6, <1>7 DEF StableOrder

-----------------------------------------------------------------------------

(* The layers as they were read. *)
LEMMA ParsedLayers ==
  ASSUME parsed \in Nets
  PROVE  /\ parsed \in Seq(HnLayer) /\ Len(parsed) \in Nat /\ DOMAIN parsed = 1 .. Len(parsed)
         /\ \A k \in 1 .. Len(parsed) :
              /\ parsed[k] \in HnLayer
              /\ parsed[k].input \in Seq(DOMAIN Feat) /\ parsed[k].want \in Seq(Nat \ {0})
              /\ Len(parsed[k].input) = Len(parsed[k].want)
<1>1. parsed \in Seq(HnLayer)
  BY NetsAssumption DEF HnLayer
<1>2. /\ Len(parsed) \in Nat /\ DOMAIN parsed = 1 .. Len(parsed)
      /\ \A k \in 1 .. Len(parsed) : parsed[k] \in HnLayer
  BY <1>1, LenProperties, ElementOfSeq
<1>3. \A k \in DOMAIN parsed : Len(parsed[k].input) = Len(parsed[k].want)
  BY NetsAssumption
<1>4. \A k \in 1 .. Len(parsed) : parsed[k].input \in Seq(DOMAIN Feat) /\ parsed[k].want \in Seq(Nat \ {0})
  BY <1>2 DEF HnLayer
<1>. QED BY <1>1, <1>2, <1>3, <1>4

(* What is to be counted is finite. *)
LEMMA ChangedIsFinite ==
  ASSUME Len(layers) \in Nat
  PROVE  IsFiniteSet(Changed)
<1>1. IsFiniteSet(1 .. Len(layers))
  BY FS_Interval
<1>2. Changed \in SUBSET (1 .. Len(layers))
  BY DEF Changed
<1>. QED BY <1>1, <1>2, FS_Subset

(* The invariant holds when the loop begins. *)
LEMMA RepairStarts == RepairInit => ConvInv
<1>. SUFFICES ASSUME RepairInit PROVE ConvInv
  OBVIOUS
<1>1. LayersInv
  BY ParsedLayers DEF RepairInit, LayersInv
<1>2. SeenInv
  BY ParsedLayers DEF RepairInit, SeenInv
<1>3. CountInv
  <2>1. Changed = {}
    BY DEF RepairInit, Changed
  <2>. QED BY <2>1, FS_EmptySet DEF RepairInit, CountInv
<1>4. MatchInv
  BY DEF RepairInit, MatchInv
<1>. QED BY <1>1, <1>2, <1>3, <1>4 DEF ConvInv

(* A layer the loop leaves behind as it was. *)
LEMMA LeftBehind ==
  ASSUME ConvInv, pc \in {"scan", "match"}, at <= Len(layers),
         Misaligned(Layer) => ~ Alignable(Layer),
         UNCHANGED <<parsed, layers, fixed>>, at' = at + 1, pc' = "scan"
  PROVE  ConvInv'
<1>1. /\ at \in 1 .. Len(layers) /\ Len(layers) = Len(parsed) /\ Len(layers) \in Nat
      /\ parsed \in Nets /\ Layer = parsed[at] /\ parsed[at].input \in Seq(DOMAIN Feat)
  BY ParsedLayers DEF ConvInv, LayersInv, Layer
<1>2. /\ layers' = layers /\ parsed' = parsed /\ at' = at + 1 /\ pc' = "scan"
      /\ fixed' = fixed
  OBVIOUS
<1>3. LayersInv'
  BY <1>1, <1>2 DEF ConvInv, LayersInv
<1>4. SeenInv'
  <2>1. ASSUME NEW k \in 1 .. Len(layers), k < at + 1
        PROVE  /\ Misaligned(layers[k]) => ~ Alignable(parsed[k]) /\ layers[k] = parsed[k]
               /\ StableOrder(layers[k].input, parsed[k].input)
    <3>1. CASE k < at
      BY <3>1 DEF ConvInv, SeenInv
    <3>2. CASE k = at
      BY <1>1, <3>2, UntouchedIsStable DEF Layer
    <3>. QED BY <1>1, <2>1, <3>1, <3>2
  <2>. QED BY <1>2, <2>1 DEF SeenInv
<1>5. CountInv'
  BY <1>2 DEF ConvInv, CountInv, Changed
<1>6. MatchInv'
  BY <1>2 DEF MatchInv
<1>. QED BY <1>3, <1>4, <1>5, <1>6 DEF ConvInv

(* The action Skip. *)
LEMMA SkipKeeps == ConvInv /\ Skip => ConvInv'
<1>. SUFFICES ASSUME ConvInv, Skip PROVE ConvInv'
  OBVIOUS
<1>1. layers \in Seq(HnLayer)
  BY DEF ConvInv, LayersInv
<1>2. at <= Len(layers)
  BY <1>1, LenProperties DEF Skip
<1>. QED BY <1>2, LeftBehind DEF Skip

(* The layer of the turn. *)
LEMMA AtLayer ==
  ASSUME ConvInv, at <= Len(layers)
  PROVE  /\ at \in 1 .. Len(layers) /\ Len(layers) \in Nat /\ Layer = parsed[at]
         /\ layers \in Seq(HnLayer)
         /\ Layer \in HnLayer /\ Layer.input \in Seq(DOMAIN Feat) /\ Layer.want \in Seq(Nat \ {0})
         /\ Len(Layer.input) = Len(Layer.want) /\ Len(Layer.input) \in Nat
<1>1. parsed \in Nets /\ layers \in Seq(HnLayer) /\ Len(layers) = Len(parsed) /\ at \in Nat \ {0}
  BY DEF ConvInv, LayersInv
<1>2. at \in 1 .. Len(layers) /\ Len(layers) \in Nat
  BY <1>1, LenProperties
<1>3. Layer = parsed[at]
  BY <1>1, <1>2 DEF ConvInv, LayersInv, Layer
<1>4. Len(Layer.input) \in Nat
  BY <1>1, <1>2, <1>3, ParsedLayers, LenProperties
<1>. QED BY <1>1, <1>2, <1>3, <1>4, ParsedLayers

(* The action Begin. *)
LEMMA BeginKeeps == ConvInv /\ Begin => ConvInv'
<1>. SUFFICES ASSUME ConvInv, Begin PROVE ConvInv'
  OBVIOUS
<1>1. at <= Len(layers) /\ Misaligned(Layer)
  <2>1. layers \in Seq(HnLayer)
    BY DEF ConvInv, LayersInv
  <2>. QED BY <2>1, LenProperties DEF Begin
<1>2. /\ parsed' = parsed /\ layers' = layers /\ at' = at /\ fixed' = fixed
      /\ pc' = "match" /\ pool' = Layer.input /\ placed' = << >>
  BY DEF Begin
<1>3. LayersInv'
  BY <1>1, <1>2 DEF ConvInv, LayersInv, Layer
<1>4. SeenInv' /\ CountInv'
  BY <1>2 DEF ConvInv, SeenInv, CountInv, Changed
<1>5. MatchInv'
  <2>1. Layer' = Layer
    BY <1>2 DEF Layer
  <2>2. Len(placed') = 0 /\ placed' \in Seq(DOMAIN Feat)
    BY <1>2
  <2>3. \E f \in [1 .. Len(placed') -> 1 .. Len(Layer.input)],
           g \in [1 .. Len(pool') -> 1 .. Len(Layer.input)] :
          ComesFrom(Layer.input, placed', pool', f, g)
    BY <1>1, <1>2, AtLayer, NothingPlaced
  <2>4. Alignable(Layer) =>
          \E h \in [Len(placed') + 1 .. Len(Layer.want) -> 1 .. Len(pool')] :
            Serves(Layer.want, Len(placed'), pool', h)
    BY <1>1, <1>2, <2>2, AtLayer, OrderServes
  <2>5. /\ pool' \in Seq(DOMAIN Feat) /\ Len(pool') = Len(Layer.input) /\ Len(pool') \in Nat
    BY <1>1, <1>2, AtLayer
  <2>6. /\ Len(placed') + Len(pool') = Len(Layer.input)
        /\ \A i \in 1 .. Len(placed') : Feat[placed'[i]] = Layer.want[i]
    BY <2>2, <2>5
  <2>. QED BY <2>1, <2>2, <2>3, <2>4, <2>5, <2>6 DEF MatchInv
<1>. QED BY <1>3, <1>4, <1>5 DEF ConvInv

(* The action Place. *)
LEMMA PlaceKeeps == ConvInv /\ Place => ConvInv'
<1>. SUFFICES ASSUME ConvInv, Place PROVE ConvInv'
  OBVIOUS
<1>1. /\ pc = "match" /\ Len(placed) < Len(Layer.want) /\ Candidates # {}
      /\ parsed' = parsed /\ layers' = layers /\ at' = at /\ fixed' = fixed /\ pc' = pc
  BY DEF Place, Matching
<1>2. at <= Len(layers)
  BY <1>1 DEF ConvInv, LayersInv
<1>3. /\ placed \in Seq(DOMAIN Feat) /\ pool \in Seq(DOMAIN Feat)
      /\ Len(placed) + Len(pool) = Len(Layer.input)
      /\ \A k \in 1 .. Len(placed) : Feat[placed[k]] = Layer.want[k]
  BY <1>1 DEF ConvInv, MatchInv
<1>4. Len(placed) \in Nat /\ Len(pool) \in Nat /\ DOMAIN pool = 1 .. Len(pool)
  BY <1>3, LenProperties
<1>. DEFINE i == CHOOSE i \in Candidates : \A j \in Candidates : i <= j
<1>5. i \in Candidates /\ \A j \in Candidates : i <= j
  <2>1. Candidates \in SUBSET Nat
    BY <1>4 DEF Candidates
  <2>. QED BY <1>1, <2>1, Least
<1>6. placed' = Append(placed, pool[i]) /\ pool' = RemoveAt(pool, i)
  BY DEF Place
<1>. HIDE DEF i
<1>7. /\ i \in 1 .. Len(pool) /\ Feat[pool[i]] = Layer.want[Len(placed) + 1]
      /\ \A j \in 1 .. Len(pool) : Feat[pool[j]] = Feat[pool[i]] => i <= j
  BY <1>4, <1>5 DEF Candidates
<1>8. pool[i] \in DOMAIN Feat
  BY <1>3, <1>7, ElementOfSeq
<1>9. LayersInv' /\ SeenInv' /\ CountInv' /\ Layer' = Layer
  BY <1>1 DEF ConvInv, LayersInv, SeenInv, CountInv, Changed, Layer
<1>10. /\ placed' \in Seq(DOMAIN Feat) /\ Len(placed') = Len(placed) + 1
       /\ \A k \in 1 .. Len(placed') : Feat[placed'[k]] = Layer.want[k]
  <2>1. /\ placed' \in Seq(DOMAIN Feat) /\ Len(placed') = Len(placed) + 1
        /\ \A k \in 1 .. Len(placed) : placed'[k] = placed[k]
        /\ placed'[Len(placed) + 1] = pool[i]
    BY <1>3, <1>6, <1>8, AppendProperties
  <2>2. \A k \in 1 .. Len(placed) + 1 : k \in 1 .. Len(placed) \/ k = Len(placed) + 1
    BY <1>4
  <2>. QED BY <1>3, <1>7, <2>1, <2>2
<1>11. pool' \in Seq(DOMAIN Feat) /\ Len(pool') = Len(pool) - 1
  BY <1>3, <1>6, <1>7, RemoveAtShifts
<1>12. Len(placed') + Len(pool') = Len(Layer.input)
  <2>1. /\ Len(placed') = Len(placed) + 1 /\ Len(pool') = Len(pool) - 1
        /\ Len(placed) + Len(pool) = Len(Layer.input)
        /\ Len(placed) \in Nat /\ Len(pool) \in Nat
    BY <1>3, <1>4, <1>10, <1>11
  <2>. QED BY <2>1
<1>13. \E f \in [1 .. Len(placed') -> 1 .. Len(Layer.input)],
          g \in [1 .. Len(pool') -> 1 .. Len(Layer.input)] :
         ComesFrom(Layer.input, placed', pool', f, g)
  <2>1. PICK f \in [1 .. Len(placed) -> 1 .. Len(Layer.input)],
             g \in [1 .. Len(pool) -> 1 .. Len(Layer.input)] :
          ComesFrom(Layer.input, placed, pool, f, g)
    BY <1>1 DEF ConvInv, MatchInv
  <2>. QED BY <1>2, <1>3, <1>6, <1>7, <1>10, <1>11, <2>1, AtLayer, TakeFirst
<1>14. Alignable(Layer) =>
         \E h \in [Len(placed') + 1 .. Len(Layer.want) -> 1 .. Len(pool')] :
           Serves(Layer.want, Len(placed'), pool', h)
  <2>. SUFFICES ASSUME Alignable(Layer)
                PROVE  \E h \in [Len(placed') + 1 .. Len(Layer.want) -> 1 .. Len(pool')] :
                         Serves(Layer.want, Len(placed'), pool', h)
    OBVIOUS
  <2>1. PICK h \in [Len(placed) + 1 .. Len(Layer.want) -> 1 .. Len(pool)] :
          Serves(Layer.want, Len(placed), pool, h)
    BY <1>1 DEF ConvInv, MatchInv
  <2>2. Layer.want \in Seq(Nat \ {0})
    BY <1>2, AtLayer
  <2>3. \E hh \in [Len(placed) + 2 .. Len(Layer.want) -> 1 .. Len(pool) - 1] :
          Serves(Layer.want, Len(placed) + 1, RemoveAt(pool, i), hh)
    BY <1>1, <1>3, <1>4, <1>7, <2>1, <2>2, AnyOfItsWidth
  <2>4. Len(placed') + 1 = Len(placed) + 2
    BY <1>4, <1>10
  <2>. QED BY <1>6, <1>10, <1>11, <2>3, <2>4
<1>15. MatchInv'
  BY <1>9, <1>10, <1>11, <1>12, <1>13, <1>14 DEF MatchInv
<1>. QED BY <1>9, <1>15 DEF ConvInv

(* The action NoCandidate. *)
LEMMA NoCandidateKeeps == ConvInv /\ NoCandidate => ConvInv'
<1>. SUFFICES ASSUME ConvInv, NoCandidate PROVE ConvInv'
  OBVIOUS
<1>1. pc = "match" /\ Len(placed) < Len(Layer.want) /\ Candidates = {} /\ at <= Len(layers)
  BY DEF NoCandidate, Matching, ConvInv, LayersInv
<1>2. /\ pool \in Seq(DOMAIN Feat) /\ DOMAIN pool = 1 .. Len(pool)
      /\ Len(placed) \in Nat /\ Len(Layer.want) \in Nat
  BY <1>1, AtLayer, LenProperties DEF ConvInv, MatchInv
<1>3. ~ Alignable(Layer)
  <2>. SUFFICES ASSUME Alignable(Layer) PROVE FALSE
    OBVIOUS
  <2>1. PICK h \in [Len(placed) + 1 .. Len(Layer.want) -> 1 .. Len(pool)] :
          Serves(Layer.want, Len(placed), pool, h)
    BY <1>1 DEF ConvInv, MatchInv
  <2>2. Len(placed) + 1 \in Len(placed) + 1 .. Len(Layer.want)
    BY <1>1, <1>2
  <2>3. h[Len(placed) + 1] \in Candidates
    BY <1>2, <2>1, <2>2 DEF Serves, Candidates
  <2>. QED BY <1>1, <2>3
<1>. QED BY <1>1, <1>3, LeftBehind DEF NoCandidate, Advance

(* The action Repair. *)
LEMMA RepairKeeps == ConvInv /\ Repair => ConvInv'
<1>. SUFFICES ASSUME ConvInv, Repair PROVE ConvInv'
  OBVIOUS
<1>1. pc = "match" /\ Len(placed) = Len(Layer.want) /\ at <= Len(layers) /\ Misaligned(Layer)
  BY DEF Repair, ConvInv, LayersInv
<1>2. /\ placed \in Seq(DOMAIN Feat) /\ pool \in Seq(DOMAIN Feat)
      /\ Len(placed) + Len(pool) = Len(Layer.input)
      /\ \A k \in 1 .. Len(placed) : Feat[placed[k]] = Layer.want[k]
  BY <1>1 DEF ConvInv, MatchInv
<1>3. /\ Layer.input \in Seq(DOMAIN Feat) /\ Layer.want \in Seq(Nat \ {0})
      /\ Len(placed) = Len(Layer.input) /\ Len(pool) = 0
  BY <1>1, <1>2, AtLayer, LenProperties
<1>4. WidthsOf(placed) = Layer.want
  <2>1. /\ DOMAIN placed = 1 .. Len(Layer.want)
        /\ Layer.want \in [1 .. Len(Layer.want) -> Nat \ {0}]
    BY <1>1, <1>2, <1>3, LenProperties
  <2>. QED BY <1>1, <1>2, <2>1 DEF WidthsOf
<1>5. placed # Layer.input
  BY <1>1, <1>4 DEF Misaligned
<1>6. /\ layers' = [layers EXCEPT ![at].input = placed] /\ fixed' = fixed + 1
      /\ parsed' = parsed /\ at' = at + 1 /\ pc' = "scan"
  BY <1>5 DEF Repair, Advance
<1>. DEFINE new == [Layer EXCEPT !.input = placed]
<1>7. /\ new \in HnLayer /\ new.input = placed /\ new.want = Layer.want
      /\ new # Layer
  BY <1>1, <1>2, <1>5, AtLayer DEF HnLayer
<1>8. layers' = [layers EXCEPT ![at] = new]
  BY <1>6 DEF Layer
<1>. HIDE DEF new
<1>9. /\ layers' \in Seq(HnLayer) /\ Len(layers') = Len(layers)
      /\ \A k \in 1 .. Len(layers) : layers'[k] = IF k = at THEN new ELSE layers[k]
  BY <1>1, <1>7, <1>8, AtLayer, ExceptSeq
<1>10. /\ at \in 1 .. Len(layers) /\ Len(layers) \in Nat /\ Layer = parsed[at]
       /\ parsed \in Nets /\ Len(parsed) = Len(layers)
  BY <1>1, AtLayer DEF ConvInv, LayersInv
<1>11. LayersInv'
  <2>1. \A k \in 1 .. Len(layers) : at + 1 <= k => at <= k /\ k # at
    BY <1>10
  <2>2. \A k \in 1 .. Len(layers) : at + 1 <= k => layers'[k] = parsed[k]
    BY <1>9, <2>1 DEF ConvInv, LayersInv
  <2>. QED BY <1>6, <1>9, <1>10, <2>2 DEF LayersInv
<1>12. SeenInv'
  <2>1. ASSUME NEW k \in 1 .. Len(layers), k < at + 1
        PROVE  /\ Misaligned(layers'[k]) => ~ Alignable(parsed[k]) /\ layers'[k] = parsed[k]
               /\ StableOrder(layers'[k].input, parsed[k].input)
    <3>1. CASE k < at
      <4>1. layers'[k] = layers[k]
        BY <1>9, <1>10, <3>1
      <4>. QED BY <3>1, <4>1 DEF ConvInv, SeenInv
    <3>2. CASE k = at
      <4>1. layers'[k] = new
        BY <1>9, <3>2
      <4>2. ~ Misaligned(new)
        BY <1>4, <1>7 DEF Misaligned
      <4>3. PICK f \in [1 .. Len(placed) -> 1 .. Len(Layer.input)],
                 g \in [1 .. Len(pool) -> 1 .. Len(Layer.input)] :
              ComesFrom(Layer.input, placed, pool, f, g)
        BY <1>1 DEF ConvInv, MatchInv
      <4>4. StableOrder(placed, Layer.input)
        BY <1>2, <1>3, <4>3, PlacedIsStable
      <4>. QED BY <1>7, <1>10, <3>2, <4>1, <4>2, <4>4
    <3>. QED BY <1>10, <2>1, <3>1, <3>2
  <2>. QED BY <1>6, <1>9, <2>1 DEF SeenInv
<1>13. CountInv'
  <2>1. at \notin Changed
    BY <1>10 DEF Changed, Layer
  <2>2. Changed' = Changed \cup {at}
    <3>1. Changed' = { k \in 1 .. Len(layers) : layers'[k] # parsed[k] }
      BY <1>6, <1>9 DEF Changed
    <3>2. layers'[at] # parsed[at]
      BY <1>7, <1>9, <1>10
    <3>. QED BY <1>9, <1>10, <3>1, <3>2 DEF Changed
  <2>3. IsFiniteSet(Changed)
    BY <1>10, ChangedIsFinite
  <2>4. Cardinality(Changed') = Cardinality(Changed) + 1
    BY <2>1, <2>2, <2>3, FS_AddElement
  <2>. QED BY <1>6, <2>4 DEF ConvInv, CountInv
<1>14. MatchInv'
  BY <1>6 DEF MatchInv
<1>. QED BY <1>11, <1>12, <1>13, <1>14 DEF ConvInv

(* The action Write. *)
LEMMA WriteKeeps == ConvInv /\ Write => ConvInv'
<1>. SUFFICES ASSUME ConvInv, Write PROVE ConvInv'
  OBVIOUS
<1>1. /\ parsed' = parsed /\ layers' = layers /\ at' = at /\ fixed' = fixed
      /\ pc' = "written" /\ at > Len(layers)
  BY DEF Write
<1>2. LayersInv' /\ SeenInv' /\ CountInv'
  BY <1>1 DEF ConvInv, LayersInv, SeenInv, CountInv, Changed
<1>3. MatchInv'
  BY <1>1 DEF MatchInv
<1>. QED BY <1>2, <1>3 DEF ConvInv

(* A stutter. *)
LEMMA ConvStutters == ConvInv /\ UNCHANGED repairVars => ConvInv'
<1>. SUFFICES ASSUME ConvInv, UNCHANGED repairVars PROVE ConvInv'
  OBVIOUS
<1>1. LayersInv'
  <2>1. /\ LayersInv /\ Layer' = Layer
        /\ parsed' = parsed /\ layers' = layers /\ at' = at /\ pc' = pc
    BY DEF repairVars, ConvInv, Layer
  <2>. HIDE DEF Layer
  <2>. QED BY ONLY <2>1 DEF LayersInv
<1>2. SeenInv'
  BY DEF repairVars, ConvInv, SeenInv
<1>3. CountInv'
  BY DEF repairVars, ConvInv, CountInv, Changed
<1>4. MatchInv'
  BY DEF repairVars, ConvInv, MatchInv, Layer
<1>. QED BY <1>1, <1>2, <1>3, <1>4 DEF ConvInv

(* The invariant, of layers of any number of inputs.                       *)
THEOREM ConvInvariant == RepairSpec => []ConvInv
<1>1. ConvInv /\ [RepairNext]_repairVars => ConvInv'
  BY SkipKeeps, BeginKeeps, PlaceKeeps, NoCandidateKeeps, RepairKeeps, WriteKeeps,
     ConvStutters DEF RepairNext
<1>. QED BY <1>1, RepairStarts, PTL DEF RepairSpec

(* Greedy matching is as good as any search, whatever the inputs and their *)
(* widths (RepairIsComplete of fix_duplicated_conv_inputs).                *)
THEOREM GreedyIsComplete == RepairSpec => []RepairIsComplete
<1>1. ConvInv => RepairIsComplete
  <2>. SUFFICES ASSUME ConvInv, pc = "written" PROVE RepairIsComplete
    BY DEF RepairIsComplete
  <2>1. /\ DOMAIN layers = 1 .. Len(layers) /\ Len(layers) \in Nat
        /\ at > Len(layers) /\ at \in Nat
    BY LenProperties DEF ConvInv, LayersInv
  <2>2. \A k \in 1 .. Len(layers) : k < at
    BY <2>1
  <2>. QED BY <2>1, <2>2 DEF ConvInv, SeenInv, CountInv, Changed, RepairIsComplete
<1>. QED BY <1>1, ConvInvariant, PTL

(* Operands that only their place tells apart keep it, in every layer and  *)
(* at every step of the loop (fix_duplicated_conv_inputs).                 *)
THEOREM OrderIsStable == RepairSpec => []SameWidthKeepsOrder
<1>1. ConvInv => SameWidthKeepsOrder
  <2>. SUFFICES ASSUME ConvInv, NEW k \in DOMAIN layers
                PROVE  StableOrder(layers[k].input, parsed[k].input)
    BY DEF SameWidthKeepsOrder
  <2>1. k \in 1 .. Len(layers) /\ at \in Nat /\ Len(layers) = Len(parsed) /\ parsed \in Nets
    BY LenProperties DEF ConvInv, LayersInv
  <2>2. CASE k < at
    BY <2>1, <2>2 DEF ConvInv, SeenInv
  <2>3. CASE at <= k
    <3>1. layers[k] = parsed[k]
      BY <2>1, <2>3 DEF ConvInv, LayersInv
    <3>. QED BY <2>1, <3>1, ParsedLayers, UntouchedIsStable
  <2>. QED BY <2>1, <2>2, <2>3
<1>. QED BY <1>1, ConvInvariant, PTL

(***************************************************************************)
(* The resources of a HEF.                                                 *)
(***************************************************************************)
(* What a HEF can hold: configurations of this checkpoint, whatever their  *)
(* sizes, its tokenizer, the embeddings.                                   *)
ConfigDocs(t) ==
  [kind : {"config"}, bos : {BosText(t.post)}, count : Nat, size : Nat, cache : Nat]
Docs(t) == ConfigDocs(t) \cup {TokenizerDoc(t), Embeddings}
Byte(t) == Docs(t) \X Nat

(* Resource i of a HEF is a document: its descriptor points at the         *)
(* document's bytes and signs them.                                        *)
Holds(h, i, doc) ==
  LET start == h.res[i].offset - CcwsSize
  IN  /\ h.res[i].size = Length(doc) /\ h.res[i].signature = Bytes(doc)
      /\ start \in Nat /\ start + Length(doc) <= Len(h.info)
      /\ \A j \in 1 .. Length(doc) : h.info[start + j] = <<doc, j>>

TwoNames == <<"hailo-config.json", "hailo_config.json", "tokenizer.json">>

ResourceNames == {"tokenizer.json", "hailo-config.json", "hailo_config.json", "embeddings.bin"}

(* The HEFs step 6 leaves and what patches make of them: only resource 2,  *)
(* a configuration, may be another document than the one that was built.   *)
OneConfig(t, h) ==
  /\ \A i \in 1 .. 3 : h.res[i].name = Names[i]
  /\ Holds(h, 1, TokenizerDoc(t)) /\ Holds(h, 3, Embeddings)

TwoConfigs(t, h) ==
  /\ \A i \in 1 .. 3 : h.res[i].name = TwoNames[i]
  /\ Holds(h, 1, Config(t)) /\ Holds(h, 3, TokenizerDoc(t))

Descriptor(t) == [name : ResourceNames, offset : Nat, size : Nat, signature : Seq(Byte(t))]

HefType(t) ==
  [kind : {"hef"}, version : Versions, info : Seq(Byte(t)), res : [1 .. 3 -> Descriptor(t)]]

GoodHef(t, h) ==
  /\ h \in HefType(t)
  /\ OneConfig(t, h) \/ TwoConfigs(t, h)
  /\ \E cfg \in ConfigDocs(t) : Holds(h, 2, cfg)

FileInv ==
  /\ tok \in Tokenizers
  /\ DOMAIN file = Paths
  /\ \A p \in Paths : file[p] \in {Torn, Absent} \/ GoodHef(tok, file[p])

(* The script at its four places. *)
PatchInv ==
  \/ patch = Idle
  \/ \E out \in Paths, sizes \in Asked :
       \/ /\ patch.at \in {"loaded", "saving"} /\ GoodHef(tok, patch.hef)
          /\ patch = [at |-> patch.at, out |-> out, sizes |-> sizes, hef |-> patch.hef]
          /\ patch.at = "saving" => verified[out] = None
       \/ /\ patch = [at |-> "saved", out |-> out, sizes |-> sizes]
          /\ Whole(out) /\ verified[out] = None

VerifiedInv ==
  /\ verified \in [Paths -> Asked \cup {None}]
  /\ \A p \in Paths : verified[p] # None => Whole(p) /\ Checks(file[p], verified[p])

IInv == FileInv /\ PatchInv /\ VerifiedInv

-----------------------------------------------------------------------------
(* Documents and their bytes. *)

(* A document has a length. *)
LEMMA DocLength == \A doc : Length(doc) \in Nat \ {0}
BY DEF Length, Digits

(* The bytes of a document, and back. *)
LEMMA DocBytes ==
  ASSUME NEW t, NEW doc \in Docs(t)
  PROVE  /\ Bytes(doc) \in Seq(Byte(t)) /\ Len(Bytes(doc)) = Length(doc)
         /\ \A j \in 1 .. Length(doc) : Bytes(doc)[j] = <<doc, j>>
         /\ Decoded(Bytes(doc)) = doc
<1>1. Length(doc) \in Nat \ {0}
  BY DocLength
<1>2. Bytes(doc) \in [1 .. Length(doc) -> Byte(t)]
  BY <1>1 DEF Bytes, Byte
<1>3. Bytes(doc) \in Seq(Byte(t)) /\ Len(Bytes(doc)) = Length(doc)
  BY <1>1, <1>2
<1>4. \A j \in 1 .. Length(doc) : Bytes(doc)[j] = <<doc, j>>
  BY DEF Bytes
<1>5. Decoded(Bytes(doc)) = doc
  BY <1>1, <1>4 DEF Decoded
<1>. QED BY <1>3, <1>4, <1>5

(* The documents step 3 attaches. *)
LEMMA KnownDocs ==
  ASSUME NEW t, HefAssumption
  PROVE  /\ TokenizerDoc(t) \in Docs(t) /\ Embeddings \in Docs(t)
         /\ Config(t) \in ConfigDocs(t) /\ DraftConfig(t) \in ConfigDocs(t)
         /\ ConfigDocs(t) \subseteq Docs(t)
<1>1. Built.prefill \in Nat /\ Built.cache \in Nat
  BY DEF HefAssumption, Sizes
<1>2. Config(t) \in ConfigDocs(t)
  BY <1>1 DEF Config, BuildHailoConfig, Missing, ConfigDocs
<1>3. DraftConfig(t) \in ConfigDocs(t)
  BY <1>1, <1>2 DEF DraftConfig, Missing, ConfigDocs
<1>. QED BY <1>2, <1>3 DEF Docs

(* What a patch makes of a configuration. *)
LEMMA NewConfigIs ==
  ASSUME NEW t, HefAssumption, NEW cfg \in ConfigDocs(t), NEW sizes \in Asked
  PROVE  /\ NewConfig(cfg, sizes) \in ConfigDocs(t)
         /\ NewConfig(cfg, sizes).count = sizes.prefill
         /\ NewConfig(cfg, sizes).cache = sizes.cache
<1>1. sizes.prefill \in Nat /\ sizes.cache \in Nat
  BY DEF HefAssumption, Sizes
<1>. QED BY <1>1 DEF NewConfig, Missing, ConfigDocs

-----------------------------------------------------------------------------
(* Reading. *)

(* Whoever reads at a descriptor's offset reads the document.              *)
LEMMA ReadsItsDoc ==
  ASSUME NEW t, NEW h, NEW i, NEW doc \in Docs(t), h.info \in Seq(Byte(t)), h.res[i].offset \in Int,
         CcwsSize \in Nat, Holds(h, i, doc)
  PROVE  ConfigBytes(h, h.res[i]) = Bytes(doc)
<1>. DEFINE start == h.res[i].offset - CcwsSize
<1>1. /\ h.res[i].size = Length(doc)
      /\ start \in Nat /\ start + Length(doc) <= Len(h.info)
      /\ \A j \in 1 .. Length(doc) : h.info[start + j] = <<doc, j>>
  BY DEF Holds
<1>2. Length(doc) \in Nat \ {0} /\ Len(h.info) \in Nat
  BY DocLength, LenProperties
<1>3. ConfigBytes(h, h.res[i]) = SubSeq(h.info, start + 1, start + Length(doc))
  BY <1>1 DEF ConfigBytes
<1>. DEFINE read == SubSeq(h.info, start + 1, start + Length(doc))
<1>. HIDE DEF start
<1>4. \A j \in start + 1 .. start + Length(doc) : h.info[j] \in Byte(t)
  <2>1. \A j \in start + 1 .. start + Length(doc) : j \in 1 .. Len(h.info)
    BY <1>1, <1>2
  <2>. QED BY <2>1, ElementOfSeq
<1>5. /\ read \in Seq(Byte(t))
      /\ Len(read) = Length(doc)
      /\ \A j \in 1 .. Length(doc) : read[j] = <<doc, j>>
  <2>1. /\ read \in Seq(Byte(t))
        /\ Len(read) = IF start + 1 <= start + Length(doc)
                         THEN (start + Length(doc)) - (start + 1) + 1 ELSE 0
        /\ \A j \in 1 .. (start + Length(doc)) - (start + 1) + 1 : read[j] = h.info[(start + 1) + j - 1]
    BY <1>1, <1>2, <1>4, SubSeqProperties
  <2>2. /\ (start + Length(doc)) - (start + 1) + 1 = Length(doc)
        /\ start + 1 <= start + Length(doc)
        /\ \A j \in 1 .. Length(doc) : (start + 1) + j - 1 = start + j
    BY <1>1, <1>2
  <2>. HIDE DEF read
  <2>. QED BY <1>1, <2>1, <2>2
<1>. HIDE DEF read
<1>6. read = Bytes(doc)
  <2>1. DOMAIN read = 1 .. Length(doc) /\ read \in [1 .. Length(doc) -> Byte(t)]
    BY <1>5, LenProperties
  <2>. QED BY <1>5, <2>1 DEF Bytes
<1>. QED BY <1>3, <1>6 DEF read

(* The last resource named like a configuration is the second one; the     *)
(* only one, unless the HEF was built with two.                            *)
LEMMA Configurations ==
  ASSUME NEW t, NEW h, GoodHef(t, h)
  PROVE  /\ DOMAIN h.res = 1 .. 3 /\ Target(h) = 2 /\ 2 \in Matches(h)
         /\ OneConfig(t, h) => Matches(h) = {2}
         /\ TwoConfigs(t, h) => Matches(h) = {1, 2}
<1>1. DOMAIN h.res = 1 .. 3
  BY DEF GoodHef, HefType
<1>2. ASSUME OneConfig(t, h) PROVE Matches(h) = {2}
  <2>1. /\ h.res[1].name = "tokenizer.json" /\ h.res[2].name = "hailo-config.json"
        /\ h.res[3].name = "embeddings.bin"
    BY <1>2 DEF OneConfig, Names
  <2>. QED BY <1>1, <2>1 DEF Matches
<1>3. ASSUME TwoConfigs(t, h) PROVE Matches(h) = {1, 2}
  <2>1. /\ h.res[1].name = "hailo-config.json" /\ h.res[2].name = "hailo_config.json"
        /\ h.res[3].name = "tokenizer.json"
    BY <1>3 DEF TwoConfigs, TwoNames
  <2>. QED BY <1>1, <2>1 DEF Matches
<1>4. Matches(h) = {2} \/ Matches(h) = {1, 2}
  BY <1>2, <1>3 DEF GoodHef
<1>5. Target(h) = 2
  BY <1>4 DEF Target
<1>. QED BY <1>1, <1>2, <1>3, <1>4, <1>5

(* Every resource of a good HEF is one of the documents.                   *)
LEMMA EveryResourceIsADoc ==
  ASSUME NEW t, HefAssumption, NEW h, GoodHef(t, h), NEW i \in 1 .. 3
  PROVE  \E doc \in Docs(t) : Holds(h, i, doc) /\ ConfigBytes(h, h.res[i]) = Bytes(doc)
<1>1. \E doc \in Docs(t) : Holds(h, i, doc)
  <2>1. i = 1 \/ i = 2 \/ i = 3
    OBVIOUS
  <2>. QED BY <2>1, KnownDocs DEF GoodHef, OneConfig, TwoConfigs
<1>2. h.info \in Seq(Byte(t)) /\ h.res[i].offset \in Int /\ CcwsSize \in Nat
  BY DEF GoodHef, HefType, Descriptor, HefAssumption
<1>. QED BY <1>1, <1>2, ReadsItsDoc

(* The audit finds the resources where they are: what it adds to an offset *)
(* is what lies before the CCWs, for every version.                        *)
LEMMA AuditReads ==
  ASSUME NEW t, HefAssumption, NEW h, GoodHef(t, h), NEW i \in 1 .. 3
  PROVE  AuditBytes(h, h.res[i]) = h.res[i].signature
<1>1. PICK doc \in Docs(t) : Holds(h, i, doc)
  BY EveryResourceIsADoc
<1>. DEFINE r == h.res[i]
            start == r.offset - CcwsSize
<1>2. /\ r.size = Length(doc) /\ r.signature = Bytes(doc)
      /\ start \in Nat /\ start + Length(doc) <= Len(h.info)
      /\ \A j \in 1 .. Length(doc) : h.info[start + j] = <<doc, j>>
  BY <1>1 DEF Holds
<1>3. /\ CcwsSize \in Nat /\ r.offset \in Nat /\ h.info \in Seq(Byte(t)) /\ Len(h.info) \in Nat
      /\ h.version \in 1 .. 3 /\ Length(doc) \in Nat
      /\ \A k \in 1 .. 3 : h.res[k].offset \in Nat /\ h.res[k].size \in Nat
  BY DocLength, LenProperties DEF GoodHef, HefType, Descriptor, HefAssumption
<1>4. ProtoSize(h) \in Nat /\ HeaderSize(h.version) \in Nat
  <2>1. ProtoSize(h) \in Nat
    BY DEF ProtoSize, VarintSize
  <2>2. HeaderSize(h.version) \in Nat
    BY <1>3, SMTT(30) DEF HeaderSize
  <2>. QED BY <2>1, <2>2
<1>5. PaddingSize(h) \in Nat
  <2>1. HeaderSize(3) \in Nat
    BY DEF HeaderSize
  <2>. QED BY <1>4, <2>1 DEF PaddingSize
<1>6. ZeroPoint(h) = HeaderSize(h.version) + ProtoSize(h) + PaddingSize(h)
  <2>1. CASE h.version = 3
    BY <1>4, <1>5, <2>1 DEF ZeroPoint
  <2>2. CASE h.version # 3
    BY <1>4, <1>5, <2>2 DEF ZeroPoint, PaddingSize
  <2>. QED BY <2>1, <2>2
<1>7. ASSUME NEW j \in 1 .. Length(doc)
      PROVE  ByteAt(h, ZeroPoint(h) + r.offset + j - 1) = <<doc, j>>
  <2>. DEFINE zero == HeaderSize(h.version) + ProtoSize(h) + PaddingSize(h)
              offset == r.offset
  <2>0. zero \in Nat /\ ZeroPoint(h) = zero /\ offset = start + CcwsSize /\ j \in Nat
    <3>1. zero \in Nat /\ ZeroPoint(h) = zero
      BY <1>4, <1>5, <1>6
    <3>2. offset = start + CcwsSize
      BY <1>3
    <3>3. j \in Nat
      OBVIOUS
    <3>. QED BY <3>1, <3>2, <3>3
  <2>. HIDE DEF zero, start, offset
  <2>1. (zero + offset + j - 1) - (zero + CcwsSize) = start + j - 1
    BY <1>2, <1>3, <2>0
  <2>2. start + j - 1 \in 0 .. Len(h.info) - 1 /\ (start + j - 1) + 1 = start + j
    BY <1>2, <1>3, <2>0
  <2>3. ByteAt(h, ZeroPoint(h) + r.offset + j - 1) = h.info[start + j]
    BY <2>0, <2>1, <2>2 DEF ByteAt, zero, offset
  <2>. QED BY <1>2, <2>3
<1>. QED BY <1>2, <1>7 DEF AuditBytes, Bytes

-----------------------------------------------------------------------------
(* Writing. *)

(* The two parts of a concatenation, each from its place on. *)
LEMMA ConcatPlaces ==
  ASSUME NEW S, NEW s \in Seq(S), NEW t \in Seq(S)
  PROVE  /\ s \o t \in Seq(S) /\ Len(s \o t) = Len(s) + Len(t)
         /\ \A j \in 1 .. Len(s) : (s \o t)[j] = s[j]
         /\ \A j \in 1 .. Len(t) : (s \o t)[Len(s) + j] = t[j]
<1>1. Len(s) \in Nat /\ Len(t) \in Nat
  BY LenProperties
<1>2. /\ s \o t \in Seq(S) /\ Len(s \o t) = Len(s) + Len(t)
      /\ \A i \in 1 .. Len(s) + Len(t) : (s \o t)[i] = IF i <= Len(s) THEN s[i] ELSE t[i - Len(s)]
  BY ConcatProperties
<1>3. \A j \in 1 .. Len(s) : j \in 1 .. Len(s) + Len(t) /\ j <= Len(s)
  BY <1>1
<1>4. \A j \in 1 .. Len(t) : /\ Len(s) + j \in 1 .. Len(s) + Len(t) /\ ~ (Len(s) + j <= Len(s))
                             /\ (Len(s) + j) - Len(s) = j
  BY <1>1
<1>. QED BY <1>2, <1>3, <1>4

(* Three sequences joined, each in its place. *)
LEMMA ThreePlaces ==
  ASSUME NEW S, NEW s \in Seq(S), NEW t \in Seq(S), NEW u \in Seq(S)
  PROVE  /\ s \o t \o u \in Seq(S) /\ Len(s \o t \o u) = Len(s) + Len(t) + Len(u)
         /\ \A j \in 1 .. Len(s) : (s \o t \o u)[j] = s[j]
         /\ \A j \in 1 .. Len(t) : (s \o t \o u)[Len(s) + j] = t[j]
         /\ \A j \in 1 .. Len(u) : (s \o t \o u)[Len(s) + Len(t) + j] = u[j]
<1>1. Len(s) \in Nat /\ Len(t) \in Nat /\ Len(u) \in Nat
  BY LenProperties
<1>2. /\ s \o t \in Seq(S) /\ Len(s \o t) = Len(s) + Len(t)
      /\ \A j \in 1 .. Len(s) : (s \o t)[j] = s[j]
      /\ \A j \in 1 .. Len(t) : (s \o t)[Len(s) + j] = t[j]
  BY ConcatPlaces
<1>. DEFINE st == s \o t
<1>. HIDE DEF st
<1>3. /\ st \o u \in Seq(S) /\ Len(st \o u) = Len(st) + Len(u)
      /\ \A j \in 1 .. Len(st) : (st \o u)[j] = st[j]
      /\ \A j \in 1 .. Len(u) : (st \o u)[Len(st) + j] = u[j]
  BY <1>2, ConcatPlaces DEF st
<1>4. \A j \in 1 .. Len(s) : j \in 1 .. Len(s) + Len(t)
  BY <1>1
<1>5. \A j \in 1 .. Len(t) : Len(s) + j \in 1 .. Len(s) + Len(t)
  BY <1>1
<1>. QED BY <1>1, <1>2, <1>3, <1>4, <1>5 DEF st

(* A descriptor that points at a document's bytes and signs them.          *)
LEMMA HoldsWhatItSigns ==
  ASSUME NEW t, NEW h, NEW i, NEW n, NEW start \in Nat, NEW doc \in Docs(t), CcwsSize \in Nat,
         h.res[i] = [name |-> n, offset |-> CcwsSize + start, size |-> Length(doc), signature |-> Bytes(doc)],
         start + Length(doc) <= Len(h.info),
         \A j \in 1 .. Length(doc) : h.info[start + j] = Bytes(doc)[j]
  PROVE  Holds(h, i, doc)
<1>1. \A j \in 1 .. Length(doc) : h.info[start + j] = <<doc, j>>
  BY DocBytes
<1>2. /\ h.res[i].size = Length(doc) /\ h.res[i].signature = Bytes(doc)
      /\ h.res[i].offset = CcwsSize + start
  OBVIOUS
<1>3. h.res[i].offset - CcwsSize = start
  BY <1>2
<1>. QED BY <1>1, <1>2, <1>3 DEF Holds

(* A descriptor as attach_resources writes it. *)
LEMMA DescriptorType ==
  ASSUME NEW t, NEW n \in ResourceNames, NEW start \in Nat, NEW doc \in Docs(t), CcwsSize \in Nat
  PROVE  [name |-> n, offset |-> CcwsSize + start, size |-> Length(doc), signature |-> Bytes(doc)]
           \in Descriptor(t)
<1>1. Length(doc) \in Nat /\ Bytes(doc) \in Seq(Byte(t)) /\ CcwsSize + start \in Nat
  BY DocBytes, DocLength
<1>. QED BY <1>1 DEF Descriptor

(* What is laid out one after the other is found again. *)
LEMMA HefHoldsItsDocs ==
  ASSUME NEW t, HefAssumption, NEW v \in Versions,
         NEW names, \A i \in 1 .. 3 : names[i] \in ResourceNames,
         NEW docs, \A i \in 1 .. 3 : docs[i] \in Docs(t),
         NEW h, h = Hef(v, names, docs)
  PROVE  /\ h \in HefType(t)
         /\ \A i \in 1 .. 3 : h.res[i].name = names[i] /\ Holds(h, i, docs[i])
<1>. DEFINE d1 == docs[1]
            d2 == docs[2]
            d3 == docs[3]
            entry(n, start, d) == [ name |-> n, offset |-> CcwsSize + start,
                                    size |-> Length(d), signature |-> Bytes(d) ]
            info == Bytes(d1) \o Bytes(d2) \o Bytes(d3)
<1>0. /\ d1 \in Docs(t) /\ d2 \in Docs(t) /\ d3 \in Docs(t)
      /\ names[1] \in ResourceNames /\ names[2] \in ResourceNames /\ names[3] \in ResourceNames
  OBVIOUS
<1>1. h.info = info
  BY DEF Hef
<1>2. /\ h.res[1] = entry(names[1], 0, d1) /\ h.res[2] = entry(names[2], Length(d1), d2)
      /\ h.res[3] = entry(names[3], Length(d1) + Length(d2), d3)
  BY DEF Hef
<1>3. /\ h = [kind |-> "hef", version |-> v, info |-> info, res |-> h.res]
      /\ h.res = [i \in 1 .. 3 |-> h.res[i]]
  BY DEF Hef
<1>4. /\ Length(d1) \in Nat /\ Length(d2) \in Nat /\ Length(d3) \in Nat /\ CcwsSize \in Nat
  BY DocLength DEF HefAssumption
<1>. HIDE DEF d1, d2, d3
<1>5. /\ Bytes(d1) \in Seq(Byte(t)) /\ Len(Bytes(d1)) = Length(d1)
      /\ Bytes(d2) \in Seq(Byte(t)) /\ Len(Bytes(d2)) = Length(d2)
      /\ Bytes(d3) \in Seq(Byte(t)) /\ Len(Bytes(d3)) = Length(d3)
  BY <1>0, DocBytes
<1>6. /\ info \in Seq(Byte(t)) /\ Len(info) = Length(d1) + Length(d2) + Length(d3)
      /\ \A j \in 1 .. Length(d1) : info[j] = Bytes(d1)[j]
      /\ \A j \in 1 .. Length(d2) : info[Length(d1) + j] = Bytes(d2)[j]
      /\ \A j \in 1 .. Length(d3) : info[Length(d1) + Length(d2) + j] = Bytes(d3)[j]
  <2>. DEFINE b1 == Bytes(d1)
              b2 == Bytes(d2)
              b3 == Bytes(d3)
  <2>. HIDE DEF b1, b2, b3
  <2>1. b1 \in Seq(Byte(t)) /\ b2 \in Seq(Byte(t)) /\ b3 \in Seq(Byte(t))
    BY <1>5 DEF b1, b2, b3
  <2>2. /\ b1 \o b2 \o b3 \in Seq(Byte(t)) /\ Len(b1 \o b2 \o b3) = Len(b1) + Len(b2) + Len(b3)
        /\ \A j \in 1 .. Len(b1) : (b1 \o b2 \o b3)[j] = b1[j]
        /\ \A j \in 1 .. Len(b2) : (b1 \o b2 \o b3)[Len(b1) + j] = b2[j]
        /\ \A j \in 1 .. Len(b3) : (b1 \o b2 \o b3)[Len(b1) + Len(b2) + j] = b3[j]
    BY <2>1, ThreePlaces
  <2>3. info = b1 \o b2 \o b3
    BY DEF b1, b2, b3
  <2>4. Len(b1) = Length(d1) /\ Len(b2) = Length(d2) /\ Len(b3) = Length(d3)
    BY <1>5 DEF b1, b2, b3
  <2>. HIDE DEF info
  <2>5. /\ info \in Seq(Byte(t)) /\ Len(info) = Length(d1) + Length(d2) + Length(d3)
        /\ \A j \in 1 .. Length(d1) : info[j] = b1[j]
        /\ \A j \in 1 .. Length(d2) : info[Length(d1) + j] = b2[j]
        /\ \A j \in 1 .. Length(d3) : info[Length(d1) + Length(d2) + j] = b3[j]
    BY <2>2, <2>3, <2>4
  <2>. QED BY <2>5 DEF b1, b2, b3
<1>. HIDE DEF info
<1>7. h \in HefType(t)
  <2>1. h.res[1] \in Descriptor(t) /\ h.res[2] \in Descriptor(t) /\ h.res[3] \in Descriptor(t)
    <3>1. 0 \in Nat /\ Length(d1) + Length(d2) \in Nat
      BY <1>4
    <3>2. entry(names[1], 0, d1) \in Descriptor(t)
      BY <1>0, <1>4, <3>1, DescriptorType
    <3>3. entry(names[2], Length(d1), d2) \in Descriptor(t)
      BY <1>0, <1>4, DescriptorType
    <3>4. entry(names[3], Length(d1) + Length(d2), d3) \in Descriptor(t)
      BY <1>0, <1>4, <3>1, DescriptorType
    <3>. QED BY <1>2, <3>2, <3>3, <3>4
  <2>2. \A i \in 1 .. 3 : i = 1 \/ i = 2 \/ i = 3
    OBVIOUS
  <2>3. \A i \in 1 .. 3 : h.res[i] \in Descriptor(t)
    BY <2>1, <2>2
  <2>4. h.res \in [1 .. 3 -> Descriptor(t)]
    BY <1>3, <2>3
  <2>. QED BY <1>3, <1>6, <2>4 DEF HefType
<1>. HIDE DEF entry
<1>8. Holds(h, 1, d1)
  <2>. DEFINE start == 0
  <2>1. start \in Nat /\ start + Length(d1) <= Len(h.info)
    BY <1>1, <1>4, <1>6
  <2>2. \A j \in 1 .. Length(d1) : h.info[start + j] = Bytes(d1)[j]
    <3>1. \A j \in 1 .. Length(d1) : start + j = j
      OBVIOUS
    <3>. HIDE DEF start
    <3>. QED BY <1>1, <1>6, <3>1
  <2>3. h.res[1] = entry(names[1], start, d1)
    BY <1>2
  <2>. HIDE DEF start
  <2>. QED BY <1>0, <1>4, <2>1, <2>2, <2>3, HoldsWhatItSigns DEF entry
<1>9. Holds(h, 2, d2)
  <2>1. Length(d1) + Length(d2) <= Len(h.info)
    BY <1>1, <1>4, <1>6
  <2>. DEFINE start == Length(d1)
  <2>2. /\ start \in Nat /\ start + Length(d2) <= Len(h.info)
        /\ h.res[2] = entry(names[2], start, d2)
        /\ \A j \in 1 .. Length(d2) : h.info[start + j] = Bytes(d2)[j]
    BY <1>1, <1>2, <1>4, <1>6, <2>1
  <2>. HIDE DEF start
  <2>. QED BY <1>0, <1>4, <2>2, HoldsWhatItSigns DEF entry
<1>10. Holds(h, 3, d3)
  <2>1. Length(d1) + Length(d2) \in Nat /\ Length(d1) + Length(d2) + Length(d3) <= Len(h.info)
    BY <1>1, <1>4, <1>6
  <2>. DEFINE start == Length(d1) + Length(d2)
  <2>2. /\ start \in Nat /\ start + Length(d3) <= Len(h.info)
        /\ h.res[3] = entry(names[3], start, d3)
        /\ \A j \in 1 .. Length(d3) : h.info[start + j] = Bytes(d3)[j]
    BY <1>1, <1>2, <1>6, <2>1
  <2>. HIDE DEF start
  <2>. QED BY <1>0, <1>4, <2>2, HoldsWhatItSigns DEF entry
<1>11. h.res[1].name = names[1] /\ h.res[2].name = names[2] /\ h.res[3].name = names[3]
  BY <1>2 DEF entry
<1>12. ASSUME NEW i \in 1 .. 3 PROVE h.res[i].name = names[i] /\ Holds(h, i, docs[i])
  <2>1. CASE i = 1
    BY <1>8, <1>11, <2>1 DEF d1
  <2>2. CASE i = 2
    BY <1>9, <1>11, <2>2 DEF d2
  <2>3. CASE i = 3
    BY <1>10, <1>11, <2>3 DEF d3
  <2>. QED BY <2>1, <2>2, <2>3
<1>. QED BY <1>7, <1>12

(* What step 6 compiles is a good HEF. *)
LEMMA BuiltIsGood ==
  ASSUME NEW t, HefAssumption, NEW v \in Versions, NEW h \in Hefs(v, t)
  PROVE  GoodHef(t, h)
<1>1. \A i \in 1 .. 3 : Names[i] \in ResourceNames /\ TwoNames[i] \in ResourceNames
  <2>1. Names[1] \in ResourceNames /\ Names[2] \in ResourceNames /\ Names[3] \in ResourceNames
    <3>1. Names[1] = "tokenizer.json" /\ Names[2] = "hailo-config.json" /\ Names[3] = "embeddings.bin"
      BY DEF Names
    <3>. QED BY <3>1 DEF ResourceNames
  <2>2. TwoNames[1] \in ResourceNames /\ TwoNames[2] \in ResourceNames /\ TwoNames[3] \in ResourceNames
    <3>1. /\ TwoNames[1] = "hailo-config.json" /\ TwoNames[2] = "hailo_config.json"
          /\ TwoNames[3] = "tokenizer.json"
      BY DEF TwoNames
    <3>. QED BY <3>1 DEF ResourceNames
  <2>3. \A i \in 1 .. 3 : i = 1 \/ i = 2 \/ i = 3
    OBVIOUS
  <2>. QED BY <2>1, <2>2, <2>3
<1>2. ASSUME NEW cfg \in ConfigDocs(t), h = Hef(v, Names, <<TokenizerDoc(t), cfg, Embeddings>>)
      PROVE  GoodHef(t, h)
  <2>. DEFINE docs == <<TokenizerDoc(t), cfg, Embeddings>>
  <2>1. docs[1] = TokenizerDoc(t) /\ docs[2] = cfg /\ docs[3] = Embeddings
    OBVIOUS
  <2>2. \A i \in 1 .. 3 : docs[i] \in Docs(t)
    BY <2>1, KnownDocs
  <2>. HIDE DEF docs
  <2>4. h = Hef(v, Names, docs)
    BY <1>2 DEF docs
  <2>3. h \in HefType(t) /\ \A i \in 1 .. 3 : h.res[i].name = Names[i] /\ Holds(h, i, docs[i])
    BY <1>1, <2>2, <2>4, HefHoldsItsDocs
  <2>. QED BY <2>1, <2>3 DEF GoodHef, OneConfig, HefType
<1>3. ASSUME h = Hef(v, TwoNames, <<Config(t), DraftConfig(t), TokenizerDoc(t)>>)
      PROVE  GoodHef(t, h)
  <2>. DEFINE docs == <<Config(t), DraftConfig(t), TokenizerDoc(t)>>
  <2>1. docs[1] = Config(t) /\ docs[2] = DraftConfig(t) /\ docs[3] = TokenizerDoc(t)
    OBVIOUS
  <2>2. \A i \in 1 .. 3 : docs[i] \in Docs(t)
    BY <2>1, KnownDocs
  <2>. HIDE DEF docs
  <2>4. h = Hef(v, TwoNames, docs)
    BY <1>3 DEF docs
  <2>3. h \in HefType(t) /\ \A i \in 1 .. 3 : h.res[i].name = TwoNames[i] /\ Holds(h, i, docs[i])
    BY <1>1, <2>2, <2>4, HefHoldsItsDocs
  <2>5. TwoConfigs(t, h)
    BY <2>1, <2>3 DEF TwoConfigs
  <2>6. DraftConfig(t) \in ConfigDocs(t) /\ Holds(h, 2, DraftConfig(t))
    BY <2>1, <2>3, KnownDocs
  <2>. QED BY <2>3, <2>5, <2>6 DEF GoodHef
<1>. QED BY <1>2, <1>3, KnownDocs DEF Hefs, TwoNames

(* A patch appends a configuration, points resource 2 at it and moves      *)
(* nothing else.                                                           *)
LEMMA PatchedIsGood ==
  ASSUME NEW t, HefAssumption, NEW h, GoodHef(t, h), NEW sizes \in Asked
  PROVE  GoodHef(t, Patched(h, sizes))
<1>1. PICK cfg \in ConfigDocs(t) : Holds(h, 2, cfg)
  BY DEF GoodHef
<1>. DEFINE new == NewConfig(cfg, sizes)
            entry == [ h.res[2] EXCEPT !.offset = CcwsSize + Len(h.info),
                                       !.size = Length(new), !.signature = Bytes(new) ]
            info == h.info \o Bytes(new)
            p == Patched(h, sizes)
<1>2. /\ h \in HefType(t) /\ h.info \in Seq(Byte(t)) /\ Len(h.info) \in Nat
      /\ h.res \in [1 .. 3 -> Descriptor(t)]
      /\ \A i \in 1 .. 3 : h.res[i].offset \in Int /\ h.res[i].name \in ResourceNames
      /\ CcwsSize \in Nat /\ cfg \in Docs(t)
  <2>1. h \in HefType(t)
    BY DEF GoodHef
  <2>2. h.info \in Seq(Byte(t)) /\ h.res \in [1 .. 3 -> Descriptor(t)]
    BY <2>1 DEF HefType
  <2>3. \A i \in 1 .. 3 : h.res[i].offset \in Int /\ h.res[i].name \in ResourceNames
    BY <2>2, SMTT(30) DEF Descriptor
  <2>4. Len(h.info) \in Nat
    BY <2>2, LenProperties
  <2>5. cfg \in Docs(t)
    BY KnownDocs
  <2>. QED BY <2>1, <2>2, <2>3, <2>4, <2>5 DEF HefAssumption
<1>3. new \in ConfigDocs(t) /\ new \in Docs(t)
  BY NewConfigIs, KnownDocs
<1>4. NewConfig(Decoded(ConfigBytes(h, h.res[Target(h)])), sizes) = new
  <2>1. ConfigBytes(h, h.res[2]) = Bytes(cfg)
    BY <1>1, <1>2, ReadsItsDoc
  <2>. QED BY <1>2, <2>1, Configurations, DocBytes
<1>5. p = [h EXCEPT !.info = info, !.res[2] = entry]
  <2>1. Target(h) = 2
    BY Configurations
  <2>. HIDE DEF new
  <2>. QED BY <1>4, <2>1 DEF Patched
<1>. HIDE DEF new
<1>6. /\ Bytes(new) \in Seq(Byte(t)) /\ Len(Bytes(new)) = Length(new) /\ Length(new) \in Nat
  BY <1>3, DocBytes, DocLength
<1>7. /\ info \in Seq(Byte(t)) /\ Len(info) = Len(h.info) + Length(new)
      /\ \A j \in 1 .. Len(h.info) : info[j] = h.info[j]
      /\ \A j \in 1 .. Length(new) : info[Len(h.info) + j] = Bytes(new)[j]
  <2>. DEFINE before == h.info
              added == Bytes(new)
  <2>1. before \in Seq(Byte(t)) /\ added \in Seq(Byte(t))
    BY <1>2, <1>6
  <2>4. Len(added) = Length(new)
    BY <1>6
  <2>3. info = before \o added
    OBVIOUS
  <2>. HIDE DEF before, added, info, entry, p
  <2>2. /\ before \o added \in Seq(Byte(t)) /\ Len(before \o added) = Len(before) + Len(added)
        /\ \A j \in 1 .. Len(before) : (before \o added)[j] = before[j]
        /\ \A j \in 1 .. Len(added) : (before \o added)[Len(before) + j] = added[j]
    BY <2>1, ConcatPlaces
  <2>. QED BY <2>2, <2>3, <2>4 DEF before, added
<1>. HIDE DEF info
<1>8. /\ entry \in Descriptor(t)
      /\ entry.name = h.res[2].name /\ entry.offset = CcwsSize + Len(h.info)
      /\ entry.size = Length(new) /\ entry.signature = Bytes(new)
  <2>. DEFINE r == h.res[2]
              o == CcwsSize + Len(h.info)
              n == Length(new)
              b == Bytes(new)
  <2>1. r \in Descriptor(t) /\ o \in Nat /\ n \in Nat /\ b \in Seq(Byte(t))
    BY <1>2, <1>6 DEF Descriptor
  <2>2. entry = [r EXCEPT !.offset = o, !.size = n, !.signature = b]
    OBVIOUS
  <2>. HIDE DEF r, o, n, b, entry
  <2>3. /\ entry \in Descriptor(t) /\ entry.name = r.name
        /\ entry.offset = o /\ entry.size = n /\ entry.signature = b
    BY <2>1, <2>2 DEF Descriptor
  <2>. QED BY <2>3 DEF r, o, n, b
<1>. HIDE DEF entry
<1>9. /\ p \in HefType(t) /\ p.info = info /\ p.res[2] = entry
      /\ p.res[1] = h.res[1] /\ p.res[3] = h.res[3]
  <2>. DEFINE res == [h.res EXCEPT ![2] = entry]
              q == [h EXCEPT !.info = info]
  <2>1. q \in HefType(t) /\ q.info = info /\ q.res = h.res
    BY <1>2, <1>7 DEF HefType
  <2>2. h.res \in [1 .. 3 -> Descriptor(t)]
    BY <1>2 DEF HefType, Descriptor
  <2>3. res \in [1 .. 3 -> Descriptor(t)] /\ res[2] = entry /\ res[1] = h.res[1] /\ res[3] = h.res[3]
    BY <1>8, <2>2
  <2>4. p = [q EXCEPT !.res = res]
    BY <1>5, <2>1
  <2>. HIDE DEF q, res, p
  <2>5. p \in HefType(t) /\ p.res = res /\ p.info = info
    BY <2>1, <2>3, <2>4 DEF HefType, Descriptor
  <2>. QED BY <2>3, <2>5
<1>. HIDE DEF p
<1>10. Holds(p, 2, new)
  <2>1. p.res[2].offset - CcwsSize = Len(h.info)
    BY <1>2, <1>8, <1>9
  <2>2. \A j \in 1 .. Length(new) : p.info[Len(h.info) + j] = <<new, j>>
    BY <1>3, <1>7, <1>9, DocBytes
  <2>3. Len(h.info) + Length(new) <= Len(p.info)
    BY <1>2, <1>6, <1>7, <1>9
  <2>. QED BY <1>2, <1>8, <1>9, <2>1, <2>2, <2>3 DEF Holds
<1>11. ASSUME NEW i \in {1, 3}, NEW doc \in Docs(t), Holds(h, i, doc) PROVE Holds(p, i, doc)
  <2>. DEFINE start == h.res[i].offset - CcwsSize
  <2>1. /\ h.res[i].size = Length(doc) /\ h.res[i].signature = Bytes(doc)
        /\ start \in Nat /\ start + Length(doc) <= Len(h.info)
        /\ \A j \in 1 .. Length(doc) : h.info[start + j] = <<doc, j>>
    BY <1>11 DEF Holds
  <2>2. p.res[i] = h.res[i]
    BY <1>9
  <2>3. p.res[i].offset - CcwsSize = start
    BY <2>2
  <2>4. Length(doc) \in Nat
    BY DocLength
  <2>. HIDE DEF start
  <2>5. start + Length(doc) <= Len(p.info)
    BY <1>2, <1>6, <1>7, <1>9, <2>1, <2>4
  <2>6. \A j \in 1 .. Length(doc) : start + j \in 1 .. Len(h.info)
    BY <1>2, <2>1, <2>4
  <2>7. \A j \in 1 .. Length(doc) : p.info[start + j] = <<doc, j>>
    BY <1>7, <1>9, <2>1, <2>6
  <2>. QED BY <2>1, <2>2, <2>3, <2>5, <2>7 DEF Holds
<1>12. \A i \in 1 .. 3 : p.res[i].name = h.res[i].name
  BY <1>8, <1>9
<1>13. OneConfig(t, h) => OneConfig(t, p)
  BY <1>11, <1>12, KnownDocs DEF OneConfig
<1>14. TwoConfigs(t, h) => TwoConfigs(t, p)
  BY <1>11, <1>12, KnownDocs DEF TwoConfigs
<1>. QED BY <1>3, <1>9, <1>10, <1>13, <1>14 DEF GoodHef, HefType, p
-----------------------------------------------------------------------------
(* The script, step by step. *)

(* Only a whole file is a HEF. *)
LEMMA WholeIsGood ==
  ASSUME FileInv, NEW p \in Paths, Whole(p)
  PROVE  GoodHef(tok, file[p])
BY DEF FileInv, Whole, Torn, Absent

(* A good HEF is a whole file. *)
LEMMA GoodIsWhole == \A t, h : GoodHef(t, h) => h.kind = "hef"
BY DEF GoodHef, HefType

(* A HEF built with two configurations has two. *)
LEMMA Two == Cardinality({1, 2}) = 2
<1>. DEFINE a == 1
            b == 2
<1>1. a \in Int /\ b \in Int /\ ~ (a > b) /\ b - a + 1 = 2 /\ {1, 2} = a .. b
  OBVIOUS
<1>. HIDE DEF a, b
<1>2. Cardinality(a .. b) = IF a > b THEN 0 ELSE b - a + 1
  BY <1>1, FS_Interval
<1>. QED BY <1>1, <1>2

(* The invariant holds initially. *)
LEMMA Starts == Init => IInv
<1>. SUFFICES ASSUME Init PROVE IInv
  OBVIOUS
<1>1. PICK in \in Paths, v \in Versions : \E h \in Hefs(v, tok) :
        file = [p \in Paths |-> IF p = in THEN h ELSE Absent]
  BY DEF Init
<1>2. PICK h \in Hefs(v, tok) : file = [p \in Paths |-> IF p = in THEN h ELSE Absent]
  BY <1>1
<1>3. GoodHef(tok, h)
  BY HefAssumption, BuiltIsGood
<1>4. FileInv
  BY <1>2, <1>3 DEF FileInv, Init
<1>. QED BY <1>4 DEF IInv, PatchInv, VerifiedInv, Init

(* The action Load. *)
LEMMA LoadKeeps ==
  ASSUME IInv, NEW in \in Paths, NEW out \in Paths, NEW sizes \in Asked, Load(in, out, sizes)
  PROVE  IInv'
<1>1. /\ Whole(in) /\ UNCHANGED <<file, tok, verified>>
      /\ patch' = [at |-> "loaded", out |-> out, sizes |-> sizes, hef |-> Patched(file[in], sizes)]
  BY DEF Load
<1>2. GoodHef(tok, Patched(file[in], sizes))
  BY <1>1, HefAssumption, WholeIsGood, PatchedIsGood DEF IInv
<1>3. PatchInv'
  <2>. DEFINE hef == Patched(file[in], sizes)
  <2>. HIDE DEF hef
  <2>1. patch' = [at |-> "loaded", out |-> out, sizes |-> sizes, hef |-> hef] /\ GoodHef(tok, hef)
    BY <1>1, <1>2 DEF hef
  <2>2. patch'.at = "loaded" /\ patch'.hef = hef
    BY <2>1
  <2>. QED BY <1>1, <2>1, <2>2 DEF PatchInv
<1>. QED BY <1>1, <1>3 DEF IInv, FileInv, VerifiedInv, Whole

(* The action SaveOpen. *)
LEMMA SaveOpenKeeps == IInv /\ SaveOpen => IInv'
<1>. SUFFICES ASSUME IInv, SaveOpen PROVE IInv'
  OBVIOUS
<1>1. PICK out \in Paths, sizes \in Asked :
        /\ GoodHef(tok, patch.hef)
        /\ patch = [at |-> "loaded", out |-> out, sizes |-> sizes, hef |-> patch.hef]
  BY DEF IInv, PatchInv, SaveOpen, Idle
<1>2. /\ patch.out = out
      /\ patch' = [at |-> "saving", out |-> out, sizes |-> sizes, hef |-> patch.hef]
  BY <1>1 DEF SaveOpen
<1>3. /\ file' = [file EXCEPT ![out] = Torn] /\ verified' = [verified EXCEPT ![out] = None]
      /\ tok' = tok
  BY <1>2 DEF SaveOpen
<1>4. FileInv'
  BY <1>3 DEF IInv, FileInv
<1>5. verified' \in [Paths -> Asked \cup {None}] /\ verified'[out] = None
  BY <1>3 DEF IInv, VerifiedInv
<1>6. PatchInv'
  <2>1. patch'.at = "saving" /\ patch'.hef = patch.hef
    BY <1>2
  <2>. QED BY <1>1, <1>2, <1>3, <1>5, <2>1 DEF PatchInv
<1>7. \A p \in Paths : p # out => file'[p] = file[p] /\ verified'[p] = verified[p]
  BY <1>3 DEF IInv, FileInv, VerifiedInv
<1>. QED BY <1>4, <1>5, <1>6, <1>7 DEF IInv, VerifiedInv, Whole

(* The action SaveDone. *)
LEMMA SaveDoneKeeps == IInv /\ SaveDone => IInv'
<1>. SUFFICES ASSUME IInv, SaveDone PROVE IInv'
  OBVIOUS
<1>1. PICK out \in Paths, sizes \in Asked :
        /\ GoodHef(tok, patch.hef) /\ verified[out] = None
        /\ patch = [at |-> "saving", out |-> out, sizes |-> sizes, hef |-> patch.hef]
  BY DEF IInv, PatchInv, SaveDone, Idle
<1>2. patch.out = out /\ patch.sizes = sizes
  BY <1>1
<1>3. /\ file' = [file EXCEPT ![out] = patch.hef]
      /\ patch' = [at |-> "saved", out |-> out, sizes |-> sizes]
      /\ tok' = tok /\ verified' = verified
  BY <1>2 DEF SaveDone
<1>4. FileInv'
  BY <1>1, <1>3 DEF IInv, FileInv
<1>5. file'[out].kind = "hef" /\ \A p \in Paths : p # out => file'[p] = file[p]
  BY <1>1, <1>3, GoodIsWhole DEF IInv, FileInv
<1>6. PatchInv'
  BY <1>1, <1>3, <1>5 DEF PatchInv, Whole
<1>. QED BY <1>1, <1>3, <1>4, <1>5, <1>6 DEF IInv, VerifiedInv, Whole

(* The action Verify. *)
LEMMA VerifyKeeps == IInv /\ Verify => IInv'
<1>. SUFFICES ASSUME IInv, Verify PROVE IInv'
  OBVIOUS
<1>1. PICK out \in Paths, sizes \in Asked :
        patch = [at |-> "saved", out |-> out, sizes |-> sizes] /\ Whole(out)
  BY DEF IInv, PatchInv, Verify, Idle
<1>2. patch.out = out /\ patch.sizes = sizes
  BY <1>1
<1>3. /\ UNCHANGED <<file, tok>> /\ patch' = Idle
      /\ verified' = IF Checks(file[out], sizes) THEN [verified EXCEPT ![out] = sizes] ELSE verified
  BY <1>2 DEF Verify
<1>4. VerifiedInv'
  <2>1. CASE Checks(file[out], sizes)
    <3>1. verified' = [verified EXCEPT ![out] = sizes]
      BY <1>3, <2>1
    <3>2. /\ verified' \in [Paths -> Asked \cup {None}] /\ verified'[out] = sizes
          /\ \A p \in Paths : p # out => verified'[p] = verified[p]
      BY <3>1 DEF IInv, VerifiedInv
    <3>. QED BY <1>1, <1>3, <2>1, <3>2 DEF IInv, VerifiedInv, Whole
  <2>2. CASE ~ Checks(file[out], sizes)
    BY <1>3, <2>2 DEF IInv, VerifiedInv, Whole
  <2>. QED BY <2>1, <2>2
<1>. QED BY <1>3, <1>4 DEF IInv, FileInv, PatchInv

(* The action Kill. *)
LEMMA KillKeeps == IInv /\ Kill => IInv'
BY DEF Kill, IInv, FileInv, PatchInv, VerifiedInv, Whole

(* A stutter. *)
LEMMA HefStutters == IInv /\ UNCHANGED vars => IInv'
BY DEF vars, IInv, FileInv, PatchInv, VerifiedInv, Whole

(* Every whole file is a HEF in which each descriptor points at a document *)
(* and signs it, whatever was patched, saved or killed before.             *)
THEOREM HefInvariant == Spec => []IInv
<1>1. IInv /\ [Next]_vars => IInv'
  BY LoadKeeps, SaveOpenKeeps, SaveDoneKeeps, VerifyKeeps, KillKeeps, HefStutters DEF Next
<1>. QED BY <1>1, Starts, PTL DEF Spec

-----------------------------------------------------------------------------

(* The sizes the script printed "[OK] round-trip verified" for are the     *)
(* sizes the server runs with (hotpatch_hailo_config.py's main).           *)
THEOREM VerifiedIsServed == Spec => []ServedAsVerified
<1>1. ASSUME IInv, NEW p \in Paths, verified[p] # None
      PROVE  /\ Whole(p)
             /\ ServerPrefill(ServerConfig(file[p])) = verified[p].prefill
             /\ ServerConfig(file[p]).cache = verified[p].cache
  <2>. DEFINE h == file[p]
              sizes == verified[p]
  <2>1. /\ Whole(p) /\ Checks(h, sizes) /\ sizes \in Asked
    BY <1>1 DEF IInv, VerifiedInv
  <2>2. GoodHef(tok, h)
    BY <1>1, <2>1, WholeIsGood DEF IInv
  <2>. HIDE DEF h, sizes
  <2>3. OneConfig(tok, h)
    <3>1. CASE TwoConfigs(tok, h)
      <4>1. Matches(h) = {1, 2}
        BY <2>2, <3>1, Configurations
      <4>2. Cardinality({1, 2}) = 2
        BY Two
      <4>. QED BY <2>1, <4>1, <4>2 DEF Checks
    <3>. QED BY <2>2, <3>1 DEF GoodHef
  <2>4. \A i \in DOMAIN h.res : h.res[i].name = "hailo-config.json" <=> i = 2
    <3>1. /\ h.res[1].name = "tokenizer.json" /\ h.res[2].name = "hailo-config.json"
          /\ h.res[3].name = "embeddings.bin"
      BY <2>3 DEF OneConfig, Names
    <3>. QED BY <2>2, <3>1, Configurations
  <2>5. (CHOOSE i \in DOMAIN h.res : h.res[i].name = "hailo-config.json") = 2
    <3>1. 2 \in DOMAIN h.res
      BY <2>2, Configurations
    <3>. QED BY <2>4, <3>1
  <2>6. ServerConfig(h) = Decoded(ConfigBytes(h, h.res[2]))
    BY <2>5 DEF ServerConfig
  <2>7. ServerConfig(h).count = sizes.prefill /\ ServerConfig(h).cache = sizes.cache
    BY <2>1, <2>2, <2>6, Configurations DEF Checks
  <2>8. sizes.prefill # 0
    BY <2>1, HefAssumption DEF HefAssumption, Sizes
  <2>. QED BY <2>1, <2>7, <2>8 DEF ServerPrefill, Missing, h, sizes
<1>2. IInv => ServedAsVerified
  BY <1>1 DEF ServedAsVerified
<1>. QED BY <1>2, HefInvariant, PTL

(* Patches append: what was built beside the configuration stays readable  *)
(* (hotpatch_hailo_config.py's main).                                      *)
THEOREM PatchesAppend == Spec => []OthersUntouched
<1>1. ASSUME IInv, NEW p \in Paths, Whole(p), NEW i \in DOMAIN file[p].res \ {Target(file[p])}
      PROVE  \E doc \in {TokenizerDoc(tok), Embeddings, Config(tok)} :
               /\ ConfigBytes(file[p], file[p].res[i]) = Bytes(doc)
               /\ doc.kind = "config" => Cardinality(Matches(file[p])) = 2
  <2>. DEFINE h == file[p]
  <2>1. GoodHef(tok, h)
    BY <1>1, WholeIsGood DEF IInv
  <2>2. i \in {1, 3}
    <3>1. DOMAIN h.res = 1 .. 3 /\ Target(h) = 2
      BY <2>1, Configurations
    <3>. QED BY <1>1, <3>1
  <2>. HIDE DEF h
  <2>3. /\ h.info \in Seq(Byte(tok)) /\ h.res[i].offset \in Int /\ CcwsSize \in Nat
    BY <2>1, <2>2, HefAssumption DEF GoodHef, HefType, Descriptor, HefAssumption
  <2>4. \A doc \in Docs(tok) : Holds(h, i, doc) => ConfigBytes(h, h.res[i]) = Bytes(doc)
    BY <2>3, ReadsItsDoc
  <2>5. TokenizerDoc(tok) \in Docs(tok) /\ Embeddings \in Docs(tok) /\ Config(tok) \in Docs(tok)
    BY HefAssumption, KnownDocs
  <2>6. TokenizerDoc(tok).kind # "config" /\ Embeddings.kind # "config"
    BY DEF TokenizerDoc, Embeddings
  <2>7. CASE OneConfig(tok, h)
    <3>1. Holds(h, i, TokenizerDoc(tok)) \/ Holds(h, i, Embeddings)
      BY <2>2, <2>7 DEF OneConfig
    <3>. QED BY <2>4, <2>5, <2>6, <3>1 DEF h
  <2>8. CASE TwoConfigs(tok, h)
    <3>1. Holds(h, i, Config(tok)) \/ Holds(h, i, TokenizerDoc(tok))
      BY <2>2, <2>8 DEF TwoConfigs
    <3>2. Matches(h) = {1, 2}
      BY <2>1, <2>8, Configurations
    <3>3. Cardinality({1, 2}) = 2
      BY Two
    <3>. QED BY <2>4, <2>5, <2>6, <3>1, <3>2, <3>3 DEF h
  <2>. QED BY <2>1, <2>7, <2>8 DEF GoodHef
<1>2. IInv => OthersUntouched
  BY <1>1 DEF OthersUntouched
<1>. QED BY <1>2, HefInvariant, PTL

(* The audit's own parser agrees with the descriptors, in every version of *)
(* the format and after every patch (hef_audit.py's read_resource_bytes).  *)
THEOREM AuditAgrees == Spec => []AuditReadsWhatIsSigned
<1>1. ASSUME IInv, NEW p \in Paths, Whole(p), NEW i \in DOMAIN file[p].res
      PROVE  AuditBytes(file[p], file[p].res[i]) = file[p].res[i].signature
  <2>1. GoodHef(tok, file[p])
    BY <1>1, WholeIsGood DEF IInv
  <2>2. i \in 1 .. 3
    BY <2>1, Configurations
  <2>. QED BY <2>1, <2>2, HefAssumption, AuditReads
<1>2. IInv => AuditReadsWhatIsSigned
  BY <1>1 DEF AuditReadsWhatIsSigned
<1>. QED BY <1>2, HefInvariant, PTL

(* The server finds the checkpoint's special token and its tokenizer.      *)
LEMMA ServerFinds ==
  ASSUME NEW t, NEW h, GoodHef(t, h)
  PROVE  ServerConfig(h).bos = BosText(t.post) /\ ServerTokenizerDoc(h) = ServerTokenizer(t)
<1>1. /\ DOMAIN h.res = 1 .. 3 /\ h.info \in Seq(Byte(t)) /\ CcwsSize \in Nat
      /\ \A i \in 1 .. 3 : h.res[i].offset \in Int
  BY HefAssumption DEF GoodHef, HefType, Descriptor, HefAssumption
<1>2. ASSUME NEW i \in 1 .. 3, NEW doc \in Docs(t), Holds(h, i, doc)
      PROVE  Decoded(ConfigBytes(h, h.res[i])) = doc
  BY <1>1, <1>2, ReadsItsDoc, DocBytes
<1>3. TokenizerDoc(t) \in Docs(t) /\ Config(t) \in ConfigDocs(t) /\ ConfigDocs(t) \subseteq Docs(t)
  BY HefAssumption, KnownDocs
<1>4. \A cfg \in ConfigDocs(t) : cfg.bos = BosText(t.post)
  BY DEF ConfigDocs
<1>5. TokenizerDoc(t).tok = ServerTokenizer(t)
  BY DEF TokenizerDoc
<1>. DEFINE config == CHOOSE i \in DOMAIN h.res : h.res[i].name = "hailo-config.json"
            tokenizer == CHOOSE i \in DOMAIN h.res : h.res[i].name = "tokenizer.json"
<1>6. CASE OneConfig(t, h)
  <2>1. /\ h.res[1].name = "tokenizer.json" /\ h.res[2].name = "hailo-config.json"
        /\ h.res[3].name = "embeddings.bin"
    BY <1>6 DEF OneConfig, Names
  <2>2. config = 2 /\ tokenizer = 1
    BY <1>1, <2>1
  <2>3. PICK cfg \in ConfigDocs(t) : Holds(h, 2, cfg)
    BY DEF GoodHef
  <2>4. Holds(h, 1, TokenizerDoc(t))
    BY <1>6 DEF OneConfig
  <2>5. ServerConfig(h) = Decoded(ConfigBytes(h, h.res[2]))
    BY <2>2, Zenon DEF ServerConfig
  <2>6. ServerTokenizerDoc(h) = Decoded(ConfigBytes(h, h.res[1])).tok
    BY <2>2, Zenon DEF ServerTokenizerDoc
  <2>. HIDE DEF config, tokenizer
  <2>7. Decoded(ConfigBytes(h, h.res[2])) = cfg
    BY <1>2, <1>3, <2>3
  <2>8. Decoded(ConfigBytes(h, h.res[1])) = TokenizerDoc(t)
    BY <1>2, <1>3, <2>4
  <2>. QED BY <1>4, <1>5, <2>3, <2>5, <2>6, <2>7, <2>8
<1>7. CASE TwoConfigs(t, h)
  <2>1. /\ h.res[1].name = "hailo-config.json" /\ h.res[2].name = "hailo_config.json"
        /\ h.res[3].name = "tokenizer.json"
    BY <1>7 DEF TwoConfigs, TwoNames
  <2>2. config = 1 /\ tokenizer = 3
    BY <1>1, <2>1
  <2>3. Holds(h, 1, Config(t)) /\ Holds(h, 3, TokenizerDoc(t))
    BY <1>7 DEF TwoConfigs
  <2>4. ServerConfig(h) = Decoded(ConfigBytes(h, h.res[1]))
    BY <2>2, Zenon DEF ServerConfig
  <2>5. ServerTokenizerDoc(h) = Decoded(ConfigBytes(h, h.res[3])).tok
    BY <2>2, Zenon DEF ServerTokenizerDoc
  <2>. HIDE DEF config, tokenizer
  <2>6. Decoded(ConfigBytes(h, h.res[1])) = Config(t)
    BY <1>2, <1>3, <2>3
  <2>7. Decoded(ConfigBytes(h, h.res[3])) = TokenizerDoc(t)
    BY <1>2, <1>3, <2>3
  <2>. QED BY <1>3, <1>4, <1>5, <2>4, <2>5, <2>6, <2>7
<1>. QED BY <1>6, <1>7 DEF GoodHef

(* What step 3 makes of a tokenizer and of its special token suits the     *)
(* server: a matter of the tokenizer alone.                                *)
Suits(t) ==
  /\ ServerPrompt(Config(t), Prompt) = TrainedPrompt(t.post, Prompt)
  /\ ServerText(ServerTokenizer(t), Words) = FlattenSeq(Words)

(* If step 3 adapts the checkpoints' tokenizers as the server needs them,  *)
(* no patch takes that away (server_tokenizer and build_hailo_config, then *)
(* hotpatch_hailo_config.py's main).                                       *)
THEOREM PatchesKeepTokenizers ==
  (\A t \in Tokenizers : Suits(t)) => (Spec => []ServerTokenizesAlike)
<1>1. ASSUME \A t \in Tokenizers : Suits(t), IInv, NEW p \in Paths, Whole(p)
      PROVE  /\ ServerPrompt(ServerConfig(file[p]), Prompt) = TrainedPrompt(tok.post, Prompt)
             /\ ServerText(ServerTokenizerDoc(file[p]), Words) = FlattenSeq(Words)
  <2>1. GoodHef(tok, file[p]) /\ Suits(tok)
    BY <1>1, WholeIsGood DEF IInv, FileInv
  <2>2. ServerConfig(file[p]).bos = Config(tok).bos
    BY <2>1, ServerFinds DEF Config, BuildHailoConfig
  <2>3. ServerPrompt(ServerConfig(file[p]), Prompt) = ServerPrompt(Config(tok), Prompt)
    BY <2>2 DEF ServerPrompt
  <2>4. ServerTokenizerDoc(file[p]) = ServerTokenizer(tok)
    BY <2>1, ServerFinds
  <2>. QED BY <2>1, <2>3, <2>4 DEF Suits
<1>2. (\A t \in Tokenizers : Suits(t)) /\ IInv => ServerTokenizesAlike
  BY <1>1 DEF ServerTokenizesAlike
<1>. SUFFICES ASSUME \A t \in Tokenizers : Suits(t)
              PROVE  Spec => []ServerTokenizesAlike
  OBVIOUS
<1>3. IInv => ServerTokenizesAlike
  BY <1>2
<1>. QED BY <1>3, HefInvariant, PTL
=============================================================================
