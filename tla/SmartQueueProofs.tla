------------------------ MODULE SmartQueueProofs ------------------------
(***************************************************************************)
(* What the provers check about SmartQueue.  First the heap: heapq's       *)
(* siftdown and siftup are recursive functions of a heap and a place in    *)
(* it, and they are shown, by induction over the place, to do nothing but  *)
(* rearrange the heap, whatever the order of the jobs, for the order       *)
(* changes while a job is in the heap.  Then the inductive invariant IInv, *)
(* with which no job is lost or run twice, and last what the heap does     *)
(* promise of its order: of up to four jobs the most wanted comes first.   *)
(***************************************************************************)
EXTENDS SmartQueue, FiniteSetTheorems, SequenceTheorems, WellFoundedInduction, TLAPS

-----------------------------------------------------------------------------
\* Induction over the numbers, for sets of them.
LEMMA NatSetInduction ==
    ASSUME NEW N, 0 \in N, \A n \in Nat : n \in N => n + 1 \in N
    PROVE  Nat \subseteq N
<1> DEFINE Less == {p \in Nat \X Nat : p[1] < p[2]}
<1>1. IsWellFoundedOn(Less, Nat)
  BY NatLessThanWellFounded DEF OpToRel
<1> SUFFICES ASSUME Nat \ N # {} PROVE FALSE
  OBVIOUS
<1>2. PICK n \in Nat \ N : \A m \in Nat \ N : <<m, n>> \notin Less
  <2> HIDE DEF Less
  <2> QED
    BY <1>1, WFMin
<1>3. n # 0 /\ n - 1 \in Nat /\ (n - 1) + 1 = n
  OBVIOUS
<1>4. <<n - 1, n>> \in Less
  BY <1>3
<1>5. n - 1 \in N
  BY <1>2, <1>3, <1>4
<1> QED
  BY <1>3, <1>5

\* F computes the values of a function from S to T, each from those at arguments of
\* a smaller size.
Recurs(S, T, size, F) ==
    /\ size \in [S -> Nat] /\ F \in [[S -> T] -> [S -> T]] /\ [S -> T] # {}
    /\ \A g, h \in [S -> T], s \in S :
          (\A t \in S : size[t] < size[s] => g[t] = h[t]) => F[g][s] = F[h][s]

\* There is such a function.
LEMMA FixedPoint ==
    ASSUME NEW S, NEW T, NEW size, NEW F, Recurs(S, T, size, F)
    PROVE  \E f \in [S -> T] : F[f] = f
<1> USE DEF Recurs
<1> DEFINE Good(n) == {g \in [S -> T] : \A s \in S : size[s] < n => F[g][s] = g[s]}
<1>1. \A n \in Nat : Good(n) # {}
  <2> DEFINE N == {n \in Nat : Good(n) # {}}
  <2>1. 0 \in N
    OBVIOUS
  <2>2. ASSUME NEW n \in Nat, n \in N PROVE n + 1 \in N
    <3>1. PICK g \in [S -> T] : \A s \in S : size[s] < n => F[g][s] = g[s]
      BY <2>2
    <3>2. F[g] \in [S -> T]
      OBVIOUS
    <3>3. ASSUME NEW s \in S, size[s] < n + 1 PROVE F[F[g]][s] = F[g][s]
      <4>1. \A t \in S : size[t] < size[s] => F[g][t] = g[t]
        BY <3>1, <3>3
      <4> QED
        BY <3>2, <4>1
    <3> QED
      BY <3>2, <3>3
  <2> HIDE DEF N
  <2>3. Nat \subseteq N
    BY <2>1, <2>2, NatSetInduction
  <2> QED
    BY <2>3 DEF N
<1>2. \A k, m, n \in Nat : \A g \in Good(m), h \in Good(n), s \in S :
         size[s] < k /\ size[s] < m /\ size[s] < n => g[s] = h[s]
  <2> DEFINE P(k) == \A m, n \in Nat : \A g \in Good(m), h \in Good(n), s \in S :
                        size[s] < k /\ size[s] < m /\ size[s] < n => g[s] = h[s]
             N == {k \in Nat : P(k)}
  <2>1. 0 \in N
    OBVIOUS
  <2>2. ASSUME NEW k \in Nat, k \in N PROVE k + 1 \in N
    <3> SUFFICES ASSUME NEW m \in Nat, NEW n \in Nat, NEW g \in Good(m), NEW h \in Good(n),
                        NEW s \in S, size[s] < k + 1, size[s] < m, size[s] < n
                 PROVE  g[s] = h[s]
      BY SMTT(30)
    <3>1. P(k)
      BY <2>2
    <3>2. \A t \in S : size[t] < size[s] => g[t] = h[t]
      <4> SUFFICES ASSUME NEW t \in S, size[t] < size[s] PROVE g[t] = h[t]
        OBVIOUS
      <4>1. size[t] \in Nat /\ size[s] \in Nat
        OBVIOUS
      <4>2. size[t] < k /\ size[t] < m /\ size[t] < n
        BY <4>1
      <4> HIDE DEF Good
      <4> QED
        BY <3>1, <4>2
    <3>3. F[g][s] = F[h][s]
      BY <3>2
    <3> QED
      BY <3>3
  <2> HIDE DEF N
  <2>3. Nat \subseteq N
    BY <2>1, <2>2, NatSetInduction
  <2> QED
    BY <2>3 DEF N
<1> DEFINE G(n) == CHOOSE g : g \in Good(n)
           f == [s \in S |-> G(size[s] + 1)[s]]
<1>3. \A n \in Nat : G(n) \in Good(n)
  <2> HIDE DEF Good
  <2> QED
    BY <1>1
<1>4. f \in [S -> T]
  <2> SUFFICES ASSUME NEW s \in S PROVE f[s] \in T
    OBVIOUS
  <2>0. size[s] + 1 \in Nat
    OBVIOUS
  <2>1. G(size[s] + 1) \in Good(size[s] + 1)
    BY <1>3, <2>0
  <2>2. G(size[s] + 1) \in [S -> T]
    BY <2>1
  <2> HIDE DEF G
  <2> QED
    BY <2>2
<1>5. ASSUME NEW s \in S PROVE F[f][s] = f[s]
  <2> DEFINE g == G(size[s] + 1)
  <2>0. size[s] \in Nat /\ size[s] + 1 \in Nat
    OBVIOUS
  <2>1. g \in Good(size[s] + 1)
    BY <1>3, <2>0
  <2>2. F[g][s] = g[s] /\ g \in [S -> T]
    BY <2>0, <2>1
  <2>3. ASSUME NEW t \in S, size[t] < size[s] PROVE f[t] = g[t]
    <3>1. size[t] \in Nat /\ size[t] + 1 \in Nat
      OBVIOUS
    <3>2. G(size[t] + 1) \in Good(size[t] + 1)
      BY <1>3, <3>1
    <3>3. size[t] < size[t] + 1 /\ size[t] < size[s] + 1
      BY <2>0, <2>3, <3>1
    <3>4. f[t] = G(size[t] + 1)[t]
      OBVIOUS
    <3> HIDE DEF Good, G, f, g
    <3>5. G(size[t] + 1)[t] = g[t]
      BY <1>2, <2>0, <2>1, <3>1, <3>2, <3>3
    <3> QED
      BY <3>4, <3>5
  <2>4. F[f][s] = F[g][s]
    <3> HIDE DEF f, g
    <3> QED
      BY <1>4, <2>2, <2>3
  <2>5. f[s] = g[s]
    OBVIOUS
  <2> QED
    BY <2>2, <2>4, <2>5
<1>6. F[f] \in [S -> T]
  BY <1>4
<1>7. F[f] = f
  <2> HIDE DEF f
  <2> QED
    BY <1>4, <1>5, <1>6
<1> QED
  BY <1>4, <1>7

-----------------------------------------------------------------------------
\* r has the jobs of h, each as often if each is there once.
Rearranges(h, r) ==
    /\ r \in Seq(Futs) /\ Len(r) = Len(h) /\ ToSet(r) = ToSet(h)
    /\ IsInjective(h) => IsInjective(r)

\* One rearrangement after another is a rearrangement.
LEMMA RearrangesTransitive ==
    ASSUME NEW g, NEW h, NEW r, Rearranges(g, h), Rearranges(h, r)
    PROVE  Rearranges(g, r)
BY DEF Rearranges

\* A heap left alone is rearranged.
LEMMA RearrangesReflexive ==
    ASSUME NEW h \in Seq(Futs)
    PROVE  Rearranges(h, h)
BY DEF Rearranges

\* Two places of a heap swapped rearrange it.
LEMMA SwapRearranges ==
    ASSUME NEW h \in Seq(Futs), NEW i \in 1..Len(h), NEW j \in 1..Len(h)
    PROVE  Rearranges(h, Swap(h, i, j))
<1> DEFINE s == Swap(h, i, j)
<1>1. s \in Seq(Futs) /\ Len(s) = Len(h)
  BY DEF Swap
<1>2. \A k \in 1..Len(h) : s[k] = IF k = j THEN h[i] ELSE IF k = i THEN h[j] ELSE h[k]
  BY DEF Swap
<1>3. ToSet(s) = ToSet(h)
  <2>0. DOMAIN s = 1..Len(h) /\ DOMAIN h = 1..Len(h)
    BY <1>1
  <2> HIDE DEF s
  <2>1. ASSUME NEW k \in 1..Len(h) PROVE s[k] \in ToSet(h)
    BY <1>2, <2>0 DEF ToSet
  <2>2. ASSUME NEW k \in 1..Len(h) PROVE h[k] \in ToSet(s)
    <3>1. s[IF k = i THEN j ELSE IF k = j THEN i ELSE k] = h[k]
      BY <1>2
    <3> QED
      BY <2>0, <3>1 DEF ToSet
  <2> QED
    BY <2>0, <2>1, <2>2 DEF ToSet
<1>4. IsInjective(h) => IsInjective(s)
  <2> HIDE DEF s
  <2> QED
    BY <1>1, <1>2 DEF IsInjective
<1> QED
  BY <1>1, <1>3, <1>4 DEF Rearranges

\* The equation of Up: a place has no end of parents.
LEMMA UpDef ==
    \A p \in Places :
        Up[p] = LET h == p[1]  i == p[2]
                IN  IF i > 1 /\ Before(h[i], h[i \div 2])
                    THEN Up[<<Swap(h, i, i \div 2), i \div 2>>] ELSE h
<1> DEFINE T == Seq(Futs)
           Body(g, p) == IF p[2] > 1 /\ Before(p[1][p[2]], p[1][p[2] \div 2])
                         THEN g[<<Swap(p[1], p[2], p[2] \div 2), p[2] \div 2>>] ELSE p[1]
           F == [g \in [Places -> T] |-> [p \in Places |-> Body(g, p)]]
           size == [p \in Places |-> p[2]]
<1>1. ASSUME NEW p \in Places, p[2] > 1
      PROVE  /\ <<Swap(p[1], p[2], p[2] \div 2), p[2] \div 2>> \in Places
             /\ p[2] \div 2 < p[2]
  <2>1. p[1] \in Seq(Futs) /\ p[2] \in 1..Len(p[1]) /\ p[2] \div 2 \in 1..Len(p[1]) /\ p[2] \div 2 < p[2]
    BY <1>1 DEF Places
  <2>2. Rearranges(p[1], Swap(p[1], p[2], p[2] \div 2))
    BY <2>1, SwapRearranges
  <2> QED
    BY <2>1, <2>2 DEF Rearranges, Places
<1>2. size \in [Places -> Nat]
  BY DEF Places
<1>3. F \in [[Places -> T] -> [Places -> T]]
  <2> SUFFICES ASSUME NEW g \in [Places -> T], NEW p \in Places PROVE Body(g, p) \in T
    OBVIOUS
  <2>1. p[1] \in T
    BY DEF Places
  <2> QED
    BY <1>1, <2>1
<1>4. \A g, h \in [Places -> T], p \in Places :
         (\A q \in Places : size[q] < size[p] => g[q] = h[q]) => F[g][p] = F[h][p]
  <2> SUFFICES ASSUME NEW g \in [Places -> T], NEW h \in [Places -> T], NEW p \in Places,
                      \A q \in Places : size[q] < size[p] => g[q] = h[q]
               PROVE  Body(g, p) = Body(h, p)
    OBVIOUS
  <2> CASE p[2] > 1
    <3> DEFINE q == <<Swap(p[1], p[2], p[2] \div 2), p[2] \div 2>>
    <3>1. q \in Places /\ size[q] < size[p]
      BY <1>1
    <3>2. g[q] = h[q]
      BY <3>1
    <3> QED
      BY <3>2
  <2> CASE ~(p[2] > 1)
    OBVIOUS
  <2> QED
    OBVIOUS
<1>5. [Places -> T] # {}
  <2>1. [p \in Places |-> p[1]] \in [Places -> T]
    BY DEF Places
  <2> QED
    BY <2>1
<1>6. Recurs(Places, T, size, F)
  <2> HIDE DEF T, F, size, Body
  <2> QED
    BY <1>2, <1>3, <1>4, <1>5 DEF Recurs
<1>7. \E f \in [Places -> T] : F[f] = f
  <2> HIDE DEF T, F, size, Body
  <2> QED
    BY <1>6, FixedPoint
<1>8. \E f : f = [p \in Places |-> Body(f, p)]
  BY <1>7
<1>9. Up = [p \in Places |-> Body(Up, p)]
  BY <1>8 DEF Up
<1> QED
  BY <1>9

\* A job that comes before its parent goes to the place of the parent.
LEMMA UpStep ==
    ASSUME NEW h \in Seq(Futs), NEW i \in 1..Len(h)
    PROVE  Up[<<h, i>>] = IF i > 1 /\ Before(h[i], h[i \div 2])
                          THEN Up[<<Swap(h, i, i \div 2), i \div 2>>] ELSE h
<1>1. <<h, i>> \in Places
  BY DEF Places
<1> QED
  BY <1>1, UpDef

\* The root stays where it is.
LEMMA UpAtRoot ==
    ASSUME NEW h \in Seq(Futs), 1 \in 1..Len(h)
    PROVE  Up[<<h, 1>>] = h
<1>1. ~(1 > 1)
  OBVIOUS
<1> QED
  BY <1>1, UpStep, Zenon

\* siftdown() rearranges the heap: by induction over the place it starts from.
LEMMA UpRearranges ==
    ASSUME NEW h \in Seq(Futs), NEW i \in 1..Len(h)
    PROVE  Rearranges(h, Up[<<h, i>>])
<1> DEFINE P(n) == \A p \in Places : p[2] <= n => Rearranges(p[1], Up[p])
           N == {n \in Nat : P(n)}
<1>1. 0 \in N
  BY DEF Places
<1>2. ASSUME NEW n \in Nat, n \in N PROVE n + 1 \in N
  <2> SUFFICES ASSUME NEW p \in Places, p[2] <= n + 1 PROVE Rearranges(p[1], Up[p])
    OBVIOUS
  <2>1. P(n)
    BY <1>2
  <2>2. p[1] \in Seq(Futs) /\ p[2] \in 1..Len(p[1])
    BY DEF Places
  <2>3. CASE p[2] > 1 /\ Before(p[1][p[2]], p[1][p[2] \div 2])
    <3> DEFINE s == Swap(p[1], p[2], p[2] \div 2)
    <3>1. p[2] \div 2 \in 1..Len(p[1]) /\ p[2] \div 2 <= n
      BY <2>2, <2>3
    <3>2. Rearranges(p[1], s)
      BY <2>2, <3>1, SwapRearranges
    <3> HIDE DEF s
    <3>3. <<s, p[2] \div 2>> \in Places
      BY <3>1, <3>2 DEF Places, Rearranges
    <3>4. Rearranges(s, Up[<<s, p[2] \div 2>>])
      BY <2>1, <3>1, <3>3
    <3>5. Up[p] = Up[<<s, p[2] \div 2>>]
      BY <2>3, UpDef DEF s
    <3> QED
      BY <3>2, <3>4, <3>5, RearrangesTransitive
  <2>4. CASE ~(p[2] > 1 /\ Before(p[1][p[2]], p[1][p[2] \div 2]))
    <3>1. Up[p] = p[1]
      BY <2>4, UpDef
    <3> QED
      BY <2>2, <3>1, RearrangesReflexive
  <2> QED
    BY <2>3, <2>4
<1> HIDE DEF N
<1>3. Nat \subseteq N
  BY <1>1, <1>2, NatSetInduction
<1>4. <<h, i>> \in Places
  BY DEF Places
<1> QED
  BY <1>3, <1>4 DEF N, Places

\* The equation of Down: a place is before those of its children.
ChildOf(h, i) == IF 2 * i < Len(h) /\ ~Before(h[2 * i], h[2 * i + 1]) THEN 2 * i + 1 ELSE 2 * i

\* The child that a job sinks to is in the heap, and the swap gives a heap with a place.
LEMMA SinkKeeps ==
    ASSUME NEW p \in Places, ~(2 * p[2] > Len(p[1]))
    PROVE  /\ p[1] \in Seq(Futs) /\ p[2] \in 1..Len(p[1])
           /\ ChildOf(p[1], p[2]) \in 1..Len(p[1]) /\ p[2] < ChildOf(p[1], p[2])
           /\ Rearranges(p[1], Swap(p[1], p[2], ChildOf(p[1], p[2])))
           /\ <<Swap(p[1], p[2], ChildOf(p[1], p[2])), ChildOf(p[1], p[2])>> \in Places
<1>1. p[1] \in Seq(Futs) /\ p[2] \in 1..Len(p[1])
  BY DEF Places
<1>2. ChildOf(p[1], p[2]) \in 1..Len(p[1]) /\ p[2] < ChildOf(p[1], p[2])
  BY <1>1 DEF ChildOf
<1>3. Rearranges(p[1], Swap(p[1], p[2], ChildOf(p[1], p[2])))
  BY <1>1, <1>2, SwapRearranges
<1> QED
  BY <1>1, <1>2, <1>3 DEF Places, Rearranges

\* The equation of Down: a place has no more than finitely many below it.
LEMMA DownDef ==
    \A p \in Places :
        Down[p] = IF 2 * p[2] > Len(p[1]) THEN Up[p]
                  ELSE Down[<<Swap(p[1], p[2], ChildOf(p[1], p[2])), ChildOf(p[1], p[2])>>]
<1> DEFINE T == Seq(Futs)
           Body(g, p) == IF 2 * p[2] > Len(p[1]) THEN Up[p]
                         ELSE g[<<Swap(p[1], p[2], ChildOf(p[1], p[2])), ChildOf(p[1], p[2])>>]
           F == [g \in [Places -> T] |-> [p \in Places |-> Body(g, p)]]
           size == [p \in Places |-> Len(p[1]) - p[2]]
<1>0. ASSUME NEW p \in Places PROVE Up[p] \in T /\ p = <<p[1], p[2]>>
  <2>1. p[1] \in Seq(Futs) /\ p[2] \in 1..Len(p[1]) /\ p = <<p[1], p[2]>>
    BY DEF Places
  <2>2. Rearranges(p[1], Up[<<p[1], p[2]>>])
    BY <2>1, UpRearranges
  <2> QED
    BY <2>1, <2>2 DEF Rearranges
<1>2. size \in [Places -> Nat]
  BY DEF Places
<1>3. F \in [[Places -> T] -> [Places -> T]]
  <2> SUFFICES ASSUME NEW g \in [Places -> T], NEW p \in Places PROVE Body(g, p) \in T
    OBVIOUS
  <2> QED
    BY <1>0, SinkKeeps
<1>4. \A g, h \in [Places -> T], p \in Places :
         (\A q \in Places : size[q] < size[p] => g[q] = h[q]) => F[g][p] = F[h][p]
  <2> SUFFICES ASSUME NEW g \in [Places -> T], NEW h \in [Places -> T], NEW p \in Places,
                      \A q \in Places : size[q] < size[p] => g[q] = h[q]
               PROVE  Body(g, p) = Body(h, p)
    BY ZenonT(60)
  <2> CASE ~(2 * p[2] > Len(p[1]))
    <3> DEFINE q == <<Swap(p[1], p[2], ChildOf(p[1], p[2])), ChildOf(p[1], p[2])>>
    <3>1. q \in Places /\ p[1] \in Seq(Futs) /\ p[2] \in 1..Len(p[1])
          /\ p[2] < ChildOf(p[1], p[2]) /\ ChildOf(p[1], p[2]) \in 1..Len(p[1])
          /\ Len(Swap(p[1], p[2], ChildOf(p[1], p[2]))) = Len(p[1])
      BY SinkKeeps DEF Rearranges
    <3>2. size[q] < size[p]
      BY <3>1
    <3>3. g[q] = h[q]
      BY <3>1, <3>2
    <3> QED
      BY <3>3
  <2> CASE 2 * p[2] > Len(p[1])
    OBVIOUS
  <2> QED
    OBVIOUS
<1>5. [Places -> T] # {}
  <2>1. [p \in Places |-> p[1]] \in [Places -> T]
    BY DEF Places
  <2> QED
    BY <2>1
<1>6. Recurs(Places, T, size, F)
  <2> HIDE DEF T, F, size, Body
  <2> QED
    BY <1>2, <1>3, <1>4, <1>5 DEF Recurs
<1>7. \E f \in [Places -> T] : F[f] = f
  <2> HIDE DEF T, F, size, Body
  <2> QED
    BY <1>6, FixedPoint
<1>8. \E f : f = [p \in Places |-> Body(f, p)]
  BY <1>7
<1>9. Down = [p \in Places |-> Body(Down, p)]
  <2>1. ASSUME NEW p \in Places PROVE <<p[1], p[2]>> = p
    BY <1>0
  <2> QED
    BY <1>8, <2>1, ZenonT(60) DEF Down, ChildOf
<1> QED
  BY <1>9

\* At a leaf the job rises again.
LEMMA DownAtLeaf ==
    ASSUME NEW h \in Seq(Futs), NEW i \in 1..Len(h), 2 * i > Len(h)
    PROVE  Down[<<h, i>>] = Up[<<h, i>>]
<1>1. <<h, i>> \in Places
  BY DEF Places
<1> QED
  BY <1>1, DownDef

\* Above a leaf it sinks below the child that comes first.
LEMMA DownStep ==
    ASSUME NEW h \in Seq(Futs), NEW i \in 1..Len(h), ~(2 * i > Len(h))
    PROVE  Down[<<h, i>>] = Down[<<Swap(h, i, ChildOf(h, i)), ChildOf(h, i)>>]
<1>1. <<h, i>> \in Places
  BY DEF Places
<1> QED
  BY <1>1, DownDef

\* siftup() rearranges the heap: by induction over the places below the one it starts from.
LEMMA DownRearranges ==
    ASSUME NEW h \in Seq(Futs), NEW i \in 1..Len(h)
    PROVE  Rearranges(h, Down[<<h, i>>])
<1> DEFINE P(n) == \A p \in Places : Len(p[1]) - p[2] <= n => Rearranges(p[1], Down[p])
           N == {n \in Nat : P(n)}
<1>0. ASSUME NEW p \in Places, 2 * p[2] > Len(p[1]) PROVE Rearranges(p[1], Down[p])
  <2>1. p[1] \in Seq(Futs) /\ p[2] \in 1..Len(p[1]) /\ p = <<p[1], p[2]>>
    BY DEF Places
  <2>2. Down[p] = Up[p]
    BY <1>0, DownDef
  <2> QED
    BY <2>1, <2>2, UpRearranges
<1>1. 0 \in N
  <2>1. ASSUME NEW p \in Places, Len(p[1]) - p[2] <= 0 PROVE 2 * p[2] > Len(p[1])
    BY <2>1 DEF Places
  <2> QED
    BY <1>0, <2>1
<1>2. ASSUME NEW n \in Nat, n \in N PROVE n + 1 \in N
  <2> SUFFICES ASSUME NEW p \in Places, Len(p[1]) - p[2] <= n + 1 PROVE Rearranges(p[1], Down[p])
    OBVIOUS
  <2>1. P(n)
    BY <1>2
  <2>2. CASE ~(2 * p[2] > Len(p[1]))
    <3> DEFINE c == ChildOf(p[1], p[2])
               s == Swap(p[1], p[2], c)
    <3>1. /\ p[2] \in 1..Len(p[1]) /\ c \in 1..Len(p[1]) /\ p[2] < c
          /\ Rearranges(p[1], s) /\ <<s, c>> \in Places
      BY <2>2, SinkKeeps
    <3>2. Down[p] = Down[<<s, c>>]
      BY <2>2, DownDef
    <3> HIDE DEF s, c
    <3>3. Len(s) = Len(p[1])
      BY <3>1 DEF Rearranges
    <3>4. Len(s) - c <= n
      BY <3>1, <3>3, p[1] \in Seq(Futs) DEF Places
    <3>5. Rearranges(s, Down[<<s, c>>])
      BY <2>1, <3>1, <3>4
    <3> QED
      BY <3>1, <3>2, <3>5, RearrangesTransitive
  <2> QED
    BY <1>0, <2>2
<1> HIDE DEF N
<1>3. Nat \subseteq N
  BY <1>1, <1>2, NatSetInduction
<1>4. <<h, i>> \in Places
  BY DEF Places
<1> QED
  BY <1>3, <1>4 DEF N, Places

\* What heappush and heappop do to the jobs in the heap.
LEMMA PushAdds ==
    ASSUME NEW h \in Seq(Futs), NEW f \in Futs
    PROVE  /\ HeapPush(h, f) \in Seq(Futs)
           /\ ToSet(HeapPush(h, f)) = ToSet(h) \cup {f}
           /\ IsInjective(h) /\ f \notin ToSet(h) => IsInjective(HeapPush(h, f))
<1> DEFINE a == Append(h, f)
<1>1. a \in Seq(Futs) /\ Len(h) + 1 \in 1..Len(a)
  OBVIOUS
<1>2. Rearranges(a, HeapPush(h, f))
  BY <1>1, UpRearranges DEF HeapPush
<1>3. ToSet(a) = ToSet(h) \cup {f}
  <2>1. \A k \in 1..Len(h) + 1 : a[k] = IF k = Len(h) + 1 THEN f ELSE h[k]
    OBVIOUS
  <2>2. DOMAIN a = 1..Len(h) + 1 /\ DOMAIN h = 1..Len(h) /\ Len(h) \in Nat
    OBVIOUS
  <2>3. a[Len(h) + 1] = f /\ \A k \in 1..Len(h) : k \in DOMAIN a /\ a[k] = h[k]
    BY <2>1, <2>2
  <2> HIDE DEF a
  <2> QED
    BY <2>1, <2>2, <2>3 DEF ToSet
<1>4. IsInjective(h) /\ f \notin ToSet(h) => IsInjective(a)
  BY DEF ToSet, IsInjective
<1> QED
  BY <1>2, <1>3, <1>4 DEF Rearranges

\* r is h without f.
Without(h, f, r) ==
    /\ f \in Futs /\ r \in Seq(Futs) /\ Len(r) = Len(h) - 1
    /\ ToSet(h) = {f} \cup ToSet(r)
    /\ IsInjective(h) => IsInjective(r) /\ f \notin ToSet(r)

\* heappop puts the last job at the root, and lets it sink.
NewRoot(h) == [Front(h) EXCEPT ![1] = Last(h)]

\* heappop() of several jobs puts the last at the root and sinks it.
LEMMA PopSinks ==
    ASSUME NEW h \in Seq(Futs), h # <<>>, Len(h) # 1
    PROVE  /\ Len(h) \in Nat /\ Len(h) > 1
           /\ NewRoot(h) \in Seq(Futs) /\ Len(NewRoot(h)) = Len(h) - 1
           /\ \A k \in 1..Len(h) - 1 : NewRoot(h)[k] = IF k = 1 THEN h[Len(h)] ELSE h[k]
           /\ HeapPop(h) = Down[<<NewRoot(h), 1>>]
<1>1. Len(h) \in Nat /\ Len(h) > 1
  <2>1. Len(h) \in Nat /\ Len(h) # 0
    BY EmptySeq
  <2>2. \A n \in Nat : n # 0 /\ n # 1 => n > 1
    OBVIOUS
  <2> QED
    BY <2>1, <2>2
<1>2. /\ Front(h) \in Seq(Futs) /\ Len(Front(h)) = Len(h) - 1
      /\ \A k \in 1..Len(h) - 1 : Front(h)[k] = h[k]
  <2>1. \A k \in 1..Len(h) - 1 : h[k] \in Futs
    OBVIOUS
  <2> QED
    BY <1>1, <2>1, SubSeqProperties DEF Front
<1>3. Last(h) = h[Len(h)] /\ h[Len(h)] \in Futs
  BY <1>1 DEF Last
<1> QED
  BY <1>1, <1>2, <1>3 DEF NewRoot, HeapPop

\* heappop() takes one job and leaves the others.
LEMMA PopTakes ==
    ASSUME NEW h \in Seq(Futs), h # <<>>
    PROVE  Without(h, h[1], HeapPop(h))
<1>1. CASE Len(h) = 1
  <2>1. HeapPop(h) = <<>>
    BY <1>1 DEF HeapPop
  <2>2. ToSet(h) = {h[1]} /\ h[1] \in Futs
    BY <1>1 DEF ToSet
  <2> QED
    BY <1>1, <2>1, <2>2 DEF Without, ToSet, IsInjective
<1>2. CASE Len(h) # 1
  <2> DEFINE a == NewRoot(h)
  <2>0. Len(h) \in Nat /\ Len(h) > 1
    BY <1>2, PopSinks
  <2>1. a \in Seq(Futs) /\ Len(a) = Len(h) - 1 /\ HeapPop(h) = Down[<<a, 1>>]
    BY <1>2, PopSinks
  <2>2. \A k \in 1..Len(h) - 1 : a[k] = IF k = 1 THEN h[Len(h)] ELSE h[k]
    BY <1>2, PopSinks
  <2>3. 1 \in 1..Len(a)
    BY <2>0, <2>1
  <2> HIDE DEF a
  <2>4. Rearranges(a, HeapPop(h))
    BY <2>1, <2>3, DownRearranges
  <2>5. ToSet(h) = {h[1]} \cup ToSet(a)
    <3>1. ASSUME NEW k \in 1..Len(h), k # 1 PROVE h[k] \in ToSet(a)
      <4>1. a[IF k = Len(h) THEN 1 ELSE k] = h[k]
        BY <2>0, <2>2, <3>1
      <4> QED
        BY <2>0, <2>1, <3>1, <4>1 DEF ToSet
    <3>2. ASSUME NEW k \in 1..Len(a) PROVE a[k] \in ToSet(h)
      BY <2>0, <2>1, <2>2 DEF ToSet
    <3>3. DOMAIN a = 1..Len(a) /\ DOMAIN h = 1..Len(h) /\ h[1] \in ToSet(h)
      BY <2>0, <2>1 DEF ToSet
    <3>4. ToSet(a) \subseteq ToSet(h)
      BY <3>2, <3>3 DEF ToSet
    <3>5. ToSet(h) \subseteq {h[1]} \cup ToSet(a)
      BY <3>1, <3>3 DEF ToSet
    <3> QED
      BY <3>3, <3>4, <3>5
  <2>6. IsInjective(h) => IsInjective(a) /\ h[1] \notin ToSet(a)
    <3> SUFFICES ASSUME IsInjective(h) PROVE IsInjective(a) /\ h[1] \notin ToSet(a)
      OBVIOUS
    <3>0. DOMAIN a = 1..Len(h) - 1 /\ DOMAIN h = 1..Len(h) /\ 1 \in 1..Len(h) /\ Len(h) \in 1..Len(h)
      BY <2>0, <2>1
    <3>1. \A j, k \in 1..Len(h) : h[j] = h[k] => j = k
      BY <3>0 DEF IsInjective
    <3>2. IsInjective(a)
      BY <2>0, <2>2, <3>0, <3>1 DEF IsInjective
    <3>3. \A k \in 1..Len(h) - 1 : a[k] # h[1]
      BY <2>0, <2>2, <3>0, <3>1
    <3> QED
      BY <3>0, <3>2, <3>3 DEF ToSet
  <2> QED
    BY <2>0, <2>1, <2>4, <2>5, <2>6 DEF Rearranges, Without
<1> QED
  BY <1>1, <1>2

\* _get() takes one job and leaves the others, though the waiters have changed their order.
LEMMA GetTakes ==
    ASSUME NEW h \in Seq(Futs), h # <<>>
    PROVE  Without(h, Get(h)[1], Get(h)[2])
<1> DEFINE rest == HeapPop(h)
<1>1. Without(h, h[1], rest)
  BY PopTakes
<1>2. CASE rest # <<>> /\ Before(rest[1], h[1])
  <2> DEFINE a == [rest EXCEPT ![1] = h[1]]
  <2>1. Get(h)[1] = rest[1] /\ Get(h)[2] = Down[<<a, 1>>]
    BY <1>2 DEF Get
  <2> HIDE DEF rest
  <2>2. rest \in Seq(Futs) /\ Len(rest) \in Nat /\ Len(rest) > 0 /\ rest[1] \in Futs /\ h[1] \in Futs
    BY <1>1, <1>2 DEF Without
  <2>3. a \in Seq(Futs) /\ Len(a) = Len(rest) /\ \A k \in 1..Len(rest) : a[k] = IF k = 1 THEN h[1] ELSE rest[k]
    BY <2>2
  <2> HIDE DEF a
  <2>4. Rearranges(a, Down[<<a, 1>>])
    BY <2>2, <2>3, DownRearranges
  <2>5. ToSet(a) \cup {rest[1]} = ToSet(rest) \cup {h[1]}
    <3>1. ASSUME NEW k \in 1..Len(rest) PROVE a[k] \in ToSet(rest) \cup {h[1]}
      BY <2>2, <2>3 DEF ToSet
    <3>2. ASSUME NEW k \in 1..Len(rest) PROVE rest[k] \in ToSet(a) \cup {rest[1]}
      BY <2>2, <2>3 DEF ToSet
    <3>3. h[1] \in ToSet(a) /\ rest[1] \in ToSet(rest)
      BY <2>2, <2>3 DEF ToSet
    <3> QED
      BY <2>2, <2>3, <3>1, <3>2, <3>3, SMTT(30) DEF ToSet
  <2>6. IsInjective(rest) /\ h[1] \notin ToSet(rest) => IsInjective(a) /\ rest[1] \notin ToSet(a)
    <3> SUFFICES ASSUME IsInjective(rest), h[1] \notin ToSet(rest) PROVE IsInjective(a) /\ rest[1] \notin ToSet(a)
      OBVIOUS
    <3>0. DOMAIN a = 1..Len(rest) /\ DOMAIN rest = 1..Len(rest) /\ 1 \in 1..Len(rest)
      BY <2>2, <2>3
    <3>1. \A j \in 1..Len(rest) : rest[j] # h[1]
      BY <3>0 DEF ToSet
    <3>2. \A j, k \in 1..Len(rest) : rest[j] = rest[k] => j = k
      BY <3>0 DEF IsInjective
    <3>3. IsInjective(a)
      BY <2>3, <3>0, <3>1, <3>2 DEF IsInjective
    <3>4. \A k \in 1..Len(rest) : a[k] # rest[1]
      BY <2>3, <3>0, <3>1, <3>2
    <3> QED
      BY <3>0, <3>3, <3>4 DEF ToSet
  <2> QED
    BY <1>1, <2>1, <2>2, <2>3, <2>4, <2>5, <2>6 DEF Rearranges, Without
<1>3. CASE ~(rest # <<>> /\ Before(rest[1], h[1]))
  BY <1>1, <1>3 DEF Get
<1> QED
  BY <1>2, <1>3

-----------------------------------------------------------------------------
\* A caller has a shield if and only if it has a future.
ShieldsHang == \A c \in Callers : shield[c] = "none" <=> on[c] = None

\* Of a future that is gone nothing is left, and every other one has its key.
DeadIsForgotten ==
    \A f \in Futs : IF Alive(f) THEN keyOf[f] \in Keys
                    ELSE keyOf[f] = None /\ state[f] = "pending" /\ f \notin popped

\* _futs has one future for a key.
OneKnown ==
    \A f, g \in Futs :
        Alive(f) /\ Alive(g) /\ f \notin popped /\ g \notin popped /\ keyOf[f] = keyOf[g] => f = g

\* A job is in the heap once, and was not run.
QueuedOnce ==
    /\ IsInjective(heap)
    /\ \A f \in ToSet(heap) : Alive(f) => state[f] = "pending" /\ f \notin popped

\* A job that runs left the heap, and no other worker has it.
RunsAlone ==
    \A w \in Workers : pc[w] = "runs" =>
        /\ fut[w] \in Futs \ (ToSet(heap) \cup popped) /\ state[fut[w]] = "pending"
        /\ \A v \in Workers : pc[v] = "runs" /\ fut[v] = fut[w] => v = w

\* Whoever is there and is not done is in the heap, or with a worker, alive or dead.
NoneIsLost ==
    \A f \in Futs : Alive(f) /\ state[f] = "pending" =>
        f \in ToSet(heap) \/ \E w \in Workers : pc[w] \in {"runs", "dead"} /\ fut[w] = f

\* The inductive invariant.
IInv ==
    /\ TypeOK /\ ShieldsHang /\ DeadIsForgotten /\ OneKnown /\ QueuedOnce /\ RunsAlone
    /\ NoneIsLost

\* The queue starts with IInv.
LEMMA InitIInv == Init => IInv
<1> SUFFICES ASSUME Init PROVE IInv
  OBVIOUS
<1> USE SmartAssumption, MaxAsksAssumption DEF Init
<1>1. TypeOK /\ ShieldsHang
  <2>1. keyOf \in [Futs -> Keys \cup {None}] /\ state \in [Futs -> {"pending", "result", "exception"}]
    OBVIOUS
  <2>2. heap \in Seq(Futs) /\ popped \subseteq Futs /\ watched \subseteq Callers
    OBVIOUS
  <2>3. /\ shield \in [Callers -> {"none", "held", "awaited", "dropped", "given"}]
        /\ on \in [Callers -> Futs \cup {None}] /\ fut \in [Workers -> Futs \cup {None}]
    OBVIOUS
  <2>4. asks \in 0..MaxAsks /\ pc \in [Workers -> {"gets", "runs", "dead"}]
    OBVIOUS
  <2>6. refuses \in BOOLEAN
    BY Zenon
  <2>5. ShieldsHang
    BY DEF ShieldsHang
  <2> QED
    BY <2>1, <2>2, <2>3, <2>4, <2>5, <2>6 DEF TypeOK
<1>2. ToSet(heap) = {} /\ IsInjective(heap)
  BY DEF ToSet, IsInjective
<1>3. \A f \in Futs : ~Alive(f)
  BY DEF Alive
<1> QED
  BY <1>1, <1>2, <1>3 DEF IInv, DeadIsForgotten, OneKnown, QueuedOnce, RunsAlone, NoneIsLost

\* A new future gets a key, and its job a place in the heap.
LEMMA PutNewKeeps ==
    ASSUME IInv, NEW c \in Callers, NEW k \in Keys, PutNew(c, k)
    PROVE  IInv'
<1> USE SmartAssumption, MaxAsksAssumption
<1> DEFINE f == CHOOSE g \in Futs : ~Alive(g) /\ g \notin ToSet(heap)
<1>1. f \in Futs /\ ~Alive(f) /\ f \notin ToSet(heap) /\ f # None
  BY DEF PutNew
<1>2. /\ keyOf' = [keyOf EXCEPT ![f] = k] /\ on' = [on EXCEPT ![c] = f]
      /\ heap' = HeapPush(heap, f) /\ shield' = [shield EXCEPT ![c] = "held"]
      /\ UNCHANGED <<state, popped, watched, refuses, pc, fut>> /\ Known(k) = {}
      /\ shield[c] = "none" /\ asks < MaxAsks /\ asks' = asks + 1
  BY DEF PutNew, Asks
<1> HIDE DEF f
<1>3. TypeOK /\ on[c] = None
  BY <1>2 DEF IInv, ShieldsHang
<1>4. heap' \in Seq(Futs) /\ ToSet(heap') = ToSet(heap) \cup {f} /\ IsInjective(heap')
  BY <1>1, <1>2, <1>3, PushAdds DEF TypeOK, IInv, QueuedOnce
<1>5. \A g \in Futs : Alive(g)' <=> Alive(g) \/ g = f
  BY <1>1, <1>2, <1>3 DEF Alive, TypeOK
<1>6. TypeOK'
  BY <1>1, <1>2, <1>3, <1>4 DEF TypeOK
<1>7. ShieldsHang'
  BY <1>1, <1>2, <1>3 DEF TypeOK, IInv, ShieldsHang
<1>8. f \notin popped /\ state[f] = "pending" /\ \A g \in Futs : g # f => keyOf'[g] = keyOf[g]
  BY <1>1, <1>2, <1>3 DEF TypeOK, IInv, DeadIsForgotten
<1>9. DeadIsForgotten'
  BY <1>1, <1>2, <1>3, <1>5, <1>8 DEF TypeOK, IInv, DeadIsForgotten
<1>10. OneKnown'
  <2>1. \A g \in Futs : Alive(g) /\ g \notin popped => keyOf[g] # k
    BY <1>2 DEF Known
  <2>2. keyOf'[f] = k
    BY <1>1, <1>2, <1>3 DEF TypeOK
  <2> QED
    BY <1>2, <1>5, <1>8, <2>1, <2>2 DEF IInv, OneKnown
<1>11. QueuedOnce'
  <2>1. ToSet(heap) \subseteq Futs
    BY <1>3 DEF TypeOK, ToSet
  <2> QED
    BY <1>1, <1>2, <1>4, <1>5, <1>8, <2>1 DEF IInv, QueuedOnce
<1>12. RunsAlone'
  <2>1. ASSUME NEW w \in Workers, pc[w] = "runs" PROVE Alive(fut[w])
    BY <2>1 DEF IInv, RunsAlone, Alive
  <2> QED
    BY <1>1, <1>2, <1>4, <2>1 DEF IInv, RunsAlone
<1>13. NoneIsLost'
  BY <1>2, <1>4, <1>5 DEF IInv, NoneIsLost
<1> QED
  BY <1>6, <1>7, <1>9, <1>10, <1>11, <1>12, <1>13 DEF IInv

\* put() of a known key gives out the future that is there.
LEMMA PutKnownKeeps ==
    ASSUME IInv, NEW c \in Callers, NEW k \in Keys, PutKnown(c, k)
    PROVE  IInv'
<1> USE SmartAssumption, MaxAsksAssumption
<1>1. PICK f \in Known(k) :
        /\ on' = [on EXCEPT ![c] = f]
        /\ shield' = [shield EXCEPT ![c] = IF state[f] = "pending" THEN "held" ELSE "given"]
  BY DEF PutKnown
<1>2. /\ UNCHANGED <<keyOf, state, popped, heap, watched, refuses, pc, fut>>
      /\ shield[c] = "none" /\ asks < MaxAsks /\ asks' = asks + 1
  BY DEF PutKnown, Asks
<1>3. TypeOK /\ on[c] = None /\ f \in Futs /\ Alive(f) /\ f # None
  BY <1>2 DEF IInv, ShieldsHang, Known
<1>4. \A g \in Futs : Alive(g)' <=> Alive(g)
  BY <1>1, <1>2, <1>3 DEF Alive, TypeOK
<1>5. TypeOK'
  BY <1>1, <1>2, <1>3 DEF TypeOK
<1>6. ShieldsHang'
  BY <1>1, <1>2, <1>3 DEF TypeOK, IInv, ShieldsHang
<1>7. ToSet(heap) \subseteq Futs
  BY <1>3 DEF TypeOK, ToSet
<1> QED
  BY <1>2, <1>4, <1>5, <1>6, <1>7
     DEF IInv, DeadIsForgotten, OneKnown, QueuedOnce, RunsAlone, NoneIsLost

\* Await, Drop and Watch do not change who refers to what.
LEMMA NobodyGoes ==
    ASSUME IInv, UNCHANGED <<keyOf, state, popped, heap, on, asks, refuses, pc, fut>>,
           ShieldsHang', shield' \in [Callers -> {"none", "held", "awaited", "dropped", "given"}],
           watched' \subseteq Callers
    PROVE  IInv'
<1>1. \A g : Alive(g)' <=> Alive(g)
  BY DEF Alive
<1>2. TypeOK'
  BY DEF IInv, TypeOK
<1> QED
  BY <1>1, <1>2 DEF IInv, DeadIsForgotten, OneKnown, QueuedOnce, RunsAlone, NoneIsLost

\* A caller that changes its shield only keeps IInv.
LEMMA HoldKeeps ==
    ASSUME IInv, NEW c \in Callers, Await(c) \/ Drop(c) \/ Watch(c)
    PROVE  IInv'
<1>1. TypeOK /\ ShieldsHang
  BY DEF IInv
<1>2. CASE Await(c) \/ Drop(c)
  <2>1. ShieldsHang'
    BY <1>1, <1>2 DEF Await, Drop, TypeOK, ShieldsHang
  <2>2. shield' \in [Callers -> {"none", "held", "awaited", "dropped", "given"}]
    BY <1>1, <1>2 DEF Await, Drop, TypeOK
  <2> QED
    BY <1>1, <1>2, <2>1, <2>2, NobodyGoes DEF Await, Drop, TypeOK
<1>3. CASE Watch(c)
  <2>1. ShieldsHang' /\ watched' \subseteq Callers
    BY <1>1, <1>3 DEF Watch, TypeOK, ShieldsHang
  <2> QED
    BY <1>1, <1>3, <2>1, NobodyGoes DEF Watch, TypeOK
<1> QED
  BY <1>2, <1>3

\* A future that is gone takes its key, its state and its mark with it.
LEMMA ForgottenKeeps ==
    ASSUME IInv, Forgotten, \A g \in Futs : Alive(g)' => Alive(g)
    PROVE  /\ DeadIsForgotten' /\ OneKnown'
           /\ keyOf' \in [Futs -> Keys \cup {None}]
           /\ state' \in [Futs -> {"pending", "result", "exception"}]
           /\ popped' \subseteq popped
           /\ \A g \in Futs : Alive(g)' =>
            keyOf'[g] = keyOf[g] /\ state'[g] = state[g] /\ (g \in popped' <=> g \in popped)
<1>1. \A g \in Futs : /\ keyOf'[g] = IF Alive(g)' THEN keyOf[g] ELSE None
                      /\ state'[g] = IF Alive(g)' THEN state[g] ELSE "pending"
                      /\ (g \in popped' <=> g \in popped /\ Alive(g)')
  BY DEF Forgotten
<1>2. keyOf' \in [Futs -> Keys \cup {None}] /\ state' \in [Futs -> {"pending", "result", "exception"}]
  BY DEF Forgotten, IInv, TypeOK
<1>3. popped' \subseteq popped
  BY DEF Forgotten
<1>4. DeadIsForgotten'
  BY <1>1 DEF IInv, DeadIsForgotten
<1>5. OneKnown'
  BY <1>1 DEF IInv, OneKnown
<1> QED
  BY <1>1, <1>2, <1>3, <1>4, <1>5

\* Callers that are cancelled leave together, and a future that nobody holds goes with them.
LEMMA LeaveKeeps ==
    ASSUME IInv, NEW S \in SUBSET Callers, Leave(S)
    PROVE  IInv'
<1> USE SmartAssumption
<1>1. TypeOK
  BY DEF IInv
<1>2. /\ on' = [c \in Callers |-> IF c \in S THEN None ELSE on[c]]
      /\ shield' = [c \in Callers |-> IF c \in S THEN "none" ELSE shield[c]]
      /\ UNCHANGED <<heap, asks, watched, refuses, pc, fut>> /\ Forgotten
  BY DEF Leave
<1>3. \A g \in Futs : Alive(g)' => Alive(g)
  BY <1>2 DEF Alive
<1>4. /\ DeadIsForgotten' /\ OneKnown'
      /\ keyOf' \in [Futs -> Keys \cup {None}]
      /\ state' \in [Futs -> {"pending", "result", "exception"}]
      /\ popped' \subseteq popped
      /\ \A g \in Futs : Alive(g)' =>
            keyOf'[g] = keyOf[g] /\ state'[g] = state[g] /\ (g \in popped' <=> g \in popped)
  BY <1>2, <1>3, ForgottenKeeps
<1>5. TypeOK'
  BY <1>1, <1>2, <1>4 DEF TypeOK
<1>6. ShieldsHang'
  BY <1>2 DEF IInv, ShieldsHang
<1>7. QueuedOnce'
  <2>1. ToSet(heap) \subseteq Futs
    BY <1>1 DEF TypeOK, ToSet
  <2> QED
    BY <1>2, <1>3, <1>4, <2>1 DEF IInv, QueuedOnce
<1>8. RunsAlone'
  <2>1. ASSUME NEW w \in Workers, pc[w] = "runs" PROVE fut[w] \in Futs /\ Alive(fut[w])'
    BY <1>2, <2>1 DEF IInv, RunsAlone, Alive
  <2> QED
    BY <1>2, <1>4, <2>1 DEF IInv, RunsAlone
<1>9. NoneIsLost'
  BY <1>2, <1>3, <1>4 DEF IInv, NoneIsLost
<1> QED
  BY <1>4, <1>5, <1>6, <1>7, <1>8, <1>9 DEF IInv

\* A worker skips a future that is gone, and runs any other.
LEMMA TakeJobKeeps ==
    ASSUME IInv, NEW w \in Workers, TakeJob(w)
    PROVE  IInv'
<1> USE SmartAssumption
<1> DEFINE f == Get(heap)[1]
<1>1. TypeOK /\ pc[w] = "gets" /\ heap # <<>> /\ heap \in Seq(Futs)
  BY DEF IInv, TypeOK, TakeJob
<1>2. Without(heap, f, heap')
  BY <1>1, GetTakes DEF TakeJob
<1>3. /\ fut' = [fut EXCEPT ![w] = IF Alive(f) THEN f ELSE None]
      /\ pc' = [pc EXCEPT ![w] = IF Alive(f) THEN "runs" ELSE "gets"]
      /\ UNCHANGED <<shield, on, asks, watched, refuses>> /\ Forgotten
  BY DEF TakeJob, Skips
<1> HIDE DEF f
<1>4. f \in Futs /\ heap' \in Seq(Futs) /\ ToSet(heap) = {f} \cup ToSet(heap')
      /\ IsInjective(heap') /\ f \notin ToSet(heap')
  BY <1>2 DEF Without, IInv, QueuedOnce
<1>5. \A g \in Futs : Alive(g)' => Alive(g)
  BY <1>1, <1>3, <1>4 DEF Alive, TypeOK
<1>6. /\ DeadIsForgotten' /\ OneKnown'
      /\ keyOf' \in [Futs -> Keys \cup {None}]
      /\ state' \in [Futs -> {"pending", "result", "exception"}]
      /\ popped' \subseteq popped
      /\ \A g \in Futs : Alive(g)' =>
            keyOf'[g] = keyOf[g] /\ state'[g] = state[g] /\ (g \in popped' <=> g \in popped)
  BY <1>3, <1>5, ForgottenKeeps
<1>7. TypeOK'
  BY <1>1, <1>3, <1>4, <1>6 DEF TypeOK
<1>8. ShieldsHang'
  BY <1>3 DEF IInv, ShieldsHang
<1>9. ToSet(heap) \subseteq Futs
  BY <1>1 DEF TypeOK, ToSet
<1>10. QueuedOnce'
  BY <1>4, <1>5, <1>6, <1>9 DEF IInv, QueuedOnce
<1>11. \A v \in Workers : v # w => pc'[v] = pc[v] /\ fut'[v] = fut[v]
  BY <1>1, <1>3 DEF TypeOK
<1>12. pc'[w] = (IF Alive(f) THEN "runs" ELSE "gets") /\ fut'[w] = IF Alive(f) THEN f ELSE None
  BY <1>1, <1>3 DEF TypeOK
<1>13. RunsAlone'
  <2>1. ASSUME NEW v \in Workers, v # w, pc'[v] = "runs"
        PROVE  /\ fut'[v] \in Futs \ (ToSet(heap') \cup popped') /\ state'[fut'[v]] = "pending"
               /\ fut'[v] # f /\ \A u \in Workers : u # w /\ pc'[u] = "runs" /\ fut'[u] = fut'[v] => u = v
    <3>1. /\ pc[v] = "runs" /\ fut'[v] = fut[v] /\ fut[v] \in Futs \ (ToSet(heap) \cup popped)
          /\ state[fut[v]] = "pending"
      BY <1>11, <2>1 DEF IInv, RunsAlone
    <3>2. Alive(fut[v])'
      BY <1>11, <2>1, <3>1 DEF Alive
    <3> QED
      BY <1>4, <1>6, <1>11, <3>1, <3>2 DEF IInv, RunsAlone
  <2>2. ASSUME pc'[w] = "runs"
        PROVE  fut'[w] = f /\ f \notin popped' /\ state'[f] = "pending"
    <3>1. Alive(f) /\ fut'[w] = f
      BY <1>12, <2>2
    <3>2. \A g \in Futs : fut'[w] = g => Alive(g)'
      BY SmartAssumption DEF Alive
    <3>3. f \notin popped /\ state[f] = "pending"
      BY <1>4, <3>1 DEF IInv, QueuedOnce
    <3> QED
      BY <1>4, <1>6, <3>1, <3>2, <3>3
  <2> QED
    BY <1>4, <2>1, <2>2 DEF RunsAlone
<1>14. NoneIsLost'
  <2> SUFFICES ASSUME NEW g \in Futs, Alive(g)', state'[g] = "pending"
               PROVE  g \in ToSet(heap') \/ \E v \in Workers : pc'[v] \in {"runs", "dead"} /\ fut'[v] = g
    BY DEF NoneIsLost
  <2>1. Alive(g) /\ state[g] = "pending"
    BY <1>5, <1>6
  <2>2. CASE g = f
    BY <1>12, <2>1, <2>2
  <2>3. CASE g # f /\ g \in ToSet(heap)
    BY <1>4, <2>3
  <2>4. CASE \E v \in Workers : pc[v] \in {"runs", "dead"} /\ fut[v] = g
    BY <1>1, <1>11, <2>4
  <2> QED
    BY <2>1, <2>2, <2>3, <2>4 DEF IInv, NoneIsLost
<1> QED
  BY <1>6, <1>7, <1>8, <1>10, <1>13, <1>14 DEF IInv

\* A job that ended leaves _futs, and its worker.
LEMMA FinishKeeps ==
    ASSUME IInv, NEW w \in Workers, NEW outcome \in {"result", "exception"}, Finish(w, outcome)
    PROVE  IInv'
<1>1. /\ TypeOK /\ pc[w] = "runs" /\ fut[w] \in Futs \ (ToSet(heap) \cup popped)
      /\ \A v \in Workers : pc[v] = "runs" /\ fut[v] = fut[w] => v = w
  BY DEF IInv, Finish, RunsAlone
<1>2. /\ pc' = [pc EXCEPT ![w] = "gets"] /\ state' = [state EXCEPT ![fut[w]] = outcome]
      /\ popped' = (IF outcome = "exception" THEN popped \cup {fut[w]} ELSE popped)
      /\ UNCHANGED <<keyOf, heap, shield, on, asks, watched, refuses, fut>>
  BY DEF Finish
<1>3. \A g : Alive(g)' <=> Alive(g)
  BY <1>2 DEF Alive
<1>4. Alive(fut[w])
  BY <1>1, SmartAssumption DEF Alive
<1>5. TypeOK'
  BY <1>1, <1>2 DEF TypeOK
<1>6. ShieldsHang'
  BY <1>2 DEF IInv, ShieldsHang
<1>7. \A g \in Futs : g # fut[w] => state'[g] = state[g] /\ (g \in popped' <=> g \in popped)
  BY <1>1, <1>2 DEF TypeOK
<1>8. DeadIsForgotten'
  BY <1>2, <1>3, <1>4, <1>7 DEF IInv, DeadIsForgotten
<1>9. popped \subseteq popped'
  BY <1>2
<1>10. OneKnown'
  BY <1>2, <1>3, <1>9 DEF IInv, OneKnown
<1>11. ToSet(heap) \subseteq Futs
  BY <1>1 DEF TypeOK, ToSet
<1>12. QueuedOnce'
  BY <1>1, <1>2, <1>3, <1>7, <1>11 DEF IInv, QueuedOnce
<1>13. \A v \in Workers : pc'[v] = "runs" => v # w /\ pc[v] = "runs"
  BY <1>1, <1>2 DEF TypeOK
<1>14. RunsAlone'
  BY <1>1, <1>2, <1>7, <1>13 DEF IInv, RunsAlone
<1>15. NoneIsLost'
  <2>1. state'[fut[w]] # "pending"
    BY <1>1, <1>2 DEF TypeOK
  <2>2. \A v \in Workers : v # w => pc'[v] = pc[v]
    BY <1>1, <1>2 DEF TypeOK
  <2> QED
    BY <1>2, <1>3, <1>7, <2>1, <2>2 DEF IInv, NoneIsLost
<1> QED
  BY <1>5, <1>6, <1>8, <1>10, <1>12, <1>14, <1>15 DEF IInv

\* A worker that dies keeps its future, and a queue that refuses its jobs.
LEMMA DiesKeeps ==
    ASSUME IInv, (\E w \in Workers : Dies(w)) \/ Refuse
    PROVE  IInv'
<1>1. /\ UNCHANGED <<keyOf, state, popped, heap, shield, on, asks, watched, fut>>
      /\ refuses' \in BOOLEAN /\ pc' \in [Workers -> {"gets", "runs", "dead"}]
      /\ \A w \in Workers : pc'[w] = "runs" => pc[w] = "runs"
      /\ \A w \in Workers : pc[w] \in {"runs", "dead"} => pc'[w] \in {"runs", "dead"}
  BY DEF IInv, TypeOK, Dies, Refuse
<1>2. \A f : Alive(f)' <=> Alive(f)
  BY <1>1 DEF Alive
<1>3. TypeOK' /\ ShieldsHang'
  BY <1>1 DEF IInv, TypeOK, ShieldsHang
<1>4. RunsAlone'
  BY <1>1 DEF IInv, RunsAlone
<1>5. NoneIsLost'
  BY <1>1, <1>2 DEF IInv, NoneIsLost
<1> QED
  BY <1>1, <1>2, <1>3, <1>4, <1>5 DEF IInv, DeadIsForgotten, OneKnown, QueuedOnce

\* Every step keeps IInv.
LEMMA NextIInv == IInv /\ [Next]_vars => IInv'
<1> SUFFICES ASSUME IInv, [Next]_vars PROVE IInv'
  OBVIOUS
<1>1. ASSUME NEW c \in Callers, NEW k \in Keys, PutKnown(c, k) \/ PutNew(c, k) PROVE IInv'
  BY <1>1, PutKnownKeeps, PutNewKeeps
<1>2. ASSUME NEW c \in Callers, Await(c) \/ Drop(c) \/ Watch(c) PROVE IInv'
  BY <1>2, HoldKeeps
<1>3. ASSUME NEW c \in Callers, Cancel(c) \/ Settle(c) \/ Forget(c) PROVE IInv'
  BY <1>3, LeaveKeeps DEF Cancel, Settle, Forget
<1>4. ASSUME NEW f \in Futs, Collect(f) PROVE IInv'
  BY <1>4, LeaveKeeps DEF Collect
<1>5. ASSUME NEW w \in Workers, Worker(w) PROVE IInv'
  BY <1>5, TakeJobKeeps, FinishKeeps, DiesKeeps DEF Worker
<1>7. CASE Refuse
  BY <1>7, DiesKeeps
<1>6. CASE UNCHANGED vars
  <2>1. \A g : Alive(g)' <=> Alive(g)
    BY <1>6 DEF vars, Alive
  <2>2. TypeOK' /\ ShieldsHang'
    BY <1>6 DEF vars, IInv, TypeOK, ShieldsHang
  <2> QED
    BY <1>6, <2>1, <2>2 DEF vars, IInv, DeadIsForgotten, OneKnown, QueuedOnce, RunsAlone, NoneIsLost
<1> QED
  BY <1>1, <1>2, <1>3, <1>4, <1>5, <1>6, <1>7 DEF Next

\* IInv holds always: every step keeps it.
LEMMA IInvariant == Spec => []IInv
BY InitIInv, NextIInv, PTL DEF Spec

\* Whatever is asked for, awaited, cancelled or dropped, the state keeps its type:
\* every future that is in _futs, in the heap or with a worker is one of the queue's.
THEOREM TypeCorrect == Spec => []TypeOK
<1>1. IInv => TypeOK
  BY DEF IInv
<1> QED
  BY <1>1, IInvariant, PTL

\* Two workers never run jobs of one key at a time: put() finds the future of a key
\* in _futs until its job ended, and a job that was started is not in the heap again.
THEOREM JobsRunAlone == Spec => []JobsAreShared
<1>1. IInv => JobsAreShared
  <2> SUFFICES ASSUME IInv, NEW v \in Workers, NEW w \in Workers, v # w, pc[v] = "runs", pc[w] = "runs"
               PROVE  keyOf[fut[v]] # keyOf[fut[w]]
    BY DEF JobsAreShared
  <2>1. fut[v] \in Futs \ popped /\ fut[w] \in Futs \ popped /\ fut[v] # fut[w]
    BY DEF IInv, RunsAlone
  <2>2. Alive(fut[v]) /\ Alive(fut[w])
    BY <2>1, SmartAssumption DEF Alive
  <2> QED
    BY <2>1, <2>2 DEF IInv, OneKnown
<1> QED
  BY <1>1, IInvariant, PTL

\* A future that somebody holds and that has no outcome has its job in the heap or with a
\* worker: dropping callers, cleared futures and the heap's reorderings lose none.
THEOREM NoJobIsLost == Spec => []JobIsQueuedOrRuns
<1>1. IInv => JobIsQueuedOrRuns
  <2> SUFFICES ASSUME IInv, NEW c \in Callers, shield[c] \in {"held", "awaited"}, state[on[c]] = "pending"
               PROVE  on[c] \in ToSet(heap) \/ \E w \in Workers : pc[w] \in {"runs", "dead"} /\ fut[w] = on[c]
    BY DEF JobIsQueuedOrRuns
  <2>1. on[c] \in Futs /\ on[c] # None
    BY DEF IInv, TypeOK, ShieldsHang
  <2>2. Alive(on[c])
    BY <2>1 DEF Alive
  <2> QED
    BY <2>1, <2>2 DEF IInv, NoneIsLost
<1> QED
  BY <1>1, IInvariant, PTL

-----------------------------------------------------------------------------
\* The number of waiters is a number: the callers are finitely many.
LEMMA WaitersAreCounted == \A f : Waiters(f) \in Nat
<1> SUFFICES ASSUME NEW f PROVE Waiters(f) \in Nat
  OBVIOUS
<1> DEFINE S == {c \in Callers : /\ on[c] = f /\ shield[c] = "awaited"
                                 /\ c \in Smart => c \in watched}
<1>1. IsFiniteSet(S)
  BY SmartAssumption, FS_Subset
<1> QED
  BY <1>1, FS_CardinalityType DEF Waiters

\* Nobody in the heap has more waiters than f.
Leads(f, h) == Alive(f) => \A g \in ToSet(h) : Alive(g) => Waiters(g) <= Waiters(f)

\* A heap of up to three has the most wanted at its root when what was put there has
\* gone down and up again, whatever their order was.
LEMMA DownFindsTheFirst ==
    ASSUME NEW h \in Seq(Futs), Len(h) \in 1..3
    PROVE  Leads(Down[<<h, 1>>][1], h)
<1>0. Len(h) \in {1, 2, 3} /\ 1 \in 1..Len(h)
  OBVIOUS
<1>1. CASE Len(h) = 1
  <2>1. Down[<<h, 1>>] = Up[<<h, 1>>]
    <3>1. 2 * 1 > Len(h)
      BY <1>1
    <3> QED
      BY <1>0, <3>1, DownAtLeaf, Zenon
  <2>2. Up[<<h, 1>>] = h
    BY <1>0, UpAtRoot
  <2>3. ToSet(h) = {h[1]} /\ Waiters(h[1]) <= Waiters(h[1])
    BY <1>1, WaitersAreCounted DEF ToSet
  <2> QED
    BY <2>1, <2>2, <2>3 DEF Leads
<1>2. ASSUME NEW c \in {2, 3}, c <= Len(h), c = ChildOf(h, 1)
      PROVE  Down[<<h, 1>>][1] = IF Before(h[1], h[c]) THEN h[1] ELSE h[c]
  <2> DEFINE s == Swap(h, 1, c)
             t == Swap(s, c, 1)
  <2>0. c \in 1..Len(h) /\ ~(2 * 1 > Len(h)) /\ 2 * c > Len(h) /\ c \div 2 = 1 /\ c > 1
    <3>1. \A n \in {1, 2, 3} : c <= n => c \in 1..n /\ ~(2 * 1 > n) /\ 2 * c > n
      BY <1>2
    <3>2. c \div 2 = 1 /\ c > 1
      BY <1>2
    <3> QED
      BY <1>0, <1>2, <3>1, <3>2
  <2>1. Rearranges(h, s) /\ s[1] = h[c] /\ s[c] = h[1]
    <3>1. Rearranges(h, s)
      BY <1>0, <2>0, SwapRearranges
    <3> QED
      BY <1>0, <2>0, <3>1 DEF Swap
  <2>2. Down[<<h, 1>>] = Down[<<s, c>>]
    BY <1>0, <1>2, <2>0, DownStep, Zenon
  <2>3. s \in Seq(Futs) /\ Len(s) = Len(h) /\ 1 \in 1..Len(s) /\ c \in 1..Len(s)
    BY <1>0, <2>0, <2>1 DEF Rearranges
  <2> HIDE DEF s
  <2>4. Down[<<s, c>>] = Up[<<s, c>>]
    BY <2>0, <2>3, DownAtLeaf
  <2>5. Up[<<s, c>>] = IF Before(h[1], h[c]) THEN Up[<<t, 1>>] ELSE s
    BY <2>0, <2>1, <2>3, UpStep
  <2>6. Rearranges(s, t) /\ t[1] = h[1]
    <3>1. Rearranges(s, t)
      BY <2>3, SwapRearranges
    <3> QED
      BY <2>0, <2>1, <2>3, <3>1 DEF Swap
  <2> HIDE DEF t
  <2>7. t \in Seq(Futs) /\ 1 \in 1..Len(t)
    BY <2>3, <2>6 DEF Rearranges
  <2>8. Up[<<t, 1>>] = t
    BY <2>7, UpAtRoot
  <2> QED
    BY <2>1, <2>2, <2>4, <2>5, <2>6, <2>8
<1>3. CASE Len(h) = 2
  <2>1. ChildOf(h, 1) = 2
    BY <1>3 DEF ChildOf
  <2>2. Down[<<h, 1>>][1] = IF Before(h[1], h[2]) THEN h[1] ELSE h[2]
    BY <1>2, <1>3, <2>1
  <2>3. ToSet(h) = {h[1], h[2]}
    BY <1>3 DEF ToSet
  <2> QED
    BY <2>2, <2>3, WaitersAreCounted DEF Leads, Before
<1>4. CASE Len(h) = 3
  <2> DEFINE c == ChildOf(h, 1)
  <2>1. c = IF Before(h[2], h[3]) THEN 2 ELSE 3
    BY <1>4 DEF ChildOf
  <2>2. Down[<<h, 1>>][1] = IF Before(h[1], h[c]) THEN h[1] ELSE h[c]
    BY <1>2, <1>4, <2>1
  <2>3. ToSet(h) = {h[1], h[2], h[3]}
    BY <1>4 DEF ToSet
  <2>4. CASE Before(h[2], h[3])
    BY <2>1, <2>2, <2>3, <2>4, WaitersAreCounted DEF Leads, Before
  <2>5. CASE ~Before(h[2], h[3])
    BY <2>1, <2>2, <2>3, <2>5, WaitersAreCounted DEF Leads, Before
  <2> QED
    BY <2>4, <2>5
<1> QED
  BY <1>1, <1>3, <1>4

\* With up to four in the heap _get() takes a job that nobody else has more waiters than.
LEMMA GetFindsTheFirst ==
    ASSUME NEW h \in Seq(Futs), h # <<>>, Len(h) <= 4
    PROVE  Leads(Get(h)[1], h)
<1> USE WaitersAreCounted
<1> DEFINE rest == HeapPop(h)
<1>1. Without(h, h[1], rest)
  BY PopTakes
<1>2. rest # <<>> => Leads(rest[1], rest)
  <2> SUFFICES ASSUME rest # <<>> PROVE Leads(rest[1], rest)
    OBVIOUS
  <2> DEFINE a == NewRoot(h)
  <2>1. rest \in Seq(Futs) /\ Len(rest) \in Nat /\ Len(rest) # 0 /\ Len(rest) = Len(h) - 1
    BY <1>1, EmptySeq DEF Without
  <2>2. Len(h) # 1 /\ Len(h) \in Nat
    <3> HIDE DEF rest
    <3> QED
      BY <2>1
  <2>3. /\ Len(h) > 1 /\ a \in Seq(Futs) /\ Len(a) = Len(h) - 1 /\ rest = Down[<<a, 1>>]
    BY <2>2, PopSinks
  <2> HIDE DEF a, rest
  <2>4. Len(a) \in 1..3 /\ 1 \in 1..Len(a)
    BY <2>2, <2>3
  <2>5. Leads(rest[1], a)
    BY <2>3, <2>4, DownFindsTheFirst
  <2>6. ToSet(rest) = ToSet(a)
    BY <2>3, <2>4, DownRearranges DEF Rearranges
  <2> QED
    BY <2>5, <2>6 DEF Leads
<1>3. ToSet(h) = {h[1]} \cup ToSet(rest)
  BY <1>1 DEF Without
<1>4. CASE rest = <<>>
  <2>1. Get(h)[1] = h[1] /\ ToSet(h) = {h[1]}
    BY <1>3, <1>4 DEF Get, ToSet
  <2> QED
    BY <2>1 DEF Leads
<1>5. CASE rest # <<>> /\ Before(rest[1], h[1])
  <2>1. Get(h)[1] = rest[1]
    BY <1>5 DEF Get
  <2> HIDE DEF rest
  <2> QED
    BY <1>2, <1>3, <1>5, <2>1 DEF Leads, Before
<1>6. CASE rest # <<>> /\ ~Before(rest[1], h[1])
  <2>1. Get(h)[1] = h[1]
    BY <1>6 DEF Get
  <2> HIDE DEF rest
  <2> QED
    BY <1>2, <1>3, <1>6, <2>1 DEF Leads, Before
<1> QED
  BY <1>4, <1>5, <1>6

\* While no more than four jobs are in the heap, a worker that takes a job takes one that as
\* many wait for as for any other that is queued: their numbers of waiters may have changed
\* at will since the heap was put in order.
THEOREM MostWantedRunsFirst == Spec => MostWaitersFirst
<1> DEFINE Fair(w) == pc[w] = "gets" /\ pc'[w] = "runs" /\ Len(heap) <= 4
                        => \A f \in ToSet(heap) : Alive(f) => Waiters(f) <= Waiters(fut'[w])
<1>1. ASSUME TypeOK, NEW w \in Workers, NEW v \in Workers, TakeJob(v) PROVE Fair(w)
  <2>1. heap \in Seq(Futs) /\ heap # <<>>
    BY <1>1 DEF TypeOK, TakeJob
  <2>2. CASE v = w /\ Alive(Get(heap)[1])
    <3>1. fut'[w] = Get(heap)[1]
      BY <1>1, <2>2 DEF TypeOK, TakeJob
    <3> QED
      BY <2>1, <2>2, <3>1, GetFindsTheFirst DEF Leads
  <2>3. CASE v = w /\ ~Alive(Get(heap)[1])
    BY <1>1, <2>3 DEF TypeOK, TakeJob, Skips
  <2>4. CASE v # w
    BY <1>1, <2>4 DEF TypeOK, TakeJob
  <2> QED
    BY <2>2, <2>3, <2>4
<1>2. ASSUME TypeOK, NEW w \in Workers, NEW v \in Workers,
             NEW outcome \in {"result", "exception"}, Finish(v, outcome)
      PROVE  Fair(w)
  BY <1>2 DEF TypeOK, Finish
<1>6. ASSUME TypeOK, NEW w \in Workers, NEW v \in Workers, Dies(v) PROVE Fair(w)
  BY <1>6 DEF TypeOK, Dies
<1>3. ASSUME TypeOK, [Next]_vars, NEW w \in Workers PROVE Fair(w)
  <2>1. CASE \E v \in Workers : Worker(v)
    BY <1>1, <1>2, <1>3, <1>6, <2>1 DEF Worker
  <2>2. CASE UNCHANGED pc
    BY <2>2
  <2>3. (\E v \in Workers : Worker(v)) \/ UNCHANGED pc
    BY <1>3 DEF Next, vars, PutKnown, PutNew, Await, Cancel, Drop, Settle, Forget, Watch, Collect, Leave, Refuse
  <2> QED
    BY <2>1, <2>2, <2>3
<1>4. TypeOK /\ [Next]_vars
        => [\A w \in Workers : Fair(w)]_<<pc>>
  BY <1>3
<1>5. IInv => TypeOK
  BY DEF IInv
<1> QED
  BY <1>4, <1>5, IInvariant, PTL DEF Spec, MostWaitersFirst
=============================================================================
