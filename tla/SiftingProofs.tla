---------------------------- MODULE SiftingProofs ----------------------------
(***************************************************************************)
(* Lemmas about what Sift and Strung leave of a sequence.                  *)
(***************************************************************************)
EXTENDS Sifting, SequenceTheorems, WellFoundedInduction, TLAPS

-----------------------------------------------------------------------------
(* A set of natural numbers that is not empty has a least element. *)
LEMMA LeastOf == ASSUME NEW T, T \subseteq Nat, T # {} PROVE \E x \in T : \A y \in T : x <= y
  <1> DEFINE R == OpToRel(<, Nat)
  <1>1. IsWellFoundedOn(R, Nat) BY NatLessThanWellFounded
  <1>2. \A x, y \in T : y < x => <<y, x>> \in R BY DEF OpToRel
  <1> HIDE DEF R
  <1>3. PICK x \in T : \A y \in T : ~(<<y, x>> \in R) BY <1>1, WFMin
  <1>4. ASSUME NEW y \in T PROVE x <= y
    <2>1. ~ (y < x) BY <1>2, <1>3
    <2>2. x \in Nat /\ y \in Nat OBVIOUS
    <2> QED BY <2>1, <2>2
  <1> QED BY <1>4

(* Induction up to a bound, for a set: it holds 0, and with a number the next. *)
LEMMA StepByStep ==
    ASSUME NEW N \in Nat, NEW T, 0 \in T, \A n \in 0..N : n < N /\ n \in T => n + 1 \in T
    PROVE  0..N \subseteq T
  <1> DEFINE Missing == (0..N) \ T
  <1>1. SUFFICES ASSUME Missing # {} PROVE FALSE OBVIOUS
  <1>2. Missing \subseteq Nat OBVIOUS
  <1>3. PICK x \in Missing : \A y \in Missing : x <= y
    <2> HIDE DEF Missing
    <2> QED BY <1>1, <1>2, LeastOf
  <1>6. x \in Nat /\ x # 0 /\ x <= N OBVIOUS
  <1>4. x - 1 \in 0..N /\ x - 1 < N /\ ~(x <= x - 1) /\ (x - 1) + 1 = x BY <1>6
  <1>5. x - 1 \in T BY <1>3, <1>4
  <1> QED BY <1>4, <1>5

(* m turns of a loop: each goes on from what the one before has left. *)
Runs(m, h, a, g) == h[0] = a /\ \A n \in 1..m : h[n] = g[<<n, h[n - 1]>>]

(* A loop that goes on from what it has exists, as a function of the number of
   its turns. *)
LEMMA LoopExists ==
    ASSUME NEW N \in Nat, NEW A, NEW a \in A, NEW g \in [(1..N) \X A -> A]
    PROVE  \E h \in [0..N -> A] : Runs(N, h, a, g)
  <1> DEFINE T == {m \in 0..N : \E h \in [0..m -> A] : Runs(m, h, a, g)}
  <1>1. 0 \in T
    <2>1. [i \in 0..0 |-> a] \in [0..0 -> A] OBVIOUS
    <2>2. Runs(0, [i \in 0..0 |-> a], a, g) BY DEF Runs
    <2> QED BY <2>1, <2>2
  <1>2. ASSUME NEW m \in 0..N, m < N, m \in T PROVE m + 1 \in T
    <2>1. PICK h \in [0..m -> A] : Runs(m, h, a, g) BY <1>2
    <2> DEFINE k == [i \in 0..(m + 1) |-> IF i = m + 1 THEN g[<<m + 1, h[m]>>] ELSE h[i]]
    <2>2. h[m] \in A /\ <<m + 1, h[m]>> \in (1..N) \X A BY <1>2
    <2>3. k \in [0..(m + 1) -> A] BY <2>2
    <2>4. k[0] = a BY <2>1 DEF Runs
    <2>5. ASSUME NEW n \in 1..(m + 1) PROVE k[n] = g[<<n, k[n - 1]>>]
      <3>1. CASE n = m + 1
        <4>1. m \in 0..(m + 1) /\ m # m + 1 /\ n - 1 = m BY <3>1
        <4>2. k[n - 1] = h[m] /\ k[n] = g[<<m + 1, h[m]>>] BY <3>1, <4>1
        <4> QED BY <3>1, <4>1, <4>2
      <3>2. CASE n # m + 1
        <4>1. n \in 1..m /\ n - 1 \in 0..m /\ n - 1 # m + 1 BY <3>2
        <4>2. k[n] = h[n] /\ k[n - 1] = h[n - 1] BY <4>1
        <4> QED BY <2>1, <4>1, <4>2 DEF Runs
      <3> QED BY <3>1, <3>2
    <2> HIDE DEF k
    <2>6. Runs(m + 1, k, a, g) BY <2>4, <2>5 DEF Runs
    <2>7. m + 1 \in 0..N BY <1>2
    <2> QED BY <2>3, <2>6, <2>7
  <1>3. N \in T
    <2> HIDE DEF T
    <2>1. 0..N \subseteq T BY <1>1, <1>2, StepByStep
    <2> QED BY <2>1
  <1> QED BY <1>3

(* The recursion of Sift: what is kept of the first n elements. *)
Keeps(s, S, kept) ==
    kept = [n \in 0..Len(s) |->
              IF n = 0 THEN <<>>
              ELSE IF s[n] \in S THEN Append(kept[n - 1], s[n]) ELSE kept[n - 1]]

(* Sift is such a function's last value. *)
LEMMA SiftKeeps ==
    ASSUME NEW X, NEW s \in Seq(X), NEW S
    PROVE  \E kept \in [0..Len(s) -> Seq(X)] : Keeps(s, S, kept) /\ Sift(s, S) = kept[Len(s)]
  <1> DEFINE g == [p \in (1..Len(s)) \X Seq(X) |-> IF s[p[1]] \in S THEN Append(p[2], s[p[1]]) ELSE p[2]]
  <1>1. g \in [(1..Len(s)) \X Seq(X) -> Seq(X)] OBVIOUS
  <1>2. Len(s) \in Nat /\ <<>> \in Seq(X) OBVIOUS
  <1>3. PICK h \in [0..Len(s) -> Seq(X)] : Runs(Len(s), h, <<>>, g)
    <2> HIDE DEF g
    <2> QED BY <1>1, <1>2, LoopExists
  <1>4. ASSUME NEW n \in 0..Len(s), n # 0
        PROVE  h[n] = IF s[n] \in S THEN Append(h[n - 1], s[n]) ELSE h[n - 1]
    <2>1. n \in 1..Len(s) /\ h[n - 1] \in Seq(X) BY <1>4
    <2>2. <<n, h[n - 1]>> \in (1..Len(s)) \X Seq(X) BY <2>1
    <2> QED BY <1>3, <2>1, <2>2 DEF Runs
  <1>5. Keeps(s, S, h) BY <1>3, <1>4 DEF Keeps, Runs
  <1>6. \A k : Keeps(s, S, k) => k = h
    <2> SUFFICES ASSUME NEW k, Keeps(s, S, k) PROVE k = h OBVIOUS
    <2> DEFINE T == {n \in 0..Len(s) : k[n] = h[n]}
    <2>1. 0 \in T BY <1>2, <1>3 DEF Keeps, Runs
    <2>2. ASSUME NEW n \in 0..Len(s), n < Len(s), n \in T PROVE n + 1 \in T
      <3>1. n + 1 \in 0..Len(s) /\ n + 1 # 0 /\ (n + 1) - 1 = n BY <2>2, <1>2
      <3>2. k[n + 1] = IF s[n + 1] \in S THEN Append(k[n], s[n + 1]) ELSE k[n] BY <3>1 DEF Keeps
      <3>3. h[n + 1] = IF s[n + 1] \in S THEN Append(h[n], s[n + 1]) ELSE h[n] BY <3>1, <1>4
      <3> QED BY <2>2, <3>1, <3>2, <3>3
    <2>3. 0..Len(s) \subseteq T BY <1>2, <2>1, <2>2, StepByStep
    <2>4. k = [n \in 0..Len(s) |-> k[n]] BY DEF Keeps
    <2> QED BY <2>3, <2>4
  <1>7. (CHOOSE k : Keeps(s, S, k)) = h BY <1>5, <1>6
  <1>8. Sift(s, S) = h[Len(s)] BY <1>7 DEF Sift, Keeps
  <1> QED BY <1>5, <1>8

(* Where the elements of r are in the first n of s: in their order, and all that are in S. *)
Embeds(s, S, n, r, e) ==
    /\ e \in [1..Len(r) -> 1..n]
    /\ \A k, l \in 1..Len(r) : k < l => e[k] < e[l]
    /\ \A k \in 1..Len(r) : s[e[k]] \in S /\ r[k] = s[e[k]]
    /\ \A i \in 1..n : s[i] \in S => \E k \in 1..Len(r) : e[k] = i

(* What Sift keeps are the elements in S, in the order they had. *)
LEMMA SiftEmbeds ==
    ASSUME NEW X, NEW s \in Seq(X), NEW S
    PROVE  /\ Sift(s, S) \in Seq(X)
           /\ \E e : Embeds(s, S, Len(s), Sift(s, S), e)
  <1>1. PICK kept \in [0..Len(s) -> Seq(X)] : Keeps(s, S, kept) /\ Sift(s, S) = kept[Len(s)]
    BY SiftKeeps
  <1>2. Len(s) \in Nat OBVIOUS
  <1> DEFINE T == {n \in 0..Len(s) : \E e : Embeds(s, S, n, kept[n], e)}
  <1>3. 0 \in T
    <2>1. kept[0] = <<>> BY <1>1, <1>2 DEF Keeps
    <2>2. Embeds(s, S, 0, <<>>, [k \in 1..0 |-> k]) BY DEF Embeds
    <2> QED BY <1>2, <2>1, <2>2
  <1>4. ASSUME NEW n \in 0..Len(s), n < Len(s), n \in T PROVE n + 1 \in T
    <2>1. PICK e : Embeds(s, S, n, kept[n], e) BY <1>4
    <2>2. n + 1 \in 0..Len(s) /\ n + 1 # 0 /\ (n + 1) - 1 = n BY <1>4, <1>2
    <2>3. kept[n + 1] = IF s[n + 1] \in S THEN Append(kept[n], s[n + 1]) ELSE kept[n]
      BY <1>1, <2>2 DEF Keeps
    <2>4. CASE s[n + 1] \in S
      <3> DEFINE r == kept[n]
                 d == [k \in 1..(Len(r) + 1) |-> IF k = Len(r) + 1 THEN n + 1 ELSE e[k]]
      <3>1. r \in Seq(X) /\ s[n + 1] \in X /\ Len(r) \in Nat BY <2>2
      <3>2. kept[n + 1] = Append(r, s[n + 1]) BY <2>3, <2>4
      <3>3. Len(Append(r, s[n + 1])) = Len(r) + 1 BY <3>1
      <3>4. \A k \in 1..Len(r) : Append(r, s[n + 1])[k] = r[k] /\ k \in 1..(Len(r) + 1) /\ d[k] = e[k]
        BY <3>1
      <3>5. Append(r, s[n + 1])[Len(r) + 1] = s[n + 1] /\ d[Len(r) + 1] = n + 1 BY <3>1
      <3> HIDE DEF r
      <3>6. e \in [1..Len(r) -> 1..n] BY <2>1 DEF Embeds, r
      <3>7. d \in [1..(Len(r) + 1) -> 1..(n + 1)] BY <3>1, <3>6
      <3> HIDE DEF d
      <3>8. ASSUME NEW k \in 1..(Len(r) + 1), NEW l \in 1..(Len(r) + 1), k < l PROVE d[k] < d[l]
        <4>1. k \in 1..Len(r) BY <3>1, <3>8
        <4>2. d[k] = e[k] /\ e[k] \in 1..n BY <3>4, <3>6, <4>1
        <4>3. CASE l = Len(r) + 1 BY <3>5, <4>2, <4>3
        <4>4. CASE l # Len(r) + 1
          <5>1. l \in 1..Len(r) BY SMTT(60), <3>1, <4>4
          <5> QED BY <2>1, <3>4, <3>8, <4>1, <4>2, <5>1 DEF Embeds, r
        <4> QED BY <4>3, <4>4
      <3>9. ASSUME NEW k \in 1..(Len(r) + 1)
            PROVE s[d[k]] \in S /\ Append(r, s[n + 1])[k] = s[d[k]]
        <4>1. CASE k = Len(r) + 1 BY <2>4, <3>5, <4>1
        <4>2. CASE k # Len(r) + 1
          <5>0. Len(r) \in Nat /\ k \in 1..(Len(r) + 1) /\ k # Len(r) + 1 BY <3>1, <4>2
          <5>1. k \in 1..Len(r) BY <5>0
          <5> QED BY <2>1, <3>4, <5>1 DEF Embeds, r
        <4> QED BY <4>1, <4>2
      <3>10. ASSUME NEW i \in 1..(n + 1), s[i] \in S PROVE \E k \in 1..(Len(r) + 1) : d[k] = i
        <4>1. CASE i = n + 1
          <5>1. Len(r) + 1 \in 1..(Len(r) + 1) BY <3>1
          <5> QED BY <3>5, <4>1, <5>1
        <4>2. CASE i # n + 1
          <5>1. i \in 1..n BY <1>4, <4>2
          <5>2. PICK k \in 1..Len(r) : e[k] = i BY <2>1, <3>10, <5>1 DEF Embeds, r
          <5> QED BY <3>4, <5>2
        <4> QED BY <4>1, <4>2
      <3>11. Embeds(s, S, n + 1, kept[n + 1], d) BY <3>2, <3>3, <3>7, <3>8, <3>9, <3>10 DEF Embeds
      <3> QED BY <2>2, <3>11
    <2>5. CASE s[n + 1] \notin S
      <3>1. kept[n + 1] = kept[n] BY <2>3, <2>5
      <3>2. \A i \in 1..(n + 1) : s[i] \in S => i \in 1..n BY <1>4, <2>5
      <3>3. e \in [1..Len(kept[n]) -> 1..(n + 1)] BY <2>1, <1>4 DEF Embeds
      <3>4. Embeds(s, S, n + 1, kept[n + 1], e) BY <2>1, <3>1, <3>2, <3>3 DEF Embeds
      <3> QED BY <2>2, <3>4
    <2> QED BY <2>4, <2>5
  <1>5. Len(s) \in T
    <2> HIDE DEF T
    <2>1. 0..Len(s) \subseteq T BY <1>2, <1>3, <1>4, StepByStep
    <2> QED BY <1>2, <2>1
  <1>6. kept[Len(s)] \in Seq(X) BY <1>2
  <1> QED BY <1>1, <1>5, <1>6

(* What Sift keeps is in S and was there, and what is in S is kept. *)
LEMMA SiftHas ==
    ASSUME NEW X, NEW s \in Seq(X), NEW S
    PROVE  /\ Sift(s, S) \in Seq(X)
           /\ \A k \in 1..Len(Sift(s, S)) : Sift(s, S)[k] \in S /\ \E i \in 1..Len(s) : Sift(s, S)[k] = s[i]
           /\ \A i \in 1..Len(s) : s[i] \in S => \E k \in 1..Len(Sift(s, S)) : Sift(s, S)[k] = s[i]
  <1>1. Sift(s, S) \in Seq(X) /\ \E e : Embeds(s, S, Len(s), Sift(s, S), e) BY SiftEmbeds
  <1>2. PICK e : Embeds(s, S, Len(s), Sift(s, S), e) BY <1>1
  <1> DEFINE r == Sift(s, S)
  <1> HIDE DEF r
  <1>3. /\ \A k \in 1..Len(r) : e[k] \in 1..Len(s)
        /\ \A k \in 1..Len(r) : s[e[k]] \in S /\ r[k] = s[e[k]]
        /\ \A i \in 1..Len(s) : s[i] \in S => \E k \in 1..Len(r) : e[k] = i BY <1>2 DEF Embeds, r
  <1>4. \A k \in 1..Len(r) : r[k] \in S /\ \E i \in 1..Len(s) : r[k] = s[i] BY <1>3
  <1>5. \A i \in 1..Len(s) : s[i] \in S => \E k \in 1..Len(r) : r[k] = s[i] BY <1>3
  <1> QED BY <1>1, <1>4, <1>5 DEF r

(* A sequence behind another is sifted by itself. *)
LEMMA SiftConcat ==
    ASSUME NEW X, NEW s \in Seq(X), NEW t \in Seq(X), NEW S
    PROVE  Sift(s \o t, S) = Sift(s, S) \o Sift(t, S)
  <1> DEFINE u == s \o t
  <1>1. u \in Seq(X) /\ Len(u) = Len(s) + Len(t) /\ Len(s) \in Nat /\ Len(t) \in Nat OBVIOUS
  <1>2. \A i \in 1..Len(s) : u[i] = s[i] OBVIOUS
  <1>3. \A i \in 1..Len(t) : u[Len(s) + i] = t[i] OBVIOUS
  <1> HIDE DEF u
  <1>4. PICK f \in [0..Len(s) -> Seq(X)] : Keeps(s, S, f) /\ Sift(s, S) = f[Len(s)] BY SiftKeeps
  <1>5. PICK g \in [0..Len(t) -> Seq(X)] : Keeps(t, S, g) /\ Sift(t, S) = g[Len(t)] BY SiftKeeps
  <1>6. PICK h \in [0..Len(u) -> Seq(X)] : Keeps(u, S, h) /\ Sift(u, S) = h[Len(u)] BY <1>1, SiftKeeps
  <1>7. h[Len(s)] = f[Len(s)]
    <2> DEFINE T == {n \in 0..Len(s) : h[n] = f[n]}
    <2>1. 0 \in T BY <1>1, <1>4, <1>6 DEF Keeps
    <2>2. ASSUME NEW n \in 0..Len(s), n < Len(s), n \in T PROVE n + 1 \in T
      <3>1. /\ n + 1 \in 0..Len(s) /\ n + 1 \in 0..Len(u) /\ n + 1 # 0 /\ (n + 1) - 1 = n
            /\ n + 1 \in 1..Len(s) BY <1>1, <2>2
      <3>2. f[n + 1] = IF s[n + 1] \in S THEN Append(f[n], s[n + 1]) ELSE f[n] BY <1>4, <3>1 DEF Keeps
      <3>3. h[n + 1] = IF u[n + 1] \in S THEN Append(h[n], u[n + 1]) ELSE h[n] BY <1>6, <3>1 DEF Keeps
      <3> QED BY <1>2, <2>2, <3>1, <3>2, <3>3
    <2> HIDE DEF T
    <2>3. 0..Len(s) \subseteq T BY <1>1, <2>1, <2>2, StepByStep
    <2>4. Len(s) \in 0..Len(s) BY <1>1
    <2>5. Len(s) \in T BY <2>3, <2>4
    <2> QED BY <2>5 DEF T
  <1> DEFINE a == f[Len(s)]
             T == {n \in 0..Len(t) : h[Len(s) + n] = a \o g[n]}
  <1>8. a \in Seq(X)
    <2>1. Len(s) \in 0..Len(s) BY <1>1
    <2> HIDE DEF T
    <2> QED BY <2>1
  <1>9. 0 \in T
    <2>1. g[0] = <<>> BY <1>1, <1>5 DEF Keeps
    <2> HIDE DEF a
    <2>2. a \o <<>> = a BY <1>8
    <2>3. h[Len(s)] = a BY <1>7 DEF a
    <2>4. Len(s) + 0 = Len(s) /\ 0 \in 0..Len(t) BY <1>1
    <2> QED BY <2>1, <2>2, <2>3, <2>4
  <1>10. ASSUME NEW n \in 0..Len(t), n < Len(t), n \in T PROVE n + 1 \in T
    <2> HIDE DEF a
    <2>1. /\ n + 1 \in 0..Len(t) /\ n + 1 # 0 /\ (n + 1) - 1 = n /\ n + 1 \in 1..Len(t)
          /\ Len(s) + (n + 1) \in 0..Len(u) /\ Len(s) + (n + 1) # 0
          /\ (Len(s) + (n + 1)) - 1 = Len(s) + n BY <1>1, <1>10
    <2>2. g[n + 1] = IF t[n + 1] \in S THEN Append(g[n], t[n + 1]) ELSE g[n] BY <1>5, <2>1 DEF Keeps
    <2>3. h[Len(s) + (n + 1)] = IF u[Len(s) + (n + 1)] \in S
                               THEN Append(h[Len(s) + n], u[Len(s) + (n + 1)]) ELSE h[Len(s) + n]
      BY <1>6, <2>1 DEF Keeps
    <2>4. u[Len(s) + (n + 1)] = t[n + 1] /\ t[n + 1] \in X BY <1>3, <2>1
    <2>5. h[Len(s) + n] = a \o g[n] /\ g[n] \in Seq(X) BY <1>10
    <2>6. ASSUME NEW x \in X, NEW v \in Seq(X) PROVE Append(a \o v, x) = a \o Append(v, x)
      <3>1. a \o v \in Seq(X) /\ <<x>> \in Seq(X) BY <1>8, ConcatProperties
      <3>2. Append(a \o v, x) = (a \o v) \o <<x>> BY <3>1, AppendIsConcat
      <3>3. Append(v, x) = v \o <<x>> BY AppendIsConcat
      <3>4. (a \o v) \o <<x>> = a \o (v \o <<x>>) BY SMTT(60), <1>8, <3>1, ConcatAssociative
      <3> QED BY <3>2, <3>3, <3>4
    <2>7. h[Len(s) + (n + 1)] = a \o g[n + 1] BY <2>2, <2>3, <2>4, <2>5, <2>6
    <2> QED BY <2>1, <2>7
  <1>11. Len(t) \in T
    <2> HIDE DEF T
    <2>1. 0..Len(t) \subseteq T BY <1>1, <1>9, <1>10, StepByStep
    <2>2. Len(t) \in 0..Len(t) BY <1>1
    <2> QED BY <2>1, <2>2
  <1>12. h[Len(u)] = f[Len(s)] \o g[Len(t)] BY <1>1, <1>11
  <1> QED BY <1>4, <1>5, <1>6, <1>12 DEF u

(* If all of it is in S, all of it is kept. *)
LEMMA SiftKeepsAll ==
    ASSUME NEW X, NEW s \in Seq(X), NEW S, \A i \in 1..Len(s) : s[i] \in S
    PROVE  Sift(s, S) = s
  <1>1. PICK kept \in [0..Len(s) -> Seq(X)] : Keeps(s, S, kept) /\ Sift(s, S) = kept[Len(s)]
    BY SiftKeeps
  <1>2. Len(s) \in Nat OBVIOUS
  <1> DEFINE T == {n \in 0..Len(s) : kept[n] = SubSeq(s, 1, n)}
  <1>3. 0 \in T BY <1>1, <1>2 DEF Keeps
  <1>4. ASSUME NEW n \in 0..Len(s), n < Len(s), n \in T PROVE n + 1 \in T
    <2>1. n + 1 \in 0..Len(s) /\ n + 1 # 0 /\ (n + 1) - 1 = n /\ n + 1 \in 1..Len(s) BY <1>4, <1>2
    <2>2. kept[n + 1] = Append(SubSeq(s, 1, n), s[n + 1]) BY <1>1, <1>4, <2>1 DEF Keeps
    <2>3. Append(SubSeq(s, 1, n), s[n + 1]) = SubSeq(s, 1, n + 1) BY <1>2, <2>1
    <2> QED BY <2>1, <2>2, <2>3
  <1>5. Len(s) \in T
    <2> HIDE DEF T
    <2>1. 0..Len(s) \subseteq T BY <1>2, <1>3, <1>4, StepByStep
    <2> QED BY <1>2, <2>1
  <1>6. SubSeq(s, 1, Len(s)) = s OBVIOUS
  <1> QED BY <1>1, <1>5, <1>6
-----------------------------------------------------------------------------
(* Pieces for the elements of X, sequences of elements of Y. *)
Pieces(X, Y) == [X -> Seq(Y)]

(* The recursion of Strung: what the first n pieces make. *)
Strings(s, piece, strung) ==
    strung = [n \in 0..Len(s) |-> IF n = 0 THEN <<>> ELSE strung[n - 1] \o piece[s[n]]]

(* Strung is such a function's last value. *)
LEMMA StrungStrings ==
    ASSUME NEW X, NEW Y, NEW s \in Seq(X), NEW piece \in Pieces(X, Y)
    PROVE  \E strung \in [0..Len(s) -> Seq(Y)] :
              Strings(s, piece, strung) /\ Strung(s, piece) = strung[Len(s)]
  <1> DEFINE g == [p \in (1..Len(s)) \X Seq(Y) |-> p[2] \o piece[s[p[1]]]]
  <1>1. g \in [(1..Len(s)) \X Seq(Y) -> Seq(Y)]
    <2> SUFFICES ASSUME NEW p \in (1..Len(s)) \X Seq(Y) PROVE p[2] \o piece[s[p[1]]] \in Seq(Y) OBVIOUS
    <2>1. p[2] \in Seq(Y) /\ p[1] \in 1..Len(s) OBVIOUS
    <2>2. piece[s[p[1]]] \in Seq(Y) BY <2>1 DEF Pieces
    <2> QED BY <2>1, <2>2, ConcatProperties
  <1>2. Len(s) \in Nat /\ <<>> \in Seq(Y) OBVIOUS
  <1>3. PICK h \in [0..Len(s) -> Seq(Y)] : Runs(Len(s), h, <<>>, g)
    <2> HIDE DEF g
    <2> QED BY <1>1, <1>2, LoopExists
  <1>4. ASSUME NEW n \in 0..Len(s), n # 0 PROVE h[n] = h[n - 1] \o piece[s[n]]
    <2>0. n \in 1..Len(s) /\ n - 1 \in 0..Len(s) BY <1>2, <1>4
    <2>1. n \in 1..Len(s) /\ h[n - 1] \in Seq(Y) BY <2>0
    <2>2. <<n, h[n - 1]>> \in (1..Len(s)) \X Seq(Y) BY <2>1
    <2> QED BY <1>3, <2>1, <2>2 DEF Runs
  <1>5. Strings(s, piece, h) BY <1>3, <1>4 DEF Strings, Runs
  <1>6. \A k : Strings(s, piece, k) => k = h
    <2> SUFFICES ASSUME NEW k, Strings(s, piece, k) PROVE k = h OBVIOUS
    <2> DEFINE T == {n \in 0..Len(s) : k[n] = h[n]}
    <2>1. 0 \in T BY <1>2, <1>3 DEF Strings, Runs
    <2>2. ASSUME NEW n \in 0..Len(s), n < Len(s), n \in T PROVE n + 1 \in T
      <3>1. n + 1 \in 0..Len(s) /\ n + 1 # 0 /\ (n + 1) - 1 = n BY <2>2, <1>2
      <3>2. k[n + 1] = k[n] \o piece[s[n + 1]] BY <3>1 DEF Strings
      <3>3. h[n + 1] = h[n] \o piece[s[n + 1]] BY <3>1, <1>4
      <3> QED BY <2>2, <3>1, <3>2, <3>3
    <2>3. 0..Len(s) \subseteq T BY <1>2, <2>1, <2>2, StepByStep
    <2>4. k = [n \in 0..Len(s) |-> k[n]] BY DEF Strings
    <2> QED BY <2>3, <2>4
  <1>7. (CHOOSE k : Strings(s, piece, k)) = h BY <1>5, <1>6
  <1>8. Strung(s, piece) = h[Len(s)] BY <1>7 DEF Strung, Strings
  <1> QED BY <1>5, <1>8

(* A piece more comes behind, whatever else has become of pieces that s has not. *)
LEMMA StrungGoesOn ==
    ASSUME NEW X, NEW Y, NEW s \in Seq(X), NEW x \in X,
           NEW old \in Pieces(X, Y), NEW piece \in Pieces(X, Y),
           \A i \in 1..Len(s) : piece[s[i]] = old[s[i]]
    PROVE  Strung(s, piece) = Strung(s, old) /\ Strung(Append(s, x), piece) = Strung(s, old) \o piece[x]
  <1> DEFINE u == Append(s, x)
  <1>1. u \in Seq(X) /\ Len(u) = Len(s) + 1 /\ Len(s) \in Nat BY AppendProperties
  <1>2. (\A i \in 1..Len(s) : u[i] = s[i]) /\ u[Len(s) + 1] = x BY AppendProperties
  <1> HIDE DEF u
  <1>3. PICK f \in [0..Len(s) -> Seq(Y)] : Strings(s, old, f) /\ Strung(s, old) = f[Len(s)]
    BY StrungStrings
  <1>4. PICK g \in [0..Len(s) -> Seq(Y)] : Strings(s, piece, g) /\ Strung(s, piece) = g[Len(s)]
    BY StrungStrings
  <1>5. PICK h \in [0..Len(u) -> Seq(Y)] : Strings(u, piece, h) /\ Strung(u, piece) = h[Len(u)]
    BY <1>1, StrungStrings
  <1> DEFINE T == {n \in 0..Len(s) : g[n] = f[n] /\ h[n] = f[n]}
  <1>6. 0 \in T BY <1>1, <1>3, <1>4, <1>5 DEF Strings
  <1>7. ASSUME NEW n \in 0..Len(s), n < Len(s), n \in T PROVE n + 1 \in T
    <2>1. /\ n + 1 \in 0..Len(s) /\ n + 1 \in 0..Len(u) /\ n + 1 # 0 /\ (n + 1) - 1 = n
          /\ n + 1 \in 1..Len(s) BY <1>1, <1>7
    <2>2. f[n + 1] = f[n] \o old[s[n + 1]] BY <1>3, <2>1 DEF Strings
    <2>3. g[n + 1] = g[n] \o piece[s[n + 1]] BY <1>4, <2>1 DEF Strings
    <2>4. h[n + 1] = h[n] \o piece[u[n + 1]] BY <1>5, <2>1 DEF Strings
    <2> QED BY <1>2, <1>7, <2>1, <2>2, <2>3, <2>4
  <1>8. Len(s) \in T
    <2> HIDE DEF T
    <2>1. 0..Len(s) \subseteq T BY <1>1, <1>6, <1>7, StepByStep
    <2>2. Len(s) \in 0..Len(s) BY <1>1
    <2> QED BY <2>1, <2>2
  <1>9. h[Len(u)] = h[Len(s)] \o piece[x]
    <2>1. Len(u) \in 0..Len(u) /\ Len(u) # 0 /\ Len(u) - 1 = Len(s) BY <1>1
    <2> QED BY <1>1, <1>2, <1>5, <2>1 DEF Strings
  <1> QED BY <1>3, <1>4, <1>5, <1>8, <1>9 DEF u
==============================================================================
