------------------------- MODULE ConversationProofs -------------------------
(***************************************************************************)
(* What RequestRoutes makes of a conversation, of any length: each dialect *)
(* keeps what is said and in which order, and sends no result without its  *)
(* call before it.  Conversations are sequences, and what becomes of them  *)
(* is written with Flatten: the lemmas on sequences come first, then how   *)
(* calls and results follow each other, then what is said word by word.    *)
(***************************************************************************)
EXTENDS RequestRoutes, SequenceTheorems, WellFoundedInduction, TLAPS

-----------------------------------------------------------------------------
(* Numbers.                                                                *)

\* A set of numbers has a least one.
LEMMA LeastNumber ==
    ASSUME NEW S, S \subseteq Nat, S # {}
    PROVE \E t \in S : \A u \in S : t <= u
<1>1. IsWellFoundedOn(OpToRel(<, Nat), Nat)
    BY NatLessThanWellFounded
<1>2. PICK t \in S : \A u \in S : <<u, t>> \notin OpToRel(<, Nat)
    BY <1>1, WFMin
<1>3. ASSUME NEW u \in S PROVE t <= u
    <2>1. ~(u < t)
        BY <1>2 DEF OpToRel
    <2>2. QED
        BY <2>1
<1>4. QED
    BY <1>3

\* Induction, over a set of numbers in place of a predicate.
LEMMA Inductive ==
    ASSUME NEW N \in Nat, NEW S, 0 \in S, \A n \in 0..N : n \in S /\ n # N => n + 1 \in S
    PROVE  0..N \subseteq S
<1>1. SUFFICES ASSUME (0..N) \ S # {} PROVE FALSE
    OBVIOUS
<1>2. PICK n \in (0..N) \ S : \A m \in (0..N) \ S : n <= m
    <2>1. (0..N) \ S \subseteq Nat
        OBVIOUS
    <2>2. QED
        BY <1>1, <2>1, LeastNumber
<1>3. n # 0 /\ n - 1 \in 0..N /\ n - 1 # N
    BY <1>2
<1>4. n - 1 \in S
    BY <1>2, <1>3
<1>5. n \in S
    BY <1>3, <1>4
<1>6. QED
    BY <1>2, <1>5

LEMMA Successor ==
    ASSUME NEW N \in Nat, NEW n \in 0 .. N, n # N
    PROVE  n + 1 \in 1 .. N /\ n + 1 \in 0 .. N /\ (n + 1) - 1 = n /\ n \in Nat
OBVIOUS

-----------------------------------------------------------------------------
(* Sequences joined.                                                       *)

\* The join is what its definition says, piece after piece.
LEMMA JoinedValue ==
    ASSUME NEW ss, Len(ss) \in Nat
    PROVE  Joined(ss) =
             [n \in 0 .. Len(ss) |-> IF n = 0 THEN <<>> ELSE Joined(ss)[n - 1] \o ss[n]]
<1> DEFINE Upto(f, n) == f = [k \in 0 .. n |-> IF k = 0 THEN <<>> ELSE f[k - 1] \o ss[k]]
           Good == {n \in Nat : \E f : Upto(f, n)}
<1>1. 0 \in Good
    <2>1. Upto([k \in 0 .. 0 |-> <<>>], 0)
        OBVIOUS
    <2>2. QED
        BY <2>1
<1>2. ASSUME NEW n \in Nat, n \in Good PROVE n + 1 \in Good
    <2>1. PICK f : Upto(f, n)
        BY <1>2
    <2> DEFINE g == [k \in 0 .. (n + 1) |-> IF k <= n THEN f[k] ELSE f[n] \o ss[n + 1]]
    <2>2. ASSUME NEW k \in 0 .. (n + 1)
          PROVE  g[k] = IF k = 0 THEN <<>> ELSE g[k - 1] \o ss[k]
        <3>1. CASE k = 0
            BY <2>1, <3>1
        <3>2. CASE k # 0 /\ k <= n
            <4>1. k \in 0 .. n /\ k - 1 \in 0 .. (n + 1) /\ k - 1 <= n
                BY <2>2, <3>2
            <4>2. g[k] = f[k] /\ g[k - 1] = f[k - 1]
                BY <2>2, <4>1
            <4>3. f[k] = f[k - 1] \o ss[k]
                BY <2>1, <3>2, <4>1
            <4>4. QED
                BY <3>2, <4>2, <4>3
        <3>3. CASE k = n + 1
            <4>1. g[k] = f[n] \o ss[n + 1] /\ g[k - 1] = f[n] /\ k # 0
                BY <3>3
            <4>2. QED
                BY <3>3, <4>1
        <3>4. QED
            BY <2>2, <3>1, <3>2, <3>3
    <2>3. Upto(g, n + 1)
        <3> HIDE DEF g
        <3>1. g = [k \in 0 .. (n + 1) |-> g[k]]
            BY DEF g
        <3> DEFINE h == [k \in 0 .. (n + 1) |-> IF k = 0 THEN <<>> ELSE g[k - 1] \o ss[k]]
        <3>2. \A k \in 0 .. (n + 1) : h[k] = g[k]
            BY <2>2
        <3>3. h = [k \in 0 .. (n + 1) |-> h[k]]
            OBVIOUS
        <3>4. g = h
            <4> HIDE DEF h
            <4>1. QED
                BY <3>1, <3>2, <3>3
        <3>5. QED
            BY <3>4
    <2>4. n + 1 \in Nat
        OBVIOUS
    <2>5. QED
        <3> HIDE DEF g, Upto
        <3>1. QED
            BY <2>3, <2>4
<1>3. Len(ss) \in Good
    <2> HIDE DEF Good
    <2>1. \A n \in 0 .. Len(ss) : n \in Good /\ n # Len(ss) => n + 1 \in Good
        BY <1>2
    <2>2. 0 .. Len(ss) \subseteq Good
        BY <1>1, <2>1, Inductive
    <2>3. Len(ss) \in 0 .. Len(ss)
        OBVIOUS
    <2>4. QED
        BY <2>2, <2>3
<1>4. \E f : Upto(f, Len(ss))
    BY <1>3
<1>5. Joined(ss) = CHOOSE f : Upto(f, Len(ss))
    BY DEF Joined
<1> HIDE DEF Upto
<1>6. Upto(Joined(ss), Len(ss))
    BY <1>4, <1>5
<1>7. QED
    BY <1>6 DEF Upto

LEMMA JoinedStep ==
    ASSUME NEW S, NEW ss \in Seq(Seq(S))
    PROVE  /\ Joined(ss)[0] = <<>>
           /\ \A n \in DOMAIN ss : Joined(ss)[n] = Joined(ss)[n - 1] \o ss[n]
<1>1. Len(ss) \in Nat /\ DOMAIN ss = 1 .. Len(ss)
    BY LenProperties
<1> DEFINE f == Joined(ss)
           h == [n \in 0 .. Len(ss) |-> IF n = 0 THEN <<>> ELSE f[n - 1] \o ss[n]]
<1>2. f = h
    BY <1>1, JoinedValue
<1> HIDE DEF f
<1>3. f[0] = <<>> /\ \A n \in 1 .. Len(ss) : f[n] = f[n - 1] \o ss[n]
    <2>1. h[0] = <<>>
        BY <1>1
    <2>2. ASSUME NEW n \in 1 .. Len(ss) PROVE h[n] = f[n - 1] \o ss[n]
        <3>1. n \in 0 .. Len(ss) /\ n # 0
            BY <1>1
        <3>2. QED
            BY <3>1
    <2> HIDE DEF h
    <2>3. QED
        BY <1>2, <2>1, <2>2
<1>4. QED
    BY <1>1, <1>3 DEF f

LEMMA JoinedType ==
    ASSUME NEW S, NEW ss \in Seq(Seq(S))
    PROVE  /\ \A n \in 0 .. Len(ss) : Joined(ss)[n] \in Seq(S)
           /\ Flatten(ss) \in Seq(S)
<1>1. Len(ss) \in Nat /\ DOMAIN ss = 1 .. Len(ss) /\ \A n \in 1 .. Len(ss) : ss[n] \in Seq(S)
    OBVIOUS
<1>2. Joined(ss)[0] \in Seq(S)
    <2>1. <<>> \in Seq(S)
        OBVIOUS
    <2>2. QED
        BY <2>1, JoinedStep
<1>3. ASSUME NEW n \in 0 .. Len(ss), n # Len(ss), Joined(ss)[n] \in Seq(S)
      PROVE  Joined(ss)[n + 1] \in Seq(S)
    <2>1. n + 1 \in 1 .. Len(ss) /\ (n + 1) - 1 = n
        BY <1>1, <1>3, Successor, Zenon
    <2>2. Joined(ss)[n + 1] = Joined(ss)[n] \o ss[n + 1]
        BY <1>1, <2>1, JoinedStep
    <2>3. ss[n + 1] \in Seq(S)
        BY <1>1, <2>1
    <2>4. QED
        BY <1>3, <2>2, <2>3
<1>4. ASSUME NEW n \in 0 .. Len(ss) PROVE Joined(ss)[n] \in Seq(S)
    <2> DEFINE Good == {k \in 0 .. Len(ss) : Joined(ss)[k] \in Seq(S)}
    <2>1. 0 \in Good
        BY <1>1, <1>2
    <2>2. ASSUME NEW k \in 0 .. Len(ss), k \in Good, k # Len(ss) PROVE k + 1 \in Good
        <3>1. k + 1 \in 0 .. Len(ss)
            BY <1>1, <2>2, Successor, Zenon
        <3>2. Joined(ss)[k + 1] \in Seq(S)
            BY <1>3, <2>2
        <3>3. QED
            BY <3>1, <3>2
    <2>3. 0 .. Len(ss) \subseteq Good
        <3> HIDE DEF Good
        <3>1. QED
            BY <1>1, <2>1, <2>2, Inductive
    <2>4. QED
        BY <2>3
<1>5. QED
    BY <1>1, <1>4 DEF Flatten

\* What is joined so far depends on the pieces so far.
LEMMA JoinedSame ==
    ASSUME NEW S, NEW ss \in Seq(Seq(S)), NEW tt \in Seq(Seq(S)), NEW m \in Nat,
           m <= Len(ss), m <= Len(tt), \A n \in 1 .. m : ss[n] = tt[n]
    PROVE  Joined(ss)[m] = Joined(tt)[m]
<1>1. /\ Len(ss) \in Nat /\ DOMAIN ss = 1 .. Len(ss)
      /\ Len(tt) \in Nat /\ DOMAIN tt = 1 .. Len(tt)
    OBVIOUS
<1>2. Joined(ss)[0] = Joined(tt)[0]
    BY JoinedStep
<1>3. ASSUME NEW n \in 0 .. m, n # m, Joined(ss)[n] = Joined(tt)[n]
      PROVE  Joined(ss)[n + 1] = Joined(tt)[n + 1]
    <2>1. n + 1 \in DOMAIN ss /\ n + 1 \in DOMAIN tt /\ n + 1 \in 1 .. m /\ (n + 1) - 1 = n
        BY <1>1, <1>3
    <2>2. Joined(ss)[n + 1] = Joined(ss)[n] \o ss[n + 1]
        BY <2>1, JoinedStep
    <2>3. Joined(tt)[n + 1] = Joined(tt)[n] \o tt[n + 1]
        BY <2>1, JoinedStep
    <2>4. ss[n + 1] = tt[n + 1]
        BY <2>1
    <2>5. QED
        BY <1>3, <2>2, <2>3, <2>4
<1>4. QED
    <2> DEFINE Good == {n \in 0 .. m : Joined(ss)[n] = Joined(tt)[n]}
    <2>1. 0 \in Good
        BY <1>2
    <2>2. \A n \in 0 .. m : n \in Good /\ n # m => n + 1 \in Good
        BY <1>3
    <2>3. 0 .. m \subseteq Good
        <3> HIDE DEF Good
        <3>1. QED
            BY <2>1, <2>2, Inductive
    <2>4. QED
        BY <2>3

LEMMA FlattenNone == Flatten(<<>>) = <<>>
<1>1. <<>> \in Seq(Seq({})) /\ Len(<<>>) = 0
    OBVIOUS
<1>2. QED
    BY <1>1, JoinedStep DEF Flatten

LEMMA FlattenAppend ==
    ASSUME NEW S, NEW ss \in Seq(Seq(S)), NEW s \in Seq(S)
    PROVE  Flatten(Append(ss, s)) = Flatten(ss) \o s
<1> DEFINE tt == Append(ss, s)
<1>1. Len(ss) \in Nat /\ DOMAIN ss = 1 .. Len(ss)
    OBVIOUS
<1>2. /\ tt \in Seq(Seq(S)) /\ Len(tt) = Len(ss) + 1 /\ tt[Len(ss) + 1] = s
      /\ \A n \in 1 .. Len(ss) : tt[n] = ss[n]
    OBVIOUS
<1>3. DOMAIN tt = 1 .. Len(tt)
    BY <1>2
<1> HIDE DEF tt
<1>4. Joined(tt)[Len(ss)] = Joined(ss)[Len(ss)]
    <2>1. Len(ss) <= Len(ss) /\ Len(ss) <= Len(tt)
        BY <1>1, <1>2
    <2>2. QED
        BY <1>1, <1>2, <2>1, JoinedSame
<1>5. Len(tt) \in DOMAIN tt /\ Len(tt) - 1 = Len(ss)
    BY <1>1, <1>2, <1>3
<1>6. Joined(tt)[Len(tt)] = Joined(tt)[Len(ss)] \o s
    BY <1>2, <1>5, JoinedStep
<1>7. QED
    BY <1>4, <1>6 DEF Flatten, tt

LEMMA FlattenOne ==
    ASSUME NEW S, NEW s \in Seq(S)
    PROVE  Flatten(<<s>>) = s
<1>1. <<>> \in Seq(Seq(S)) /\ Append(<<>>, s) = <<s>>
    OBVIOUS
<1>2. Flatten(<<s>>) = Flatten(<<>>) \o s
    BY <1>1, FlattenAppend
<1>3. QED
    BY <1>2, FlattenNone, SMTT(30)

LEMMA ConcatThree ==
    ASSUME NEW S, NEW s \in Seq(S), NEW t \in Seq(S), NEW u \in Seq(S)
    PROVE  (s \o t) \o u = s \o (t \o u)
OBVIOUS

LEMMA FlattenConcat ==
    ASSUME NEW S, NEW ss \in Seq(Seq(S)), NEW tt \in Seq(Seq(S))
    PROVE  Flatten(ss \o tt) = Flatten(ss) \o Flatten(tt)
<1> DEFINE uu == ss \o tt
<1>1. Len(ss) \in Nat /\ Len(tt) \in Nat /\ DOMAIN tt = 1 .. Len(tt)
    OBVIOUS
<1>2. /\ uu \in Seq(Seq(S)) /\ Len(uu) = Len(ss) + Len(tt)
      /\ \A n \in 1 .. Len(ss) : uu[n] = ss[n]
      /\ \A n \in 1 .. Len(tt) : uu[Len(ss) + n] = tt[n]
    OBVIOUS
<1>3. DOMAIN uu = 1 .. Len(uu)
    BY <1>2
<1> HIDE DEF uu
<1>4. Joined(uu)[Len(ss) + 0] = Flatten(ss) \o Joined(tt)[0]
    <2>1. Len(ss) <= Len(ss) /\ Len(ss) <= Len(uu)
        BY <1>1, <1>2
    <2>2. Joined(uu)[Len(ss)] = Joined(ss)[Len(ss)]
        BY <1>1, <1>2, <2>1, JoinedSame
    <2>3. Flatten(ss) \in Seq(S)
        BY JoinedType
    <2>4. Flatten(ss) \o <<>> = Flatten(ss)
        BY <2>3
    <2>5. Joined(tt)[0] = <<>>
        BY JoinedStep
    <2>6. Len(ss) + 0 = Len(ss)
        BY <1>1
    <2>7. QED
        BY <2>2, <2>4, <2>5, <2>6 DEF Flatten
<1>5. ASSUME NEW n \in 0 .. Len(tt), n # Len(tt),
             Joined(uu)[Len(ss) + n] = Flatten(ss) \o Joined(tt)[n]
      PROVE  Joined(uu)[Len(ss) + (n + 1)] = Flatten(ss) \o Joined(tt)[n + 1]
    <2>1. /\ n + 1 \in DOMAIN tt /\ (n + 1) - 1 = n
          /\ Len(ss) + (n + 1) \in DOMAIN uu /\ (Len(ss) + (n + 1)) - 1 = Len(ss) + n
        <3>1. n + 1 \in 1 .. Len(tt) /\ (n + 1) - 1 = n /\ n \in Nat
            BY <1>1, <1>5, Successor, Zenon
        <3>2. /\ Len(ss) + (n + 1) \in 1 .. (Len(ss) + Len(tt))
              /\ (Len(ss) + (n + 1)) - 1 = Len(ss) + n
            BY <1>1, <3>1
        <3>3. QED
            BY <1>1, <1>2, <1>3, <3>1, <3>2
    <2>2. Joined(uu)[Len(ss) + (n + 1)] = Joined(uu)[Len(ss) + n] \o uu[Len(ss) + (n + 1)]
        BY <1>2, <2>1, JoinedStep, ZenonT(40)
    <2>3. Joined(tt)[n + 1] = Joined(tt)[n] \o tt[n + 1]
        BY <2>1, JoinedStep
    <2>4. uu[Len(ss) + (n + 1)] = tt[n + 1]
        BY <1>1, <1>2, <2>1
    <2>5. Flatten(ss) \in Seq(S) /\ Joined(tt)[n] \in Seq(S)
        BY JoinedType
    <2>6. tt[n + 1] \in Seq(S)
        BY <2>1
    <2>7. (Flatten(ss) \o Joined(tt)[n]) \o tt[n + 1] = Flatten(ss) \o (Joined(tt)[n] \o tt[n + 1])
        <3>1. \A a, b, c \in Seq(S) : (a \o b) \o c = a \o (b \o c)
            BY ConcatThree, SMTT(30)
        <3>2. QED
            BY <2>5, <2>6, <3>1, Zenon
    <2>8. QED
        BY <1>5, <2>2, <2>3, <2>4, <2>7
<1>6. Joined(uu)[Len(ss) + Len(tt)] = Flatten(ss) \o Joined(tt)[Len(tt)]
    <2> DEFINE Good == {n \in 0 .. Len(tt) : Joined(uu)[Len(ss) + n] = Flatten(ss) \o Joined(tt)[n]}
    <2>1. 0 \in Good
        BY <1>1, <1>4
    <2>2. ASSUME NEW n \in 0 .. Len(tt), n \in Good, n # Len(tt) PROVE n + 1 \in Good
        <3>1. n + 1 \in 0 .. Len(tt)
            BY <1>1, <2>2, Successor, Zenon
        <3>2. Joined(uu)[Len(ss) + (n + 1)] = Flatten(ss) \o Joined(tt)[n + 1]
            BY <1>5, <2>2
        <3>3. QED
            BY <3>1, <3>2
    <2>3. 0 .. Len(tt) \subseteq Good
        <3> HIDE DEF Good
        <3>1. QED
            BY <1>1, <2>1, <2>2, Inductive
    <2>4. Len(tt) \in 0 .. Len(tt)
        BY <1>1
    <2>5. QED
        BY <2>3, <2>4
<1>7. QED
    BY <1>2, <1>6 DEF Flatten, uu

\* Every element replaced by what a function has for it, and these one after the other.
Each(W, s) == [i \in DOMAIN s |-> W[s[i]]]
Spread(W, s) == Flatten(Each(W, s))
Spreads(W, S, T) == W \in [S -> Seq(T)]

LEMMA SpreadsValue ==
    ASSUME NEW S, NEW T, NEW W, Spreads(W, S, T), NEW x \in S
    PROVE  W[x] \in Seq(T)
BY DEF Spreads

LEMMA EachAny ==
    ASSUME NEW S, NEW T, NEW W \in [S -> T], NEW s \in Seq(S)
    PROVE  /\ Each(W, s) \in Seq(T)
           /\ Len(Each(W, s)) = Len(s) /\ DOMAIN Each(W, s) = DOMAIN s
BY DEF Each

LEMMA EachType ==
    ASSUME NEW S, NEW T, NEW W, Spreads(W, S, T), NEW s \in Seq(S)
    PROVE  /\ Each(W, s) \in Seq(Seq(T))
           /\ Len(Each(W, s)) = Len(s) /\ DOMAIN Each(W, s) = DOMAIN s
<1> DEFINE U == Seq(T)
<1>1. W \in [S -> U]
    BY DEF Spreads
<1> HIDE DEF U
<1>2. /\ Each(W, s) \in Seq(U)
      /\ Len(Each(W, s)) = Len(s) /\ DOMAIN Each(W, s) = DOMAIN s
    BY <1>1, EachAny
<1>3. QED
    BY <1>2 DEF U

LEMMA ConcatType ==
    ASSUME NEW T, NEW s \in Seq(T), NEW t \in Seq(T)
    PROVE  s \o t \in Seq(T) /\ Len(s \o t) = Len(s) + Len(t)
OBVIOUS

LEMMA SpreadType ==
    ASSUME NEW S, NEW T, NEW W, Spreads(W, S, T), NEW s \in Seq(S)
    PROVE  Spread(W, s) \in Seq(T)
<1>1. Each(W, s) \in Seq(Seq(T))
    BY EachType
<1>2. QED
    BY <1>1, JoinedType DEF Spread

LEMMA SpreadNone == ASSUME NEW W PROVE Spread(W, <<>>) = <<>>
<1>1. Each(W, <<>>) = <<>>
    BY DEF Each
<1>2. QED
    BY <1>1, FlattenNone DEF Spread

LEMMA SpreadOne ==
    ASSUME NEW S, NEW T, NEW W, Spreads(W, S, T), NEW x \in S
    PROVE  Spread(W, <<x>>) = W[x]
<1>1. Each(W, <<x>>) = <<W[x]>>
    BY DEF Each
<1>2. W[x] \in Seq(T)
    BY SpreadsValue
<1>3. QED
    BY <1>1, <1>2, FlattenOne DEF Spread

LEMMA EachConcat ==
    ASSUME NEW S, NEW T, NEW W, Spreads(W, S, T), NEW s \in Seq(S), NEW t \in Seq(S)
    PROVE  Each(W, s \o t) = Each(W, s) \o Each(W, t)
<1> DEFINE u == Each(W, s \o t)
           v == Each(W, s) \o Each(W, t)
           st == s \o t
<1>1. /\ Len(s) \in Nat /\ Len(t) \in Nat /\ st \in Seq(S) /\ Len(st) = Len(s) + Len(t)
      /\ DOMAIN s = 1 .. Len(s) /\ DOMAIN t = 1 .. Len(t)
    OBVIOUS
<1>2. /\ Each(W, s) \in Seq(Seq(T)) /\ Len(Each(W, s)) = Len(s)
      /\ Each(W, t) \in Seq(Seq(T)) /\ Len(Each(W, t)) = Len(t)
    BY EachType
<1>3. u \in Seq(Seq(T)) /\ Len(u) = Len(s) + Len(t) /\ DOMAIN st = DOMAIN u
    <2> HIDE DEF st
    <2>1. /\ Each(W, st) \in Seq(Seq(T))
          /\ Len(Each(W, st)) = Len(st) /\ DOMAIN Each(W, st) = DOMAIN st
        BY <1>1, EachType
    <2>2. QED
        BY <1>1, <2>1 DEF st
<1>4. v \in Seq(Seq(T)) /\ Len(v) = Len(s) + Len(t)
    <2> DEFINE U == Seq(T)
               a == Each(W, s)
               b == Each(W, t)
    <2>1. a \in Seq(U) /\ b \in Seq(U) /\ Len(a) = Len(s) /\ Len(b) = Len(t)
        BY <1>2
    <2> HIDE DEF U, a, b
    <2>2. a \o b \in Seq(U) /\ Len(a \o b) = Len(a) + Len(b)
        BY <2>1
    <2>3. QED
        BY <2>1, <2>2 DEF U, a, b
<1>5. ASSUME NEW i \in 1 .. (Len(s) + Len(t)) PROVE u[i] = v[i]
    <2>1. u[i] = W[st[i]]
        <3>1. i \in DOMAIN st
            BY <1>1
        <3> HIDE DEF st
        <3>2. QED
            BY <3>1 DEF Each, st
    <2>2. CASE i <= Len(s)
        <3>1. st[i] = s[i] /\ i \in DOMAIN s /\ v[i] = Each(W, s)[i]
            BY <1>1, <1>2, <2>2
        <3>2. Each(W, s)[i] = W[s[i]]
            BY <3>1 DEF Each
        <3>3. QED
            BY <2>1, <3>1, <3>2
    <2>3. CASE i > Len(s)
        <3>1. /\ st[i] = t[i - Len(s)] /\ i - Len(s) \in DOMAIN t
              /\ v[i] = Each(W, t)[i - Len(s)]
            BY <1>1, <1>2, <2>3
        <3>2. Each(W, t)[i - Len(s)] = W[t[i - Len(s)]]
            BY <3>1 DEF Each
        <3>3. QED
            BY <2>1, <3>1, <3>2
    <2>4. i <= Len(s) \/ i > Len(s)
        BY <1>1
    <2>5. QED
        BY <2>2, <2>3, <2>4
<1>6. QED
    <2> HIDE DEF u, v
    <2>1. u = v
        BY <1>1, <1>3, <1>4, <1>5
    <2>2. QED
        BY <2>1 DEF u, v

LEMMA SpreadConcat ==
    ASSUME NEW S, NEW T, NEW W, Spreads(W, S, T), NEW s \in Seq(S), NEW t \in Seq(S)
    PROVE  Spread(W, s \o t) = Spread(W, s) \o Spread(W, t)
<1>1. Each(W, s \o t) = Each(W, s) \o Each(W, t)
    BY EachConcat
<1>2. Each(W, s) \in Seq(Seq(T)) /\ Each(W, t) \in Seq(Seq(T))
    BY EachType
<1>3. QED
    BY <1>1, <1>2, FlattenConcat DEF Spread

\* What is spread of a sequence of sequences is what is spread of each of them.
LEMMA SpreadFlatten ==
    ASSUME NEW S, NEW T, NEW W, Spreads(W, S, T), NEW ss \in Seq(Seq(S))
    PROVE  Spread(W, Flatten(ss)) = Flatten([i \in DOMAIN ss |-> Spread(W, ss[i])])
<1> DEFINE tt == [i \in DOMAIN ss |-> Spread(W, ss[i])]
<1>1. Len(ss) \in Nat /\ DOMAIN ss = 1 .. Len(ss) /\ \A i \in DOMAIN ss : ss[i] \in Seq(S)
    OBVIOUS
<1>2. tt \in Seq(Seq(T)) /\ Len(tt) = Len(ss) /\ DOMAIN tt = DOMAIN ss
    <2>1. \A i \in DOMAIN ss : Spread(W, ss[i]) \in Seq(T)
        BY <1>1, SpreadType
    <2>2. QED
        BY <1>1, <2>1
<1>3. \A i \in DOMAIN ss : tt[i] = Spread(W, ss[i])
    OBVIOUS
<1> HIDE DEF tt
<1>4. Spread(W, Joined(ss)[0]) = Joined(tt)[0]
    <2>1. Joined(ss)[0] = <<>> /\ Joined(tt)[0] = <<>>
        BY <1>2, JoinedStep
    <2>2. QED
        BY <2>1, SpreadNone
<1>5. ASSUME NEW n \in 0 .. Len(ss), n # Len(ss), Spread(W, Joined(ss)[n]) = Joined(tt)[n]
      PROVE  Spread(W, Joined(ss)[n + 1]) = Joined(tt)[n + 1]
    <2>1. n + 1 \in DOMAIN ss /\ n + 1 \in DOMAIN tt /\ (n + 1) - 1 = n
        BY <1>1, <1>2, <1>5, Successor, Zenon
    <2>2. Joined(ss)[n + 1] = Joined(ss)[n] \o ss[n + 1]
        BY <2>1, JoinedStep
    <2>3. Joined(tt)[n + 1] = Joined(tt)[n] \o tt[n + 1]
        BY <1>2, <2>1, JoinedStep
    <2>4. Joined(ss)[n] \in Seq(S) /\ ss[n + 1] \in Seq(S)
        BY <1>1, <2>1, JoinedType
    <2>5. Spread(W, Joined(ss)[n] \o ss[n + 1])
             = Spread(W, Joined(ss)[n]) \o Spread(W, ss[n + 1])
        <3>1. \A a, b : a \in Seq(S) /\ b \in Seq(S) =>
                         Spread(W, a \o b) = Spread(W, a) \o Spread(W, b)
            BY SpreadConcat
        <3>2. QED
            BY <2>4, <3>1, Zenon
    <2>6. QED
        BY <1>3, <1>5, <2>1, <2>2, <2>3, <2>5
<1>6. Spread(W, Joined(ss)[Len(ss)]) = Joined(tt)[Len(ss)]
    <2> DEFINE Good == {n \in 0 .. Len(ss) : Spread(W, Joined(ss)[n]) = Joined(tt)[n]}
    <2>1. 0 \in Good
        BY <1>1, <1>4
    <2>2. ASSUME NEW n \in 0 .. Len(ss), n \in Good, n # Len(ss) PROVE n + 1 \in Good
        <3>1. n + 1 \in 0 .. Len(ss)
            BY <1>1, <2>2, Successor, Zenon
        <3>2. Spread(W, Joined(ss)[n + 1]) = Joined(tt)[n + 1]
            BY <1>5, <2>2
        <3>3. QED
            BY <3>1, <3>2
    <2>3. 0 .. Len(ss) \subseteq Good
        <3> HIDE DEF Good
        <3>1. QED
            BY <1>1, <2>1, <2>2, Inductive
    <2>4. Len(ss) \in 0 .. Len(ss)
        BY <1>1
    <2>5. QED
        BY <2>3, <2>4
<1>7. QED
    BY <1>2, <1>6 DEF Flatten, tt

\* Spreading what was spread.
LEMMA SpreadSpread ==
    ASSUME NEW S, NEW T, NEW U, NEW W, NEW V, NEW X, Spreads(W, S, T), Spreads(V, T, U),
           \A x \in S : Spread(V, W[x]) = X[x], NEW s \in Seq(S)
    PROVE  Spread(V, Spread(W, s)) = Spread(X, s)
<1>1. Each(W, s) \in Seq(Seq(T)) /\ DOMAIN Each(W, s) = DOMAIN s
    BY EachType
<1>2. Spread(V, Flatten(Each(W, s)))
        = Flatten([i \in DOMAIN Each(W, s) |-> Spread(V, Each(W, s)[i])])
    BY <1>1, SpreadFlatten
<1>3. ASSUME NEW i \in DOMAIN s PROVE Spread(V, Each(W, s)[i]) = X[s[i]]
    <2>1. s[i] \in S /\ Each(W, s)[i] = W[s[i]]
        BY DEF Each
    <2>2. QED
        BY <2>1
<1>4. [i \in DOMAIN s |-> Spread(V, Each(W, s)[i])] = Each(X, s)
    BY <1>3 DEF Each
<1>5. QED
    BY <1>1, <1>2, <1>4 DEF Spread

Through(V, W, X, S) == \A x \in S : V[W[x]] = X[x]

LEMMA SpreadEach ==
    ASSUME NEW S, NEW W, NEW V, NEW X, Through(V, W, X, S), NEW s \in Seq(S)
    PROVE  Spread(V, Each(W, s)) = Spread(X, s)
<1>1. Each(V, Each(W, s)) = Each(X, s)
    BY DEF Each, Through
<1>2. QED
    BY <1>1 DEF Spread

\* Where the j-th of the i-th sequence comes to be.
At(ss, i, j) == Len(Joined(ss)[i - 1]) + j

There(ss, n) ==
    \A i \in 1 .. n : \A j \in DOMAIN ss[i] :
      At(ss, i, j) \in DOMAIN Joined(ss)[n] /\ Joined(ss)[n][At(ss, i, j)] = ss[i][j]
FromThere(ss, n) ==
    \A k \in DOMAIN Joined(ss)[n] : \E i \in 1 .. n : \E j \in DOMAIN ss[i] : k = At(ss, i, j)

LEMMA PlacedStep ==
    ASSUME NEW S, NEW ss \in Seq(Seq(S)), NEW n \in 0 .. Len(ss), n # Len(ss),
           There(ss, n), FromThere(ss, n)
    PROVE  There(ss, n + 1) /\ FromThere(ss, n + 1)
<1>1. Len(ss) \in Nat /\ DOMAIN ss = 1 .. Len(ss)
    OBVIOUS
<1>2. n + 1 \in DOMAIN ss /\ (n + 1) - 1 = n /\ n \in Nat
    BY <1>1, Successor, Zenon
<1> DEFINE a == Joined(ss)[n]
           b == ss[n + 1]
           c == Joined(ss)[n + 1]
<1>3. c = a \o b
    BY <1>2, JoinedStep
<1>4. a \in Seq(S) /\ b \in Seq(S)
    BY <1>2, JoinedType
<1>5. \A j : At(ss, n + 1, j) = Len(a) + j
    BY <1>2 DEF At
<1> HIDE DEF a, b, c
<1>6. /\ \A k \in DOMAIN a : k \in DOMAIN c /\ c[k] = a[k]
      /\ \A j \in DOMAIN b : Len(a) + j \in DOMAIN c /\ c[Len(a) + j] = b[j]
    BY <1>3, <1>4
<1>7. ASSUME NEW k \in DOMAIN c, k \notin DOMAIN a PROVE \E j \in DOMAIN b : k = Len(a) + j
    <2>1. Len(a) \in Nat /\ Len(b) \in Nat /\ DOMAIN a = 1 .. Len(a) /\ DOMAIN b = 1 .. Len(b)
        BY <1>4
    <2>2. DOMAIN c = 1 .. (Len(a) + Len(b))
        BY <1>3, <1>4
    <2>3. k - Len(a) \in DOMAIN b /\ k = Len(a) + (k - Len(a))
        BY <1>7, <2>1, <2>2
    <2>4. QED
        BY <2>3
<1>8. \A i \in 1 .. n : i \in 1 .. (n + 1)
    BY <1>2
<1>9. There(ss, n + 1)
    <2>1. ASSUME NEW i \in 1 .. (n + 1), NEW j \in DOMAIN ss[i]
          PROVE  At(ss, i, j) \in DOMAIN c /\ c[At(ss, i, j)] = ss[i][j]
        <3>1. CASE i = n + 1
            BY <1>5, <1>6, <2>1, <3>1 DEF b
        <3>2. CASE i \in 1 .. n
            BY <1>6, <2>1, <3>2 DEF There, a
        <3>3. i = n + 1 \/ i \in 1 .. n
            BY <1>2
        <3>4. QED
            BY <3>1, <3>2, <3>3
    <2>2. QED
        BY <2>1 DEF There, c
<1>10. FromThere(ss, n + 1)
    <2>1. ASSUME NEW k \in DOMAIN c
          PROVE  \E i \in 1 .. (n + 1) : \E j \in DOMAIN ss[i] : k = At(ss, i, j)
        <3>1. CASE k \in DOMAIN a
            BY <1>8, <3>1 DEF FromThere, a
        <3>2. CASE k \notin DOMAIN a
            <4>1. PICK j \in DOMAIN b : k = Len(a) + j
                BY <1>7, <3>2
            <4>2. j \in DOMAIN ss[n + 1] /\ k = At(ss, n + 1, j)
                BY <1>5, <4>1 DEF b
            <4>3. n + 1 \in 1 .. (n + 1)
                BY <1>2
            <4>4. QED
                BY <4>2, <4>3
        <3>3. QED
            BY <3>1, <3>2
    <2>2. QED
        BY <2>1 DEF FromThere, c
<1>11. QED
    BY <1>9, <1>10

LEMMA Placed ==
    ASSUME NEW S, NEW ss \in Seq(Seq(S)), NEW n \in 0 .. Len(ss)
    PROVE  There(ss, n) /\ FromThere(ss, n)
<1>1. Len(ss) \in Nat
    OBVIOUS
<1>2. Joined(ss)[0] = <<>>
    BY JoinedStep
<1>3. There(ss, 0) /\ FromThere(ss, 0)
    BY <1>2 DEF There, FromThere
<1> DEFINE Good == {k \in 0 .. Len(ss) : There(ss, k) /\ FromThere(ss, k)}
<1>4. 0 \in Good
    BY <1>1, <1>3
<1>5. ASSUME NEW k \in 0 .. Len(ss), k \in Good, k # Len(ss) PROVE k + 1 \in Good
    <2>1. k + 1 \in 0 .. Len(ss)
        BY <1>1, <1>5, Successor, Zenon
    <2>2. There(ss, k + 1) /\ FromThere(ss, k + 1)
        BY <1>5, PlacedStep
    <2>3. QED
        BY <2>1, <2>2
<1>6. 0 .. Len(ss) \subseteq Good
    <2> HIDE DEF Good
    <2>1. QED
        BY <1>1, <1>4, <1>5, Inductive
<1>7. QED
    BY <1>6

Before(i, j, h, l) == i < h \/ (i = h /\ j < l)

\* The places are in order: sequence by sequence, each in its own order.
LEMMA PlacesOrder ==
    ASSUME NEW S, NEW ss \in Seq(Seq(S)), NEW i \in DOMAIN ss, NEW j \in DOMAIN ss[i],
           NEW h \in DOMAIN ss, NEW l \in DOMAIN ss[h], Before(i, j, h, l)
    PROVE  At(ss, i, j) < At(ss, h, l)
<1>1. Len(ss) \in Nat /\ DOMAIN ss = 1 .. Len(ss) /\ ss[i] \in Seq(S) /\ ss[h] \in Seq(S)
    OBVIOUS
<1>2. i \in Nat /\ h \in Nat /\ h - 1 \in 0 .. Len(ss) /\ j \in Nat /\ l \in Nat /\ l > 0
    BY <1>1
<1>3. Joined(ss)[h - 1] \in Seq(S)
    BY <1>2, JoinedType
<1>4. Len(Joined(ss)[h - 1]) \in Nat /\ DOMAIN Joined(ss)[h - 1] = 1 .. Len(Joined(ss)[h - 1])
    BY <1>3
<1>5. CASE i < h
    <2>1. i \in 1 .. (h - 1)
        BY <1>1, <1>2, <1>5
    <2>2. At(ss, i, j) \in DOMAIN Joined(ss)[h - 1]
        BY <1>2, <2>1, Placed DEF There
    <2>3. At(ss, i, j) <= Len(Joined(ss)[h - 1]) /\ At(ss, i, j) \in Nat
        BY <1>4, <2>2
    <2>4. At(ss, h, l) = Len(Joined(ss)[h - 1]) + l
        BY DEF At
    <2>5. \A a, b, c \in Nat : a <= b /\ c > 0 => a < b + c
        OBVIOUS
    <2>6. QED
        BY <1>2, <1>4, <2>3, <2>4, <2>5
<1>6. CASE i = h /\ j < l
    BY <1>2, <1>4, <1>6 DEF At
<1>7. QED
    BY <1>5, <1>6 DEF Before

\* Every place of what is spread belongs to one element.
LEMMA SpreadPlaces ==
    ASSUME NEW S, NEW T, NEW W, Spreads(W, S, T), NEW s \in Seq(S)
    PROVE  /\ \A i \in DOMAIN s : \A j \in DOMAIN W[s[i]] :
                /\ At(Each(W, s), i, j) \in DOMAIN Spread(W, s)
                /\ Spread(W, s)[At(Each(W, s), i, j)] = W[s[i]][j]
           /\ \A k \in DOMAIN Spread(W, s) : \E i \in DOMAIN s : \E j \in DOMAIN W[s[i]] :
                k = At(Each(W, s), i, j)
<1> DEFINE e == Each(W, s)
<1>1. /\ e \in Seq(Seq(T)) /\ Len(e) = Len(s) /\ Len(s) \in Nat /\ DOMAIN s = 1 .. Len(s)
    BY EachType
<1>2. \A i \in DOMAIN s : e[i] = W[s[i]]
    BY DEF Each
<1>3. Len(e) \in 0 .. Len(e)
    BY <1>1
<1> HIDE DEF e
<1>4. There(e, Len(e)) /\ FromThere(e, Len(e))
    BY <1>1, <1>3, Placed
<1>5. Spread(W, s) = Joined(e)[Len(e)]
    BY DEF Spread, Flatten, e
<1>6. ASSUME NEW i \in DOMAIN s, NEW j \in DOMAIN W[s[i]]
      PROVE  At(e, i, j) \in DOMAIN Spread(W, s) /\ Spread(W, s)[At(e, i, j)] = W[s[i]][j]
    <2>1. i \in 1 .. Len(e) /\ j \in DOMAIN e[i]
        BY <1>1, <1>2
    <2>2. QED
        BY <1>2, <1>4, <1>5, <2>1 DEF There
<1>7. ASSUME NEW k \in DOMAIN Spread(W, s)
      PROVE  \E i \in DOMAIN s : \E j \in DOMAIN W[s[i]] : k = At(e, i, j)
    <2>1. PICK i \in 1 .. Len(e) : \E j \in DOMAIN e[i] : k = At(e, i, j)
        BY <1>4, <1>5 DEF FromThere
    <2>2. i \in DOMAIN s /\ e[i] = W[s[i]]
        BY <1>1, <1>2
    <2>3. QED
        BY <2>1, <2>2
<1>8. QED
    BY <1>6, <1>7 DEF e

LEMMA SpreadOrder ==
    ASSUME NEW S, NEW T, NEW W, Spreads(W, S, T), NEW s \in Seq(S),
           NEW i \in DOMAIN s, NEW j \in DOMAIN W[s[i]],
           NEW h \in DOMAIN s, NEW l \in DOMAIN W[s[h]]
    PROVE  /\ At(Each(W, s), i, j) < At(Each(W, s), h, l) <=> Before(i, j, h, l)
           /\ At(Each(W, s), i, j) = At(Each(W, s), h, l) <=> i = h /\ j = l
           /\ At(Each(W, s), i, j) \in Nat
<1> DEFINE e == Each(W, s)
<1>1. e \in Seq(Seq(T)) /\ DOMAIN e = DOMAIN s /\ Len(s) \in Nat /\ DOMAIN s = 1 .. Len(s)
    BY EachType
<1>2. e[i] = W[s[i]] /\ e[h] = W[s[h]] /\ e[i] \in Seq(T) /\ e[h] \in Seq(T)
    BY SpreadsValue DEF Each
<1> HIDE DEF e
<1>3. Before(i, j, h, l) => At(e, i, j) < At(e, h, l)
    BY <1>1, <1>2, PlacesOrder
<1>4. Before(h, l, i, j) => At(e, h, l) < At(e, i, j)
    BY <1>1, <1>2, PlacesOrder
<1>5. i \in Nat /\ h \in Nat /\ j \in Nat /\ l \in Nat
    BY <1>1, <1>2
<1>6. Before(i, j, h, l) \/ Before(h, l, i, j) \/ (i = h /\ j = l)
    BY <1>5 DEF Before
<1>7. At(e, i, j) \in Nat /\ At(e, h, l) \in Nat
    <2>1. /\ i - 1 \in 0 .. Len(e) /\ h - 1 \in 0 .. Len(e)
        BY <1>1, <1>5
    <2>2. Joined(e)[i - 1] \in Seq(T) /\ Joined(e)[h - 1] \in Seq(T)
        BY <1>1, <2>1, JoinedType
    <2>3. Len(Joined(e)[i - 1]) \in Nat /\ Len(Joined(e)[h - 1]) \in Nat
        BY <2>2
    <2>4. /\ At(e, i, j) = Len(Joined(e)[i - 1]) + j
          /\ At(e, h, l) = Len(Joined(e)[h - 1]) + l
        BY DEF At
    <2>5. \A a, b \in Nat : a + b \in Nat
        OBVIOUS
    <2>6. QED
        BY <1>5, <2>3, <2>4, <2>5
<1>8. Before(i, j, h, l) => ~Before(h, l, i, j) /\ ~(i = h /\ j = l)
    BY <1>5 DEF Before
<1>9. Before(h, l, i, j) => ~(i = h /\ j = l)
    BY <1>5 DEF Before
<1>10. QED
    BY <1>3, <1>4, <1>6, <1>7, <1>8, <1>9 DEF e

-----------------------------------------------------------------------------
(* Calls and results in order.                                             *)

\* Every result answers a call before it, and is the only one that does.
Tidy(ev) ==
    \A r \in DOMAIN ev : ev[r].kind = "result" =>
      /\ \E c \in DOMAIN ev : c < r /\ ev[c].kind = "call" /\ ev[c].id = ev[r].id
      /\ \A o \in DOMAIN ev : ev[o].kind = "result" /\ ev[o].id = ev[r].id => o = r

\* The same, of what a function has for the elements of a sequence.
CalledBefore(W, s, i, j) ==
    \E h \in DOMAIN s : \E l \in DOMAIN W[s[h]] :
      Before(h, l, i, j) /\ W[s[h]][l].kind = "call" /\ W[s[h]][l].id = W[s[i]][j].id
AnsweredBy(W, s, i, j) ==
    \A h \in DOMAIN s : \A l \in DOMAIN W[s[h]] :
      W[s[h]][l].kind = "result" /\ W[s[h]][l].id = W[s[i]][j].id => h = i /\ l = j
TidyBy(W, s) ==
    \A i \in DOMAIN s : \A j \in DOMAIN W[s[i]] :
      W[s[i]][j].kind = "result" => CalledBefore(W, s, i, j) /\ AnsweredBy(W, s, i, j)

LEMMA TidyPlaces ==
    ASSUME NEW S, NEW T, NEW W, Spreads(W, S, T), NEW s \in Seq(S), TidyBy(W, s)
    PROVE  Tidy(Spread(W, s))
<1> DEFINE ev == Spread(W, s)
           P(i, j) == At(Each(W, s), i, j)
<1>1. /\ \A i \in DOMAIN s : \A j \in DOMAIN W[s[i]] :
           P(i, j) \in DOMAIN ev /\ ev[P(i, j)] = W[s[i]][j]
      /\ \A k \in DOMAIN ev : \E i \in DOMAIN s : \E j \in DOMAIN W[s[i]] : k = P(i, j)
    BY SpreadPlaces
<1>2. ASSUME NEW i \in DOMAIN s, NEW j \in DOMAIN W[s[i]],
             NEW h \in DOMAIN s, NEW l \in DOMAIN W[s[h]]
      PROVE  /\ P(i, j) < P(h, l) <=> Before(i, j, h, l)
             /\ P(i, j) = P(h, l) <=> i = h /\ j = l
    BY <1>2, SpreadOrder
<1> HIDE DEF ev, P
<1>3. ASSUME NEW r \in DOMAIN ev, ev[r].kind = "result"
      PROVE  /\ \E c \in DOMAIN ev : c < r /\ ev[c].kind = "call" /\ ev[c].id = ev[r].id
             /\ \A o \in DOMAIN ev : ev[o].kind = "result" /\ ev[o].id = ev[r].id => o = r
    <2>1. PICK i \in DOMAIN s : \E j \in DOMAIN W[s[i]] : r = P(i, j)
        BY <1>1
    <2>2. PICK j \in DOMAIN W[s[i]] : r = P(i, j)
        BY <2>1
    <2>3. ev[r] = W[s[i]][j]
        BY <1>1, <2>2
    <2>4. CalledBefore(W, s, i, j) /\ AnsweredBy(W, s, i, j)
        BY <1>3, <2>3 DEF TidyBy
    <2>5. \E c \in DOMAIN ev : c < r /\ ev[c].kind = "call" /\ ev[c].id = ev[r].id
        <3>1. PICK h \in DOMAIN s : \E l \in DOMAIN W[s[h]] :
                /\ Before(h, l, i, j) /\ W[s[h]][l].kind = "call"
                /\ W[s[h]][l].id = W[s[i]][j].id
            BY <2>4 DEF CalledBefore
        <3>2. PICK l \in DOMAIN W[s[h]] :
                /\ Before(h, l, i, j) /\ W[s[h]][l].kind = "call"
                /\ W[s[h]][l].id = W[s[i]][j].id
            BY <3>1
        <3>3. P(h, l) \in DOMAIN ev /\ ev[P(h, l)] = W[s[h]][l]
            BY <1>1
        <3>4. P(h, l) < P(i, j)
            BY <1>2, <3>2
        <3>5. QED
            BY <2>2, <2>3, <3>2, <3>3, <3>4
    <2>6. ASSUME NEW o \in DOMAIN ev, ev[o].kind = "result", ev[o].id = ev[r].id PROVE o = r
        <3>1. PICK h \in DOMAIN s : \E l \in DOMAIN W[s[h]] : o = P(h, l)
            BY <1>1
        <3>2. PICK l \in DOMAIN W[s[h]] : o = P(h, l)
            BY <3>1
        <3>3. ev[o] = W[s[h]][l]
            BY <1>1, <3>2
        <3>4. h = i /\ l = j
            BY <2>3, <2>4, <2>6, <3>3 DEF AnsweredBy
        <3>5. QED
            BY <2>2, <3>2, <3>4
    <2>7. QED
        BY <2>5, <2>6
<1>4. QED
    BY <1>3 DEF Tidy, ev

LEMMA PlacesTidy ==
    ASSUME NEW S, NEW T, NEW W, Spreads(W, S, T), NEW s \in Seq(S), Tidy(Spread(W, s))
    PROVE  TidyBy(W, s)
<1> DEFINE ev == Spread(W, s)
           P(i, j) == At(Each(W, s), i, j)
<1>1. /\ \A i \in DOMAIN s : \A j \in DOMAIN W[s[i]] :
           P(i, j) \in DOMAIN ev /\ ev[P(i, j)] = W[s[i]][j]
      /\ \A k \in DOMAIN ev : \E i \in DOMAIN s : \E j \in DOMAIN W[s[i]] : k = P(i, j)
    BY SpreadPlaces
<1>2. ASSUME NEW i \in DOMAIN s, NEW j \in DOMAIN W[s[i]],
             NEW h \in DOMAIN s, NEW l \in DOMAIN W[s[h]]
      PROVE  /\ P(i, j) < P(h, l) <=> Before(i, j, h, l)
             /\ P(i, j) = P(h, l) <=> i = h /\ j = l
    BY <1>2, SpreadOrder
<1>3. Tidy(ev)
    OBVIOUS
<1> HIDE DEF ev, P
<1>4. ASSUME NEW i \in DOMAIN s, NEW j \in DOMAIN W[s[i]], W[s[i]][j].kind = "result"
      PROVE  CalledBefore(W, s, i, j) /\ AnsweredBy(W, s, i, j)
    <2> DEFINE r == P(i, j)
    <2>1. r \in DOMAIN ev /\ ev[r] = W[s[i]][j]
        BY <1>1
    <2> HIDE DEF r
    <2>2. /\ \E c \in DOMAIN ev : c < r /\ ev[c].kind = "call" /\ ev[c].id = ev[r].id
          /\ \A o \in DOMAIN ev : ev[o].kind = "result" /\ ev[o].id = ev[r].id => o = r
        BY <1>3, <1>4, <2>1 DEF Tidy
    <2>3. CalledBefore(W, s, i, j)
        <3>1. PICK c \in DOMAIN ev : c < r /\ ev[c].kind = "call" /\ ev[c].id = ev[r].id
            BY <2>2
        <3>2. PICK h \in DOMAIN s : \E l \in DOMAIN W[s[h]] : c = P(h, l)
            BY <1>1
        <3>3. PICK l \in DOMAIN W[s[h]] : c = P(h, l)
            BY <3>2
        <3>4. ev[c] = W[s[h]][l]
            BY <1>1, <3>3
        <3>5. Before(h, l, i, j)
            BY <1>2, <3>1, <3>3 DEF r
        <3>6. QED
            BY <2>1, <3>1, <3>4, <3>5 DEF CalledBefore
    <2>4. ASSUME NEW h \in DOMAIN s, NEW l \in DOMAIN W[s[h]],
                 W[s[h]][l].kind = "result", W[s[h]][l].id = W[s[i]][j].id
          PROVE  h = i /\ l = j
        <3>1. P(h, l) \in DOMAIN ev /\ ev[P(h, l)] = W[s[h]][l]
            BY <1>1
        <3>2. P(h, l) = P(i, j)
            BY <2>1, <2>2, <2>4, <3>1 DEF r
        <3>3. QED
            BY <1>2, <3>2
    <2>5. QED
        BY <2>3, <2>4 DEF AnsweredBy
<1>5. QED
    BY <1>4 DEF TidyBy

-----------------------------------------------------------------------------
(* A sequence cut into runs.                                               *)

\* The end of the run a place is in.
Ends(s, cuts, i, j) ==
    /\ j \in i .. Len(s) /\ (j = Len(s) \/ j + 1 \in cuts)
    /\ \A k \in (i + 1) .. j : k \notin cuts

LEMMA EndExists ==
    ASSUME NEW s, Len(s) \in Nat, NEW cuts, NEW i \in 1 .. Len(s)
    PROVE  Ends(s, cuts, i, EndFrom(s, cuts, i))
<1> DEFINE last == {j \in i .. Len(s) : j = Len(s) \/ j + 1 \in cuts}
<1>1. Len(s) \in last /\ last \subseteq Nat
    OBVIOUS
<1>2. PICK j \in last : \A k \in last : j <= k
    <2> HIDE DEF last
    <2>1. last # {}
        BY <1>1
    <2>2. QED
        BY <1>1, <2>1, LeastNumber
<1>3. ASSUME NEW k \in (i + 1) .. j, k \in cuts PROVE FALSE
    <2>1. k - 1 \in i .. Len(s) /\ (k - 1) + 1 = k /\ ~(j <= k - 1)
        BY <1>2, <1>3
    <2>2. k - 1 \in last
        BY <1>3, <2>1
    <2>3. QED
        BY <1>2, <2>1, <2>2
<1>4. Ends(s, cuts, i, j)
    BY <1>2, <1>3 DEF Ends
<1>5. \E e \in i .. Len(s) :
        (e = Len(s) \/ e + 1 \in cuts) /\ \A k \in (i + 1) .. e : k \notin cuts
    BY <1>4 DEF Ends
<1>6. QED
    BY <1>5 DEF Ends, EndFrom

LEMMA EndIs ==
    ASSUME NEW s, Len(s) \in Nat, NEW cuts, NEW i \in 1 .. Len(s), NEW j, Ends(s, cuts, i, j)
    PROVE  EndFrom(s, cuts, i) = j
<1> DEFINE e == EndFrom(s, cuts, i)
<1>1. Ends(s, cuts, i, e)
    BY EndExists
<1> HIDE DEF e
<1>2. e \in i .. Len(s) /\ j \in i .. Len(s)
    BY <1>1 DEF Ends
<1>3. ~(e < j)
    <2>1. SUFFICES ASSUME e < j PROVE FALSE
        OBVIOUS
    <2>2. e + 1 \in (i + 1) .. j /\ e # Len(s)
        BY <1>2, <2>1
    <2>3. QED
        BY <1>1, <2>2 DEF Ends
<1>4. ~(j < e)
    <2>1. SUFFICES ASSUME j < e PROVE FALSE
        OBVIOUS
    <2>2. j + 1 \in (i + 1) .. e /\ j # Len(s)
        BY <1>2, <2>1
    <2>3. QED
        BY <1>1, <2>2 DEF Ends
<1>5. QED
    BY <1>2, <1>3, <1>4 DEF e

LEMMA EndAt ==
    ASSUME NEW s, Len(s) \in Nat, NEW cuts, NEW i \in 1 .. Len(s), i = Len(s) \/ i + 1 \in cuts
    PROVE  EndFrom(s, cuts, i) = i
<1>1. Ends(s, cuts, i, i)
    BY DEF Ends
<1>2. QED
    BY <1>1, EndIs

LEMMA EndSame ==
    ASSUME NEW s, Len(s) \in Nat, NEW cuts, NEW i \in 1 .. Len(s), i # Len(s), i + 1 \notin cuts
    PROVE  EndFrom(s, cuts, i + 1) = EndFrom(s, cuts, i)
<1> DEFINE e == EndFrom(s, cuts, i)
<1>1. Ends(s, cuts, i, e)
    BY EndExists
<1> HIDE DEF e
<1>2. e \in i .. Len(s) /\ e # i
    BY <1>1 DEF Ends
<1>3. e \in (i + 1) .. Len(s) /\ \A k \in ((i + 1) + 1) .. e : k \in (i + 1) .. e
    BY <1>2
<1>4. Ends(s, cuts, i + 1, e)
    BY <1>1, <1>3 DEF Ends
<1>5. i + 1 \in 1 .. Len(s)
    OBVIOUS
<1>6. QED
    BY <1>4, <1>5, EndIs DEF e

CutPieces(s, cuts) ==
    [i \in DOMAIN s |-> IF i \in cuts THEN <<SubSeq(s, i, EndFrom(s, cuts, i))>> ELSE <<>>]

LEMMA Slice ==
    ASSUME NEW S, NEW s \in Seq(S), NEW i \in 1 .. Len(s), NEW j \in i .. Len(s)
    PROVE  SubSeq(s, i, j) \in Seq(S)
OBVIOUS

LEMMA SliceAt ==
    ASSUME NEW S, NEW s \in Seq(S), NEW i \in 1 .. Len(s), NEW j \in i .. Len(s)
    PROVE  /\ Len(SubSeq(s, i, j)) = j - i + 1 /\ SubSeq(s, i, j) # <<>>
           /\ DOMAIN SubSeq(s, i, j) = 1 .. (j - i + 1)
           /\ \A k \in 1 .. (j - i + 1) : SubSeq(s, i, j)[k] = s[i + k - 1]
OBVIOUS

LEMMA CutPiecesType ==
    ASSUME NEW S, NEW s \in Seq(S), NEW cuts
    PROVE  /\ CutPieces(s, cuts) \in Seq(Seq(Seq(S)))
           /\ DOMAIN CutPieces(s, cuts) = DOMAIN s /\ Len(CutPieces(s, cuts)) = Len(s)
<1>1. Len(s) \in Nat /\ DOMAIN s = 1 .. Len(s)
    OBVIOUS
<1> DEFINE c == CutPieces(s, cuts)
<1>2. ASSUME NEW i \in DOMAIN s PROVE c[i] \in Seq(Seq(S))
    <2>1. CASE i \in cuts
        <3> DEFINE e == EndFrom(s, cuts, i)
        <3>1. e \in i .. Len(s)
            BY <1>1, EndExists DEF Ends
        <3> HIDE DEF e
        <3>2. SubSeq(s, i, e) \in Seq(S)
            BY <1>1, <3>1, Slice
        <3>3. c[i] = <<SubSeq(s, i, e)>>
            BY <2>1 DEF CutPieces, e
        <3>4. QED
            BY <3>2, <3>3
    <2>2. CASE i \notin cuts
        BY <2>2 DEF CutPieces
    <2>3. QED
        BY <2>1, <2>2
<1>3. DOMAIN c = 1 .. Len(s) /\ c = [i \in 1 .. Len(s) |-> c[i]]
    BY <1>1 DEF CutPieces
<1> DEFINE T == Seq(Seq(S))
<1>4. \A i \in 1 .. Len(s) : c[i] \in T
    BY <1>1, <1>2
<1> HIDE DEF c, T
<1>5. c \in Seq(T) /\ Len(c) = Len(s)
    BY <1>1, <1>3, <1>4
<1>6. QED
    BY <1>1, <1>3, <1>5 DEF c, T

LEMMA CutType == ASSUME NEW S, NEW s \in Seq(S), NEW cuts PROVE Cut(s, cuts) \in Seq(Seq(S))
<1> DEFINE T == Seq(S)
<1>1. CutPieces(s, cuts) \in Seq(Seq(T))
    BY CutPiecesType
<1> HIDE DEF T
<1>2. Flatten(CutPieces(s, cuts)) \in Seq(T)
    BY <1>1, JoinedType
<1>3. QED
    BY <1>2 DEF T, Cut, CutPieces

\* A run is what lies between two cuts.
LEMMA CutRuns ==
    ASSUME NEW S, NEW s \in Seq(S), NEW cuts, NEW n \in DOMAIN Cut(s, cuts)
    PROVE  \E i \in DOMAIN s : \E j \in i .. Len(s) :
             i \in cuts /\ Cut(s, cuts)[n] = SubSeq(s, i, j) /\ Ends(s, cuts, i, j)
<1> DEFINE T == Seq(S)
           c == CutPieces(s, cuts)
<1>1. c \in Seq(Seq(T)) /\ DOMAIN c = DOMAIN s /\ Len(c) = Len(s) /\ Len(s) \in Nat
      /\ DOMAIN s = 1 .. Len(s) /\ DOMAIN c = 1 .. Len(c)
    BY CutPiecesType
<1>2. Cut(s, cuts) = Joined(c)[Len(c)]
    BY DEF Cut, CutPieces, Flatten
<1>3. ASSUME NEW i \in DOMAIN s, NEW j \in DOMAIN c[i]
      PROVE  i \in cuts /\ j = 1 /\ c[i][j] = SubSeq(s, i, EndFrom(s, cuts, i))
    BY <1>3 DEF CutPieces
<1>4. Len(c) \in 0 .. Len(c)
    BY <1>1
<1> HIDE DEF T, c
<1>5. There(c, Len(c)) /\ FromThere(c, Len(c))
    BY <1>1, <1>4, Placed
<1>6. PICK i \in 1 .. Len(c) : \E j \in DOMAIN c[i] : n = At(c, i, j)
    BY <1>2, <1>5 DEF FromThere
<1>7. PICK j \in DOMAIN c[i] : n = At(c, i, j)
    BY <1>6
<1>8. Cut(s, cuts)[n] = c[i][j]
    BY <1>2, <1>5, <1>7 DEF There
<1>9. i \in DOMAIN s /\ i \in 1 .. Len(s)
    BY <1>1
<1>10. Ends(s, cuts, i, EndFrom(s, cuts, i))
    BY <1>1, <1>9, EndExists
<1>11. i \in cuts /\ c[i][j] = SubSeq(s, i, EndFrom(s, cuts, i))
    BY <1>3, <1>9
<1>12. EndFrom(s, cuts, i) \in i .. Len(s)
    BY <1>10 DEF Ends
<1>13. QED
    BY <1>8, <1>9, <1>10, <1>11, <1>12

LEMMA SliceNext ==
    ASSUME NEW S, NEW s \in Seq(S), NEW n \in 1 .. Len(s), n # Len(s), NEW e \in (n + 1) .. Len(s)
    PROVE  SubSeq(s, 1, n) \o SubSeq(s, n + 1, e) = SubSeq(s, 1, e)
OBVIOUS

\* The runs one after the other are the sequence that was cut.
LEMMA CutFlatten ==
    ASSUME NEW S, NEW s \in Seq(S), NEW cuts, s # <<>> => 1 \in cuts
    PROVE  Flatten(Cut(s, cuts)) = s
<1> DEFINE T == Seq(S)
           c == CutPieces(s, cuts)
           Upto(n) == IF n = 0 THEN <<>> ELSE SubSeq(s, 1, EndFrom(s, cuts, n))
<1>1. c \in Seq(Seq(T)) /\ DOMAIN c = DOMAIN s /\ Len(c) = Len(s) /\ Len(s) \in Nat
      /\ DOMAIN s = 1 .. Len(s) /\ DOMAIN c = 1 .. Len(c)
    BY CutPiecesType
<1>2. Cut(s, cuts) = Joined(c)[Len(c)]
    BY DEF Cut, CutPieces, Flatten
<1>3. \A i \in DOMAIN s :
        c[i] = IF i \in cuts THEN <<SubSeq(s, i, EndFrom(s, cuts, i))>> ELSE <<>>
    BY DEF CutPieces
<1> HIDE DEF c, T
<1>4. Flatten(Joined(c)[0]) = Upto(0)
    BY <1>1, JoinedStep, FlattenNone
<1>5. ASSUME NEW n \in 0 .. Len(s), n # Len(s), Flatten(Joined(c)[n]) = Upto(n)
      PROVE  Flatten(Joined(c)[n + 1]) = Upto(n + 1)
    <2>1. n + 1 \in 1 .. Len(s) /\ n + 1 \in DOMAIN c /\ (n + 1) - 1 = n /\ n \in Nat /\ n + 1 # 0
        <3>1. n + 1 \in 1 .. Len(s) /\ (n + 1) - 1 = n /\ n \in Nat
            BY <1>1, <1>5, Successor, Zenon
        <3>2. n + 1 # 0
            BY <3>1
        <3>3. QED
            BY <1>1, <3>1, <3>2
    <2>2. Joined(c)[n + 1] = Joined(c)[n] \o c[n + 1]
        BY <1>1, <2>1, JoinedStep
    <2>3. Joined(c)[n] \in Seq(T)
        BY <1>1, JoinedType
    <2>4. CASE n + 1 \in cuts
        <3> DEFINE e == EndFrom(s, cuts, n + 1)
                   x == SubSeq(s, n + 1, e)
        <3>1. e \in (n + 1) .. Len(s)
            BY <1>1, <2>1, EndExists DEF Ends
        <3> HIDE DEF e
        <3>2. x \in Seq(S) /\ c[n + 1] = <<x>>
            <4>1. x \in Seq(S)
                BY <2>1, <3>1, Slice
            <4>2. QED
                BY <1>1, <1>3, <2>1, <2>4, <4>1 DEF e
        <3> HIDE DEF x
        <3>3. x \in T /\ <<x>> \in Seq(T)
            BY <3>2 DEF T
        <3>4. Flatten(Joined(c)[n] \o <<x>>) = Flatten(Joined(c)[n]) \o Flatten(<<x>>)
            <4>1. Joined(c)[n] \in Seq(Seq(S)) /\ <<x>> \in Seq(Seq(S))
                BY <2>3, <3>3 DEF T
            <4>2. \A a, b : a \in Seq(Seq(S)) /\ b \in Seq(Seq(S)) =>
                              Flatten(a \o b) = Flatten(a) \o Flatten(b)
                BY FlattenConcat
            <4>3. QED
                BY <4>1, <4>2, Zenon
        <3>5. Flatten(<<x>>) = x
            BY <3>2, FlattenOne
        <3>6. Flatten(Joined(c)[n + 1]) = Upto(n) \o x
            BY <1>5, <2>2, <3>2, <3>4, <3>5
        <3>7. Upto(n + 1) = SubSeq(s, 1, e)
            BY <2>1 DEF e
        <3>8. CASE n = 0
            <4>1. Upto(n) = <<>> /\ x = SubSeq(s, 1, e)
                BY <3>8 DEF x
            <4>2. <<>> \o x = x
                BY <3>2
            <4>3. QED
                BY <3>6, <3>7, <4>1, <4>2
        <3>9. CASE n # 0
            <4>1. n \in 1 .. Len(s)
                BY <3>9, <1>1
            <4>2. EndFrom(s, cuts, n) = n
                BY <1>1, <2>4, <4>1, EndAt
            <4>3. Upto(n) = SubSeq(s, 1, n)
                BY <3>9, <4>2
            <4>4. SubSeq(s, 1, n) \o x = SubSeq(s, 1, e)
                BY <1>5, <3>1, <4>1, SliceNext DEF x
            <4>5. QED
                BY <3>6, <3>7, <4>3, <4>4
        <3>10. QED
            BY <3>8, <3>9
    <2>5. CASE n + 1 \notin cuts
        <3>1. n # 0
            <4>1. CASE n = 0
                <5>1. s # <<>>
                    BY <1>1, <2>1
                <5>2. QED
                    BY <2>5, <4>1, <5>1
            <4>2. QED
                BY <4>1
        <3>2. n \in 1 .. Len(s)
            BY <1>1, <3>1
        <3>3. EndFrom(s, cuts, n + 1) = EndFrom(s, cuts, n)
            BY <1>1, <1>5, <2>5, <3>2, EndSame
        <3>4. c[n + 1] = <<>>
            BY <1>1, <1>3, <2>1, <2>5
        <3>5. Joined(c)[n + 1] = Joined(c)[n]
            BY <2>2, <2>3, <3>4
        <3>6. QED
            BY <1>5, <2>1, <3>1, <3>3, <3>5
    <2>6. QED
        BY <2>4, <2>5
<1>6. Flatten(Joined(c)[Len(s)]) = Upto(Len(s))
    <2> DEFINE Good == {n \in 0 .. Len(s) : Flatten(Joined(c)[n]) = Upto(n)}
    <2> HIDE DEF Upto
    <2>1. 0 \in Good
        BY <1>1, <1>4
    <2>2. ASSUME NEW n \in 0 .. Len(s), n \in Good, n # Len(s) PROVE n + 1 \in Good
        <3>1. n + 1 \in 0 .. Len(s)
            BY <1>1, <2>2, Successor, Zenon
        <3>2. Flatten(Joined(c)[n + 1]) = Upto(n + 1)
            BY <1>5, <2>2
        <3>3. QED
            BY <3>1, <3>2
    <2>3. 0 .. Len(s) \subseteq Good
        <3> HIDE DEF Good
        <3>1. QED
            BY <1>1, <2>1, <2>2, Inductive
    <2>4. Len(s) \in 0 .. Len(s)
        BY <1>1
    <2>5. QED
        BY <2>3, <2>4
<1>7. Upto(Len(s)) = s
    <2>1. CASE Len(s) = 0
        BY <2>1
    <2>2. CASE Len(s) # 0
        <3>1. EndFrom(s, cuts, Len(s)) = Len(s)
            BY <1>1, <2>2, EndAt
        <3>2. Upto(Len(s)) = SubSeq(s, 1, Len(s))
            BY <2>2, <3>1
        <3>3. SubSeq(s, 1, Len(s)) = s
            OBVIOUS
        <3>4. QED
            BY <3>2, <3>3
    <2>3. QED
        BY <2>1, <2>2
<1>8. QED
    BY <1>1, <1>2, <1>6, <1>7

-----------------------------------------------------------------------------
(* Items and messages, and the calls and results among them.               *)

\* An element for each element.
Singly(W, V, S) == \A x \in S : W[x] = <<V[x]>>

LEMMA SpreadSingles ==
    ASSUME NEW S, NEW T, NEW W, Spreads(W, S, T), NEW V \in [S -> T],
           Singly(W, V, S), NEW s \in Seq(S)
    PROVE  Spread(W, s) = Each(V, s)
<1> DEFINE e == Each(W, s)
           v == Each(V, s)
<1>1. /\ e \in Seq(Seq(T)) /\ Len(e) = Len(s) /\ DOMAIN e = DOMAIN s /\ Len(s) \in Nat
      /\ DOMAIN s = 1 .. Len(s)
    BY EachType
<1>2. v \in Seq(T) /\ Len(v) = Len(s)
    BY DEF Each
<1>3. \A i \in DOMAIN s : e[i] = <<v[i]>>
    BY DEF Each, Singly
<1> HIDE DEF e, v
<1>4. Joined(e)[0] = SubSeq(v, 1, 0)
    <2>1. SubSeq(v, 1, 0) = <<>>
        OBVIOUS
    <2>2. QED
        BY <1>1, <2>1, JoinedStep
<1>5. ASSUME NEW n \in 0 .. Len(s), n # Len(s), Joined(e)[n] = SubSeq(v, 1, n)
      PROVE  Joined(e)[n + 1] = SubSeq(v, 1, n + 1)
    <2>1. n + 1 \in 1 .. Len(s) /\ (n + 1) - 1 = n /\ n \in Nat
        BY <1>1, <1>5, Successor, Zenon
    <2>2. Joined(e)[n + 1] = Joined(e)[n] \o <<v[n + 1]>>
        BY <1>1, <1>3, <2>1, JoinedStep
    <2>3. SubSeq(v, 1, n) \o <<v[n + 1]>> = SubSeq(v, 1, n + 1)
        BY <1>2, <2>1
    <2>4. QED
        BY <1>5, <2>2, <2>3
<1>6. Joined(e)[Len(s)] = SubSeq(v, 1, Len(s))
    <2> DEFINE Good == {n \in 0 .. Len(s) : Joined(e)[n] = SubSeq(v, 1, n)}
    <2>1. 0 \in Good
        BY <1>1, <1>4
    <2>2. ASSUME NEW n \in 0 .. Len(s), n \in Good, n # Len(s) PROVE n + 1 \in Good
        <3>1. n + 1 \in 0 .. Len(s)
            BY <1>1, <2>2, Successor, Zenon
        <3>2. Joined(e)[n + 1] = SubSeq(v, 1, n + 1)
            BY <1>5, <2>2
        <3>3. QED
            BY <3>1, <3>2
    <2>3. 0 .. Len(s) \subseteq Good
        <3> HIDE DEF Good
        <3>1. QED
            BY <1>1, <2>1, <2>2, Inductive
    <2>4. Len(s) \in 0 .. Len(s)
        BY <1>1
    <2>5. QED
        BY <2>3, <2>4
<1>7. SubSeq(v, 1, Len(s)) = v
    BY <1>2
<1>8. QED
    BY <1>1, <1>6, <1>7 DEF Spread, Flatten, e, v
-----------------------------------------------------------------------------
Ids == CallIds \cup {NoId}
Contents == [form : {"string", "array", "null"}, parts : Seq(Pieces)]
Msgs == [role : {"system", "user", "assistant", "tool"}, content : Contents,
         calls : Seq(Ids), id : Ids]
Items == [type : {"message", "function_call", "function_call_output"},
          role : {"none", "system", "user", "assistant"},
          parts : Seq(Pieces), id : Ids, omitted : BOOLEAN]

Event(kind, id) == [kind |-> kind, id |-> id]
Events == [kind : {"call", "result"}, id : Ids]

ItemsOf == [m \in Msgs |-> CodexItems(m)]
ItemEvents ==
    [x \in Items |-> CASE x.type = "function_call" -> <<Event("call", x.id)>>
                       [] x.type = "function_call_output" -> <<Event("result", x.id)>>
                       [] OTHER -> <<>>]
CallEvent == [id \in Ids |-> Event("call", id)]
MsgEvents ==
    [m \in Msgs |-> CASE m.role = "assistant" -> Each(CallEvent, m.calls)
                      [] m.role = "tool" -> <<Event("result", m.id)>>
                      [] OTHER -> <<>>]
CallItem == [id \in Ids |-> Item("function_call", "none", <<>>, id)]

LEMMA CallItemType == CallItem \in [Ids -> Items]
<1>1. ASSUME NEW id \in Ids PROVE Item("function_call", "none", <<>>, id) \in Items
    BY DEF Items, Item
<1>2. QED
    BY <1>1 DEF CallItem

LEMMA CallEventType == CallEvent \in [Ids -> Events]
BY DEF CallEvent, Events, Event

LEMMA ItemsOfType == Spreads(ItemsOf, Msgs, Items)
<1>1. ASSUME NEW m \in Msgs PROVE CodexItems(m) \in Seq(Items)
    <2>1. /\ m.role \in {"system", "user", "assistant", "tool"} /\ m.content.parts \in Seq(Pieces)
          /\ m.calls \in Seq(Ids) /\ m.id \in Ids /\ NoId \in Ids
        BY DEF Msgs, Contents, Ids
    <2>2. ASSUME NEW type \in {"message", "function_call_output"},
                 NEW role \in {"none", "system", "user", "assistant"}, NEW id \in Ids
          PROVE  <<Item(type, role, m.content.parts, id)>> \in Seq(Items)
        <3>1. Item(type, role, m.content.parts, id) \in Items
            BY <2>1 DEF Items, Item
        <3>2. QED
            BY <3>1
    <2>3. CodexCalls(m.calls) \in Seq(Items)
        <3>1. CodexCalls(m.calls) = Each(CallItem, m.calls)
            BY <2>1 DEF CodexCalls, Each, CallItem
        <3>2. QED
            BY <2>1, <3>1, CallItemType, EachAny
    <2>4. <<>> \in Seq(Items)
        OBVIOUS
    <2>5. CASE m.role = "assistant"
        <3> DEFINE text == IF m.content.form = "string"
                           THEN <<Item("message", "assistant", m.content.parts, NoId)>> ELSE <<>>
        <3>1. text \in Seq(Items)
            BY <2>1, <2>2, <2>4
        <3>2. CodexItems(m) = text \o CodexCalls(m.calls)
            BY <2>5 DEF CodexItems
        <3> HIDE DEF text
        <3>3. QED
            BY <2>3, <3>1, <3>2, ConcatType
    <2>6. CASE m.role = "system"
        BY <2>4, <2>6 DEF CodexItems
    <2>7. CASE m.role = "user"
        BY <2>1, <2>2, <2>7 DEF CodexItems
    <2>8. CASE m.role = "tool"
        BY <2>1, <2>2, <2>8 DEF CodexItems
    <2>9. QED
        BY <2>1, <2>5, <2>6, <2>7, <2>8
<1>2. QED
    BY <1>1 DEF Spreads, ItemsOf

LEMMA ItemEventsType == Spreads(ItemEvents, Items, Events)
<1>1. ASSUME NEW x \in Items PROVE ItemEvents[x] \in Seq(Events)
    <2>1. Event("call", x.id) \in Events /\ Event("result", x.id) \in Events
        BY DEF Items, Event, Events
    <2>2. <<Event("call", x.id)>> \in Seq(Events) /\ <<Event("result", x.id)>> \in Seq(Events)
        BY <2>1
    <2>3. QED
        BY <2>2 DEF ItemEvents
<1>2. QED
    BY <1>1 DEF Spreads, ItemEvents

LEMMA MsgEventsType == Spreads(MsgEvents, Msgs, Events)
<1>1. ASSUME NEW m \in Msgs PROVE MsgEvents[m] \in Seq(Events)
    <2>1. m.calls \in Seq(Ids) /\ m.id \in Ids
        BY DEF Msgs
    <2>2. Each(CallEvent, m.calls) \in Seq(Events)
        BY <2>1, CallEventType, EachAny
    <2>3. Event("result", m.id) \in Events
        BY <2>1 DEF Event, Events
    <2>4. <<Event("result", m.id)>> \in Seq(Events)
        BY <2>3
    <2>5. QED
        BY <2>2, <2>4 DEF MsgEvents
<1>2. QED
    BY <1>1 DEF Spreads, MsgEvents

LEMMA CallsEvents ==
    ASSUME NEW calls \in Seq(Ids)
    PROVE  Spread(ItemEvents, CodexCalls(calls)) = Each(CallEvent, calls)
<1> DEFINE X == [id \in Ids |-> <<CallEvent[id]>>]
<1>1. CodexCalls(calls) = Each(CallItem, calls)
    BY DEF CodexCalls, Each, CallItem
<1>2. Through(ItemEvents, CallItem, X, Ids)
    <2>1. ASSUME NEW id \in Ids PROVE ItemEvents[CallItem[id]] = <<Event("call", id)>>
        <3>1. CallItem[id] \in Items
            BY CallItemType
        <3>2. CallItem[id].type = "function_call" /\ CallItem[id].id = id
            BY DEF CallItem, Item
        <3>3. QED
            BY <3>1, <3>2 DEF ItemEvents
    <2>2. QED
        BY <2>1 DEF CallEvent, Through
<1>3. Spreads(X, Ids, Events)
    BY CallEventType DEF Spreads
<1>4. Singly(X, CallEvent, Ids)
    BY DEF Singly
<1> HIDE DEF X
<1>5. Spread(ItemEvents, Each(CallItem, calls)) = Spread(X, calls)
    BY <1>2, SpreadEach
<1>6. Spread(X, calls) = Each(CallEvent, calls)
    BY <1>3, <1>4, CallEventType, SpreadSingles
<1>7. QED
    BY <1>1, <1>5, <1>6

\* What a message has of calls and results is what its items have of them.
LEMMA MessageEvents ==
    ASSUME NEW m \in Msgs
    PROVE  Spread(ItemEvents, ItemsOf[m]) = MsgEvents[m]
<1>1. /\ m.role \in {"system", "user", "assistant", "tool"} /\ m.content.parts \in Seq(Pieces)
      /\ m.calls \in Seq(Ids) /\ m.id \in Ids /\ NoId \in Ids
    BY DEF Msgs, Contents, Ids
<1>2. ASSUME NEW type \in {"message", "function_call_output"},
             NEW role \in {"none", "system", "user", "assistant"}, NEW id \in Ids
      PROVE  /\ Spread(ItemEvents, <<Item(type, role, m.content.parts, id)>>)
                  = IF type = "message" THEN <<>> ELSE <<Event("result", id)>>
             /\ <<Item(type, role, m.content.parts, id)>> \in Seq(Items)
    <2> DEFINE x == Item(type, role, m.content.parts, id)
    <2>1. x \in Items /\ x.type = type /\ x.id = id
        BY <1>1 DEF Items, Item
    <2> HIDE DEF x
    <2>2. Spread(ItemEvents, <<x>>) = ItemEvents[x]
        BY <2>1, ItemEventsType, SpreadOne
    <2>3. ItemEvents[x] = IF type = "message" THEN <<>> ELSE <<Event("result", id)>>
        BY <2>1 DEF ItemEvents
    <2>4. <<x>> \in Seq(Items)
        BY <2>1
    <2>5. QED
        BY <2>2, <2>3, <2>4 DEF x
<1>3. Spread(ItemEvents, <<>>) = <<>>
    BY SpreadNone
<1>4. ItemsOf[m] = CodexItems(m)
    BY DEF ItemsOf
<1>5. CASE m.role = "assistant"
    <2> DEFINE text == IF m.content.form = "string"
                       THEN <<Item("message", "assistant", m.content.parts, NoId)>> ELSE <<>>
    <2>1. text \in Seq(Items) /\ Spread(ItemEvents, text) = <<>>
        BY <1>1, <1>2, <1>3
    <2>2. CodexItems(m) = text \o CodexCalls(m.calls)
        BY <1>5 DEF CodexItems
    <2>3. CodexCalls(m.calls) \in Seq(Items)
        <3>1. CodexCalls(m.calls) = Each(CallItem, m.calls)
            BY <1>1 DEF CodexCalls, Each, CallItem
        <3>2. QED
            BY <1>1, <3>1, CallItemType, EachAny
    <2> HIDE DEF text
    <2>4. Spread(ItemEvents, text \o CodexCalls(m.calls))
            = Spread(ItemEvents, text) \o Spread(ItemEvents, CodexCalls(m.calls))
        <3>1. \A a, b : a \in Seq(Items) /\ b \in Seq(Items) =>
                Spread(ItemEvents, a \o b) = Spread(ItemEvents, a) \o Spread(ItemEvents, b)
            BY ItemEventsType, SpreadConcat
        <3>2. QED
            BY <2>1, <2>3, <3>1, Zenon
    <2>5. Spread(ItemEvents, CodexCalls(m.calls)) = Each(CallEvent, m.calls)
        BY <1>1, CallsEvents
    <2>6. Each(CallEvent, m.calls) \in Seq(Events)
        BY <1>1, CallEventType, EachAny
    <2>7. <<>> \o Each(CallEvent, m.calls) = Each(CallEvent, m.calls)
        BY <2>6
    <2>8. QED
        BY <1>4, <1>5, <2>1, <2>2, <2>4, <2>5, <2>7 DEF MsgEvents
<1>6. CASE m.role = "system"
    BY <1>3, <1>4, <1>6 DEF CodexItems, MsgEvents
<1>7. CASE m.role = "user"
    BY <1>1, <1>2, <1>4, <1>7 DEF CodexItems, MsgEvents
<1>8. CASE m.role = "tool"
    BY <1>1, <1>2, <1>4, <1>8 DEF CodexItems, MsgEvents
<1>9. QED
    BY <1>1, <1>5, <1>6, <1>7, <1>8

LEMMA MessagesEvents ==
    ASSUME NEW ms \in Seq(Msgs)
    PROVE  /\ Flatten([i \in DOMAIN ms |-> CodexItems(ms[i])]) = Spread(ItemsOf, ms)
           /\ Spread(ItemsOf, ms) \in Seq(Items)
           /\ Spread(ItemEvents, Spread(ItemsOf, ms)) = Spread(MsgEvents, ms)
<1>1. [i \in DOMAIN ms |-> CodexItems(ms[i])] = Each(ItemsOf, ms)
    BY DEF Each, ItemsOf
<1>2. Spread(ItemsOf, ms) \in Seq(Items)
    BY ItemsOfType, SpreadType
<1>3. \A m \in Msgs : Spread(ItemEvents, ItemsOf[m]) = MsgEvents[m]
    BY MessageEvents
<1>4. Spread(ItemEvents, Spread(ItemsOf, ms)) = Spread(MsgEvents, ms)
    BY <1>3, ItemsOfType, ItemEventsType, SpreadSpread
<1>5. QED
    BY <1>1, <1>2, <1>4 DEF Spread

Paired(xs) ==
    \A i \in DOMAIN xs :
      xs[i].type = "function_call_output" =>
        /\ \E c \in CallPlaces(xs, xs[i].id) : c < i
        /\ OutputPlaces(xs, xs[i].id) = {i}

LEMMA EventFields ==
    ASSUME NEW kind, NEW id
    PROVE  Event(kind, id).kind = kind /\ Event(kind, id).id = id
BY DEF Event

LEMMA ItemEventAt ==
    ASSUME NEW xs \in Seq(Items), NEW i \in DOMAIN xs, NEW j \in DOMAIN ItemEvents[xs[i]]
    PROVE  /\ j = 1
           /\ \/ /\ xs[i].type = "function_call_output"
                 /\ ItemEvents[xs[i]][j] = Event("result", xs[i].id)
              \/ /\ xs[i].type = "function_call"
                 /\ ItemEvents[xs[i]][j] = Event("call", xs[i].id)
<1>1. xs[i] \in Items
    OBVIOUS
<1>2. xs[i].type \in {"message", "function_call", "function_call_output"}
    BY <1>1 DEF Items
<1>3. CASE xs[i].type = "function_call_output"
    <2>1. ItemEvents[xs[i]] = <<Event("result", xs[i].id)>>
        BY <1>1, <1>3 DEF ItemEvents
    <2>2. QED
        BY <1>3, <2>1
<1>4. CASE xs[i].type = "function_call"
    <2>1. ItemEvents[xs[i]] = <<Event("call", xs[i].id)>>
        BY <1>1, <1>4 DEF ItemEvents
    <2>2. QED
        BY <1>4, <2>1
<1>5. CASE xs[i].type = "message"
    <2>1. ItemEvents[xs[i]] = <<>>
        BY <1>1, <1>5 DEF ItemEvents
    <2>2. QED
        BY <2>1
<1>6. QED
    BY <1>2, <1>3, <1>4, <1>5

LEMMA ItemResultAt ==
    ASSUME NEW xs \in Seq(Items), NEW i \in DOMAIN xs, xs[i].type = "function_call_output"
    PROVE  1 \in DOMAIN ItemEvents[xs[i]] /\ ItemEvents[xs[i]][1] = Event("result", xs[i].id)
<1>1. xs[i] \in Items
    OBVIOUS
<1>2. ItemEvents[xs[i]] = <<Event("result", xs[i].id)>>
    BY <1>1 DEF ItemEvents
<1>3. QED
    BY <1>2

LEMMA ItemCallAt ==
    ASSUME NEW xs \in Seq(Items), NEW i \in DOMAIN xs, xs[i].type = "function_call"
    PROVE  1 \in DOMAIN ItemEvents[xs[i]] /\ ItemEvents[xs[i]][1] = Event("call", xs[i].id)
<1>1. xs[i] \in Items
    OBVIOUS
<1>2. ItemEvents[xs[i]] = <<Event("call", xs[i].id)>>
    BY <1>1 DEF ItemEvents
<1>3. QED
    BY <1>2

LEMMA TidyItems ==
    ASSUME NEW xs \in Seq(Items), Tidy(Spread(ItemEvents, xs))
    PROVE  Paired(xs)
<1>1. TidyBy(ItemEvents, xs)
    BY ItemEventsType, PlacesTidy
<1>3. Len(xs) \in Nat /\ DOMAIN xs = 1 .. Len(xs)
    OBVIOUS
<1>4. ASSUME NEW i \in DOMAIN xs, xs[i].type = "function_call_output"
      PROVE  /\ \E c \in CallPlaces(xs, xs[i].id) : c < i
             /\ OutputPlaces(xs, xs[i].id) = {i}
    <2>1. /\ 1 \in DOMAIN ItemEvents[xs[i]] /\ ItemEvents[xs[i]][1].kind = "result"
          /\ ItemEvents[xs[i]][1].id = xs[i].id
        BY <1>4, ItemResultAt, EventFields
    <2>2. CalledBefore(ItemEvents, xs, i, 1) /\ AnsweredBy(ItemEvents, xs, i, 1)
        BY <1>1, <2>1 DEF TidyBy
    <2>3. \E c \in CallPlaces(xs, xs[i].id) : c < i
        <3>1. PICK h \in DOMAIN xs : \E l \in DOMAIN ItemEvents[xs[h]] :
                /\ Before(h, l, i, 1) /\ ItemEvents[xs[h]][l].kind = "call"
                /\ ItemEvents[xs[h]][l].id = ItemEvents[xs[i]][1].id
            BY <2>2 DEF CalledBefore
        <3>2. PICK l \in DOMAIN ItemEvents[xs[h]] :
                /\ Before(h, l, i, 1) /\ ItemEvents[xs[h]][l].kind = "call"
                /\ ItemEvents[xs[h]][l].id = ItemEvents[xs[i]][1].id
            BY <3>1
        <3>3. xs[h].type = "function_call" /\ xs[h].id = xs[i].id /\ l = 1
            BY <2>1, <3>2, ItemEventAt, EventFields
        <3>4. h < i
            BY <1>3, <3>2, <3>3 DEF Before
        <3>5. QED
            BY <3>3, <3>4 DEF CallPlaces
    <2>4. ASSUME NEW h \in DOMAIN xs, xs[h].type = "function_call_output", xs[h].id = xs[i].id
          PROVE  h = i
        <3>1. /\ 1 \in DOMAIN ItemEvents[xs[h]] /\ ItemEvents[xs[h]][1].kind = "result"
              /\ ItemEvents[xs[h]][1].id = xs[h].id
            BY <2>4, ItemResultAt, EventFields
        <3>2. QED
            BY <2>1, <2>2, <2>4, <3>1 DEF AnsweredBy
    <2>5. QED
        BY <1>4, <2>3, <2>4 DEF OutputPlaces
<1>5. QED
    BY <1>4 DEF Paired
-----------------------------------------------------------------------------
LEMMA MsgEventsAt ==
    ASSUME NEW ms \in Seq(Msgs), NEW i \in DOMAIN ms, NEW j \in DOMAIN MsgEvents[ms[i]]
    PROVE  \/ /\ ms[i].role = "tool" /\ j = 1
              /\ MsgEvents[ms[i]][j] = Event("result", ms[i].id)
           \/ /\ ms[i].role = "assistant" /\ j \in DOMAIN ms[i].calls
              /\ MsgEvents[ms[i]][j] = Event("call", ms[i].calls[j])
<1>1. ms[i] \in Msgs
    OBVIOUS
<1>2. ms[i].role \in {"system", "user", "assistant", "tool"} /\ ms[i].calls \in Seq(Ids)
    BY <1>1 DEF Msgs
<1>3. CASE ms[i].role = "tool"
    <2>1. MsgEvents[ms[i]] = <<Event("result", ms[i].id)>>
        BY <1>1, <1>3 DEF MsgEvents
    <2>2. QED
        BY <1>3, <2>1
<1>4. CASE ms[i].role = "assistant"
    <2>1. MsgEvents[ms[i]] = Each(CallEvent, ms[i].calls)
        BY <1>1, <1>4 DEF MsgEvents
    <2>2. j \in DOMAIN ms[i].calls /\ ms[i].calls[j] \in Ids
        BY <1>2, <2>1 DEF Each
    <2>3. MsgEvents[ms[i]][j] = Event("call", ms[i].calls[j])
        BY <2>1, <2>2 DEF Each, CallEvent
    <2>4. QED
        BY <1>4, <2>2, <2>3
<1>5. CASE ms[i].role \in {"system", "user"}
    <2>1. MsgEvents[ms[i]] = <<>>
        BY <1>1, <1>5 DEF MsgEvents
    <2>2. QED
        BY <2>1
<1>6. QED
    BY <1>2, <1>3, <1>4, <1>5

LEMMA MsgResultAt ==
    ASSUME NEW ms \in Seq(Msgs), NEW i \in DOMAIN ms, ms[i].role = "tool"
    PROVE  1 \in DOMAIN MsgEvents[ms[i]] /\ MsgEvents[ms[i]][1] = Event("result", ms[i].id)
<1>1. ms[i] \in Msgs
    OBVIOUS
<1>2. MsgEvents[ms[i]] = <<Event("result", ms[i].id)>>
    BY <1>1 DEF MsgEvents
<1>3. QED
    BY <1>2

LEMMA MsgCallAt ==
    ASSUME NEW ms \in Seq(Msgs), NEW i \in DOMAIN ms, ms[i].role = "assistant",
           NEW j \in DOMAIN ms[i].calls
    PROVE  j \in DOMAIN MsgEvents[ms[i]] /\ MsgEvents[ms[i]][j] = Event("call", ms[i].calls[j])
<1>1. ms[i] \in Msgs
    OBVIOUS
<1>2. ms[i].calls \in Seq(Ids)
    BY <1>1 DEF Msgs
<1>3. MsgEvents[ms[i]] = Each(CallEvent, ms[i].calls)
    BY <1>1 DEF MsgEvents
<1>4. ms[i].calls[j] \in Ids
    BY <1>2
<1>5. QED
    BY <1>3, <1>4 DEF Each, CallEvent

\* What Codex checks of messages is that their calls and results are tidy.
LEMMA TranscriptTidy ==
    ASSUME NEW ms \in Seq(Msgs), CodexToolTranscript(ms)
    PROVE  TidyBy(MsgEvents, ms)
<1>1. Len(ms) \in Nat /\ DOMAIN ms = 1 .. Len(ms)
    OBVIOUS
<1>2. ASSUME NEW i \in DOMAIN ms, NEW j \in DOMAIN MsgEvents[ms[i]],
             MsgEvents[ms[i]][j].kind = "result"
      PROVE  CalledBefore(MsgEvents, ms, i, j) /\ AnsweredBy(MsgEvents, ms, i, j)
    <2>1. ms[i].role = "tool" /\ j = 1 /\ MsgEvents[ms[i]][j].id = ms[i].id
        BY <1>2, MsgEventsAt, EventFields
    <2>2. i \in ResultsAt(ms)
        BY <2>1 DEF ResultsAt
    <2>3. CalledBefore(MsgEvents, ms, i, j)
        <3>1. PICK c \in 1 .. (i - 1) :
                ms[c].role = "assistant" /\ ms[i].id \in ToSet(ms[c].calls)
            BY <2>2 DEF CodexToolTranscript
        <3>2. c \in DOMAIN ms /\ c < i
            BY <1>1, <3>1
        <3>3. PICK l \in DOMAIN ms[c].calls : ms[c].calls[l] = ms[i].id
            BY <3>1 DEF ToSet
        <3>4. l \in DOMAIN MsgEvents[ms[c]] /\ MsgEvents[ms[c]][l] = Event("call", ms[i].id)
            BY <3>1, <3>2, <3>3, MsgCallAt
        <3>5. Before(c, l, i, j)
            BY <3>2 DEF Before
        <3>6. MsgEvents[ms[c]][l].kind = "call" /\ MsgEvents[ms[c]][l].id = MsgEvents[ms[i]][j].id
            BY <2>1, <3>4, EventFields
        <3>7. QED
            BY <3>2, <3>4, <3>5, <3>6 DEF CalledBefore
    <2>4. ASSUME NEW h \in DOMAIN ms, NEW l \in DOMAIN MsgEvents[ms[h]],
                 MsgEvents[ms[h]][l].kind = "result",
                 MsgEvents[ms[h]][l].id = MsgEvents[ms[i]][j].id
          PROVE  h = i /\ l = j
        <3>1. ms[h].role = "tool" /\ l = 1 /\ MsgEvents[ms[h]][l].id = ms[h].id
            BY <2>4, MsgEventsAt, EventFields
        <3>2. h \in ResultsAt(ms)
            BY <3>1 DEF ResultsAt
        <3>3. QED
            BY <2>1, <2>2, <2>4, <3>1, <3>2 DEF CodexToolTranscript, AnsweredOnce
    <2>5. QED
        BY <2>3, <2>4 DEF AnsweredBy
<1>3. QED
    BY <1>2 DEF TidyBy

LEMMA TidyTranscript ==
    ASSUME NEW ms \in Seq(Msgs), TidyBy(MsgEvents, ms)
    PROVE  CodexToolTranscript(ms)
<1>1. Len(ms) \in Nat /\ DOMAIN ms = 1 .. Len(ms)
    OBVIOUS
<1>2. ASSUME NEW i \in ResultsAt(ms)
      PROVE  /\ i \in DOMAIN ms /\ 1 \in DOMAIN MsgEvents[ms[i]]
             /\ MsgEvents[ms[i]][1].kind = "result" /\ MsgEvents[ms[i]][1].id = ms[i].id
             /\ CalledBefore(MsgEvents, ms, i, 1) /\ AnsweredBy(MsgEvents, ms, i, 1)
    <2>1. i \in DOMAIN ms /\ ms[i].role = "tool"
        BY <1>2 DEF ResultsAt
    <2>2. /\ 1 \in DOMAIN MsgEvents[ms[i]]
          /\ MsgEvents[ms[i]][1].kind = "result" /\ MsgEvents[ms[i]][1].id = ms[i].id
        BY <2>1, MsgResultAt, EventFields
    <2>3. QED
        BY <2>1, <2>2 DEF TidyBy
<1>3. AnsweredOnce(ms)
    <2>1. ASSUME NEW i \in ResultsAt(ms), NEW j \in ResultsAt(ms), ms[i].id = ms[j].id
          PROVE  i = j
        BY <1>2, <2>1 DEF AnsweredBy
    <2>2. QED
        BY <2>1 DEF AnsweredOnce
<1>4. ASSUME NEW i \in ResultsAt(ms)
      PROVE  \E c \in 1 .. (i - 1) : ms[c].role = "assistant" /\ ms[i].id \in ToSet(ms[c].calls)
    <2>1. PICK h \in DOMAIN ms : \E l \in DOMAIN MsgEvents[ms[h]] :
            /\ Before(h, l, i, 1) /\ MsgEvents[ms[h]][l].kind = "call"
            /\ MsgEvents[ms[h]][l].id = MsgEvents[ms[i]][1].id
        BY <1>2 DEF CalledBefore
    <2>2. PICK l \in DOMAIN MsgEvents[ms[h]] :
            /\ Before(h, l, i, 1) /\ MsgEvents[ms[h]][l].kind = "call"
            /\ MsgEvents[ms[h]][l].id = MsgEvents[ms[i]][1].id
        BY <2>1
    <2>3. /\ ms[h].role = "assistant" /\ l \in DOMAIN ms[h].calls
          /\ MsgEvents[ms[h]][l].id = ms[h].calls[l]
        BY <2>2, MsgEventsAt, EventFields
    <2>4. ms[i].id \in ToSet(ms[h].calls)
        BY <1>2, <2>2, <2>3 DEF ToSet
    <2>5. i \in DOMAIN ms /\ ms[i].role = "tool"
        BY <1>4 DEF ResultsAt
    <2>6. h \in 1 .. (i - 1)
        <3>1. h < i
            BY <2>2, <2>3, <2>5 DEF Before
        <3>2. QED
            BY <1>1, <2>5, <3>1
    <2>7. QED
        BY <2>3, <2>4, <2>6
<1>5. QED
    BY <1>3, <1>4 DEF CodexToolTranscript

-----------------------------------------------------------------------------
(* The input items of a Responses request.                                 *)

\* Another module's words for the same.
LEMMA SameFlattenR == ASSUME NEW x PROVE R!Flatten(x) = Flatten(x)
BY DEF R!Flatten, R!Joined, Flatten, Joined
LEMMA SameOnlyR ==
    ASSUME NEW s, NEW places PROVE R!Only(s, places) = Only(s, places)
BY SameFlattenR DEF R!Only, Only
LEMMA SameCutR ==
    ASSUME NEW s, NEW cuts PROVE R!Cut(s, cuts) = Cut(s, cuts)
BY SameFlattenR DEF R!Cut, Cut, R!EndFrom, EndFrom

\* What a run has of something, its items have of it.
LEMMA SpreadRuns ==
    ASSUME NEW S, NEW T, NEW W, Spreads(W, S, T), NEW ss \in Seq(Seq(S)), NEW tt,
           tt = [i \in DOMAIN ss |-> Spread(W, ss[i])]
    PROVE  Flatten(tt) = Spread(W, Flatten(ss))
<1>1. Spread(W, Flatten(ss)) = Flatten([i \in DOMAIN ss |-> Spread(W, ss[i])])
    BY SpreadFlatten
<1>2. QED
    BY <1>1
-----------------------------------------------------------------------------
RItemForms == [type : {"message", "function_call", "function_call_output"},
               role : {"none", "system", "user", "assistant"},
               parts : Seq(Pieces), id : Ids, structured : {FALSE}, namespaced : {FALSE}]
RItems == {x \in RItemForms :
             /\ x.role = "none" <=> x.type # "message"
             /\ x.role # "user" => ~HasImage(x.parts)
             /\ x.type = "function_call" => x.parts = <<>>}

LEMMA RItemFields ==
    ASSUME NEW x \in RItems
    PROVE  /\ x.type \in {"message", "function_call", "function_call_output"}
           /\ x.parts \in Seq(Pieces) /\ x.id \in Ids /\ ~x.structured /\ ~x.namespaced
           /\ x.role \in {"none", "system", "user", "assistant"}
           /\ x.role = "none" <=> x.type # "message"
           /\ x.role # "user" => ~HasImage(x.parts)
           /\ x.type = "function_call" => x.parts = <<>>
BY DEF RItems, RItemForms

RawOf == [x \in RItems |-> R!Raw(x)]
RItemEvents == [x \in RItems |-> ItemEvents[RawOf[x]]]
NotSystemOf == [x \in RItems |-> IF R!IsSystem(x) THEN <<>> ELSE <<x>>]

LEMMA RawType ==
    ASSUME NEW x \in RItems
    PROVE  /\ RawOf[x] \in Items
           /\ RawOf[x] = Item(x.type, x.role, x.parts, x.id)
           /\ RawOf[x].type = x.type /\ RawOf[x].id = x.id
BY DEF RItems, RItemForms, Items, RawOf, R!Raw, R!Item, Item

LEMMA RItemEventsType == Spreads(RItemEvents, RItems, Events)
<1>1. ASSUME NEW x \in RItems PROVE RItemEvents[x] \in Seq(Events)
    <2>1. RItemEvents[x] = ItemEvents[RawOf[x]]
        BY DEF RItemEvents
    <2>2. QED
        BY <2>1, RawType, ItemEventsType, SpreadsValue
<1>2. QED
    BY <1>1 DEF Spreads, RItemEvents

LEMMA NotSystemType == Spreads(NotSystemOf, RItems, RItems)
<1>1. ASSUME NEW x \in RItems PROVE NotSystemOf[x] \in Seq(RItems)
    BY DEF NotSystemOf
<1>2. QED
    BY <1>1 DEF Spreads, NotSystemOf

LEMMA RawsType ==
    ASSUME NEW rs \in Seq(RItems)
    PROVE  Each(RawOf, rs) \in Seq(Items)
<1>1. RawOf \in [RItems -> Items]
    BY RawType DEF RawOf
<1>2. QED
    BY <1>1, EachAny

LEMMA RawsEvents ==
    ASSUME NEW rs \in Seq(RItems)
    PROVE  Spread(ItemEvents, Each(RawOf, rs)) = Spread(RItemEvents, rs)
<1>1. Through(ItemEvents, RawOf, RItemEvents, RItems)
    BY DEF Through, RItemEvents
<1>2. QED
    BY <1>1, SpreadEach

\* What is checked of the items of a request is that its calls and results are tidy.
LEMMA ToolsTidy ==
    ASSUME NEW rs \in Seq(RItems), R!ToolTranscript(rs)
    PROVE  Tidy(Spread(RItemEvents, rs))
<1> DEFINE xs == Each(RawOf, rs)
<1>1. xs \in Seq(Items)
    BY RawsType
<1>2. DOMAIN xs = DOMAIN rs
    BY DEF Each
<1>3. ASSUME NEW i \in DOMAIN xs
      PROVE  xs[i].type = rs[i].type /\ xs[i].id = rs[i].id
    <2>1. rs[i] \in RItems /\ xs[i] = RawOf[rs[i]]
        BY <1>2 DEF Each
    <2>2. QED
        BY <2>1, RawType
<1> HIDE DEF xs
<1>4. Len(xs) \in Nat /\ DOMAIN xs = 1 .. Len(xs)
    BY <1>1
<1>5. ASSUME NEW i \in DOMAIN xs, xs[i].type = "function_call_output"
      PROVE  /\ \E c \in DOMAIN xs : c < i /\ xs[c].type = "function_call" /\ xs[c].id = xs[i].id
             /\ \A o \in DOMAIN xs :
                  xs[o].type = "function_call_output" /\ xs[o].id = xs[i].id => o = i
    <2> DEFINE calls == {k \in DOMAIN rs : rs[k].type \in R!CallTypes}
               outputs == {k \in DOMAIN rs : rs[k].type \in DOMAIN R!Answers}
    <2>1. \A k \in DOMAIN xs : xs[k].type = "function_call_output" => k \in outputs
        BY <1>2, <1>3 DEF R!Answers
    <2>2. /\ \A k, l \in outputs : rs[k].id = rs[l].id => k = l
          /\ \A o \in outputs : \E c \in calls :
               /\ c < o /\ rs[c].id = rs[o].id /\ rs[c].type = R!Answers[rs[o].type]
        BY DEF R!ToolTranscript
    <2>3. i \in outputs
        BY <1>5, <2>1
    <2>4. PICK c \in calls : c < i /\ rs[c].id = rs[i].id /\ rs[c].type = R!Answers[rs[i].type]
        BY <2>2, <2>3
    <2>5. R!Answers[rs[i].type] = "function_call"
        BY <1>3, <1>5 DEF R!Answers
    <2>6. c \in DOMAIN xs /\ c < i /\ xs[c].type = "function_call" /\ xs[c].id = xs[i].id
        BY <1>2, <1>3, <2>4, <2>5
    <2>7. ASSUME NEW o \in DOMAIN xs, xs[o].type = "function_call_output", xs[o].id = xs[i].id
          PROVE  o = i
        BY <1>3, <2>1, <2>2, <2>3, <2>7
    <2>8. QED
        BY <2>6, <2>7
<1>6. ASSUME NEW i \in DOMAIN xs, NEW j \in DOMAIN ItemEvents[xs[i]],
             ItemEvents[xs[i]][j].kind = "result"
      PROVE  CalledBefore(ItemEvents, xs, i, j) /\ AnsweredBy(ItemEvents, xs, i, j)
    <2>1. j = 1 /\ xs[i].type = "function_call_output" /\ ItemEvents[xs[i]][j].id = xs[i].id
        BY <1>1, <1>6, ItemEventAt, EventFields
    <2>2. PICK c \in DOMAIN xs :
            c < i /\ xs[c].type = "function_call" /\ xs[c].id = xs[i].id
        BY <1>5, <2>1
    <2>3. 1 \in DOMAIN ItemEvents[xs[c]] /\ ItemEvents[xs[c]][1] = Event("call", xs[c].id)
        BY <1>1, <2>2, ItemCallAt
    <2>4. CalledBefore(ItemEvents, xs, i, j)
        <3>1. Before(c, 1, i, j)
            BY <2>2 DEF Before
        <3>2. /\ ItemEvents[xs[c]][1].kind = "call"
              /\ ItemEvents[xs[c]][1].id = ItemEvents[xs[i]][j].id
            BY <2>1, <2>2, <2>3, EventFields
        <3>3. QED
            BY <2>3, <3>1, <3>2 DEF CalledBefore
    <2>5. ASSUME NEW h \in DOMAIN xs, NEW l \in DOMAIN ItemEvents[xs[h]],
                 ItemEvents[xs[h]][l].kind = "result",
                 ItemEvents[xs[h]][l].id = ItemEvents[xs[i]][j].id
          PROVE  h = i /\ l = j
        <3>1. l = 1 /\ xs[h].type = "function_call_output" /\ ItemEvents[xs[h]][l].id = xs[h].id
            BY <1>1, <2>5, ItemEventAt, EventFields
        <3>2. QED
            BY <1>5, <2>1, <2>5, <3>1
    <2>6. QED
        BY <2>4, <2>5 DEF AnsweredBy
<1>7. TidyBy(ItemEvents, xs)
    BY <1>6 DEF TidyBy
<1>8. Tidy(Spread(ItemEvents, xs))
    BY <1>1, <1>7, ItemEventsType, TidyPlaces
<1>9. QED
    BY <1>8, RawsEvents DEF xs

\* Codex gets the items but the system's as they came.
LEMMA InputIs ==
    ASSUME NEW rs \in Seq(RItems)
    PROVE  /\ Spread(NotSystemOf, rs) \in Seq(RItems)
           /\ R!CodexInput(rs) = Each(RawOf, Spread(NotSystemOf, rs))
           /\ R!CodexInput(rs) \in Seq(Items)
<1> DEFINE kept == R!Only(rs, {i \in DOMAIN rs : ~R!IsSystem(rs[i])})
<1>1. kept = Spread(NotSystemOf, rs)
    <2> DEFINE places == {i \in DOMAIN rs : ~R!IsSystem(rs[i])}
    <2>1. kept = Flatten([i \in DOMAIN rs |-> IF i \in places THEN <<rs[i]>> ELSE <<>>])
        BY SameOnlyR DEF Only
    <2>2. \A i \in DOMAIN rs : (IF i \in places THEN <<rs[i]>> ELSE <<>>) = NotSystemOf[rs[i]]
        BY DEF NotSystemOf
    <2>3. [i \in DOMAIN rs |-> IF i \in places THEN <<rs[i]>> ELSE <<>>] = Each(NotSystemOf, rs)
        BY <2>2 DEF Each
    <2>4. QED
        BY <2>1, <2>3 DEF Spread
<1>2. Spread(NotSystemOf, rs) \in Seq(RItems)
    BY NotSystemType, SpreadType
<1>3. R!CodexInput(rs) = [i \in DOMAIN kept |-> R!Raw(kept[i])]
    BY DEF R!CodexInput
<1> HIDE DEF kept
<1>4. [i \in DOMAIN kept |-> R!Raw(kept[i])] = Each(RawOf, kept)
    BY <1>1, <1>2 DEF Each, RawOf
<1>5. QED
    BY <1>1, <1>2, <1>3, <1>4, RawsType

LEMMA InputEvents ==
    ASSUME NEW rs \in Seq(RItems)
    PROVE  Spread(ItemEvents, R!CodexInput(rs)) = Spread(RItemEvents, rs)
<1> DEFINE kept == Spread(NotSystemOf, rs)
<1>1. kept \in Seq(RItems) /\ R!CodexInput(rs) = Each(RawOf, kept)
    BY InputIs
<1>2. Spread(ItemEvents, Each(RawOf, kept)) = Spread(RItemEvents, kept)
    BY <1>1, RawsEvents
<1>3. ASSUME NEW x \in RItems PROVE Spread(RItemEvents, NotSystemOf[x]) = RItemEvents[x]
    <2>1. CASE R!IsSystem(x)
        <3>1. NotSystemOf[x] = <<>>
            BY <2>1 DEF NotSystemOf
        <3>2. RawOf[x] \in Items /\ RawOf[x].type = "message"
            BY <2>1, RawType DEF R!IsSystem
        <3>3. RItemEvents[x] = <<>>
            BY <3>2 DEF RItemEvents, ItemEvents
        <3>4. QED
            BY <3>1, <3>3, SpreadNone
    <2>2. CASE ~R!IsSystem(x)
        <3>1. NotSystemOf[x] = <<x>>
            BY <2>2 DEF NotSystemOf
        <3>2. QED
            BY <3>1, RItemEventsType, SpreadOne
    <2>3. QED
        BY <2>1, <2>2
<1>4. Spread(RItemEvents, kept) = Spread(RItemEvents, rs)
    BY <1>3, NotSystemType, RItemEventsType, SpreadSpread
<1>5. QED
    BY <1>1, <1>2, <1>4

\* A run is one item, or calls.
RCalls == {x \in RItems : x.type = "function_call"}
RRuns == {run \in Seq(RItems) : run # <<>> /\ (Len(run) = 1 \/ run \in Seq(RCalls))}
ChatForm == [run \in RRuns |-> R!ChatOf(run)]

LEMMA ChatFormType == ChatForm \in [RRuns -> Msgs]
<1>1. ASSUME NEW run \in RRuns PROVE R!ChatOf(run) \in Msgs
    <2>1. run \in Seq(RItems) /\ run # <<>>
        BY DEF RRuns
    <2> DEFINE x == run[1]
    <2>2. Head(run) = x /\ x \in RItems
        BY <2>1
    <2>3. /\ x.type \in {"message", "function_call", "function_call_output"}
          /\ x.parts \in Seq(Pieces) /\ x.id \in Ids /\ NoId \in Ids
          /\ x.type = "message" => x.role \in {"system", "user", "assistant"}
        BY <2>2, RItemFields DEF Ids
    <2> HIDE DEF x
    <2>4. CASE x.type = "message"
        <3>1. R!ChatContent(x) \in Contents
            BY <2>3 DEF R!ChatContent, R!Array, R!String, Contents
        <3>2. R!ChatOf(run) = R!Message(x.role, R!ChatContent(x), <<>>, NoId)
            BY <2>2, <2>3, <2>4 DEF R!ChatOf
        <3>3. <<>> \in Seq(Ids)
            OBVIOUS
        <3>4. QED
            BY <2>3, <2>4, <3>1, <3>2, <3>3 DEF R!Message, Msgs
    <2>5. CASE x.type = "function_call"
        <3> DEFINE ids == [i \in DOMAIN run |-> run[i].id]
        <3>1. R!ChatOf(run) = R!Message("assistant", R!Null, ids, NoId)
            BY <2>2, <2>5 DEF R!ChatOf
        <3>2. ids \in Seq(Ids)
            <4>1. \A i \in DOMAIN run : run[i] \in RItems
                BY <2>1
            <4>2. \A i \in DOMAIN run : run[i].id \in Ids
                BY <4>1, RItemFields
            <4>3. QED
                BY <2>1, <4>2
        <3>3. R!Null \in Contents
            <4>1. <<>> \in Seq(Pieces)
                OBVIOUS
            <4>2. QED
                BY <4>1 DEF R!Null, Contents
        <3> HIDE DEF ids
        <3>4. QED
            BY <2>3, <3>1, <3>2, <3>3 DEF R!Message, Msgs
    <2>6. CASE x.type = "function_call_output"
        <3>1. R!String(x.parts) \in Contents
            BY <2>3 DEF R!String, Contents
        <3>2. R!ChatOf(run) = R!Message("tool", R!String(x.parts), <<>>, x.id)
            BY <2>2, <2>6 DEF R!ChatOf
        <3>3. <<>> \in Seq(Ids)
            OBVIOUS
        <3>4. QED
            BY <2>3, <3>1, <3>2, <3>3 DEF R!Message, Msgs
    <2>7. QED
        BY <2>3, <2>4, <2>5, <2>6
<1>2. QED
    BY <1>1 DEF ChatForm

\* The runs items are cut into.
LEMMA RunShape ==
    ASSUME NEW rs \in Seq(RItems), NEW n \in DOMAIN Cut(rs, R!RunStarts(rs))
    PROVE  Cut(rs, R!RunStarts(rs))[n] \in RRuns
<1> DEFINE cuts == R!RunStarts(rs)
<1>1. Len(rs) \in Nat /\ DOMAIN rs = 1 .. Len(rs)
    OBVIOUS
<1>2. PICK i \in DOMAIN rs : \E j \in i .. Len(rs) :
        Cut(rs, cuts)[n] = SubSeq(rs, i, j) /\ Ends(rs, cuts, i, j)
    BY CutRuns
<1>3. PICK j \in i .. Len(rs) : Cut(rs, cuts)[n] = SubSeq(rs, i, j) /\ Ends(rs, cuts, i, j)
    BY <1>2
<1> DEFINE run == SubSeq(rs, i, j)
<1>4. /\ run \in Seq(RItems) /\ Len(run) = j - i + 1 /\ run # <<>>
      /\ \A k \in 1 .. (j - i + 1) : run[k] = rs[i + k - 1]
    BY <1>1, Slice, SliceAt
<1>5. \A k \in (i + 1) .. j : rs[k].type = "function_call" /\ rs[k - 1].type = "function_call"
    <2>1. ASSUME NEW k \in (i + 1) .. j
          PROVE  rs[k].type = "function_call" /\ rs[k - 1].type = "function_call"
        <3>1. k \in DOMAIN rs /\ k > 1
            BY <1>1
        <3>2. k \notin cuts
            BY <1>3 DEF Ends
        <3>3. QED
            BY <3>1, <3>2 DEF R!RunStarts
    <2>2. QED
        BY <2>1
<1> HIDE DEF run
<1>6. CASE i = j
    BY <1>1, <1>3, <1>4, <1>6 DEF RRuns, run
<1>7. CASE i # j
    <2>1. ASSUME NEW k \in 1 .. Len(run) PROVE run[k] \in RCalls
        <3>1. run[k] \in RItems /\ run[k] = rs[i + k - 1]
            BY <1>1, <1>4
        <3>2. CASE k = 1
            <4>1. i + 1 \in (i + 1) .. j /\ (i + 1) - 1 = i /\ i + k - 1 = i
                BY <1>1, <1>7, <3>2
            <4>2. QED
                BY <1>5, <3>1, <4>1 DEF RCalls
        <3>3. CASE k # 1
            <4>1. i + k - 1 \in (i + 1) .. j
                BY <1>1, <1>4, <3>3
            <4>2. QED
                BY <1>5, <3>1, <4>1 DEF RCalls
        <3>4. QED
            BY <3>2, <3>3
    <2>2. run \in Seq(RCalls)
        BY <1>4, <2>1
    <2>3. QED
        BY <1>3, <1>4, <2>2 DEF RRuns, run
<1>8. QED
    BY <1>6, <1>7

\* Messages agree with items where they agree run by run.
Agree(M, V) == \A run \in RRuns : M[R!ChatOf(run)] = Spread(V, run)

LEMMA ChatRunsAgree ==
    ASSUME NEW rs \in Seq(RItems), NEW T, NEW M, NEW V, Spreads(M, Msgs, T),
           Spreads(V, RItems, T), Agree(M, V), NEW ms,
           ms = [i \in DOMAIN Cut(rs, R!RunStarts(rs)) |->
                   R!ChatOf(Cut(rs, R!RunStarts(rs))[i])]
    PROVE  ms \in Seq(Msgs) /\ Spread(M, ms) = Spread(V, rs)
<1> DEFINE cuts == R!RunStarts(rs)
           runs == Cut(rs, cuts)
<1>1. runs \in Seq(Seq(RItems))
    BY CutType
<1>2. Flatten(runs) = rs
    <2>1. Len(rs) \in Nat /\ DOMAIN rs = 1 .. Len(rs)
        OBVIOUS
    <2>2. rs # <<>> => 1 \in DOMAIN rs
        BY <2>1
    <2>3. rs # <<>> => 1 \in cuts
        BY <2>2 DEF R!RunStarts
    <2> HIDE DEF cuts
    <2>4. QED
        BY <2>3, CutFlatten
<1>3. \A i \in DOMAIN runs : runs[i] \in RRuns
    BY RunShape
<1>4. ms = [i \in DOMAIN runs |-> R!ChatOf(runs[i])]
    OBVIOUS
<1> HIDE DEF runs
<1>5. runs \in Seq(RRuns)
    BY <1>1, <1>3
<1>6. ms = Each(ChatForm, runs)
    BY <1>3, <1>4 DEF Each, ChatForm
<1>7. ms \in Seq(Msgs)
    BY <1>5, <1>6, ChatFormType, EachAny
<1>8. Each(M, ms) = [i \in DOMAIN runs |-> Spread(V, runs[i])]
    <2>1. DOMAIN ms = DOMAIN runs /\ \A i \in DOMAIN runs : ms[i] = R!ChatOf(runs[i])
        BY <1>4
    <2>2. \A i \in DOMAIN runs : M[ms[i]] = Spread(V, runs[i])
        BY <1>3, <2>1 DEF Agree
    <2>3. QED
        BY <2>1, <2>2 DEF Each
<1>9. Flatten(Each(M, ms)) = Spread(V, Flatten(runs))
    BY <1>1, <1>8, SpreadRuns
<1>10. QED
    BY <1>2, <1>7, <1>9 DEF Spread

LEMMA RunKinds ==
    ASSUME NEW run \in RRuns
    PROVE  /\ run[1] \in RItems /\ Head(run) = run[1] /\ run \in Seq(RItems)
           /\ \/ run \in Seq(RCalls) /\ run[1].type = "function_call"
              \/ run = <<run[1]>> /\ run[1].type # "function_call"
<1>1. run \in Seq(RItems) /\ run # <<>> /\ (Len(run) = 1 \/ run \in Seq(RCalls))
    BY DEF RRuns
<1>2. run[1] \in RItems /\ Head(run) = run[1]
    BY <1>1
<1>3. CASE run \in Seq(RCalls)
    <2>1. run[1] \in RCalls
        BY <1>1, <1>3
    <2>2. QED
        BY <1>1, <1>2, <1>3, <2>1 DEF RCalls
<1>4. CASE Len(run) = 1
    <2>1. run = <<run[1]>>
        BY <1>1, <1>4
    <2>2. CASE run[1].type = "function_call"
        <3>1. run[1] \in RCalls
            BY <1>2, <2>2 DEF RCalls
        <3>2. run \in Seq(RCalls)
            <4>1. ASSUME NEW x \in RCalls PROVE <<x>> \in Seq(RCalls)
                OBVIOUS
            <4>2. <<run[1]>> \in Seq(RCalls)
                BY <3>1, <4>1
            <4>3. QED
                BY <2>1, <4>2, Zenon
        <3>3. QED
            BY <1>1, <1>2, <2>2, <3>2
    <2>3. QED
        BY <1>1, <1>2, <2>1, <2>2
<1>5. QED
    BY <1>1, <1>3, <1>4

\* What a message of each kind of run is.
LEMMA ChatOfIs ==
    ASSUME NEW run \in RRuns
    PROVE  /\ run[1].type = "message" =>
                R!ChatOf(run) = Message(run[1].role, R!ChatContent(run[1]), <<>>, NoId)
           /\ run[1].type = "function_call" =>
                R!ChatOf(run) = Message("assistant", Null, [i \in DOMAIN run |-> run[i].id], NoId)
           /\ run[1].type = "function_call_output" =>
                R!ChatOf(run) = Message("tool", String(run[1].parts), <<>>, run[1].id)
<1>1. Head(run) = run[1] /\ run[1] \in RItems
    BY RunKinds
<1>2. run[1].role # "developer"
    BY <1>1, RItemFields
<1>3. QED
    BY <1>1, <1>2 DEF R!ChatOf, R!Message, Message, R!Null, Null, R!String, String

LEMMA CallRunEvents ==
    ASSUME NEW run \in Seq(RCalls)
    PROVE  Spread(RItemEvents, run) = Each(CallEvent, [i \in DOMAIN run |-> run[i].id])
<1> DEFINE W == [x \in RCalls |-> <<Event("call", x.id)>>]
           V == [x \in RCalls |-> Event("call", x.id)]
<1>1. ASSUME NEW x \in RCalls
      PROVE  /\ x.id \in Ids /\ Event("call", x.id) \in Events
             /\ RItemEvents[x] = <<Event("call", x.id)>>
    <2>1. x \in RItems /\ x.type = "function_call"
        BY DEF RCalls
    <2>2. x.id \in Ids
        BY <2>1, RItemFields
    <2>3. RawOf[x] \in Items /\ RawOf[x].type = "function_call" /\ RawOf[x].id = x.id
        BY <2>1, RawType
    <2>4. RItemEvents[x] = <<Event("call", x.id)>>
        BY <2>1, <2>3 DEF RItemEvents, ItemEvents
    <2>5. QED
        BY <2>2, <2>4 DEF Event, Events
<1>2. Spreads(W, RCalls, Events)
    <2>1. \A x \in RCalls : <<Event("call", x.id)>> \in Seq(Events)
        BY <1>1
    <2>2. QED
        BY <2>1 DEF Spreads
<1>3. V \in [RCalls -> Events]
    BY <1>1
<1>4. Singly(W, V, RCalls)
    BY DEF Singly
<1>5. \A i \in DOMAIN run : run[i] \in RCalls
    OBVIOUS
<1>6. Each(RItemEvents, run) = Each(W, run)
    BY <1>1, <1>5 DEF Each
<1>7. Each(V, run) = Each(CallEvent, [i \in DOMAIN run |-> run[i].id])
    BY <1>1, <1>5 DEF Each, CallEvent
<1> HIDE DEF W, V
<1>8. Spread(W, run) = Each(V, run)
    BY <1>2, <1>3, <1>4, SpreadSingles
<1>9. QED
    BY <1>6, <1>7, <1>8 DEF Spread

LEMMA NoCalls == Each(CallEvent, <<>>) = <<>>
BY DEF Each

LEMMA EventsAgree == Agree(MsgEvents, RItemEvents)
<1>1. ASSUME NEW run \in RRuns PROVE MsgEvents[R!ChatOf(run)] = Spread(RItemEvents, run)
    <2> DEFINE x == run[1]
    <2>1. /\ x \in RItems /\ Head(run) = x
          /\ \/ run \in Seq(RCalls) /\ x.type = "function_call"
             \/ run = <<x>> /\ x.type # "function_call"
        BY RunKinds
    <2>2. R!ChatOf(run) \in Msgs
        BY ChatFormType DEF ChatForm
    <2>3. x.type \in {"message", "function_call", "function_call_output"}
        BY <2>1, RItemFields
    <2>4. Spread(RItemEvents, <<x>>) = RItemEvents[x]
        BY <2>1, RItemEventsType, SpreadOne
    <2>5. RItemEvents[x] = ItemEvents[RawOf[x]] /\ RawOf[x] \in Items /\ RawOf[x].type = x.type
          /\ RawOf[x].id = x.id
        BY <2>1, RawType DEF RItemEvents
    <2>6. CASE x.type = "message"
        <3>1. R!ChatOf(run) = Message(x.role, R!ChatContent(x), <<>>, NoId)
            BY <2>6, ChatOfIs
        <3>2. R!ChatOf(run).role = x.role /\ R!ChatOf(run).calls = <<>>
            BY <3>1 DEF Message
        <3>3. MsgEvents[R!ChatOf(run)] = <<>>
            <4>1. x.role \in {"system", "user", "assistant"}
                BY <2>1, <2>6, RItemFields
            <4>2. QED
                BY <2>2, <3>2, <4>1, NoCalls DEF MsgEvents
        <3>4. RItemEvents[x] = <<>>
            BY <2>5, <2>6 DEF ItemEvents
        <3>5. run = <<x>>
            BY <2>1, <2>6
        <3>6. QED
            BY <2>4, <3>3, <3>4, <3>5
    <2>7. CASE x.type = "function_call_output"
        <3>1. R!ChatOf(run) = Message("tool", String(x.parts), <<>>, x.id)
            BY <2>7, ChatOfIs
        <3>2. R!ChatOf(run).role = "tool" /\ R!ChatOf(run).id = x.id
            BY <3>1 DEF Message
        <3>3. MsgEvents[R!ChatOf(run)] = <<Event("result", x.id)>>
            BY <2>2, <3>2 DEF MsgEvents
        <3>4. RItemEvents[x] = <<Event("result", x.id)>>
            BY <2>5, <2>7 DEF ItemEvents
        <3>5. run = <<x>>
            BY <2>1, <2>7
        <3>6. QED
            BY <2>4, <3>3, <3>4, <3>5
    <2>8. CASE x.type = "function_call"
        <3> DEFINE ids == [i \in DOMAIN run |-> run[i].id]
        <3>1. R!ChatOf(run) = Message("assistant", Null, ids, NoId)
            BY <2>8, ChatOfIs
        <3>2. run \in Seq(RCalls)
            BY <2>1, <2>8
        <3>3. Spread(RItemEvents, run) = Each(CallEvent, ids)
            BY <3>2, CallRunEvents
        <3> HIDE DEF ids
        <3>4. R!ChatOf(run).role = "assistant" /\ R!ChatOf(run).calls = ids
            BY <3>1 DEF Message
        <3>5. QED
            BY <2>2, <3>3, <3>4 DEF MsgEvents
    <2>9. QED
        BY <2>3, <2>6, <2>7, <2>8
<1>2. QED
    BY <1>1 DEF Agree
-----------------------------------------------------------------------------
SystemFirst(text) ==
    IF text = <<>> THEN <<>> ELSE <<Message("system", String(text), <<>>, NoId)>>

LEMMA SystemFirstType ==
    ASSUME NEW text \in Seq(Pieces)
    PROVE  /\ SystemFirst(text) \in Seq(Msgs)
           /\ text # <<>> => Message("system", String(text), <<>>, NoId) \in Msgs
<1>1. <<>> \in Seq(Ids) /\ NoId \in Ids /\ String(text) \in Contents
    BY DEF Ids, String, Contents
<1>2. Message("system", String(text), <<>>, NoId) \in Msgs
    BY <1>1 DEF Message, Msgs
<1>3. QED
    BY <1>2 DEF SystemFirst

\* The messages of a request of the Responses dialect.
LEMMA InputMessages ==
    ASSUME NEW b, b.turns \in Seq(RItems), Flatten(b.system) \in Seq(Pieces)
    PROVE  \E ms \in Seq(Msgs) :
             /\ R!InputToChatMessages(b) = SystemFirst(Flatten(b.system)) \o ms
             /\ ms = [i \in DOMAIN Cut(b.turns, R!RunStarts(b.turns)) |->
                        R!ChatOf(Cut(b.turns, R!RunStarts(b.turns))[i])]
             /\ R!InputToChatMessages(b) \in Seq(Msgs)
<1> DEFINE ms == [i \in DOMAIN Cut(b.turns, R!RunStarts(b.turns)) |->
                    R!ChatOf(Cut(b.turns, R!RunStarts(b.turns))[i])]
<1>1. ms \in Seq(Msgs)
    BY EventsAgree, MsgEventsType, RItemEventsType, ChatRunsAgree
<1>2. R!InputToChatMessages(b) = SystemFirst(Flatten(b.system)) \o ms
    BY SameFlattenR, SameCutR
       DEF R!InputToChatMessages, SystemFirst, R!Message, Message, R!String, String
<1> HIDE DEF ms
<1>3. SystemFirst(Flatten(b.system)) \o ms \in Seq(Msgs)
    BY <1>1, SystemFirstType, ConcatType
<1>4. QED
    BY <1>1, <1>2, <1>3 DEF ms

LEMMA InputMessagesEvents ==
    ASSUME NEW b, b.turns \in Seq(RItems), Flatten(b.system) \in Seq(Pieces)
    PROVE  Spread(MsgEvents, R!InputToChatMessages(b)) = Spread(RItemEvents, b.turns)
<1> DEFINE text == Flatten(b.system)
           rs == b.turns
<1>1. PICK ms \in Seq(Msgs) :
        /\ R!InputToChatMessages(b) = SystemFirst(text) \o ms
        /\ ms = [i \in DOMAIN Cut(rs, R!RunStarts(rs)) |->
                   R!ChatOf(Cut(rs, R!RunStarts(rs))[i])]
    BY InputMessages
<1>2. Spread(MsgEvents, ms) = Spread(RItemEvents, rs)
    <2> HIDE DEF rs
    <2>1. rs \in Seq(RItems)
        BY DEF rs
    <2>2. QED
        BY <1>1, <2>1, EventsAgree, MsgEventsType, RItemEventsType, ChatRunsAgree
<1>3. SystemFirst(text) \in Seq(Msgs)
    BY SystemFirstType
<1>4. Spread(MsgEvents, SystemFirst(text)) = <<>>
    <2>1. CASE text = <<>>
        BY <2>1, SpreadNone DEF SystemFirst
    <2>2. CASE text # <<>>
        <3> DEFINE m == Message("system", String(text), <<>>, NoId)
        <3>1. m \in Msgs
            BY <2>2, SystemFirstType
        <3>2. m.role = "system"
            BY DEF Message
        <3>3. SystemFirst(text) = <<m>>
            BY <2>2 DEF SystemFirst
        <3> HIDE DEF m
        <3>4. MsgEvents[m] = <<>>
            BY <3>1, <3>2 DEF MsgEvents
        <3>5. QED
            BY <3>1, <3>3, <3>4, MsgEventsType, SpreadOne
    <2>3. QED
        BY <2>1, <2>2
<1>5. Spread(MsgEvents, SystemFirst(text) \o ms)
        = Spread(MsgEvents, SystemFirst(text)) \o Spread(MsgEvents, ms)
    <2> HIDE DEF text
    <2>1. \A s, t : s \in Seq(Msgs) /\ t \in Seq(Msgs) =>
            Spread(MsgEvents, s \o t) = Spread(MsgEvents, s) \o Spread(MsgEvents, t)
        BY MsgEventsType, SpreadConcat
    <2>2. ms \in Seq(Msgs)
        BY <1>1
    <2>3. QED
        BY <1>3, <2>1, <2>2, Zenon
<1>6. Spread(MsgEvents, ms) \in Seq(Events)
    BY MsgEventsType, SpreadType
<1>7. <<>> \o Spread(MsgEvents, ms) = Spread(MsgEvents, ms)
    BY <1>6
<1>8. QED
    BY <1>1, <1>2, <1>4, <1>5, <1>7

-----------------------------------------------------------------------------
(* The messages of Anthropic's.                                            *)

LEMMA SameFlattenA == ASSUME NEW x PROVE A!Flatten(x) = Flatten(x)
BY DEF A!Flatten, A!Joined, Flatten, Joined
LEMMA SameOnlyA ==
    ASSUME NEW s, NEW places PROVE A!Only(s, places) = Only(s, places)
BY SameFlattenA DEF A!Only, Only

ABlocks == [type : {"text", "image", "tool_use", "tool_result"}, parts : Seq(Pieces), id : Ids]
AMsgs == [role : {"system", "user", "assistant"}, blocks : Seq(ABlocks)]

Counts(b, types) == b.type \in types /\ (b.type \in A!TextTypes => b.parts # <<>>)
BlocksOf(types) == [b \in ABlocks |-> IF Counts(b, types) THEN <<b>> ELSE <<>>]
IdOf == [b \in ABlocks |-> b.id]
BlockParts == [b \in ABlocks |-> b.parts]

LEMMA BlocksOfType == ASSUME NEW types PROVE Spreads(BlocksOf(types), ABlocks, ABlocks)
<1>1. ASSUME NEW b \in ABlocks PROVE BlocksOf(types)[b] \in Seq(ABlocks)
    BY DEF BlocksOf
<1>2. QED
    BY <1>1 DEF Spreads, BlocksOf

LEMMA BlocksAre ==
    ASSUME NEW m \in AMsgs, NEW types
    PROVE  /\ A!Blocks(m, types) = Spread(BlocksOf(types), m.blocks)
           /\ A!Blocks(m, types) \in Seq(ABlocks)
<1>1. m.blocks \in Seq(ABlocks)
    BY DEF AMsgs
<1> DEFINE s == m.blocks
           places == {i \in DOMAIN s : Counts(s[i], types)}
<1>2. A!Blocks(m, types) = A!Only(s, places)
    BY DEF A!Blocks, Counts
<1>3. A!Only(s, places) = Flatten([i \in DOMAIN s |-> IF i \in places THEN <<s[i]>> ELSE <<>>])
    BY SameOnlyA DEF Only
<1>4. \A i \in DOMAIN s : (IF i \in places THEN <<s[i]>> ELSE <<>>) = BlocksOf(types)[s[i]]
    BY <1>1 DEF BlocksOf
<1>5. [i \in DOMAIN s |-> IF i \in places THEN <<s[i]>> ELSE <<>>] = Each(BlocksOf(types), s)
    BY <1>4 DEF Each
<1>6. A!Blocks(m, types) = Spread(BlocksOf(types), s)
    BY <1>2, <1>3, <1>5 DEF Spread
<1>7. Spread(BlocksOf(types), s) \in Seq(ABlocks)
    <2> HIDE DEF s
    <2>1. s \in Seq(ABlocks)
        BY <1>1 DEF s
    <2>2. QED
        BY <2>1, BlocksOfType, SpreadType
<1>8. QED
    BY <1>6, <1>7

LEMMA IdsAre ==
    ASSUME NEW bs \in Seq(ABlocks)
    PROVE  /\ A!IdsOf(bs) = Each(IdOf, bs) /\ A!IdsOf(bs) \in Seq(Ids)
           /\ A!PartsOf(bs) = Spread(BlockParts, bs) /\ A!PartsOf(bs) \in Seq(Pieces)
<1>1. IdOf \in [ABlocks -> Ids]
    BY DEF IdOf, ABlocks
<1>2. Spreads(BlockParts, ABlocks, Pieces)
    BY DEF Spreads, BlockParts, ABlocks
<1>3. A!IdsOf(bs) = Each(IdOf, bs)
    BY DEF A!IdsOf, Each, IdOf
<1>4. [i \in DOMAIN bs |-> bs[i].parts] = Each(BlockParts, bs)
    BY DEF Each, BlockParts
<1>5. A!PartsOf(bs) = Spread(BlockParts, bs)
    BY <1>4, SameFlattenA DEF A!PartsOf, Spread
<1>6. Each(IdOf, bs) \in Seq(Ids)
    BY <1>1, EachAny
<1>7. Spread(BlockParts, bs) \in Seq(Pieces)
    BY <1>2, SpreadType
<1>8. QED
    BY <1>3, <1>5, <1>6, <1>7

\* What the chat messages are made of.
ResultOf == [b \in ABlocks |-> Message("tool", String(b.parts), <<>>, b.id)]

LEMMA MessageForm ==
    ASSUME NEW role \in {"system", "user", "assistant", "tool"}, NEW content \in Contents,
           NEW calls \in Seq(Ids), NEW id \in Ids
    PROVE  Message(role, content, calls, id) \in Msgs
BY DEF Message, Msgs

LEMMA ContentForm ==
    ASSUME NEW parts \in Seq(Pieces)
    PROVE  String(parts) \in Contents /\ Array(parts) \in Contents /\ Null \in Contents
<1>1. <<>> \in Seq(Pieces)
    OBVIOUS
<1>2. QED
    BY <1>1 DEF String, Array, Null, Contents

LEMMA SameForms ==
    /\ \A role, content, calls, id :
         A!Message(role, content, calls, id) = Message(role, content, calls, id)
    /\ \A parts : A!String(parts) = String(parts) /\ A!Array(parts) = Array(parts)
    /\ A!Null = Null
BY DEF A!Message, Message, A!String, String, A!Array, Array, A!Null, Null

LEMMA ResultOfType == ResultOf \in [ABlocks -> Msgs]
<1>1. ASSUME NEW b \in ABlocks PROVE Message("tool", String(b.parts), <<>>, b.id) \in Msgs
    <2>1. b.parts \in Seq(Pieces) /\ b.id \in Ids /\ <<>> \in Seq(Ids)
        BY DEF ABlocks
    <2>2. QED
        BY <2>1, ContentForm, MessageForm
<1>2. QED
    BY <1>1 DEF ResultOf

LEMMA ResultsAre ==
    ASSUME NEW m \in AMsgs
    PROVE  /\ A!ResultMessages(m) = Each(ResultOf, A!Blocks(m, {"tool_result"}))
           /\ A!ResultMessages(m) \in Seq(Msgs)
<1> DEFINE bs == A!Blocks(m, {"tool_result"})
<1>1. bs \in Seq(ABlocks)
    BY BlocksAre
<1>2. A!ResultMessages(m)
        = [i \in DOMAIN bs |-> A!Message("tool", A!String(bs[i].parts), <<>>, bs[i].id)]
    BY DEF A!ResultMessages
<1> HIDE DEF bs
<1>3. A!ResultMessages(m) = Each(ResultOf, bs)
    BY <1>1, <1>2, SameForms DEF Each, ResultOf
<1>4. Each(ResultOf, bs) \in Seq(Msgs)
    BY <1>1, ResultOfType, EachAny
<1>5. QED
    BY <1>3, <1>4 DEF bs

\* What the user says besides, the assistant's message, and the system's.
LEMMA UserMessageForm ==
    ASSUME NEW m \in AMsgs
    PROVE  \/ A!UserMessage(m) = <<>>
           \/ \E msg \in Msgs : A!UserMessage(m) = <<msg>> /\ msg.role = "user"
<1> DEFINE said == A!Blocks(m, A!TextTypes \cup {"image"})
<1>1. said \in Seq(ABlocks)
    BY BlocksAre
<1> HIDE DEF said
<1>2. <<>> \in Seq(Ids) /\ NoId \in Ids
    BY DEF Ids
<1>3. ASSUME NEW content \in Contents
      PROVE  /\ Message("user", content, <<>>, NoId) \in Msgs
             /\ Message("user", content, <<>>, NoId).role = "user"
    BY <1>2, MessageForm DEF Message
<1>4. CASE said = <<>>
    BY <1>4 DEF A!UserMessage, said
<1>5. CASE said # <<>> /\ Len(said) = 1 /\ said[1].type # "image"
    <2>1. said[1] \in ABlocks
        BY <1>1, <1>5
    <2>2. String(said[1].parts) \in Contents
        BY <2>1, ContentForm DEF ABlocks
    <2>3. A!UserMessage(m) = <<Message("user", String(said[1].parts), <<>>, NoId)>>
        BY <1>5, SameForms DEF A!UserMessage, said
    <2>4. QED
        BY <1>3, <2>2, <2>3
<1>6. CASE said # <<>> /\ ~(Len(said) = 1 /\ said[1].type # "image")
    <2>1. Array(A!PartsOf(said)) \in Contents
        BY <1>1, IdsAre, ContentForm
    <2>2. A!UserMessage(m) = <<Message("user", Array(A!PartsOf(said)), <<>>, NoId)>>
        BY <1>6, SameForms DEF A!UserMessage, said
    <2>3. QED
        BY <1>3, <2>1, <2>2
<1>7. QED
    BY <1>4, <1>5, <1>6

LEMMA AssistantMessageForm ==
    ASSUME NEW m \in AMsgs
    PROVE  /\ A!AssistantMessage(m) \in Msgs /\ A!AssistantMessage(m).role = "assistant"
           /\ A!AssistantMessage(m).calls = A!IdsOf(A!Blocks(m, {"tool_use"}))
           /\ A!IdsOf(A!Blocks(m, {"tool_use"})) \in Seq(Ids)
<1> DEFINE texts == A!Blocks(m, A!TextTypes)
           uses == A!Blocks(m, {"tool_use"})
           content == IF uses # <<>> /\ texts = <<>> THEN Null ELSE String(A!PartsOf(texts))
<1>1. texts \in Seq(ABlocks) /\ uses \in Seq(ABlocks)
    BY BlocksAre
<1>2. A!AssistantMessage(m) = Message("assistant", content, A!IdsOf(uses), NoId)
    BY SameForms DEF A!AssistantMessage
<1> HIDE DEF texts, uses
<1>3. content \in Contents
    BY <1>1, IdsAre, ContentForm
<1>4. A!IdsOf(uses) \in Seq(Ids) /\ NoId \in Ids
    BY <1>1, IdsAre DEF Ids
<1> HIDE DEF content
<1>5. Message("assistant", content, A!IdsOf(uses), NoId) \in Msgs
    BY <1>3, <1>4, MessageForm
<1>6. QED
    BY <1>2, <1>4, <1>5 DEF Message, uses

LEMMA SystemMessageForm ==
    ASSUME NEW parts \in Seq(Pieces)
    PROVE  A!SystemMessage(parts) \in Msgs /\ A!SystemMessage(parts).role = "system"
<1>1. A!SystemMessage(parts) = Message("system", String(parts), <<>>, NoId)
    BY SameForms DEF A!SystemMessage
<1>2. <<>> \in Seq(Ids) /\ NoId \in Ids /\ String(parts) \in Contents
    BY ContentForm DEF Ids
<1>3. Message("system", String(parts), <<>>, NoId) \in Msgs
    BY <1>2, MessageForm
<1>4. QED
    BY <1>1, <1>3 DEF Message

TurnOf == [m \in AMsgs |-> A!Turn(m)]
LEMMA TurnOfType == Spreads(TurnOf, AMsgs, Msgs)
<1>1. ASSUME NEW m \in AMsgs PROVE A!Turn(m) \in Seq(Msgs)
    <2>1. m.role \in {"system", "user", "assistant"}
        BY DEF AMsgs
    <2>2. \A msg \in Msgs : <<msg>> \in Seq(Msgs)
        OBVIOUS
    <2>3. CASE m.role = "system"
        <3>1. A!PartsOf(A!Blocks(m, A!TextTypes)) \in Seq(Pieces)
            BY BlocksAre, IdsAre
        <3>2. QED
            BY <2>2, <2>3, <3>1, SystemMessageForm DEF A!Turn
    <2>4. CASE m.role = "user"
        <3>1. A!UserMessage(m) \in Seq(Msgs)
            <4>1. <<>> \in Seq(Msgs)
                OBVIOUS
            <4>2. QED
                BY <2>2, <4>1, UserMessageForm, Zenon
        <3>2. A!ResultMessages(m) \in Seq(Msgs)
            BY ResultsAre
        <3>3. A!ResultMessages(m) \o A!UserMessage(m) \in Seq(Msgs)
            BY <3>1, <3>2, ConcatType
        <3>4. QED
            BY <2>4, <3>3 DEF A!Turn, A!UserTurn
    <2>5. CASE m.role = "assistant"
        BY <2>2, <2>5, AssistantMessageForm DEF A!Turn
    <2>6. QED
        BY <2>1, <2>3, <2>4, <2>5
<1>2. QED
    BY <1>1 DEF Spreads, TurnOf

ResultEvent == [id \in Ids |-> Event("result", id)]
AEvents ==
    [m \in AMsgs |-> IF m.role = "user" THEN Each(ResultEvent, A!Results(m))
                     ELSE Each(CallEvent, A!Uses(m))]

LEMMA ResultEventType == ResultEvent \in [Ids -> Events]
BY DEF ResultEvent, Events, Event

LEMMA ResultsUses ==
    ASSUME NEW m \in AMsgs
    PROVE  /\ A!Results(m) \in Seq(Ids) /\ A!Uses(m) \in Seq(Ids)
           /\ m.role # "user" => A!Results(m) = <<>>
           /\ m.role # "assistant" => A!Uses(m) = <<>>
<1>1. A!IdsOf(A!Blocks(m, {"tool_use"})) \in Seq(Ids)
    BY BlocksAre, IdsAre
<1>2. A!IdsOf(A!Blocks(m, {"tool_result"})) \in Seq(Ids)
    BY BlocksAre, IdsAre
<1>3. <<>> \in Seq(Ids)
    OBVIOUS
<1>4. QED
    BY <1>1, <1>2, <1>3 DEF A!Results, A!Uses

LEMMA AEventsType == Spreads(AEvents, AMsgs, Events)
<1>1. ASSUME NEW m \in AMsgs PROVE AEvents[m] \in Seq(Events)
    <2>1. A!Results(m) \in Seq(Ids) /\ A!Uses(m) \in Seq(Ids)
        BY ResultsUses
    <2>2. Each(ResultEvent, A!Results(m)) \in Seq(Events)
        BY <2>1, ResultEventType, EachAny
    <2>3. Each(CallEvent, A!Uses(m)) \in Seq(Events)
        BY <2>1, CallEventType, EachAny
    <2>4. QED
        BY <2>2, <2>3 DEF AEvents
<1>2. QED
    BY <1>1 DEF Spreads, AEvents

LEMMA ResultMessagesEvents ==
    ASSUME NEW m \in AMsgs, m.role = "user"
    PROVE  Spread(MsgEvents, A!ResultMessages(m)) = AEvents[m]
<1> DEFINE bs == A!Blocks(m, {"tool_result"})
           X == [b \in ABlocks |-> <<Event("result", b.id)>>]
           V == [b \in ABlocks |-> Event("result", b.id)]
<1>1. bs \in Seq(ABlocks) /\ A!ResultMessages(m) = Each(ResultOf, bs)
    BY BlocksAre, ResultsAre
<1>2. A!Results(m) = Each(IdOf, bs)
    BY <1>1, IdsAre DEF A!Results
<1>3. ASSUME NEW b \in ABlocks
      PROVE  b.id \in Ids /\ Event("result", b.id) \in Events /\ IdOf[b] = b.id
    BY DEF ABlocks, Event, Events, IdOf
<1>4. Through(MsgEvents, ResultOf, X, ABlocks)
    <2>1. ASSUME NEW b \in ABlocks PROVE MsgEvents[ResultOf[b]] = <<Event("result", b.id)>>
        <3>1. ResultOf[b] \in Msgs
            BY ResultOfType
        <3>2. ResultOf[b].role = "tool" /\ ResultOf[b].id = b.id
            BY DEF ResultOf, Message
        <3>3. QED
            BY <3>1, <3>2 DEF MsgEvents
    <2>2. QED
        BY <2>1 DEF Through
<1>5. Spreads(X, ABlocks, Events)
    <2>1. \A b \in ABlocks : <<Event("result", b.id)>> \in Seq(Events)
        BY <1>3
    <2>2. QED
        BY <2>1 DEF Spreads
<1>6. V \in [ABlocks -> Events] /\ Singly(X, V, ABlocks)
    BY <1>3 DEF Singly
<1>7. Each(V, bs) = Each(ResultEvent, Each(IdOf, bs))
    <2>1. \A i \in DOMAIN bs : bs[i] \in ABlocks
        BY <1>1
    <2>2. \A i \in DOMAIN bs : V[bs[i]] = ResultEvent[Each(IdOf, bs)[i]]
        BY <1>3, <2>1 DEF Each, ResultEvent
    <2>3. DOMAIN Each(IdOf, bs) = DOMAIN bs
        BY DEF Each
    <2> HIDE DEF V, bs
    <2>4. QED
        BY <2>2, <2>3 DEF Each
<1> HIDE DEF X, V, bs
<1>8. Spread(MsgEvents, Each(ResultOf, bs)) = Spread(X, bs)
    BY <1>1, <1>4, SpreadEach
<1>9. Spread(X, bs) = Each(V, bs)
    BY <1>1, <1>5, <1>6, SpreadSingles
<1>10. AEvents[m] = Each(ResultEvent, A!Results(m))
    BY DEF AEvents
<1>11. QED
    BY <1>1, <1>2, <1>7, <1>8, <1>9, <1>10

LEMMA TurnEvents ==
    ASSUME NEW m \in AMsgs
    PROVE  Spread(MsgEvents, TurnOf[m]) = AEvents[m]
<1>1. m.role \in {"system", "user", "assistant"} /\ TurnOf[m] = A!Turn(m)
    BY DEF AMsgs, TurnOf
<1>2. ASSUME NEW msg \in Msgs PROVE Spread(MsgEvents, <<msg>>) = MsgEvents[msg]
    BY MsgEventsType, SpreadOne
<1>3. CASE m.role = "system"
    <2> DEFINE msg == A!SystemMessage(A!PartsOf(A!Blocks(m, A!TextTypes)))
    <2>1. A!PartsOf(A!Blocks(m, A!TextTypes)) \in Seq(Pieces)
        BY BlocksAre, IdsAre
    <2>2. msg \in Msgs /\ msg.role = "system"
        BY <2>1, SystemMessageForm
    <2>3. A!Turn(m) = <<msg>>
        BY <1>3 DEF A!Turn
    <2> HIDE DEF msg
    <2>4. MsgEvents[msg] = <<>>
        BY <2>2 DEF MsgEvents
    <2>5. AEvents[m] = <<>>
        BY <1>3, ResultsUses, NoCalls DEF AEvents
    <2>6. QED
        BY <1>1, <1>2, <2>2, <2>3, <2>4, <2>5
<1>4. CASE m.role = "user"
    <2>1. TurnOf[m] = A!ResultMessages(m) \o A!UserMessage(m)
        BY <1>1, <1>4 DEF A!Turn, A!UserTurn
    <2>2. A!UserMessage(m) \in Seq(Msgs) /\ Spread(MsgEvents, A!UserMessage(m)) = <<>>
        <3>1. CASE A!UserMessage(m) = <<>>
            BY <3>1, SpreadNone
        <3>2. ASSUME NEW msg \in Msgs, A!UserMessage(m) = <<msg>>, msg.role = "user"
              PROVE  A!UserMessage(m) \in Seq(Msgs) /\ Spread(MsgEvents, A!UserMessage(m)) = <<>>
            <4>1. MsgEvents[msg] = <<>>
                BY <3>2 DEF MsgEvents
            <4>2. <<msg>> \in Seq(Msgs)
                OBVIOUS
            <4>3. QED
                BY <1>2, <3>2, <4>1, <4>2
        <3>3. QED
            BY <3>1, <3>2, UserMessageForm
    <2>3. A!ResultMessages(m) \in Seq(Msgs)
        BY ResultsAre
    <2>4. Spread(MsgEvents, A!ResultMessages(m) \o A!UserMessage(m))
            = Spread(MsgEvents, A!ResultMessages(m)) \o Spread(MsgEvents, A!UserMessage(m))
        <3>1. \A a, b : a \in Seq(Msgs) /\ b \in Seq(Msgs) =>
                Spread(MsgEvents, a \o b) = Spread(MsgEvents, a) \o Spread(MsgEvents, b)
            BY MsgEventsType, SpreadConcat
        <3>2. QED
            BY <2>2, <2>3, <3>1, Zenon
    <2>5. Spread(MsgEvents, A!ResultMessages(m)) = AEvents[m]
        BY <1>4, ResultMessagesEvents
    <2>6. AEvents[m] \in Seq(Events)
        BY AEventsType, SpreadsValue
    <2>7. AEvents[m] \o <<>> = AEvents[m]
        BY <2>6
    <2>8. QED
        BY <2>1, <2>2, <2>4, <2>5, <2>7
<1>5. CASE m.role = "assistant"
    <2> DEFINE msg == A!AssistantMessage(m)
    <2>1. /\ msg \in Msgs /\ msg.role = "assistant"
          /\ msg.calls = A!IdsOf(A!Blocks(m, {"tool_use"}))
        BY AssistantMessageForm
    <2>2. A!Turn(m) = <<msg>>
        BY <1>5 DEF A!Turn
    <2> HIDE DEF msg
    <2>3. MsgEvents[msg] = Each(CallEvent, A!Uses(m))
        BY <1>5, <2>1 DEF MsgEvents, A!Uses
    <2>4. AEvents[m] = Each(CallEvent, A!Uses(m))
        BY <1>5 DEF AEvents
    <2>5. QED
        BY <1>1, <1>2, <2>1, <2>2, <2>3, <2>4
<1>6. QED
    BY <1>1, <1>3, <1>4, <1>5
-----------------------------------------------------------------------------
LEMMA AEventAt ==
    ASSUME NEW ts \in Seq(AMsgs), NEW i \in DOMAIN ts, NEW j \in DOMAIN AEvents[ts[i]]
    PROVE  \/ /\ ts[i].role = "user" /\ j \in DOMAIN A!Results(ts[i])
              /\ AEvents[ts[i]][j] = Event("result", A!Results(ts[i])[j])
           \/ /\ ts[i].role = "assistant" /\ j \in DOMAIN A!Uses(ts[i])
              /\ AEvents[ts[i]][j] = Event("call", A!Uses(ts[i])[j])
<1>1. ts[i] \in AMsgs
    OBVIOUS
<1>2. /\ ts[i].role \in {"system", "user", "assistant"}
      /\ A!Results(ts[i]) \in Seq(Ids) /\ A!Uses(ts[i]) \in Seq(Ids)
      /\ ts[i].role # "assistant" => A!Uses(ts[i]) = <<>>
    BY <1>1, ResultsUses DEF AMsgs
<1>3. CASE ts[i].role = "user"
    <2>1. AEvents[ts[i]] = Each(ResultEvent, A!Results(ts[i]))
        BY <1>1, <1>3 DEF AEvents
    <2>2. j \in DOMAIN A!Results(ts[i]) /\ A!Results(ts[i])[j] \in Ids
        BY <1>2, <2>1 DEF Each
    <2>3. AEvents[ts[i]][j] = Event("result", A!Results(ts[i])[j])
        BY <2>1, <2>2 DEF Each, ResultEvent
    <2>4. QED
        BY <1>3, <2>2, <2>3
<1>4. CASE ts[i].role # "user"
    <2>1. AEvents[ts[i]] = Each(CallEvent, A!Uses(ts[i]))
        BY <1>1, <1>4 DEF AEvents
    <2>2. j \in DOMAIN A!Uses(ts[i]) /\ A!Uses(ts[i])[j] \in Ids
        BY <1>2, <2>1 DEF Each
    <2>3. AEvents[ts[i]][j] = Event("call", A!Uses(ts[i])[j])
        BY <2>1, <2>2 DEF Each, CallEvent
    <2>4. ts[i].role = "assistant"
        BY <1>2, <1>4, <2>2
    <2>5. QED
        BY <2>2, <2>3, <2>4
<1>5. QED
    BY <1>3, <1>4

LEMMA AUseAt ==
    ASSUME NEW ts \in Seq(AMsgs), NEW i \in DOMAIN ts, NEW j \in DOMAIN A!Uses(ts[i])
    PROVE  j \in DOMAIN AEvents[ts[i]] /\ AEvents[ts[i]][j] = Event("call", A!Uses(ts[i])[j])
<1>1. ts[i] \in AMsgs
    OBVIOUS
<1>2. A!Uses(ts[i]) \in Seq(Ids) /\ (ts[i].role # "assistant" => A!Uses(ts[i]) = <<>>)
    BY <1>1, ResultsUses
<1>3. ts[i].role = "assistant"
    BY <1>2
<1>4. AEvents[ts[i]] = Each(CallEvent, A!Uses(ts[i]))
    BY <1>1, <1>3 DEF AEvents
<1>5. A!Uses(ts[i])[j] \in Ids
    BY <1>2
<1>6. QED
    BY <1>4, <1>5 DEF Each, CallEvent

LEMMA AResultAt ==
    ASSUME NEW ts \in Seq(AMsgs), NEW i \in DOMAIN ts, NEW j \in DOMAIN A!Results(ts[i])
    PROVE  j \in DOMAIN AEvents[ts[i]] /\ AEvents[ts[i]][j] = Event("result", A!Results(ts[i])[j])
<1>1. ts[i] \in AMsgs
    OBVIOUS
<1>2. A!Results(ts[i]) \in Seq(Ids) /\ (ts[i].role # "user" => A!Results(ts[i]) = <<>>)
    BY <1>1, ResultsUses
<1>3. ts[i].role = "user"
    BY <1>2
<1>4. AEvents[ts[i]] = Each(ResultEvent, A!Results(ts[i]))
    BY <1>1, <1>3 DEF AEvents
<1>5. A!Results(ts[i])[j] \in Ids
    BY <1>2
<1>6. QED
    BY <1>4, <1>5 DEF Each, ResultEvent

ResultIds == [m \in AMsgs |-> A!Results(m)]
LEMMA ResultIdsAre ==
    ASSUME NEW ts \in Seq(AMsgs)
    PROVE  A!Answered(ts) = Spread(ResultIds, ts) /\ Spreads(ResultIds, AMsgs, Ids)
<1>1. [i \in DOMAIN ts |-> A!Results(ts[i])] = Each(ResultIds, ts)
    BY DEF Each, ResultIds
<1>2. A!Answered(ts) = Spread(ResultIds, ts)
    BY <1>1, SameFlattenA DEF A!Answered, Spread
<1>3. Spreads(ResultIds, AMsgs, Ids)
    BY ResultsUses DEF Spreads, ResultIds
<1>4. QED
    BY <1>2, <1>3

\* What is checked of a conversation of Anthropic's is that its results are tidy.
LEMMA AnswersTidy ==
    ASSUME NEW ts \in Seq(AMsgs), A!ResultsAnswer(ts)
    PROVE  TidyBy(AEvents, ts)
<1>1. Len(ts) \in Nat /\ DOMAIN ts = 1 .. Len(ts)
    OBVIOUS
<1>2. ASSUME NEW i \in DOMAIN ts, NEW j \in DOMAIN AEvents[ts[i]],
             AEvents[ts[i]][j].kind = "result"
      PROVE  CalledBefore(AEvents, ts, i, j) /\ AnsweredBy(AEvents, ts, i, j)
    <2>1. j \in DOMAIN A!Results(ts[i]) /\ AEvents[ts[i]][j].id = A!Results(ts[i])[j]
        BY <1>2, AEventAt, EventFields
    <2>2. CalledBefore(AEvents, ts, i, j)
        <3>1. A!Results(ts[i])[j] \in ToSet(A!Results(ts[i]))
            BY <2>1 DEF ToSet
        <3>2. PICK c \in 1 .. (i - 1) : A!Results(ts[i])[j] \in ToSet(A!Uses(ts[c]))
            BY <3>1 DEF A!ResultsAnswer, A!ToSet, ToSet
        <3>3. c \in DOMAIN ts /\ c < i
            BY <1>1, <3>2
        <3>4. PICK l \in DOMAIN A!Uses(ts[c]) : A!Uses(ts[c])[l] = A!Results(ts[i])[j]
            BY <3>2 DEF ToSet
        <3>5. /\ l \in DOMAIN AEvents[ts[c]] /\ AEvents[ts[c]][l].kind = "call"
              /\ AEvents[ts[c]][l].id = AEvents[ts[i]][j].id
            BY <2>1, <3>3, <3>4, AUseAt, EventFields
        <3>6. Before(c, l, i, j)
            BY <3>3 DEF Before
        <3>7. QED
            BY <3>3, <3>5, <3>6 DEF CalledBefore
    <2>3. ASSUME NEW h \in DOMAIN ts, NEW l \in DOMAIN AEvents[ts[h]],
                 AEvents[ts[h]][l].kind = "result",
                 AEvents[ts[h]][l].id = AEvents[ts[i]][j].id
          PROVE  h = i /\ l = j
        <3>1. l \in DOMAIN A!Results(ts[h]) /\ A!Results(ts[h])[l] = A!Results(ts[i])[j]
            BY <2>1, <2>3, AEventAt, EventFields
        <3>2. /\ ResultIds[ts[h]] = A!Results(ts[h]) /\ ResultIds[ts[i]] = A!Results(ts[i])
            BY DEF ResultIds
        <3> DEFINE p == At(Each(ResultIds, ts), h, l)
                   q == At(Each(ResultIds, ts), i, j)
                   all == Spread(ResultIds, ts)
        <3>3. p \in DOMAIN all /\ all[p] = A!Results(ts[h])[l]
            BY <3>1, <3>2, ResultIdsAre, SpreadPlaces
        <3>4. q \in DOMAIN all /\ all[q] = A!Results(ts[i])[j]
            BY <2>1, <3>2, ResultIdsAre, SpreadPlaces
        <3>5. p = q <=> h = i /\ l = j
            BY <2>1, <3>1, <3>2, ResultIdsAre, SpreadOrder
        <3> HIDE DEF p, q, all
        <3>6. p = q
            <4>1. A!Answered(ts) = all
                BY ResultIdsAre DEF all
            <4>2. QED
                BY <3>1, <3>3, <3>4, <4>1 DEF A!ResultsAnswer
        <3>7. QED
            BY <3>5, <3>6
    <2>4. QED
        BY <2>2, <2>3 DEF AnsweredBy
<1>3. QED
    BY <1>2 DEF TidyBy

LEMMA SpreadNothing ==
    ASSUME NEW S, NEW T, NEW W, Spreads(W, S, T), NEW s \in Seq(S),
           \A i \in DOMAIN s : W[s[i]] = <<>>
    PROVE  Spread(W, s) = <<>>
<1>1. \A k \in DOMAIN Spread(W, s) : \E i \in DOMAIN s : \E j \in DOMAIN W[s[i]] : TRUE
    BY SpreadPlaces
<1>2. \A i \in DOMAIN s : DOMAIN W[s[i]] = {}
    OBVIOUS
<1>3. DOMAIN Spread(W, s) = {}
    BY <1>1, <1>2
<1>4. Spread(W, s) \in Seq(T)
    BY SpreadType
<1>5. QED
    BY <1>3, <1>4

SystemOf == [parts \in Seq(Pieces) |-> A!SystemMessage(parts)]

LEMMA SystemsAre ==
    ASSUME NEW system \in Seq(Seq(Pieces))
    PROVE  /\ [i \in DOMAIN system |-> A!SystemMessage(system[i])] = Each(SystemOf, system)
           /\ Each(SystemOf, system) \in Seq(Msgs)
           /\ Spread(MsgEvents, Each(SystemOf, system)) = <<>>
<1>1. SystemOf \in [Seq(Pieces) -> Msgs]
    BY SystemMessageForm DEF SystemOf
<1>2. [i \in DOMAIN system |-> A!SystemMessage(system[i])] = Each(SystemOf, system)
    BY DEF Each, SystemOf
<1> DEFINE ms == Each(SystemOf, system)
<1>3. ms \in Seq(Msgs)
    BY <1>1, EachAny
<1>4. ASSUME NEW i \in DOMAIN ms PROVE MsgEvents[ms[i]] = <<>>
    <2>1. i \in DOMAIN system /\ ms[i] = A!SystemMessage(system[i])
        BY DEF Each, SystemOf
    <2>2. ms[i].role = "system" /\ ms[i] \in Msgs
        BY <2>1, SystemMessageForm
    <2>3. QED
        BY <2>2 DEF MsgEvents
<1> HIDE DEF ms
<1>5. Spread(MsgEvents, ms) = <<>>
    BY <1>3, <1>4, MsgEventsType, SpreadNothing
<1>6. QED
    BY <1>2, <1>3, <1>5 DEF ms

LEMMA TurnsEvents ==
    ASSUME NEW ts \in Seq(AMsgs)
    PROVE  Spread(TurnOf, ts) \in Seq(Msgs)
           /\ Spread(MsgEvents, Spread(TurnOf, ts)) = Spread(AEvents, ts)
<1>1. Spread(TurnOf, ts) \in Seq(Msgs)
    BY TurnOfType, SpreadType
<1>2. \A m \in AMsgs : Spread(MsgEvents, TurnOf[m]) = AEvents[m]
    BY TurnEvents
<1>3. Spread(MsgEvents, Spread(TurnOf, ts)) = Spread(AEvents, ts)
    BY <1>2, TurnOfType, MsgEventsType, SpreadSpread
<1>4. QED
    BY <1>1, <1>3

\* The messages of a request of Anthropic's.
LEMMA MessagesAre ==
    ASSUME NEW b, b.turns \in Seq(AMsgs), b.system \in Seq(Seq(Pieces))
    PROVE  /\ A!Messages(b) = Each(SystemOf, b.system) \o Spread(TurnOf, b.turns)
           /\ Each(SystemOf, b.system) \in Seq(Msgs) /\ Spread(TurnOf, b.turns) \in Seq(Msgs)
           /\ A!Messages(b) \in Seq(Msgs)
           /\ Spread(MsgEvents, A!Messages(b)) = Spread(AEvents, b.turns)
<1> DEFINE first == Each(SystemOf, b.system)
           ts == b.turns
           then == Spread(TurnOf, ts)
<1>1. first \in Seq(Msgs) /\ Spread(MsgEvents, first) = <<>>
    BY SystemsAre
<1>2. [i \in DOMAIN ts |-> A!Turn(ts[i])] = Each(TurnOf, ts)
    BY DEF Each, TurnOf
<1>3. A!Messages(b) = first \o then
    BY <1>2, SystemsAre, SameFlattenA DEF A!Messages, Spread
<1>4. then \in Seq(Msgs) /\ Spread(MsgEvents, then) = Spread(AEvents, ts)
    BY TurnsEvents
<1> HIDE DEF first, then
<1>5. Spread(MsgEvents, first \o then) = Spread(MsgEvents, first) \o Spread(MsgEvents, then)
    <2>1. \A p, q : p \in Seq(Msgs) /\ q \in Seq(Msgs) =>
            Spread(MsgEvents, p \o q) = Spread(MsgEvents, p) \o Spread(MsgEvents, q)
        BY MsgEventsType, SpreadConcat
    <2>2. QED
        BY <1>1, <1>4, <2>1, Zenon
<1>6. Spread(MsgEvents, then) \in Seq(Events)
    BY <1>4, MsgEventsType, SpreadType
<1>7. <<>> \o Spread(MsgEvents, then) = Spread(MsgEvents, then)
    BY <1>6
<1>8. first \o then \in Seq(Msgs)
    BY <1>1, <1>4, ConcatType
<1>9. QED
    BY <1>1, <1>3, <1>4, <1>5, <1>7, <1>8 DEF first, then
-----------------------------------------------------------------------------
(* What is sent.                                                           *)

MarshalOf == [x \in Items |-> Marshalled(x)]

LEMMA MarshalType == MarshalOf \in [Items -> Items]
<1>1. ASSUME NEW x \in Items PROVE Marshalled(x) \in Items
    BY DEF Marshalled, Items
<1>2. QED
    BY <1>1 DEF MarshalOf

LEMMA MarshalledEvents ==
    ASSUME NEW xs \in Seq(Items)
    PROVE  /\ [i \in DOMAIN xs |-> Marshalled(xs[i])] = Each(MarshalOf, xs)
           /\ Each(MarshalOf, xs) \in Seq(Items)
           /\ Spread(ItemEvents, Each(MarshalOf, xs)) = Spread(ItemEvents, xs)
<1>1. [i \in DOMAIN xs |-> Marshalled(xs[i])] = Each(MarshalOf, xs)
    BY DEF Each, MarshalOf
<1>2. Through(ItemEvents, MarshalOf, ItemEvents, Items)
    <2>1. ASSUME NEW x \in Items PROVE ItemEvents[MarshalOf[x]] = ItemEvents[x]
        <3>1. MarshalOf[x] \in Items
            BY MarshalType
        <3>2. MarshalOf[x].type = x.type /\ MarshalOf[x].id = x.id
            BY DEF MarshalOf, Marshalled, Items
        <3>3. QED
            BY <3>1, <3>2 DEF ItemEvents
    <2>2. QED
        BY <2>1 DEF Through
<1>3. Spread(ItemEvents, Each(MarshalOf, xs)) = Spread(ItemEvents, xs)
    BY <1>2, SpreadEach
<1>4. Each(MarshalOf, xs) \in Seq(Items)
    BY MarshalType, EachAny
<1>5. QED
    BY <1>1, <1>3, <1>4

\* A request that is sent has its messages or its items.
LEMMA SentCodex ==
    ASSUME NEW req, NEW doc, doc = MarshalCodex(req), req.messages \in Seq(Msgs)
    PROVE  /\ doc.messages = <<>>
           /\ doc.items = IF req.codexInput # <<>> THEN req.codexInput
                          ELSE Each(MarshalOf, Spread(ItemsOf, req.messages))
           /\ doc.instructions =
                IF req.codexInput # <<>> THEN Optional(req.codexInstructions)
                ELSE IF SystemTexts(req.messages) = <<>> THEN <<>>
                     ELSE <<Flatten(SystemTexts(req.messages))>>
<1> DEFINE items == Flatten([i \in DOMAIN req.messages |-> CodexItems(req.messages[i])])
<1>1. items = Spread(ItemsOf, req.messages) /\ items \in Seq(Items)
    BY MessagesEvents
<1> HIDE DEF items
<1>2. [i \in DOMAIN items |-> Marshalled(items[i])] = Each(MarshalOf, items)
    BY <1>1, MarshalledEvents
<1>3. QED
    BY <1>1, <1>2 DEF MarshalCodex, Sent, items

ItemsSent(doc) ==
    doc.items \o Flatten([i \in DOMAIN doc.messages |-> CodexItems(doc.messages[i])])

LEMMA SentEvents ==
    ASSUME NEW provider \in Providers, NEW req, NEW doc, doc = Marshal(provider, req),
           req.messages \in Seq(Msgs), req.codexInput \in Seq(Items)
    PROVE  /\ ItemsSent(doc) =
                IF provider = "codex"
                THEN IF req.codexInput # <<>> THEN req.codexInput
                     ELSE Each(MarshalOf, Spread(ItemsOf, req.messages))
                ELSE Spread(ItemsOf, req.messages)
           /\ ItemsSent(doc) \in Seq(Items)
           /\ Spread(ItemEvents, ItemsSent(doc)) =
                IF provider = "codex" /\ req.codexInput # <<>>
                THEN Spread(ItemEvents, req.codexInput)
                ELSE Spread(MsgEvents, req.messages)
<1> DEFINE ms == req.messages
           xs == Spread(ItemsOf, ms)
<1>1. /\ Flatten([i \in DOMAIN ms |-> CodexItems(ms[i])]) = xs /\ xs \in Seq(Items)
      /\ Spread(ItemEvents, xs) = Spread(MsgEvents, ms)
    BY MessagesEvents
<1>2. CASE provider = "codex"
    <2>1. /\ doc.messages = <<>>
          /\ doc.items = IF req.codexInput # <<>> THEN req.codexInput ELSE Each(MarshalOf, xs)
        BY <1>2, SentCodex DEF Marshal
    <2>2. Flatten([i \in DOMAIN doc.messages |-> CodexItems(doc.messages[i])]) = <<>>
        <3>1. [i \in DOMAIN doc.messages |-> CodexItems(doc.messages[i])] = <<>>
            BY <2>1
        <3>2. QED
            BY <3>1, FlattenNone
    <2> HIDE DEF xs
    <2>3. Each(MarshalOf, xs) \in Seq(Items)
          /\ Spread(ItemEvents, Each(MarshalOf, xs)) = Spread(ItemEvents, xs)
        BY <1>1, MarshalledEvents
    <2>4. doc.items \in Seq(Items) /\ ItemsSent(doc) = doc.items
        <3>1. doc.items \in Seq(Items)
            BY <2>1, <2>3
        <3>2. doc.items \o <<>> = doc.items
            BY <3>1
        <3>3. QED
            BY <2>2, <3>1, <3>2 DEF ItemsSent
    <2>5. QED
        BY <1>1, <1>2, <2>1, <2>3, <2>4 DEF xs
<1>3. CASE provider # "codex"
    <2>1. doc.messages = ms /\ doc.items = <<>>
        BY <1>3 DEF Marshal, MarshalHTTP, Sent
    <2> HIDE DEF xs
    <2>2. ItemsSent(doc) = xs
        <3>1. <<>> \o xs = xs
            BY <1>1
        <3>2. QED
            BY <1>1, <2>1, <3>1 DEF ItemsSent
    <2>3. QED
        BY <1>1, <1>3, <2>2 DEF xs
<1>4. QED
    BY <1>2, <1>3

-----------------------------------------------------------------------------
(* The turns of a client.                                                  *)

LEMMA TurnFacts ==
    ASSUME NEW turn \in Turns
    PROVE  /\ turn.kind \in {"system", "user", "result", "assistant", "call"}
           /\ turn.parts \in Seq(Pieces) /\ turn.id \in Ids /\ turn.id \in CallIds \cup {NoId}
           /\ turn.kind \in {"call", "result"} => turn.id \in CallIds
           /\ turn.kind = "call" => turn.parts = <<>>
           /\ turn.kind # "user" => ~HasImage(turn.parts)
<1>1. turn \in [kind : DOMAIN Speaker, parts : Seq(Pieces), id : CallIds \cup {NoId}]
    BY ConversationAssumption
<1>2. DOMAIN Speaker = {"system", "user", "result", "assistant", "call"}
    BY DEF Speaker
<1>3. QED
    BY <1>1, <1>2, ConversationAssumption DEF Ids

LEMMA SpeakerIs ==
    /\ Speaker["system"] = "system" /\ Speaker["user"] = "user" /\ Speaker["result"] = "user"
    /\ Speaker["assistant"] = "assistant" /\ Speaker["call"] = "assistant"
BY DEF Speaker

OneSpeaker(run) == \A i \in DOMAIN run : Speaker[run[i].kind] = Speaker[run[1].kind]
TurnRuns ==
    {run \in Seq(Turns) :
       run # <<>> /\ OneSpeaker(run) /\ (Speaker[run[1].kind] = "system" => Len(run) = 1)}

LEMMA RunSpeaker ==
    ASSUME NEW said \in Seq(Turns), NEW grouped \in BOOLEAN,
           NEW i \in DOMAIN said, NEW j \in i .. Len(said),
           Ends(said, IF grouped THEN Opens(said) ELSE DOMAIN said, i, j)
    PROVE  SubSeq(said, i, j) \in TurnRuns
<1> DEFINE cuts == IF grouped THEN Opens(said) ELSE DOMAIN said
           run == SubSeq(said, i, j)
<1>1. Len(said) \in Nat /\ DOMAIN said = 1 .. Len(said) /\ i \in Nat /\ j \in Nat /\ i <= j
      /\ i \in 1 .. Len(said)
    OBVIOUS
<1>2. /\ run \in Seq(Turns) /\ Len(run) = j - i + 1 /\ run # <<>>
      /\ DOMAIN run = 1 .. (j - i + 1)
      /\ \A k \in 1 .. (j - i + 1) : run[k] = said[i + k - 1]
    BY <1>1, Slice, SliceAt
<1>3. ASSUME NEW k \in (i + 1) .. j
      PROVE  /\ Speaker[said[k].kind] = Speaker[said[k - 1].kind]
             /\ Speaker[said[k].kind] # "system"
    <2>1. k \in DOMAIN said /\ k > 1
        BY <1>1
    <2>2. k \notin Opens(said)
        <3>1. k \notin cuts
            BY DEF Ends
        <3>2. QED
            BY <2>1, <3>1
    <2>3. QED
        BY <2>1, <2>2 DEF Opens
<1> HIDE DEF run
<1> DEFINE N == j - i
           Good == {n \in 0 .. N : Speaker[said[i + n].kind] = Speaker[said[i].kind]}
<1>4. N \in Nat
    BY <1>1
<1>5. 0 \in Good
    <2>1. i + 0 = i
        BY <1>1
    <2>2. 0 \in 0 .. N
        BY <1>4
    <2>3. QED
        BY <2>1, <2>2
<1>6. ASSUME NEW n \in 0 .. N, n \in Good, n # N PROVE n + 1 \in Good
    <2>1. i + (n + 1) \in (i + 1) .. j /\ (i + (n + 1)) - 1 = i + n /\ n + 1 \in 0 .. N
        BY <1>1, <1>6
    <2>2. Speaker[said[i + (n + 1)].kind] = Speaker[said[i + n].kind]
        BY <1>3, <2>1
    <2>3. QED
        BY <1>6, <2>1, <2>2
<1>7. 0 .. N \subseteq Good
    <2> HIDE DEF Good, N
    <2>1. \A n \in 0 .. N : n \in Good /\ n # N => n + 1 \in Good
        BY <1>6
    <2>2. QED
        BY <1>4, <1>5, <2>1, Inductive
<1>8. run[1] = said[i]
    BY <1>1, <1>2
<1>9. OneSpeaker(run)
    <2>1. ASSUME NEW k \in DOMAIN run PROVE Speaker[run[k].kind] = Speaker[run[1].kind]
        <3>1. k - 1 \in 0 .. N /\ i + (k - 1) = i + k - 1
            BY <1>1, <1>2
        <3>2. run[k] = said[i + (k - 1)]
            BY <1>2, <3>1
        <3>3. k - 1 \in Good
            BY <1>7, <3>1
        <3>4. QED
            BY <1>8, <3>2, <3>3
    <2>2. QED
        BY <2>1 DEF OneSpeaker
<1>10. Speaker[run[1].kind] = "system" => Len(run) = 1
    <2>1. CASE i = j
        BY <1>1, <1>2, <2>1
    <2>2. CASE i # j
        <3>1. i + 1 \in (i + 1) .. j /\ (i + 1) - 1 = i
            BY <1>1, <2>2
        <3>2. QED
            BY <1>3, <1>8, <3>1
    <2>3. QED
        BY <2>1, <2>2
<1>11. QED
    BY <1>2, <1>9, <1>10 DEF TurnRuns, run

LEMMA SaidRuns ==
    ASSUME NEW said \in Seq(Turns), NEW grouped \in BOOLEAN
    PROVE  /\ Runs(said, grouped) \in Seq(TurnRuns) /\ Runs(said, grouped) \in Seq(Seq(Turns))
           /\ Flatten(Runs(said, grouped)) = said
<1> DEFINE cuts == IF grouped THEN Opens(said) ELSE DOMAIN said
           runs == Cut(said, cuts)
<1>1. Runs(said, grouped) = runs
    BY DEF Runs
<1>2. runs \in Seq(Seq(Turns))
    BY CutType
<1>3. ASSUME NEW n \in DOMAIN runs PROVE runs[n] \in TurnRuns
    <2>1. PICK i \in DOMAIN said : \E j \in i .. Len(said) :
            runs[n] = SubSeq(said, i, j) /\ Ends(said, cuts, i, j)
        BY CutRuns
    <2>2. PICK j \in i .. Len(said) : runs[n] = SubSeq(said, i, j) /\ Ends(said, cuts, i, j)
        BY <2>1
    <2>3. SubSeq(said, i, j) \in TurnRuns
        BY <2>2, RunSpeaker
    <2>4. QED
        BY <2>2, <2>3
<1>4. Flatten(runs) = said
    <2>1. Len(said) \in Nat /\ DOMAIN said = 1 .. Len(said)
        OBVIOUS
    <2>2. said # <<>> => 1 \in DOMAIN said
        BY <2>1
    <2>3. said # <<>> => 1 \in cuts
        BY <2>2 DEF Opens
    <2> HIDE DEF cuts
    <2>4. QED
        BY <2>3, CutFlatten
<1> HIDE DEF runs
<1>5. runs \in Seq(TurnRuns)
    BY <1>2, <1>3
<1>6. QED
    BY <1>1, <1>2, <1>4, <1>5

RunFacts(run) ==
    /\ run \in Seq(Turns) /\ run # <<>> /\ Head(run) = run[1] /\ 1 \in DOMAIN run
    /\ Speaker[run[1].kind] \in {"system", "user", "assistant"}
    /\ \A i \in DOMAIN run :
         /\ run[i] \in Turns
         /\ Speaker[run[i].kind] = Speaker[run[1].kind]
         /\ Speaker[run[1].kind] = "assistant" <=> run[i].kind \in {"assistant", "call"}
         /\ Speaker[run[1].kind] = "user" <=> run[i].kind \in {"user", "result"}
         /\ Speaker[run[1].kind] = "system" <=> run[i].kind = "system"
    /\ Speaker[run[1].kind] = "system" => run = <<run[1]>>

LEMMA TurnRunFacts == ASSUME NEW run \in TurnRuns PROVE RunFacts(run)
<1>1. run \in Seq(Turns) /\ run # <<>> /\ OneSpeaker(run)
      /\ (Speaker[run[1].kind] = "system" => Len(run) = 1)
    BY DEF TurnRuns
<1>2. Head(run) = run[1] /\ 1 \in DOMAIN run /\ (Len(run) = 1 => run = <<run[1]>>)
    BY <1>1
<1>3. ASSUME NEW i \in DOMAIN run
      PROVE  /\ run[i] \in Turns
             /\ Speaker[run[i].kind] = Speaker[run[1].kind]
             /\ Speaker[run[1].kind] \in {"system", "user", "assistant"}
             /\ Speaker[run[1].kind] = "assistant" <=> run[i].kind \in {"assistant", "call"}
             /\ Speaker[run[1].kind] = "user" <=> run[i].kind \in {"user", "result"}
             /\ Speaker[run[1].kind] = "system" <=> run[i].kind = "system"
    <2>1. run[i] \in Turns
        BY <1>1
    <2>2. Speaker[run[i].kind] = Speaker[run[1].kind]
        BY <1>1 DEF OneSpeaker
    <2>3. run[i].kind \in {"system", "user", "result", "assistant", "call"}
        BY <2>1, TurnFacts
    <2>4. QED
        BY <2>1, <2>2, <2>3, SpeakerIs
<1>4. QED
    BY <1>1, <1>2, <1>3 DEF RunFacts
-----------------------------------------------------------------------------
(* The bodies.                                                             *)

ItemOf == [t \in Turns |-> ResponsesItem(t)]
LEMMA ItemOfType == ItemOf \in [Turns -> RItems]
<1>1. ASSUME NEW t \in Turns PROVE ResponsesItem(t) \in RItems
    <2>1. /\ t.kind \in {"system", "user", "result", "assistant", "call"}
          /\ t.parts \in Seq(Pieces) /\ t.id \in Ids
        BY TurnFacts
    <2>2. DOMAIN ResponsesType = {"call", "result"} /\ ResponsesType["call"] = "function_call"
          /\ ResponsesType["result"] = "function_call_output"
        BY DEF ResponsesType
    <2>3. ResponsesItem(t) \in RItemForms
        BY <2>1, <2>2 DEF ResponsesItem, RItemForms
    <2>4. /\ ResponsesItem(t).role = "none" <=> ResponsesItem(t).type # "message"
          /\ ResponsesItem(t).role = "user" <=> t.kind = "user"
          /\ ResponsesItem(t).type = "function_call" <=> t.kind = "call"
          /\ ResponsesItem(t).parts = t.parts
        BY <2>1, <2>2 DEF ResponsesItem
    <2>5. (t.kind # "user" => ~HasImage(t.parts)) /\ (t.kind = "call" => t.parts = <<>>)
        BY TurnFacts
    <2>6. QED
        BY <2>3, <2>4, <2>5 DEF RItems
<1>2. QED
    BY <1>1 DEF ItemOf

BlockOf == [t \in Turns |-> Block(t)]
LEMMA BlockOfType == BlockOf \in [Turns -> ABlocks]
<1>1. ASSUME NEW t \in Turns PROVE Block(t) \in ABlocks
    <2>1. /\ t.kind \in {"system", "user", "result", "assistant", "call"}
          /\ t.parts \in Seq(Pieces) /\ t.id \in Ids
        BY TurnFacts
    <2>2. /\ BlockType["system"] = "text" /\ BlockType["assistant"] = "text"
          /\ BlockType["call"] = "tool_use" /\ BlockType["result"] = "tool_result"
        BY DEF BlockType
    <2>3. QED
        BY <2>1, <2>2 DEF Block, ABlocks
<1>2. QED
    BY <1>1 DEF BlockOf

AMsgOf ==
    [run \in TurnRuns |-> [role |-> Speaker[Head(run).kind],
                           blocks |-> [j \in DOMAIN run |-> Block(run[j])]]]
LEMMA AMsgOfType == AMsgOf \in [TurnRuns -> AMsgs]
<1>1. ASSUME NEW run \in TurnRuns
      PROVE  [role |-> Speaker[Head(run).kind],
              blocks |-> [j \in DOMAIN run |-> Block(run[j])]] \in AMsgs
    <2>1. RunFacts(run)
        BY TurnRunFacts
    <2>2. run \in Seq(Turns) /\ Head(run) = run[1]
          /\ Speaker[run[1].kind] \in {"system", "user", "assistant"}
        BY <2>1 DEF RunFacts
    <2>3. [j \in DOMAIN run |-> Block(run[j])] = Each(BlockOf, run)
        BY <2>2 DEF Each, BlockOf
    <2>4. Each(BlockOf, run) \in Seq(ABlocks)
        BY <2>2, BlockOfType, EachAny
    <2>5. QED
        BY <2>2, <2>3, <2>4 DEF AMsgs
<1>2. QED
    BY <1>1 DEF AMsgOf

\* A run of a chat client.
ChatTurnOf == [t \in Turns |-> ChatTurn(t)]
LEMMA ChatTurnType ==
    ASSUME NEW t \in Turns, Speaker[t.kind] # "assistant"
    PROVE  /\ ChatTurn(t) \in Msgs
           /\ ChatTurn(t) = CASE t.kind = "result" -> Message("tool", String(t.parts), <<>>, t.id)
                              [] t.kind = "user" ->
                                   Message("user", UserContent(t.parts), <<>>, NoId)
                              [] t.kind = "system" ->
                                   Message("system", String(t.parts), <<>>, NoId)
<1>1. t.kind \in {"system", "user", "result"} /\ t.parts \in Seq(Pieces) /\ t.id \in Ids
    BY TurnFacts, SpeakerIs
<1>2. <<>> \in Seq(Ids) /\ NoId \in Ids
    BY DEF Ids
<1>3. String(t.parts) \in Contents /\ UserContent(t.parts) \in Contents
    BY <1>1, ContentForm DEF UserContent
<1>4. /\ Message("tool", String(t.parts), <<>>, t.id) \in Msgs
      /\ Message("user", UserContent(t.parts), <<>>, NoId) \in Msgs
      /\ Message("system", String(t.parts), <<>>, NoId) \in Msgs
    BY <1>1, <1>2, <1>3, MessageForm
<1>5. QED
    BY <1>1, <1>4 DEF ChatTurn

\* The turns of a kind.
KindOf(kind) == [t \in Turns |-> IF t.kind = kind THEN <<t>> ELSE <<>>]
TurnParts == [t \in Turns |-> t.parts]
TurnId == [t \in Turns |-> t.id]

LEMMA KindOfType == ASSUME NEW kind PROVE Spreads(KindOf(kind), Turns, Turns)
<1>1. ASSUME NEW t \in Turns PROVE KindOf(kind)[t] \in Seq(Turns)
    BY DEF KindOf
<1>2. QED
    BY <1>1 DEF Spreads, KindOf

LEMMA KindIs ==
    ASSUME NEW run \in Seq(Turns), NEW kind
    PROVE  Kind(run, kind) = Spread(KindOf(kind), run) /\ Kind(run, kind) \in Seq(Turns)
<1> DEFINE places == {i \in DOMAIN run : run[i].kind = kind}
<1>1. Kind(run, kind) = Flatten([i \in DOMAIN run |-> IF i \in places THEN <<run[i]>> ELSE <<>>])
    BY DEF Kind, Only
<1>2. \A i \in DOMAIN run : (IF i \in places THEN <<run[i]>> ELSE <<>>) = KindOf(kind)[run[i]]
    BY DEF KindOf
<1>3. [i \in DOMAIN run |-> IF i \in places THEN <<run[i]>> ELSE <<>>] = Each(KindOf(kind), run)
    BY <1>2 DEF Each
<1>4. Kind(run, kind) = Spread(KindOf(kind), run)
    BY <1>1, <1>3 DEF Spread
<1>5. Spread(KindOf(kind), run) \in Seq(Turns)
    BY KindOfType, SpreadType
<1>6. QED
    BY <1>4, <1>5

LEMMA PartsAre ==
    ASSUME NEW ts \in Seq(Turns)
    PROVE  /\ Flatten([i \in DOMAIN ts |-> ts[i].parts]) = Spread(TurnParts, ts)
           /\ Spread(TurnParts, ts) \in Seq(Pieces)
           /\ [i \in DOMAIN ts |-> ts[i].id] = Each(TurnId, ts) /\ Each(TurnId, ts) \in Seq(Ids)
           /\ Spreads(TurnParts, Turns, Pieces) /\ TurnId \in [Turns -> Ids]
<1>1. Spreads(TurnParts, Turns, Pieces) /\ TurnId \in [Turns -> Ids]
    BY TurnFacts DEF Spreads, TurnParts, TurnId
<1>2. [i \in DOMAIN ts |-> ts[i].parts] = Each(TurnParts, ts)
      /\ [i \in DOMAIN ts |-> ts[i].id] = Each(TurnId, ts)
    BY DEF Each, TurnParts, TurnId
<1>3. Spread(TurnParts, ts) \in Seq(Pieces)
    BY <1>1, SpreadType
<1>4. Each(TurnId, ts) \in Seq(Ids)
    BY <1>1, EachAny
<1>5. QED
    BY <1>1, <1>2, <1>3, <1>4 DEF Spread

AssistantRun(run) ==
    Message("assistant",
            IF Kind(run, "assistant") = <<>> THEN Null
            ELSE String(Spread(TurnParts, Kind(run, "assistant"))),
            Each(TurnId, Kind(run, "call")), NoId)

LEMMA ChatRunIs ==
    ASSUME NEW run \in TurnRuns
    PROVE  /\ Speaker[run[1].kind] # "assistant" =>
                ChatRun(run) = Each(ChatTurnOf, run)
           /\ Speaker[run[1].kind] = "assistant" =>
                ChatRun(run) = <<AssistantRun(run)>> /\ AssistantRun(run) \in Msgs
           /\ ChatRun(run) \in Seq(Msgs)
<1>1. RunFacts(run)
    BY TurnRunFacts
<1>2. run \in Seq(Turns) /\ Head(run) = run[1]
      /\ \A i \in DOMAIN run : run[i] \in Turns /\ Speaker[run[i].kind] = Speaker[run[1].kind]
    BY <1>1 DEF RunFacts
<1>3. CASE Speaker[run[1].kind] # "assistant"
    <2>1. ChatRun(run) = [i \in DOMAIN run |-> ChatTurn(run[i])]
        BY <1>2, <1>3 DEF ChatRun
    <2>2. \A i \in DOMAIN run : ChatTurn(run[i]) \in Msgs
        BY <1>2, <1>3, ChatTurnType
    <2>3. [i \in DOMAIN run |-> ChatTurn(run[i])] \in Seq(Msgs)
        BY <1>2, <2>2
    <2>4. [i \in DOMAIN run |-> ChatTurn(run[i])] = Each(ChatTurnOf, run)
        BY <1>2 DEF Each, ChatTurnOf
    <2>5. QED
        BY <1>3, <2>1, <2>3, <2>4
<1>4. CASE Speaker[run[1].kind] = "assistant"
    <2> DEFINE texts == Kind(run, "assistant")
               calls == Kind(run, "call")
               content == IF texts = <<>> THEN Null ELSE String(Spread(TurnParts, texts))
    <2>1. texts \in Seq(Turns) /\ calls \in Seq(Turns)
        BY <1>2, KindIs
    <2> HIDE DEF texts, calls
    <2>2. /\ Flatten([i \in DOMAIN texts |-> texts[i].parts]) = Spread(TurnParts, texts)
          /\ Spread(TurnParts, texts) \in Seq(Pieces)
          /\ [i \in DOMAIN calls |-> calls[i].id] = Each(TurnId, calls)
          /\ Each(TurnId, calls) \in Seq(Ids)
        BY <2>1, PartsAre
    <2>3. ChatRun(run) = <<Message("assistant", content, Each(TurnId, calls), NoId)>>
        BY <1>2, <1>4, <2>2 DEF ChatRun, texts, calls
    <2>4. content \in Contents
        BY <2>2, ContentForm
    <2> HIDE DEF content
    <2>5. Message("assistant", content, Each(TurnId, calls), NoId) \in Msgs
        BY <2>2, <2>4, MessageForm DEF Ids
    <2>6. AssistantRun(run) = Message("assistant", content, Each(TurnId, calls), NoId)
        BY DEF AssistantRun, content, texts, calls
    <2>7. \A m \in Msgs : <<m>> \in Seq(Msgs)
        OBVIOUS
    <2>8. QED
        BY <1>4, <2>3, <2>5, <2>6, <2>7
<1>5. QED
    BY <1>3, <1>4

Lifted(q) == q.grouped /\ q.said # <<>> /\ q.said[1].kind = "system" /\ q.dialect # "chat"
Rest(q) == IF Lifted(q) THEN Tail(q.said) ELSE q.said
\* The request a chat client has written.
ChatBody(q) ==
    [ChatRequest(Body(q).turns, Body(q).options) EXCEPT
       !.stream = Body(q).stream, !.tools = Body(q).tools, !.toolChoice = Body(q).toolChoice]

Telling(q) == q.said \in Seq(Turns) /\ q.grouped \in BOOLEAN
ChatOfRun == [run \in TurnRuns |-> ChatRun(run)]

LEMMA ChatOfRunType == Spreads(ChatOfRun, TurnRuns, Msgs)
BY ChatRunIs DEF Spreads, ChatOfRun

LEMMA RestIs ==
    ASSUME NEW q, Telling(q)
    PROVE  /\ Rest(q) \in Seq(Turns) /\ (Lifted(q) => q.said[1] \in Turns)
           /\ Runs(Rest(q), q.grouped) \in Seq(TurnRuns)
           /\ Runs(Rest(q), q.grouped) \in Seq(Seq(Turns))
           /\ Flatten(Runs(Rest(q), q.grouped)) = Rest(q)
<1>1. q.said \in Seq(Turns)
    BY DEF Telling
<1>2. ASSUME q.said # <<>> PROVE q.said[1] \in Turns /\ Tail(q.said) \in Seq(Turns)
    BY <1>1, <1>2
<1>3. Rest(q) \in Seq(Turns) /\ (Lifted(q) => q.said[1] \in Turns)
    BY <1>1, <1>2 DEF Rest, Lifted
<1>4. QED
    BY <1>3, SaidRuns DEF Telling

LEMMA BodySystem ==
    ASSUME NEW q, Telling(q)
    PROVE  /\ Body(q).system = IF Lifted(q) THEN <<q.said[1].parts>> ELSE <<>>
           /\ Body(q).system \in Seq(Seq(Pieces)) /\ Flatten(Body(q).system) \in Seq(Pieces)
           /\ Flatten(Body(q).system) = IF Lifted(q) THEN q.said[1].parts ELSE <<>>
<1>1. Body(q).system = IF Lifted(q) THEN <<q.said[1].parts>> ELSE <<>>
    BY DEF Body, Lifted
<1>2. CASE Lifted(q)
    <2>1. q.said[1].parts \in Seq(Pieces)
        BY <1>2, RestIs, TurnFacts
    <2>2. \A parts \in Seq(Pieces) : <<parts>> \in Seq(Seq(Pieces)) /\ Flatten(<<parts>>) = parts
        <3>1. ASSUME NEW parts \in Seq(Pieces)
              PROVE  <<parts>> \in Seq(Seq(Pieces)) /\ Flatten(<<parts>>) = parts
            <4>1. Flatten(<<parts>>) = parts
                BY FlattenOne
            <4>2. ASSUME NEW S, NEW x \in S PROVE <<x>> \in Seq(S)
                OBVIOUS
            <4>3. QED
                BY <4>1, <4>2
        <3>2. QED
            BY <3>1
    <2>3. QED
        BY <1>1, <1>2, <2>1, <2>2
<1>3. CASE ~Lifted(q)
    <2>1. <<>> \in Seq(Seq(Pieces)) /\ <<>> \in Seq(Pieces)
        OBVIOUS
    <2>2. QED
        BY <1>1, <1>3, <2>1, FlattenNone
<1>4. QED
    BY <1>2, <1>3

LEMMA BodyTurns ==
    ASSUME NEW q, Telling(q)
    PROVE  /\ q.dialect = "chat" =>
                /\ Rest(q) = q.said
                /\ Body(q).turns = Spread(ChatOfRun, Runs(Rest(q), q.grouped))
                /\ Body(q).turns \in Seq(Msgs)
           /\ q.dialect = "responses" =>
                Body(q).turns = Each(ItemOf, Rest(q)) /\ Body(q).turns \in Seq(RItems)
           /\ q.dialect \in {"anthropic", "count_tokens"} =>
                /\ Body(q).turns = Each(AMsgOf, Runs(Rest(q), q.grouped))
                /\ Body(q).turns \in Seq(AMsgs)
<1> DEFINE rest == Rest(q)
           runs == Runs(rest, q.grouped)
<1>1. rest \in Seq(Turns) /\ runs \in Seq(TurnRuns)
    BY RestIs
<1>2. Body(q).turns =
        CASE q.dialect = "chat" -> Flatten([i \in DOMAIN runs |-> ChatRun(runs[i])])
          [] q.dialect = "responses" -> [i \in DOMAIN rest |-> ResponsesItem(rest[i])]
          [] OTHER ->
               [i \in DOMAIN runs |->
                  [role |-> Speaker[Head(runs[i]).kind],
                   blocks |-> [j \in DOMAIN runs[i] |-> Block(runs[i][j])]]]
    BY DEF Body, Rest, Lifted
<1> HIDE DEF runs
<1>3. q.dialect = "chat" => rest = q.said
    BY DEF Rest, Lifted
<1> HIDE DEF rest
<1>4. [i \in DOMAIN runs |-> ChatRun(runs[i])] = Each(ChatOfRun, runs)
    BY <1>1 DEF Each, ChatOfRun
<1>5. [i \in DOMAIN rest |-> ResponsesItem(rest[i])] = Each(ItemOf, rest)
    BY <1>1 DEF Each, ItemOf
<1>6. [i \in DOMAIN runs |->
         [role |-> Speaker[Head(runs[i]).kind],
          blocks |-> [j \in DOMAIN runs[i] |-> Block(runs[i][j])]]] = Each(AMsgOf, runs)
    BY <1>1 DEF Each, AMsgOf
<1>7. Spread(ChatOfRun, runs) \in Seq(Msgs)
    BY <1>1, ChatOfRunType, SpreadType
<1>8. Each(ItemOf, rest) \in Seq(RItems)
    BY <1>1, ItemOfType, EachAny
<1>9. Each(AMsgOf, runs) \in Seq(AMsgs)
    BY <1>1, AMsgOfType, EachAny
<1>10. CASE q.dialect = "chat"
    BY <1>2, <1>3, <1>4, <1>7, <1>10 DEF Spread, rest, runs
<1>11. CASE q.dialect = "responses"
    BY <1>2, <1>5, <1>8, <1>11 DEF rest, runs
<1>12. CASE q.dialect \in {"anthropic", "count_tokens"}
    BY <1>2, <1>6, <1>9, <1>12 DEF rest, runs
<1>13. QED
    BY <1>10, <1>11, <1>12
-----------------------------------------------------------------------------
(* What a request is like when it is sent.                                 *)

Prepared(q, req) ==
    /\ q.dialect \in {"chat", "responses", "anthropic"} /\ q.provider \in Providers
    /\ q.dialect = "chat" => req.messages = Body(q).turns /\ req.codexInput = <<>>
    /\ q.dialect = "responses" =>
         /\ R!DecodeResponses(Body(q)) /\ R!Convertible(q.provider, Body(q))
         /\ req = R!ToChatCompletionRequest(q.provider, Body(q))
    /\ q.dialect = "anthropic" =>
         A!Possible(Body(q)) /\ req = A!ToChatCompletion(q.provider, Body(q))
    /\ Validate(req) /\ ValidateChatRequest(q.provider, req)

LEMMA PreparedIs ==
    ASSUME NEW q, Telling(q), NEW req, Prepared(q, req)
    PROVE  /\ q.dialect = "chat" => req.messages = Body(q).turns /\ req.codexInput = <<>>
           /\ q.dialect = "responses" /\ q.provider = "codex" =>
                /\ req.messages = <<>> /\ req.codexInput = R!CodexInput(Body(q).turns)
                /\ req.codexInstructions = R!InstructionsOf(Body(q))
           /\ q.dialect = "responses" /\ q.provider # "codex" =>
                req.messages = R!InputToChatMessages(Body(q)) /\ req.codexInput = <<>>
           /\ q.dialect = "anthropic" =>
                req.messages = A!Messages(Body(q)) /\ req.codexInput = <<>>
<1>1. CASE q.dialect = "chat"
    BY <1>1 DEF Prepared
<1>2. CASE q.dialect = "responses"
    BY <1>2 DEF Prepared, R!ToChatCompletionRequest, R!Preserves, R!ChatRequest
<1>3. CASE q.dialect = "anthropic"
    BY <1>3 DEF Prepared, A!ToChatCompletion, A!ChatRequest
<1>4. QED
    BY <1>1, <1>2, <1>3 DEF Prepared

LEMMA PreparedType ==
    ASSUME NEW q, Telling(q), NEW req, Prepared(q, req)
    PROVE  req.messages \in Seq(Msgs) /\ req.codexInput \in Seq(Items)
<1>1. <<>> \in Seq(Msgs) /\ <<>> \in Seq(Items)
    OBVIOUS
<1>2. q.dialect \in {"chat", "responses", "anthropic"}
    BY DEF Prepared
<1>3. CASE q.dialect = "chat"
    BY <1>1, <1>3, PreparedIs, BodyTurns
<1>4. CASE q.dialect = "responses"
    <2>1. Body(q).turns \in Seq(RItems) /\ Flatten(Body(q).system) \in Seq(Pieces)
        BY <1>4, BodyTurns, BodySystem
    <2>2. R!CodexInput(Body(q).turns) \in Seq(Items)
        BY <2>1, InputIs
    <2>3. R!InputToChatMessages(Body(q)) \in Seq(Msgs)
        BY <2>1, InputMessages
    <2>4. QED
        BY <1>1, <1>4, <2>2, <2>3, PreparedIs
<1>5. CASE q.dialect = "anthropic"
    <2>1. Body(q).turns \in Seq(AMsgs) /\ Body(q).system \in Seq(Seq(Pieces))
        BY <1>5, BodyTurns, BodySystem
    <2>2. A!Messages(Body(q)) \in Seq(Msgs)
        BY <2>1, MessagesAre
    <2>3. QED
        BY <1>1, <1>5, <2>2, PreparedIs
<1>6. QED
    BY <1>2, <1>3, <1>4, <1>5

\* The calls and results that are sent are tidy, but of a chat client to a provider
\* that takes its messages as they are.
LEMMA TidySent ==
    ASSUME NEW q, Telling(q), NEW req, Prepared(q, req),
           ~(q.dialect = "chat" /\ q.provider # "codex")
    PROVE  /\ ItemsSent(Marshal(q.provider, req)) \in Seq(Items)
           /\ Tidy(Spread(ItemEvents, ItemsSent(Marshal(q.provider, req))))
<1> DEFINE doc == Marshal(q.provider, req)
           ms == req.messages
           ev == Spread(ItemEvents, ItemsSent(doc))
<1>1. ms \in Seq(Msgs) /\ req.codexInput \in Seq(Items)
    BY PreparedType
<1>2. q.provider \in Providers /\ q.dialect \in {"chat", "responses", "anthropic"}
    BY DEF Prepared
<1>3. /\ ItemsSent(doc) \in Seq(Items)
      /\ ev = IF q.provider = "codex" /\ req.codexInput # <<>>
              THEN Spread(ItemEvents, req.codexInput) ELSE Spread(MsgEvents, ms)
    BY <1>1, <1>2, SentEvents
<1> HIDE DEF ev, doc
<1>4. ASSUME ev = Spread(MsgEvents, ms), q.provider = "codex" PROVE Tidy(ev)
    <2>1. CodexToolTranscript(ms)
        BY <1>4 DEF Prepared, ValidateChatRequest
    <2>2. TidyBy(MsgEvents, ms)
        BY <1>1, <2>1, TranscriptTidy
    <2> HIDE DEF ms
    <2>3. Tidy(Spread(MsgEvents, ms))
        BY <1>1, <2>2, MsgEventsType, TidyPlaces
    <2>4. QED
        BY <1>4, <2>3
<1>5. ASSUME q.dialect = "chat" PROVE Tidy(ev)
    BY <1>3, <1>4, <1>5, PreparedIs
<1>6. ASSUME q.dialect = "responses" PROVE Tidy(ev)
    <2> DEFINE rs == Body(q).turns
    <2>1. rs \in Seq(RItems) /\ Flatten(Body(q).system) \in Seq(Pieces) /\ R!ToolTranscript(rs)
        BY <1>6, BodyTurns, BodySystem DEF Prepared, R!DecodeResponses
    <2>2. Tidy(Spread(RItemEvents, rs))
        BY <2>1, ToolsTidy
    <2>3. CASE q.provider = "codex" /\ req.codexInput # <<>>
        <3>1. req.codexInput = R!CodexInput(rs)
            BY <1>6, <2>3, PreparedIs
        <3>2. Spread(ItemEvents, R!CodexInput(rs)) = Spread(RItemEvents, rs)
            BY <2>1, InputEvents
        <3>3. QED
            BY <1>3, <2>2, <2>3, <3>1, <3>2
    <2>4. CASE q.provider = "codex" /\ req.codexInput = <<>>
        BY <1>3, <1>4, <2>4
    <2>5. CASE q.provider # "codex"
        <3>1. ms = R!InputToChatMessages(Body(q))
            BY <1>6, <2>5, PreparedIs
        <3>2. Spread(MsgEvents, R!InputToChatMessages(Body(q))) = Spread(RItemEvents, rs)
            BY <2>1, InputMessagesEvents
        <3>3. QED
            BY <1>3, <2>2, <2>5, <3>1, <3>2
    <2>6. QED
        BY <2>3, <2>4, <2>5
<1>7. ASSUME q.dialect = "anthropic" PROVE Tidy(ev)
    <2> DEFINE ts == Body(q).turns
    <2>1. ts \in Seq(AMsgs) /\ Body(q).system \in Seq(Seq(Pieces)) /\ A!ResultsAnswer(ts)
        BY <1>7, BodyTurns, BodySystem DEF Prepared, A!Possible
    <2>2. req.codexInput = <<>> /\ ms = A!Messages(Body(q))
        BY <1>7, PreparedIs
    <2>3. Spread(MsgEvents, A!Messages(Body(q))) = Spread(AEvents, ts)
        BY <2>1, MessagesAre
    <2>4. ASSUME NEW us \in Seq(AMsgs), A!ResultsAnswer(us) PROVE Tidy(Spread(AEvents, us))
        <3>1. TidyBy(AEvents, us)
            BY <2>4, AnswersTidy
        <3>2. QED
            BY <3>1, AEventsType, TidyPlaces
    <2>5. Tidy(Spread(AEvents, ts))
        BY <2>1, <2>4
    <2>6. QED
        BY <1>3, <2>2, <2>3, <2>5
<1>8. Tidy(ev)
    BY <1>2, <1>5, <1>6, <1>7
<1>9. QED
    BY <1>3, <1>8 DEF ev, doc

LEMMA PairedSent ==
    ASSUME NEW q, Telling(q), NEW req, Prepared(q, req),
           ~(q.dialect = "chat" /\ q.provider # "codex")
    PROVE  Paired(ItemsSent(Marshal(q.provider, req)))
BY TidySent, TidyItems

-----------------------------------------------------------------------------
(* What is said, word by word.                                             *)

LEMMA SameEach ==
    ASSUME NEW s, NEW W, NEW V, \A i \in DOMAIN s : W[s[i]] = V[s[i]]
    PROVE  Each(W, s) = Each(V, s) /\ Spread(W, s) = Spread(V, s)
BY DEF Each, Spread

\* An element for each element that there is for each element.
Maps(V, T, U) == V \in [T -> U]
EachFor(V, W, Y, S) == \A x \in S : Each(V, W[x]) = Y[x]
LEMMA EachSpread ==
    ASSUME NEW S, NEW T, NEW U, NEW W, Spreads(W, S, T), NEW V, Maps(V, T, U), NEW Y,
           EachFor(V, W, Y, S), NEW s \in Seq(S)
    PROVE  Each(V, Spread(W, s)) = Spread(Y, s)
<1> DEFINE X == [y \in T |-> <<V[y]>>]
<1>1. Spreads(X, T, U)
    BY DEF Spreads, Maps
<1>2. Singly(X, V, T) /\ V \in [T -> U]
    BY DEF Singly, Maps
<1>3. Spread(W, s) \in Seq(T)
    BY SpreadType
<1> HIDE DEF X
<1>4. ASSUME NEW t \in Seq(T) PROVE Spread(X, t) = Each(V, t)
    BY <1>1, <1>2, SpreadSingles
<1>5. \A x \in S : Spread(X, W[x]) = Y[x]
    <2>1. ASSUME NEW x \in S PROVE Spread(X, W[x]) = Y[x]
        <3>1. W[x] \in Seq(T)
            BY SpreadsValue
        <3>2. Spread(X, W[x]) = Each(V, W[x])
            BY <1>4, <3>1
        <3>3. QED
            BY <3>2 DEF EachFor
    <2>2. QED
        BY <2>1
<1>6. Spread(X, Spread(W, s)) = Spread(Y, s)
    BY <1>1, <1>5, SpreadSpread
<1>7. QED
    BY <1>3, <1>4, <1>6

\* What an element has of the elements it stands for.
LEMMA EachEach ==
    ASSUME NEW S, NEW W, NEW V, NEW Y, Through(V, W, Y, S), NEW s \in Seq(S)
    PROVE  Each(V, Each(W, s)) = Each(Y, s)
<1>1. DOMAIN Each(W, s) = DOMAIN s /\ \A i \in DOMAIN s : Each(W, s)[i] = W[s[i]]
    BY DEF Each
<1>2. \A i \in DOMAIN s : s[i] \in S
    OBVIOUS
<1>3. QED
    BY <1>1, <1>2 DEF Each, Through

LEMMA EachNone == ASSUME NEW V PROVE Each(V, <<>>) = <<>>
BY DEF Each

LEMMA ConcatNone ==
    ASSUME NEW T, NEW s \in Seq(T)
    PROVE  <<>> \o s = s /\ s \o <<>> = s /\ <<>> \in Seq(T)
OBVIOUS

LEMMA OneType == ASSUME NEW T, NEW x \in T PROVE <<x>> \in Seq(T)
OBVIOUS
-----------------------------------------------------------------------------
(* Words.                                                                  *)

Word(by, id, parts) == [by |-> by, id |-> id, parts |-> parts]
WordSet == [by : {"none", "system", "user", "assistant", "function_call", "function_call_output"},
            id : Ids, parts : Seq(Pieces)]
Roles == {"none", "system", "user", "assistant"}
PartWord(by) == [p \in Pieces |-> Word(by, NoId, <<p>>)]
CallWord == [id \in Ids |-> Word("function_call", id, <<>>)]

LEMMA WordFields ==
    ASSUME NEW by, NEW id, NEW parts
    PROVE  /\ Word(by, id, parts).by = by /\ Word(by, id, parts).id = id
           /\ Word(by, id, parts).parts = parts
BY DEF Word

LEMMA WordForm ==
    ASSUME NEW by \in Roles \cup {"function_call", "function_call_output"}, NEW id \in Ids,
           NEW parts \in Seq(Pieces)
    PROVE  Word(by, id, parts) \in WordSet
BY DEF Word, WordSet, Roles

LEMMA PartWordType ==
    ASSUME NEW by \in Roles
    PROVE  PartWord(by) \in [Pieces -> WordSet]
<1>1. ASSUME NEW p \in Pieces PROVE Word(by, NoId, <<p>>) \in WordSet
    <2>1. <<p>> \in Seq(Pieces) /\ NoId \in Ids
        BY DEF Ids
    <2>2. QED
        BY <2>1, WordForm
<1>2. QED
    BY <1>1 DEF PartWord

LEMMA CallWordType == CallWord \in [Ids -> WordSet]
<1>1. ASSUME NEW id \in Ids PROVE Word("function_call", id, <<>>) \in WordSet
    <2>1. <<>> \in Seq(Pieces)
        OBVIOUS
    <2>2. QED
        BY <2>1, WordForm
<1>2. QED
    BY <1>1 DEF CallWord

LEMMA PartWordsType ==
    ASSUME NEW by \in Roles, NEW parts \in Seq(Pieces)
    PROVE  Each(PartWord(by), parts) \in Seq(WordSet)
BY PartWordType, EachAny

LEMMA CallWordsType ==
    ASSUME NEW ids \in Seq(Ids)
    PROVE  Each(CallWord, ids) \in Seq(WordSet)
BY CallWordType, EachAny

ItemSays ==
    [x \in Items |-> IF x.type = "message" THEN Each(PartWord(x.role), x.parts)
                     ELSE <<Word(x.type, x.id, x.parts)>>]

LEMMA ItemFields ==
    ASSUME NEW x \in Items
    PROVE  /\ x.type \in {"message", "function_call", "function_call_output"}
           /\ x.role \in Roles /\ x.parts \in Seq(Pieces) /\ x.id \in Ids
BY DEF Items, Roles

LEMMA ItemSaysType == Spreads(ItemSays, Items, WordSet)
<1>1. ASSUME NEW x \in Items PROVE ItemSays[x] \in Seq(WordSet)
    <2>1. /\ x.type \in {"message", "function_call", "function_call_output"}
          /\ x.role \in Roles /\ x.parts \in Seq(Pieces) /\ x.id \in Ids
        BY ItemFields
    <2>2. CASE x.type = "message"
        BY <2>1, <2>2, PartWordsType DEF ItemSays
    <2>3. CASE x.type # "message"
        <3>1. Word(x.type, x.id, x.parts) \in WordSet
            BY <2>1, <2>3, WordForm
        <3>2. ItemSays[x] = <<Word(x.type, x.id, x.parts)>>
            BY <2>3 DEF ItemSays
        <3>3. QED
            BY <3>1, <3>2, OneType
    <2>4. QED
        BY <2>2, <2>3
<1>2. QED
    BY <1>1 DEF Spreads, ItemSays

LEMMA WordsAre ==
    ASSUME NEW x \in Items
    PROVE  Words(x) = ItemSays[x]
<1>1. x.parts \in Seq(Pieces)
    BY ItemFields
<1>2. CASE x.type = "message"
    <2>1. [p \in DOMAIN x.parts |-> [by |-> x.role, id |-> NoId, parts |-> <<x.parts[p]>>]]
            = Each(PartWord(x.role), x.parts)
        <3>1. \A p \in DOMAIN x.parts : x.parts[p] \in Pieces
            BY <1>1
        <3>2. QED
            BY <3>1 DEF Each, PartWord, Word
    <2>2. QED
        BY <1>2, <2>1 DEF Words, ItemSays
<1>3. CASE x.type # "message"
    BY <1>3 DEF Words, ItemSays, Word
<1>4. QED
    BY <1>2, <1>3

\* The meaning of items is what they say.
LEMMA MeaningIs ==
    ASSUME NEW xs \in Seq(Items)
    PROVE  Meaning(xs) = Spread(ItemSays, xs)
<1>1. \A i \in DOMAIN xs : xs[i] \in Items
    OBVIOUS
<1>2. \A i \in DOMAIN xs : Words(xs[i]) = ItemSays[xs[i]]
    BY <1>1, WordsAre
<1>3. [i \in DOMAIN xs |-> Words(xs[i])] = Each(ItemSays, xs)
    BY <1>2 DEF Each
<1>4. QED
    BY <1>3 DEF Meaning, Spread

\* What messages say, the system's instructions too.
MsgSays ==
    [m \in Msgs |->
       CASE m.role = "assistant" ->
              (IF m.content.form = "string" THEN Each(PartWord("assistant"), m.content.parts)
               ELSE <<>>) \o Each(CallWord, m.calls)
         [] m.role = "tool" -> <<Word("function_call_output", m.id, m.content.parts)>>
         [] OTHER -> Each(PartWord(m.role), m.content.parts)]
NotSys == [w \in WordSet |-> IF w.by = "system" THEN <<>> ELSE <<w>>]
SysParts == [w \in WordSet |-> IF w.by = "system" THEN w.parts ELSE <<>>]

LEMMA MsgFields ==
    ASSUME NEW m \in Msgs
    PROVE  /\ m.role \in {"system", "user", "assistant", "tool"} /\ m.content.parts \in Seq(Pieces)
           /\ m.calls \in Seq(Ids) /\ m.id \in Ids /\ NoId \in Ids
BY DEF Msgs, Contents, Ids

LEMMA MsgSaysType == Spreads(MsgSays, Msgs, WordSet)
<1>1. ASSUME NEW m \in Msgs PROVE MsgSays[m] \in Seq(WordSet)
    <2>1. /\ m.role \in {"system", "user", "assistant", "tool"} /\ m.content.parts \in Seq(Pieces)
          /\ m.calls \in Seq(Ids) /\ m.id \in Ids
        BY MsgFields
    <2>2. CASE m.role = "assistant"
        <3> DEFINE text == IF m.content.form = "string"
                           THEN Each(PartWord("assistant"), m.content.parts) ELSE <<>>
        <3>1. text \in Seq(WordSet)
            <4>1. Each(PartWord("assistant"), m.content.parts) \in Seq(WordSet)
                BY <2>1, PartWordsType DEF Roles
            <4>2. QED
                BY <4>1
        <3>2. Each(CallWord, m.calls) \in Seq(WordSet)
            BY <2>1, CallWordsType
        <3>3. MsgSays[m] = text \o Each(CallWord, m.calls)
            BY <2>2 DEF MsgSays
        <3> HIDE DEF text
        <3>4. QED
            BY <3>1, <3>2, <3>3, ConcatType
    <2>3. CASE m.role = "tool"
        <3>1. Word("function_call_output", m.id, m.content.parts) \in WordSet
            BY <2>1, WordForm
        <3>2. MsgSays[m] = <<Word("function_call_output", m.id, m.content.parts)>>
            BY <2>3 DEF MsgSays
        <3>3. QED
            BY <3>1, <3>2, OneType
    <2>4. CASE m.role \in {"system", "user"}
        <3>1. MsgSays[m] = Each(PartWord(m.role), m.content.parts)
            BY <2>4 DEF MsgSays
        <3>2. QED
            BY <2>1, <2>4, <3>1, PartWordsType DEF Roles
    <2>5. QED
        BY <2>1, <2>2, <2>3, <2>4
<1>2. QED
    BY <1>1 DEF Spreads, MsgSays

LEMMA NotSysType == Spreads(NotSys, WordSet, WordSet)
<1>1. ASSUME NEW w \in WordSet PROVE NotSys[w] \in Seq(WordSet)
    BY DEF NotSys
<1>2. QED
    BY <1>1 DEF Spreads, NotSys

LEMMA SysPartsType == Spreads(SysParts, WordSet, Pieces)
<1>1. ASSUME NEW w \in WordSet PROVE SysParts[w] \in Seq(Pieces)
    BY DEF SysParts, WordSet
<1>2. QED
    BY <1>1 DEF Spreads, SysParts

LEMMA OthersKept ==
    ASSUME NEW ws \in Seq(WordSet), \A i \in DOMAIN ws : ws[i].by # "system"
    PROVE  Spread(NotSys, ws) = ws /\ Spread(SysParts, ws) = <<>>
<1> DEFINE X == [p \in WordSet |-> <<p>>]
           V == [p \in WordSet |-> p]
<1>1. \A i \in DOMAIN ws : ws[i] \in WordSet
    OBVIOUS
<1>2. \A i \in DOMAIN ws : NotSys[ws[i]] = X[ws[i]] /\ V[ws[i]] = ws[i] /\ SysParts[ws[i]] = <<>>
    BY <1>1 DEF NotSys, SysParts
<1>3. Spreads(X, WordSet, WordSet) /\ Singly(X, V, WordSet) /\ V \in [WordSet -> WordSet]
    BY DEF Spreads, Singly
<1>4. Each(NotSys, ws) = Each(X, ws)
    BY <1>2 DEF Each
<1>5. Each(V, ws) = ws
    BY <1>2 DEF Each
<1>9. \A i \in DOMAIN ws : SysParts[ws[i]] = <<>>
    BY <1>2
<1> HIDE DEF X, V
<1>6. Spread(SysParts, ws) = <<>>
    BY <1>9, SysPartsType, SpreadNothing
<1>7. Spread(X, ws) = Each(V, ws)
    BY <1>3, SpreadSingles
<1>8. QED
    BY <1>4, <1>5, <1>6, <1>7 DEF Spread

\* Of the words of one speaker, all or none are the system's.
LEMMA PartWordsKept ==
    ASSUME NEW by \in Roles, NEW parts \in Seq(Pieces)
    PROVE  /\ Spread(NotSys, Each(PartWord(by), parts))
                = IF by = "system" THEN <<>> ELSE Each(PartWord(by), parts)
           /\ Spread(SysParts, Each(PartWord(by), parts)) = IF by = "system" THEN parts ELSE <<>>
<1> DEFINE ws == Each(PartWord(by), parts)
<1>1. ws \in Seq(WordSet) /\ DOMAIN ws = DOMAIN parts
    BY PartWordsType DEF Each
<1>2. \A i \in DOMAIN parts : parts[i] \in Pieces
    OBVIOUS
<1>3. ASSUME NEW i \in DOMAIN ws
      PROVE  ws[i] \in WordSet /\ ws[i].by = by /\ ws[i].parts = <<parts[i]>>
    <2>1. ws[i] = Word(by, NoId, <<parts[i]>>)
        BY <1>1, <1>2 DEF Each, PartWord
    <2>2. ws[i] \in WordSet
        BY <1>1
    <2>3. QED
        BY <2>1, <2>2, WordFields
<1>4. CASE by = "system"
    <2>1. \A i \in DOMAIN ws : NotSys[ws[i]] = <<>> /\ SysParts[ws[i]] = <<parts[i]>>
        BY <1>3, <1>4 DEF NotSys, SysParts
    <2> HIDE DEF ws
    <2>2. Spread(NotSys, ws) = <<>>
        BY <1>1, <2>1, NotSysType, SpreadNothing
    <2>3. Spread(SysParts, ws) = parts
        <3> DEFINE X == [p \in Pieces |-> <<p>>]
                   V == [p \in Pieces |-> p]
        <3>1. Spreads(X, Pieces, Pieces) /\ Singly(X, V, Pieces) /\ V \in [Pieces -> Pieces]
            BY DEF Spreads, Singly
        <3>2. Each(SysParts, ws) = Each(X, parts)
            BY <1>1, <1>2, <2>1 DEF Each
        <3>3. Each(V, parts) = parts
            BY <1>2 DEF Each
        <3> HIDE DEF X, V
        <3>4. Spread(X, parts) = Each(V, parts)
            BY <3>1, SpreadSingles
        <3>5. QED
            BY <3>2, <3>3, <3>4 DEF Spread
    <2>4. QED
        BY <1>4, <2>2, <2>3 DEF ws
<1>5. CASE by # "system"
    <2>1. \A i \in DOMAIN ws : ws[i].by # "system"
        BY <1>3, <1>5
    <2> HIDE DEF ws
    <2>2. Spread(NotSys, ws) = ws /\ Spread(SysParts, ws) = <<>>
        BY <1>1, <2>1, OthersKept
    <2>3. QED
        BY <1>5, <2>2 DEF ws
<1>6. QED
    BY <1>4, <1>5

LEMMA CallWordsKept ==
    ASSUME NEW ids \in Seq(Ids)
    PROVE  /\ Spread(NotSys, Each(CallWord, ids)) = Each(CallWord, ids)
           /\ Spread(SysParts, Each(CallWord, ids)) = <<>>
<1> DEFINE ws == Each(CallWord, ids)
<1>1. ws \in Seq(WordSet)
    BY CallWordsType
<1>2. \A i \in DOMAIN ids : ids[i] \in Ids
    OBVIOUS
<1>3. \A i \in DOMAIN ws : ws[i].by = "function_call"
    BY <1>2, WordFields DEF Each, CallWord
<1> HIDE DEF ws
<1>4. Spread(NotSys, ws) = ws /\ Spread(SysParts, ws) = <<>>
    BY <1>1, <1>3, OthersKept
<1>5. QED
    BY <1>4 DEF ws

LEMMA OneKept ==
    ASSUME NEW w \in WordSet, w.by # "system"
    PROVE  Spread(NotSys, <<w>>) = <<w>> /\ Spread(SysParts, <<w>>) = <<>>
<1>1. <<w>> \in Seq(WordSet) /\ \A i \in DOMAIN <<w>> : <<w>>[i].by # "system"
    OBVIOUS
<1>2. QED
    BY <1>1, OthersKept

LEMMA ConcatKept ==
    ASSUME NEW s \in Seq(WordSet), NEW t \in Seq(WordSet)
    PROVE  /\ Spread(NotSys, s \o t) = Spread(NotSys, s) \o Spread(NotSys, t)
           /\ Spread(SysParts, s \o t) = Spread(SysParts, s) \o Spread(SysParts, t)
BY NotSysType, SysPartsType, SpreadConcat

SysOf == [m \in Msgs |-> IF m.role = "system" THEN m.content.parts ELSE <<>>]

\* An item of a message says what its words say.
LEMMA ItemSaid ==
    ASSUME NEW type \in {"message", "function_call_output"}, NEW role \in Roles,
           NEW parts \in Seq(Pieces), NEW id \in Ids
    PROVE  /\ Item(type, role, parts, id) \in Items
           /\ Spread(ItemSays, <<Item(type, role, parts, id)>>)
                = IF type = "message" THEN Each(PartWord(role), parts)
                  ELSE <<Word(type, id, parts)>>
<1> DEFINE x == Item(type, role, parts, id)
<1>1. x \in Items /\ x.type = type /\ x.role = role /\ x.parts = parts /\ x.id = id
    BY DEF Item, Items, Roles
<1> HIDE DEF x
<1>2. ItemSays[x] = IF type = "message" THEN Each(PartWord(role), parts)
                    ELSE <<Word(type, id, parts)>>
    BY <1>1 DEF ItemSays
<1>3. Spread(ItemSays, <<x>>) = ItemSays[x]
    BY <1>1, ItemSaysType, SpreadOne
<1>4. QED
    BY <1>1, <1>2, <1>3 DEF x

LEMMA CallsSaid ==
    ASSUME NEW calls \in Seq(Ids)
    PROVE  Spread(ItemSays, CodexCalls(calls)) = Each(CallWord, calls)
<1> DEFINE X == [id \in Ids |-> <<CallWord[id]>>]
<1>1. CodexCalls(calls) = Each(CallItem, calls)
    BY DEF CodexCalls, Each, CallItem
<1>2. Through(ItemSays, CallItem, X, Ids)
    <2>1. ASSUME NEW id \in Ids PROVE ItemSays[CallItem[id]] = <<Word("function_call", id, <<>>)>>
        <3>1. CallItem[id] \in Items
            BY CallItemType
        <3>2. /\ CallItem[id].type = "function_call" /\ CallItem[id].id = id
              /\ CallItem[id].parts = <<>>
            BY DEF CallItem, Item
        <3>3. QED
            BY <3>1, <3>2 DEF ItemSays
    <2>2. QED
        BY <2>1 DEF CallWord, Through
<1>3. Spreads(X, Ids, WordSet)
    BY CallWordType DEF Spreads
<1>4. Singly(X, CallWord, Ids)
    BY DEF Singly
<1> HIDE DEF X
<1>5. Spread(ItemSays, Each(CallItem, calls)) = Spread(X, calls)
    BY <1>2, SpreadEach
<1>6. Spread(X, calls) = Each(CallWord, calls)
    BY <1>3, <1>4, CallWordType, SpreadSingles
<1>7. QED
    BY <1>1, <1>5, <1>6

\* A message says upstream what it says, and what the system says there are instructions.
LEMMA MessageSaid ==
    ASSUME NEW m \in Msgs
    PROVE  /\ Spread(ItemSays, ItemsOf[m]) = Spread(NotSys, MsgSays[m])
           /\ Spread(SysParts, MsgSays[m]) = SysOf[m]
<1>1. /\ m.role \in {"system", "user", "assistant", "tool"} /\ m.content.parts \in Seq(Pieces)
      /\ m.calls \in Seq(Ids) /\ m.id \in Ids /\ NoId \in Ids
    BY MsgFields
<1>2. ItemsOf[m] = CodexItems(m)
    BY DEF ItemsOf
<1>3. CASE m.role = "system"
    <2>1. MsgSays[m] = Each(PartWord("system"), m.content.parts) /\ CodexItems(m) = <<>>
          /\ SysOf[m] = m.content.parts
        BY <1>3 DEF MsgSays, CodexItems, SysOf
    <2>2. "system" \in Roles
        BY DEF Roles
    <2>3. QED
        BY <1>1, <1>2, <2>1, <2>2, PartWordsKept, SpreadNone
<1>4. CASE m.role = "user"
    <2>1. /\ MsgSays[m] = Each(PartWord("user"), m.content.parts)
          /\ CodexItems(m) = <<Item("message", "user", m.content.parts, NoId)>>
          /\ SysOf[m] = <<>>
        BY <1>4 DEF MsgSays, CodexItems, SysOf
    <2>2. "user" \in Roles
        BY DEF Roles
    <2>3. QED
        BY <1>1, <1>2, <2>1, <2>2, PartWordsKept, ItemSaid
<1>5. CASE m.role = "tool"
    <2> DEFINE w == Word("function_call_output", m.id, m.content.parts)
    <2>1. /\ MsgSays[m] = <<w>> /\ SysOf[m] = <<>>
          /\ CodexItems(m) = <<Item("function_call_output", "none", m.content.parts, m.id)>>
        BY <1>5 DEF MsgSays, CodexItems, SysOf
    <2>2. "none" \in Roles
        BY DEF Roles
    <2>3. w \in WordSet /\ w.by # "system"
        <3>1. w \in WordSet
            <4>1. "function_call_output" \in Roles \cup {"function_call", "function_call_output"}
                OBVIOUS
            <4>2. m.id \in Ids /\ m.content.parts \in Seq(Pieces)
                BY <1>1
            <4>3. \A by, id, parts : by \in Roles \cup {"function_call", "function_call_output"}
                    /\ id \in Ids /\ parts \in Seq(Pieces) => Word(by, id, parts) \in WordSet
                BY WordForm
            <4>4. QED
                BY <4>1, <4>2, <4>3, Zenon
        <3>2. w.by = "function_call_output"
            BY WordFields
        <3>3. QED
            BY <3>1, <3>2
    <2> HIDE DEF w
    <2>4. Spread(ItemSays, CodexItems(m)) = <<w>>
        BY <1>1, <2>1, <2>2, ItemSaid DEF w
    <2>5. QED
        BY <1>2, <2>1, <2>3, <2>4, OneKept
<1>6. CASE m.role = "assistant"
    <2> DEFINE items == IF m.content.form = "string"
                        THEN <<Item("message", "assistant", m.content.parts, NoId)>> ELSE <<>>
               words == IF m.content.form = "string"
                        THEN Each(PartWord("assistant"), m.content.parts) ELSE <<>>
               calls == Each(CallWord, m.calls)
    <2>1. /\ MsgSays[m] = words \o calls /\ SysOf[m] = <<>>
          /\ CodexItems(m) = items \o CodexCalls(m.calls)
        BY <1>6 DEF MsgSays, CodexItems, SysOf
    <2>2. "assistant" \in Roles
        BY DEF Roles
    <2>5. /\ words \in Seq(WordSet) /\ items \in Seq(Items) /\ Spread(ItemSays, items) = words
          /\ Spread(NotSys, words) = words /\ Spread(SysParts, words) = <<>>
        <3>1. CASE m.content.form = "string"
            <4>1. words \in Seq(WordSet) /\ Spread(NotSys, words) = words
                  /\ Spread(SysParts, words) = <<>>
                BY <1>1, <2>2, <3>1, PartWordsKept, PartWordsType
            <4>2. items \in Seq(Items) /\ Spread(ItemSays, items) = words
                BY <1>1, <2>2, <3>1, ItemSaid, OneType
            <4>3. QED
                BY <4>1, <4>2
        <3>2. CASE m.content.form # "string"
            <4>1. items = <<>> /\ words = <<>> /\ <<>> \in Seq(Items) /\ <<>> \in Seq(WordSet)
                BY <3>2
            <4>2. QED
                BY <4>1, SpreadNone
        <3>3. QED
            BY <3>1, <3>2
    <2>6. calls \in Seq(WordSet) /\ Spread(NotSys, calls) = calls /\ Spread(SysParts, calls) = <<>>
        BY <1>1, CallWordsType, CallWordsKept
    <2>7. CodexCalls(m.calls) \in Seq(Items)
        <3>1. CodexCalls(m.calls) = Each(CallItem, m.calls)
            BY <1>1 DEF CodexCalls, Each, CallItem
        <3>2. QED
            BY <1>1, <3>1, CallItemType, EachAny
    <2>8. Spread(ItemSays, CodexCalls(m.calls)) = calls
        BY <1>1, CallsSaid
    <2> HIDE DEF items, words, calls
    <2>9. Spread(ItemSays, items \o CodexCalls(m.calls)) = words \o calls
        <3>1. \A s, t : s \in Seq(Items) /\ t \in Seq(Items) =>
                Spread(ItemSays, s \o t) = Spread(ItemSays, s) \o Spread(ItemSays, t)
            BY ItemSaysType, SpreadConcat
        <3>2. Spread(ItemSays, items \o CodexCalls(m.calls))
                = Spread(ItemSays, items) \o Spread(ItemSays, CodexCalls(m.calls))
            BY <2>5, <2>7, <3>1, Zenon
        <3>3. QED
            BY <2>5, <2>8, <3>2
    <2>10. Spread(NotSys, words \o calls) = words \o calls
           /\ Spread(SysParts, words \o calls) = <<>> \o <<>>
        BY <2>5, <2>6, ConcatKept
    <2>11. QED
        BY <1>2, <2>1, <2>9, <2>10
<1>7. QED
    BY <1>1, <1>3, <1>4, <1>5, <1>6

LEMMA MarshalSays ==
    ASSUME NEW xs \in Seq(Items)
    PROVE  Spread(ItemSays, Each(MarshalOf, xs)) = Spread(ItemSays, xs)
<1>1. Through(ItemSays, MarshalOf, ItemSays, Items)
    <2>1. ASSUME NEW x \in Items PROVE ItemSays[MarshalOf[x]] = ItemSays[x]
        <3>1. MarshalOf[x] \in Items
            BY MarshalType
        <3>2. /\ MarshalOf[x].type = x.type /\ MarshalOf[x].id = x.id
              /\ MarshalOf[x].role = x.role /\ MarshalOf[x].parts = x.parts
            BY DEF MarshalOf, Marshalled, Items
        <3>3. QED
            BY <3>1, <3>2 DEF ItemSays
    <2>2. QED
        BY <2>1 DEF Through
<1>2. QED
    BY <1>1, SpreadEach

\* What messages say, and what of it are instructions.
LEMMA MessagesSaid ==
    ASSUME NEW ms \in Seq(Msgs)
    PROVE  /\ Spread(ItemSays, Spread(ItemsOf, ms)) = Spread(NotSys, Spread(MsgSays, ms))
           /\ Flatten(SystemTexts(ms)) = Spread(SysParts, Spread(MsgSays, ms))
           /\ Spread(MsgSays, ms) \in Seq(WordSet)
<1> DEFINE X == [m \in Msgs |-> Spread(NotSys, MsgSays[m])]
           K == [m \in Msgs |-> IF m.role = "system" THEN <<m>> ELSE <<>>]
           P == [m \in Msgs |-> m.content.parts]
           places == {i \in DOMAIN ms : ms[i].role = "system"}
           system == Only(ms, places)
<1>1. Spread(ItemSays, Spread(ItemsOf, ms)) = Spread(X, ms)
    <2>1. \A m \in Msgs : Spread(ItemSays, ItemsOf[m]) = X[m]
        BY MessageSaid
    <2> HIDE DEF X
    <2>2. QED
        BY <2>1, ItemsOfType, ItemSaysType, SpreadSpread
<1>2. Spread(NotSys, Spread(MsgSays, ms)) = Spread(X, ms)
    <2>1. \A m \in Msgs : Spread(NotSys, MsgSays[m]) = X[m]
        OBVIOUS
    <2> HIDE DEF X
    <2>2. QED
        BY <2>1, MsgSaysType, NotSysType, SpreadSpread
<1>3. Spread(SysParts, Spread(MsgSays, ms)) = Spread(SysOf, ms)
    <2>1. \A m \in Msgs : Spread(SysParts, MsgSays[m]) = SysOf[m]
        BY MessageSaid
    <2>2. QED
        BY <2>1, MsgSaysType, SysPartsType, SpreadSpread
<1>4. system = Spread(K, ms)
    <2>1. \A i \in DOMAIN ms : (IF i \in places THEN <<ms[i]>> ELSE <<>>) = K[ms[i]]
        OBVIOUS
    <2>2. [i \in DOMAIN ms |-> IF i \in places THEN <<ms[i]>> ELSE <<>>] = Each(K, ms)
        BY <2>1 DEF Each
    <2>3. QED
        BY <2>2 DEF Only, Spread
<1>5. Spreads(K, Msgs, Msgs) /\ Spreads(P, Msgs, Pieces)
    BY MsgFields DEF Spreads
<1>6. \A m \in Msgs : Spread(P, K[m]) = SysOf[m]
    <2>1. ASSUME NEW m \in Msgs PROVE Spread(P, K[m]) = SysOf[m]
        <3>1. CASE m.role = "system"
            <4>1. K[m] = <<m>> /\ P[m] = SysOf[m]
                BY <3>1 DEF SysOf
            <4> HIDE DEF K, P
            <4>2. QED
                BY <1>5, <4>1, SpreadOne
        <3>2. CASE m.role # "system"
            <4>1. K[m] = <<>> /\ SysOf[m] = <<>>
                BY <3>2 DEF SysOf
            <4> HIDE DEF K, P
            <4>2. QED
                BY <4>1, SpreadNone
        <3>3. QED
            BY <3>1, <3>2
    <2>2. QED
        BY <2>1
<1> HIDE DEF K, system
<1>7. system \in Seq(Msgs)
    BY <1>4, <1>5, SpreadType
<1>8. SystemTexts(ms) = Each(P, system)
    <2>1. SystemTexts(ms) = [i \in DOMAIN system |-> system[i].content.parts]
        BY DEF SystemTexts, system
    <2>2. QED
        BY <1>7, <2>1 DEF Each
<1> HIDE DEF P, X
<1>9. Spread(P, Spread(K, ms)) = Spread(SysOf, ms)
    BY <1>5, <1>6, SpreadSpread
<1>10. Spread(MsgSays, ms) \in Seq(WordSet)
    BY MsgSaysType, SpreadType
<1>11. QED
    BY <1>1, <1>2, <1>3, <1>4, <1>8, <1>9, <1>10 DEF Spread
-----------------------------------------------------------------------------
(* What the turns of a client say.                                         *)

TurnSays ==
    [t \in Turns |->
       CASE t.kind = "call" -> <<CallWord[t.id]>>
         [] t.kind = "result" -> <<Word("function_call_output", t.id, t.parts)>>
         [] OTHER -> Each(PartWord(t.kind), t.parts)]

LEMMA ResultWord ==
    ASSUME NEW id \in Ids, NEW parts \in Seq(Pieces)
    PROVE  /\ Word("function_call_output", id, parts) \in WordSet
           /\ Word("function_call_output", id, parts).by # "system"
<1>1. Word("function_call_output", id, parts) \in WordSet
    BY WordForm
<1>2. QED
    BY <1>1, WordFields

LEMMA CallWordIs ==
    ASSUME NEW id \in Ids
    PROVE  /\ CallWord[id] \in WordSet /\ CallWord[id].by # "system"
           /\ CallWord[id] = Word("function_call", id, <<>>)
<1>1. CallWord[id] = Word("function_call", id, <<>>)
    BY DEF CallWord
<1>2. CallWord[id] \in WordSet
    BY CallWordType
<1>3. QED
    BY <1>1, <1>2, WordFields

LEMMA TurnSaysIs ==
    ASSUME NEW t \in Turns
    PROVE  /\ TurnSays[t] \in Seq(WordSet)
           /\ Spread(NotSys, TurnSays[t]) = IF t.kind = "system" THEN <<>> ELSE TurnSays[t]
           /\ Spread(SysParts, TurnSays[t]) = IF t.kind = "system" THEN t.parts ELSE <<>>
           /\ t.kind = "call" => TurnSays[t] = <<CallWord[t.id]>>
           /\ t.kind = "result" => TurnSays[t] = <<Word("function_call_output", t.id, t.parts)>>
           /\ t.kind \in {"system", "user", "assistant"} =>
                TurnSays[t] = Each(PartWord(t.kind), t.parts)
<1>1. /\ t.kind \in {"system", "user", "result", "assistant", "call"}
      /\ t.parts \in Seq(Pieces) /\ t.id \in Ids
    BY TurnFacts
<1>2. CASE t.kind = "call"
    <2>1. TurnSays[t] = <<CallWord[t.id]>>
        BY <1>2 DEF TurnSays
    <2>2. CallWord[t.id] \in WordSet /\ CallWord[t.id].by # "system"
        BY <1>1, CallWordIs
    <2>3. QED
        BY <1>2, <2>1, <2>2, OneType, OneKept
<1>3. CASE t.kind = "result"
    <2>1. TurnSays[t] = <<Word("function_call_output", t.id, t.parts)>>
        BY <1>3 DEF TurnSays
    <2>2. /\ Word("function_call_output", t.id, t.parts) \in WordSet
          /\ Word("function_call_output", t.id, t.parts).by # "system"
        BY <1>1, ResultWord
    <2>3. QED
        BY <1>3, <2>1, <2>2, OneType, OneKept
<1>4. CASE t.kind \in {"system", "user", "assistant"}
    <2>1. TurnSays[t] = Each(PartWord(t.kind), t.parts) /\ t.kind \in Roles
        BY <1>4 DEF TurnSays, Roles
    <2>2. QED
        BY <1>1, <1>4, <2>1, PartWordsType, PartWordsKept
<1>5. QED
    BY <1>1, <1>2, <1>3, <1>4

LEMMA TurnSaysType == Spreads(TurnSays, Turns, WordSet)
<1>1. \A t \in Turns : TurnSays[t] \in Seq(WordSet)
    BY TurnSaysIs
<1>2. QED
    BY <1>1 DEF Spreads, TurnSays

LEMMA SaidType ==
    ASSUME NEW said \in Seq(Turns)
    PROVE  Spread(TurnSays, said) \in Seq(WordSet)
BY TurnSaysType, SpreadType

\* The item that says what a turn says.
SaidItemOf == [t \in Turns |-> SaidItem(t)]
LEMMA SaidItemIs ==
    ASSUME NEW t \in Turns
    PROVE  SaidItemOf[t] \in Items /\ ItemSays[SaidItemOf[t]] = TurnSays[t]
<1> DEFINE x == SaidItemOf[t]
<1>1. /\ t.kind \in {"system", "user", "result", "assistant", "call"}
      /\ t.parts \in Seq(Pieces) /\ t.id \in Ids /\ NoId \in Ids
      /\ t.kind = "call" => t.parts = <<>>
    BY TurnFacts DEF Ids
<1>2. x = SaidItem(t)
    BY DEF SaidItemOf
<1>3. x \in Items /\ x.parts = t.parts
      /\ (t.kind = "call" => x.type = "function_call" /\ x.id = t.id)
      /\ (t.kind = "result" => x.type = "function_call_output" /\ x.id = t.id)
      /\ (t.kind \in {"system", "user", "assistant"} => x.type = "message" /\ x.role = t.kind)
    BY <1>1, <1>2 DEF SaidItem, Item, Items
<1> HIDE DEF x
<1>4. ItemSays[x] = IF x.type = "message" THEN Each(PartWord(x.role), x.parts)
                    ELSE <<Word(x.type, x.id, x.parts)>>
    BY <1>3 DEF ItemSays
<1>5. CallWord[t.id] = Word("function_call", t.id, <<>>)
    BY <1>1, CallWordIs
<1>6. ItemSays[x] = TurnSays[t]
    BY <1>1, <1>3, <1>4, <1>5, TurnSaysIs
<1>7. QED
    BY <1>3, <1>6 DEF x

OwnOf == [t \in Turns |-> IF t.kind # "system" THEN <<t>> ELSE <<>>]
LEMMA OwnOfType == Spreads(OwnOf, Turns, Turns)
<1>1. \A t \in Turns : OwnOf[t] \in Seq(Turns)
    BY DEF OwnOf
<1>2. QED
    BY <1>1 DEF Spreads, OwnOf

LEMMA OnlyOwn ==
    ASSUME NEW said \in Seq(Turns), NEW spoken,
           spoken = Only(said, {i \in DOMAIN said : said[i].kind # "system"})
    PROVE  spoken = Spread(OwnOf, said) /\ spoken \in Seq(Turns)
<1> DEFINE places == {i \in DOMAIN said : said[i].kind # "system"}
<1>1. spoken = Flatten([i \in DOMAIN said |-> IF i \in places THEN <<said[i]>> ELSE <<>>])
    BY DEF Only
<1>2. \A i \in DOMAIN said : (IF i \in places THEN <<said[i]>> ELSE <<>>) = OwnOf[said[i]]
    BY DEF OwnOf
<1>3. [i \in DOMAIN said |-> IF i \in places THEN <<said[i]>> ELSE <<>>] = Each(OwnOf, said)
    BY <1>2 DEF Each
<1>4. spoken = Spread(OwnOf, said)
    BY <1>1, <1>3 DEF Spread
<1>5. Spread(OwnOf, said) \in Seq(Turns)
    BY OwnOfType, SpreadType
<1>6. QED
    BY <1>4, <1>5

\* What the client says, and what of it are instructions.
LEMMA SaidMeans ==
    ASSUME NEW said \in Seq(Turns), NEW spoken,
           spoken = Only(said, {i \in DOMAIN said : said[i].kind # "system"})
    PROVE  Meaning([i \in DOMAIN spoken |-> SaidItem(spoken[i])])
             = Spread(NotSys, Spread(TurnSays, said))
<1> DEFINE X == [t \in Turns |-> Spread(NotSys, TurnSays[t])]
           items == [i \in DOMAIN spoken |-> SaidItem(spoken[i])]
<1>1. spoken = Spread(OwnOf, said) /\ spoken \in Seq(Turns)
    BY OnlyOwn
<1>2. items = Each(SaidItemOf, spoken)
    <2>1. \A i \in DOMAIN spoken : spoken[i] \in Turns
        BY <1>1
    <2>2. \A i \in DOMAIN spoken : SaidItem(spoken[i]) = SaidItemOf[spoken[i]]
        BY <2>1 DEF SaidItemOf
    <2>3. QED
        BY <2>2 DEF Each
<1>3. SaidItemOf \in [Turns -> Items]
    BY SaidItemIs DEF SaidItemOf
<1>4. Each(SaidItemOf, spoken) \in Seq(Items)
    BY <1>1, <1>3, EachAny
<1>5. Meaning(Each(SaidItemOf, spoken)) = Spread(ItemSays, Each(SaidItemOf, spoken))
    BY <1>4, MeaningIs
<1>6. Through(ItemSays, SaidItemOf, TurnSays, Turns)
    BY SaidItemIs DEF Through
<1>7. Spread(ItemSays, Each(SaidItemOf, spoken)) = Spread(TurnSays, spoken)
    BY <1>1, <1>6, SpreadEach
<1>8. \A t \in Turns : Spread(TurnSays, OwnOf[t]) = X[t]
    <2>1. ASSUME NEW t \in Turns PROVE Spread(TurnSays, OwnOf[t]) = X[t]
        <3>1. X[t] = IF t.kind = "system" THEN <<>> ELSE TurnSays[t]
            BY TurnSaysIs
        <3> HIDE DEF X
        <3>2. CASE t.kind = "system"
            <4>1. OwnOf[t] = <<>>
                BY <3>2 DEF OwnOf
            <4>2. QED
                BY <3>1, <3>2, <4>1, SpreadNone
        <3>3. CASE t.kind # "system"
            <4>1. OwnOf[t] = <<t>>
                BY <3>3 DEF OwnOf
            <4>2. Spread(TurnSays, <<t>>) = TurnSays[t]
                BY TurnSaysType, SpreadOne
            <4>3. QED
                BY <3>1, <3>3, <4>1, <4>2
        <3>4. QED
            BY <3>2, <3>3
    <2>2. QED
        BY <2>1
<1>9. \A t \in Turns : Spread(NotSys, TurnSays[t]) = X[t]
    OBVIOUS
<1> HIDE DEF X, items
<1>10. Spread(TurnSays, Spread(OwnOf, said)) = Spread(X, said)
    BY <1>8, OwnOfType, TurnSaysType, SpreadSpread
<1>11. Spread(NotSys, Spread(TurnSays, said)) = Spread(X, said)
    BY <1>9, NotSysType, TurnSaysType, SpreadSpread
<1>12. QED
    BY <1>1, <1>2, <1>5, <1>7, <1>10, <1>11 DEF items

LEMMA SaidInstructs ==
    ASSUME NEW said \in Seq(Turns), NEW system, system = Kind(said, "system")
    PROVE  Flatten([i \in DOMAIN system |-> system[i].parts])
             = Spread(SysParts, Spread(TurnSays, said))
<1> DEFINE X == [t \in Turns |-> Spread(SysParts, TurnSays[t])]
           K == KindOf("system")
<1>1. system = Spread(K, said) /\ system \in Seq(Turns)
    BY KindIs
<1>2. Flatten([i \in DOMAIN system |-> system[i].parts]) = Spread(TurnParts, system)
    BY <1>1, PartsAre
<1>3. Spreads(TurnParts, Turns, Pieces)
    BY <1>1, PartsAre
<1>4. \A t \in Turns : Spread(TurnParts, K[t]) = X[t]
    <2>1. ASSUME NEW t \in Turns PROVE Spread(TurnParts, K[t]) = X[t]
        <3>1. X[t] = IF t.kind = "system" THEN t.parts ELSE <<>>
            BY TurnSaysIs
        <3>2. K[t] = IF t.kind = "system" THEN <<t>> ELSE <<>>
            BY DEF KindOf
        <3>3. TurnParts[t] = t.parts
            BY DEF TurnParts
        <3>4. Spread(TurnParts, <<t>>) = TurnParts[t]
            BY <1>3, SpreadOne
        <3> HIDE DEF X, K
        <3>5. QED
            BY <3>1, <3>2, <3>3, <3>4, SpreadNone
    <2>2. QED
        BY <2>1
<1>5. \A t \in Turns : Spread(SysParts, TurnSays[t]) = X[t]
    OBVIOUS
<1>6. Spreads(K, Turns, Turns)
    BY KindOfType
<1> HIDE DEF X, K
<1>7. Spread(TurnParts, Spread(K, said)) = Spread(X, said)
    BY <1>3, <1>4, <1>6, SpreadSpread
<1>8. Spread(SysParts, Spread(TurnSays, said)) = Spread(X, said)
    BY <1>5, SysPartsType, TurnSaysType, SpreadSpread
<1>9. QED
    BY <1>1, <1>2, <1>7, <1>8

-----------------------------------------------------------------------------
(* The order of what is said in one message.                               *)

InOrder(run, a, b) ==
    /\ \A i \in DOMAIN run : run[i].kind \in {a, b}
    /\ \A i \in 1 .. (Len(run) - 1) : ~(run[i].kind = b /\ run[i + 1].kind = a)
Sorted(pre, post, run, a, b) ==
    /\ pre \in Seq(Turns) /\ post \in Seq(Turns) /\ run = pre \o post
    /\ \A i \in DOMAIN pre : pre[i].kind = a
    /\ \A i \in DOMAIN post : post[i].kind = b

LEMMA SliceRest ==
    ASSUME NEW S, NEW s \in Seq(S), NEW k \in 1 .. Len(s)
    PROVE  /\ SubSeq(s, 1, k - 1) \in Seq(S) /\ SubSeq(s, k, Len(s)) \in Seq(S)
           /\ s = SubSeq(s, 1, k - 1) \o SubSeq(s, k, Len(s))
           /\ DOMAIN SubSeq(s, 1, k - 1) = 1 .. (k - 1)
           /\ \A i \in 1 .. (k - 1) : SubSeq(s, 1, k - 1)[i] = s[i]
           /\ DOMAIN SubSeq(s, k, Len(s)) = 1 .. (Len(s) - k + 1)
           /\ \A i \in 1 .. (Len(s) - k + 1) : SubSeq(s, k, Len(s))[i] = s[i + k - 1]
OBVIOUS

LEMMA InOrderSorted ==
    ASSUME NEW run \in Seq(Turns), NEW a, NEW b, a # b, InOrder(run, a, b)
    PROVE  \E pre, post : Sorted(pre, post, run, a, b)
<1> DEFINE later == {i \in DOMAIN run : run[i].kind = b}
<1>1. Len(run) \in Nat /\ DOMAIN run = 1 .. Len(run)
    OBVIOUS
<1>2. CASE later = {}
    <2>1. \A i \in DOMAIN run : run[i].kind = a
        BY <1>2 DEF InOrder
    <2>2. run = run \o <<>> /\ <<>> \in Seq(Turns) /\ DOMAIN <<>> = {}
        OBVIOUS
    <2>3. Sorted(run, <<>>, run, a, b)
        BY <2>1, <2>2 DEF Sorted
    <2>4. QED
        BY <2>3
<1>3. CASE later # {}
    <2>1. later \subseteq Nat
        BY <1>1
    <2>2. PICK k \in later : \A i \in later : k <= i
        <3> HIDE DEF later
        <3>1. QED
            BY <1>3, <2>1, LeastNumber
    <2>3. k \in 1 .. Len(run) /\ run[k].kind = b
        BY <1>1, <2>2
    <2> DEFINE pre == SubSeq(run, 1, k - 1)
               post == SubSeq(run, k, Len(run))
               N == Len(run) - k
               Good == {n \in 0 .. N : run[k + n].kind = b}
    <2>4. /\ pre \in Seq(Turns) /\ post \in Seq(Turns) /\ run = pre \o post
          /\ DOMAIN pre = 1 .. (k - 1) /\ \A i \in 1 .. (k - 1) : pre[i] = run[i]
          /\ DOMAIN post = 1 .. (Len(run) - k + 1)
          /\ \A i \in 1 .. (Len(run) - k + 1) : post[i] = run[i + k - 1]
        <3>1. \A s, n : s \in Seq(Turns) /\ n \in 1 .. Len(s) =>
                /\ SubSeq(s, 1, n - 1) \in Seq(Turns) /\ SubSeq(s, n, Len(s)) \in Seq(Turns)
                /\ s = SubSeq(s, 1, n - 1) \o SubSeq(s, n, Len(s))
                /\ DOMAIN SubSeq(s, 1, n - 1) = 1 .. (n - 1)
                /\ \A i \in 1 .. (n - 1) : SubSeq(s, 1, n - 1)[i] = s[i]
                /\ DOMAIN SubSeq(s, n, Len(s)) = 1 .. (Len(s) - n + 1)
                /\ \A i \in 1 .. (Len(s) - n + 1) : SubSeq(s, n, Len(s))[i] = s[i + n - 1]
            BY SliceRest
        <3>2. run \in Seq(Turns)
            OBVIOUS
        <3>3. QED
            BY <2>3, <3>1, <3>2, ZenonT(30)
    <2> HIDE DEF pre, post
    <2>5. ASSUME NEW i \in DOMAIN pre PROVE pre[i].kind = a
        <3>1. i \in 1 .. (k - 1) /\ i \in DOMAIN run /\ i < k
            BY <1>1, <2>3, <2>4
        <3>2. i \notin later
            BY <2>2, <3>1
        <3>3. run[i].kind = a
            BY <3>1, <3>2 DEF InOrder
        <3>4. QED
            BY <2>4, <3>1, <3>3
    <2>6. N \in Nat
        BY <1>1, <2>3
    <2>7. 0 \in Good
        <3>1. k + 0 = k /\ 0 \in 0 .. N
            BY <1>1, <2>3, <2>6
        <3>2. QED
            BY <2>3, <3>1
    <2>8. ASSUME NEW n \in 0 .. N, n \in Good, n # N PROVE n + 1 \in Good
        <3>1. /\ k + n \in 1 .. (Len(run) - 1) /\ (k + n) + 1 = k + (n + 1) /\ n + 1 \in 0 .. N
              /\ k + (n + 1) \in DOMAIN run
            BY <1>1, <2>3, <2>8
        <3>2. run[k + (n + 1)].kind # a
            BY <2>8, <3>1 DEF InOrder
        <3>3. run[k + (n + 1)].kind = b
            BY <3>1, <3>2 DEF InOrder
        <3>4. QED
            BY <3>1, <3>3
    <2>9. 0 .. N \subseteq Good
        <3> HIDE DEF Good, N
        <3>1. \A n \in 0 .. N : n \in Good /\ n # N => n + 1 \in Good
            BY <2>8
        <3>2. QED
            BY <2>6, <2>7, <3>1, Inductive
    <2>10. ASSUME NEW i \in DOMAIN post PROVE post[i].kind = b
        <3>1. i \in 1 .. (Len(run) - k + 1)
            BY <2>4
        <3>4. i - 1 \in 0 .. (Len(run) - k) /\ k + (i - 1) = i + k - 1
            BY <1>1, <2>3, <3>1
        <3>2. run[k + (i - 1)].kind = b
            BY <2>9, <3>4
        <3>3. QED
            BY <2>4, <3>1, <3>2, <3>4
    <2>11. Sorted(pre, post, run, a, b)
        BY <2>4, <2>5, <2>10 DEF Sorted
    <2>12. QED
        BY <2>11
<1>4. QED
    BY <1>2, <1>3

\* What one kind says and what the other says, when only one of them is asked for.
OneKind(W, V, kind) == \A t \in Turns : W[t] = IF t.kind = kind THEN V[t] ELSE <<>>

LEMMA KindSpreads ==
    ASSUME NEW T, NEW V, Spreads(V, Turns, T), NEW W, Spreads(W, Turns, T), NEW kind,
           OneKind(W, V, kind), NEW s \in Seq(Turns)
    PROVE  /\ (\A i \in DOMAIN s : s[i].kind = kind) => Spread(W, s) = Spread(V, s)
           /\ (\A i \in DOMAIN s : s[i].kind # kind) => Spread(W, s) = <<>>
<1>1. \A i \in DOMAIN s : s[i] \in Turns
    OBVIOUS
<1>2. ASSUME \A i \in DOMAIN s : s[i].kind = kind PROVE Spread(W, s) = Spread(V, s)
    <2>1. \A i \in DOMAIN s : W[s[i]] = V[s[i]]
        BY <1>1, <1>2 DEF OneKind
    <2>2. QED
        BY <2>1, SameEach
<1>3. ASSUME \A i \in DOMAIN s : s[i].kind # kind PROVE Spread(W, s) = <<>>
    <2>1. \A i \in DOMAIN s : W[s[i]] = <<>>
        BY <1>1, <1>3 DEF OneKind
    <2>2. QED
        BY <2>1, SpreadNothing
<1>4. QED
    BY <1>2, <1>3

LEMMA SplitSpread ==
    ASSUME NEW T, NEW V, Spreads(V, Turns, T), NEW X, Spreads(X, Turns, T),
           NEW Y, Spreads(Y, Turns, T), NEW a, NEW b, a # b,
           OneKind(X, V, a), OneKind(Y, V, b), NEW run \in Seq(Turns), InOrder(run, a, b)
    PROVE  Spread(X, run) \o Spread(Y, run) = Spread(V, run)
<1>1. PICK pre, post : Sorted(pre, post, run, a, b)
    BY InOrderSorted
<1>2. /\ pre \in Seq(Turns) /\ post \in Seq(Turns) /\ run = pre \o post
      /\ \A i \in DOMAIN pre : pre[i].kind = a
      /\ \A i \in DOMAIN post : post[i].kind = b
    BY <1>1 DEF Sorted
<1>3. /\ Spread(X, pre) = Spread(V, pre) /\ Spread(Y, pre) = <<>>
    BY <1>2, KindSpreads
<1>4. Spread(X, post) = <<>> /\ Spread(Y, post) = Spread(V, post)
    BY <1>2, KindSpreads
<1>5. Spread(X, run) = Spread(X, pre) \o Spread(X, post)
    BY <1>2, SpreadConcat
<1>6. Spread(Y, run) = Spread(Y, pre) \o Spread(Y, post)
    BY <1>2, SpreadConcat
<1>7. Spread(V, run) = Spread(V, pre) \o Spread(V, post)
    BY <1>2, SpreadConcat
<1>8. Spread(V, pre) \in Seq(T) /\ Spread(V, post) \in Seq(T)
    BY <1>2, SpreadType
<1>9. QED
    BY <1>3, <1>4, <1>5, <1>6, <1>7, <1>8, ConcatNone
-----------------------------------------------------------------------------
(* The runs of a conversation in order.                                    *)

OrderlySaid(said) ==
    \A i \in 1 .. (Len(said) - 1) :
      <<said[i].kind, said[i + 1].kind>> \notin {<<"user", "result">>, <<"call", "assistant">>}
OrderedRuns == {run \in TurnRuns : OrderlySaid(run)}

LEMMA OrderlyPart ==
    ASSUME NEW said \in Seq(Turns), NEW i \in DOMAIN said, NEW j \in i .. Len(said),
           i = j \/ OrderlySaid(said)
    PROVE  OrderlySaid(SubSeq(said, i, j))
<1> DEFINE run == SubSeq(said, i, j)
<1>1. Len(said) \in Nat /\ DOMAIN said = 1 .. Len(said) /\ i \in 1 .. Len(said)
    OBVIOUS
<1>2. Len(run) = j - i + 1 /\ \A k \in 1 .. (j - i + 1) : run[k] = said[i + k - 1]
    BY <1>1, SliceAt
<1> HIDE DEF run
<1>3. ASSUME NEW k \in 1 .. (Len(run) - 1)
      PROVE  <<run[k].kind, run[k + 1].kind>>
               \notin {<<"user", "result">>, <<"call", "assistant">>}
    <2>4. k \in 1 .. (j - i) /\ i \in 1 .. Len(said) /\ j \in i .. Len(said)
        BY <1>1, <1>2
    <2>1. /\ i + k - 1 \in 1 .. (Len(said) - 1) /\ i + (k + 1) - 1 = (i + k - 1) + 1
          /\ k \in 1 .. (j - i + 1) /\ k + 1 \in 1 .. (j - i + 1) /\ i # j
        BY <1>1, <2>4
    <2>2. run[k] = said[i + k - 1] /\ run[k + 1] = said[(i + k - 1) + 1]
        BY <1>2, <2>1
    <2>3. QED
        BY <2>1, <2>2 DEF OrderlySaid
<1>4. QED
    BY <1>3 DEF OrderlySaid, run

LEMMA RunsOrdered ==
    ASSUME NEW said \in Seq(Turns), NEW grouped \in BOOLEAN, grouped => OrderlySaid(said)
    PROVE  Runs(said, grouped) \in Seq(OrderedRuns)
<1> DEFINE cuts == IF grouped THEN Opens(said) ELSE DOMAIN said
           runs == Cut(said, cuts)
<1>1. Runs(said, grouped) = runs /\ runs \in Seq(TurnRuns)
    <2>1. Runs(said, grouped) = runs
        BY DEF Runs
    <2>2. QED
        BY <2>1, SaidRuns
<1>2. ASSUME NEW n \in DOMAIN runs PROVE runs[n] \in OrderedRuns
    <2>1. PICK i \in DOMAIN said : \E j \in i .. Len(said) :
            runs[n] = SubSeq(said, i, j) /\ Ends(said, cuts, i, j)
        BY CutRuns
    <2>2. PICK j \in i .. Len(said) : runs[n] = SubSeq(said, i, j) /\ Ends(said, cuts, i, j)
        BY <2>1
    <2>3. i = j \/ OrderlySaid(said)
        <3>1. CASE grouped
            BY <3>1
        <3>2. CASE ~grouped
            <4>1. \A k \in (i + 1) .. j : k \notin DOMAIN said
                BY <2>2, <3>2 DEF Ends
            <4>2. i # j => i + 1 \in (i + 1) .. j /\ i + 1 \in DOMAIN said
                OBVIOUS
            <4>3. QED
                BY <4>1, <4>2
        <3>3. QED
            BY <3>1, <3>2
    <2>4. OrderlySaid(SubSeq(said, i, j))
        BY <2>3, OrderlyPart
    <2>5. runs[n] \in TurnRuns
        BY <1>1
    <2>6. QED
        BY <2>2, <2>4, <2>5 DEF OrderedRuns
<1> HIDE DEF runs
<1>3. QED
    BY <1>1, <1>2

\* A run is of one kind, or of two in their order.
LEMMA RunOrder ==
    ASSUME NEW run \in OrderedRuns
    PROVE  /\ run \in Seq(Turns) /\ run \in TurnRuns
           /\ Speaker[run[1].kind] = "assistant" => InOrder(run, "assistant", "call")
           /\ Speaker[run[1].kind] = "user" => InOrder(run, "result", "user")
<1>1. run \in TurnRuns /\ OrderlySaid(run)
    BY DEF OrderedRuns
<1>2. RunFacts(run)
    BY <1>1, TurnRunFacts
<1>3. run \in Seq(Turns)
      /\ \A i \in DOMAIN run :
           /\ Speaker[run[1].kind] = "assistant" <=> run[i].kind \in {"assistant", "call"}
           /\ Speaker[run[1].kind] = "user" <=> run[i].kind \in {"user", "result"}
    BY <1>2 DEF RunFacts
<1>4. ASSUME NEW i \in 1 .. (Len(run) - 1)
      PROVE  ~(run[i].kind = "call" /\ run[i + 1].kind = "assistant")
             /\ ~(run[i].kind = "user" /\ run[i + 1].kind = "result")
    BY <1>1 DEF OrderlySaid
<1>5. QED
    BY <1>1, <1>3, <1>4 DEF InOrder

OfKind(kind) == [t \in Turns |-> IF t.kind = kind THEN TurnSays[t] ELSE <<>>]

LEMMA OfKindIs ==
    ASSUME NEW kind
    PROVE  Spreads(OfKind(kind), Turns, WordSet) /\ OneKind(OfKind(kind), TurnSays, kind)
<1>1. \A t \in Turns : TurnSays[t] \in Seq(WordSet)
    BY TurnSaysIs
<1>2. \A t \in Turns : OfKind(kind)[t] = IF t.kind = kind THEN TurnSays[t] ELSE <<>>
    BY DEF OfKind
<1>3. ASSUME NEW t \in Turns PROVE OfKind(kind)[t] \in Seq(WordSet)
    <2>1. <<>> \in Seq(WordSet)
        OBVIOUS
    <2>2. QED
        BY <1>1, <1>2, <2>1
<1>4. OfKind(kind) = [t \in Turns |-> OfKind(kind)[t]]
    BY DEF OfKind
<1>5. OfKind(kind) \in [Turns -> Seq(WordSet)]
    BY <1>3, <1>4
<1>6. QED
    BY <1>2, <1>5 DEF Spreads, OneKind

\* What the turns of one kind say.
LEMMA KindSaid ==
    ASSUME NEW run \in Seq(Turns), NEW kind \in {"system", "user", "assistant"}
    PROVE  Each(PartWord(kind), Spread(TurnParts, Kind(run, kind))) = Spread(OfKind(kind), run)
<1> DEFINE V == PartWord(kind)
           Y == [t \in Turns |-> Each(PartWord(kind), t.parts)]
           K == KindOf(kind)
<1>1. Kind(run, kind) = Spread(K, run) /\ Kind(run, kind) \in Seq(Turns)
    BY KindIs
<1>2. Spreads(TurnParts, Turns, Pieces)
    BY <1>1, PartsAre
<1>3. Maps(V, Pieces, WordSet)
    BY PartWordType DEF Roles, Maps
<1>4. EachFor(V, TurnParts, Y, Turns)
    BY DEF TurnParts, EachFor
<1>5. Spreads(Y, Turns, WordSet)
    <2>1. ASSUME NEW t \in Turns PROVE Each(PartWord(kind), t.parts) \in Seq(WordSet)
        BY TurnFacts, PartWordsType DEF Roles
    <2>2. QED
        BY <2>1 DEF Spreads
<1>6. \A t \in Turns : Spread(Y, K[t]) = OfKind(kind)[t]
    <2>1. ASSUME NEW t \in Turns PROVE Spread(Y, K[t]) = OfKind(kind)[t]
        <3>1. CASE t.kind = kind
            <4>1. K[t] = <<t>> /\ OfKind(kind)[t] = TurnSays[t]
                BY <3>1 DEF KindOf, OfKind
            <4>2. TurnSays[t] = Y[t]
                BY <3>1, TurnSaysIs
            <4> HIDE DEF Y, K
            <4>3. QED
                BY <1>5, <4>1, <4>2, SpreadOne
        <3>2. CASE t.kind # kind
            <4>1. K[t] = <<>> /\ OfKind(kind)[t] = <<>>
                BY <3>2 DEF KindOf, OfKind
            <4> HIDE DEF Y, K
            <4>2. QED
                BY <4>1, SpreadNone
        <3>3. QED
            BY <3>1, <3>2
    <2>2. QED
        BY <2>1
<1>7. Spreads(K, Turns, Turns)
    BY KindOfType
<1> HIDE DEF V, Y, K
<1>8. \A s \in Seq(Turns) : Each(V, Spread(TurnParts, s)) = Spread(Y, s)
    BY <1>2, <1>3, <1>4, EachSpread
<1>9. Spread(Y, Spread(K, run)) = Spread(OfKind(kind), run)
    BY <1>5, <1>6, <1>7, SpreadSpread
<1>10. QED
    BY <1>1, <1>8, <1>9 DEF V

LEMMA KindCalls ==
    ASSUME NEW run \in Seq(Turns)
    PROVE  Each(CallWord, Each(TurnId, Kind(run, "call"))) = Spread(OfKind("call"), run)
<1> DEFINE K == KindOf("call")
           Y == [t \in Turns |-> CallWord[t.id]]
           X == [t \in Turns |-> <<CallWord[t.id]>>]
           s == Kind(run, "call")
<1>1. s = Spread(K, run) /\ s \in Seq(Turns)
    BY KindIs
<1>2. TurnId \in [Turns -> Ids]
    BY <1>1, PartsAre
<1>3. \A t \in Turns : t.id \in Ids
    BY TurnFacts
<1>4. \A t \in Turns : CallWord[t.id] \in WordSet
    BY <1>3, CallWordIs
<1>5. Y \in [Turns -> WordSet] /\ Spreads(X, Turns, WordSet) /\ Singly(X, Y, Turns)
    BY <1>4 DEF Spreads, Singly
<1>6. Through(CallWord, TurnId, Y, Turns)
    BY DEF TurnId, Through
<1>7. \A t \in Turns : Spread(X, K[t]) = OfKind("call")[t]
    <2>1. ASSUME NEW t \in Turns PROVE Spread(X, K[t]) = OfKind("call")[t]
        <3>1. CASE t.kind = "call"
            <4>1. K[t] = <<t>> /\ OfKind("call")[t] = TurnSays[t]
                BY <3>1 DEF KindOf, OfKind
            <4>2. TurnSays[t] = X[t]
                BY <3>1, TurnSaysIs
            <4> HIDE DEF X, K
            <4>3. QED
                BY <1>5, <4>1, <4>2, SpreadOne
        <3>2. CASE t.kind # "call"
            <4>1. K[t] = <<>> /\ OfKind("call")[t] = <<>>
                BY <3>2 DEF KindOf, OfKind
            <4> HIDE DEF X, K
            <4>2. QED
                BY <4>1, SpreadNone
        <3>3. QED
            BY <3>1, <3>2
    <2>2. QED
        BY <2>1
<1>8. Spreads(K, Turns, Turns)
    BY KindOfType
<1> HIDE DEF X, Y, K, s
<1>9. Each(CallWord, Each(TurnId, s)) = Each(Y, s)
    BY <1>1, <1>6, EachEach
<1>10. Spread(X, s) = Each(Y, s)
    BY <1>1, <1>5, SpreadSingles
<1>11. Spread(X, Spread(K, run)) = Spread(OfKind("call"), run)
    BY <1>5, <1>7, <1>8, SpreadSpread
<1>12. QED
    BY <1>1, <1>9, <1>10, <1>11 DEF s

\* Words and calls of an assistant, one after the other.
LEMMA AssistantSays ==
    ASSUME NEW run \in OrderedRuns, Speaker[run[1].kind] = "assistant"
    PROVE  Each(PartWord("assistant"), Spread(TurnParts, Kind(run, "assistant")))
             \o Each(CallWord, Each(TurnId, Kind(run, "call"))) = Spread(TurnSays, run)
<1>1. run \in Seq(Turns) /\ InOrder(run, "assistant", "call")
    BY RunOrder
<1>2. Each(PartWord("assistant"), Spread(TurnParts, Kind(run, "assistant")))
        = Spread(OfKind("assistant"), run)
    BY <1>1, KindSaid
<1>3. Each(CallWord, Each(TurnId, Kind(run, "call"))) = Spread(OfKind("call"), run)
    BY <1>1, KindCalls
<1>4. /\ Spreads(OfKind("assistant"), Turns, WordSet) /\ Spreads(OfKind("call"), Turns, WordSet)
      /\ OneKind(OfKind("assistant"), TurnSays, "assistant")
      /\ OneKind(OfKind("call"), TurnSays, "call")
    BY OfKindIs
<1>5. Spread(OfKind("assistant"), run) \o Spread(OfKind("call"), run) = Spread(TurnSays, run)
    BY <1>1, <1>4, TurnSaysType, SplitSpread
<1>6. QED
    BY <1>2, <1>3, <1>5

LEMMA ChatTurnSays ==
    ASSUME NEW t \in Turns, Speaker[t.kind] # "assistant"
    PROVE  MsgSays[ChatTurnOf[t]] = TurnSays[t]
<1> DEFINE m == ChatTurnOf[t]
<1>1. t.kind \in {"system", "user", "result"} /\ t.parts \in Seq(Pieces) /\ t.id \in Ids
    BY TurnFacts, SpeakerIs
<1>2. m \in Msgs
      /\ m = CASE t.kind = "result" -> Message("tool", String(t.parts), <<>>, t.id)
               [] t.kind = "user" -> Message("user", UserContent(t.parts), <<>>, NoId)
               [] t.kind = "system" -> Message("system", String(t.parts), <<>>, NoId)
    BY ChatTurnType DEF ChatTurnOf
<1>3. UserContent(t.parts).parts = t.parts /\ String(t.parts).parts = t.parts
    BY DEF UserContent, String, Array
<1>4. /\ t.kind = "result" => m.role = "tool" /\ m.id = t.id /\ m.content.parts = t.parts
      /\ t.kind \in {"system", "user"} => m.role = t.kind /\ m.content.parts = t.parts
    BY <1>2, <1>3 DEF Message
<1> HIDE DEF m
<1>5. MsgSays[m] = IF t.kind = "result" THEN <<Word("function_call_output", t.id, t.parts)>>
                   ELSE Each(PartWord(t.kind), t.parts)
    BY <1>1, <1>2, <1>4 DEF MsgSays
<1>6. QED
    BY <1>1, <1>5, TurnSaysIs DEF m

\* A message says what the run it stands for says.
LEMMA ChatRunSays ==
    ASSUME NEW run \in OrderedRuns
    PROVE  Spread(MsgSays, ChatOfRun[run]) = Spread(TurnSays, run)
<1>1. run \in TurnRuns /\ run \in Seq(Turns)
    BY RunOrder
<1>2. ChatOfRun[run] = ChatRun(run)
    BY <1>1 DEF ChatOfRun
<1>3. CASE Speaker[run[1].kind] # "assistant"
    <2>1. ChatRun(run) = Each(ChatTurnOf, run)
        BY <1>1, <1>3, ChatRunIs
    <2>2. \A i \in DOMAIN run : run[i] \in Turns /\ Speaker[run[i].kind] # "assistant"
        <3>1. RunFacts(run)
            BY <1>1, TurnRunFacts
        <3>2. QED
            BY <1>3, <3>1 DEF RunFacts
    <2>3. \A i \in DOMAIN run : MsgSays[ChatTurnOf[run[i]]] = TurnSays[run[i]]
        BY <2>2, ChatTurnSays
    <2>4. Each(MsgSays, Each(ChatTurnOf, run)) = Each(TurnSays, run)
        BY <2>3 DEF Each
    <2>5. QED
        BY <1>2, <2>1, <2>4 DEF Spread
<1>4. CASE Speaker[run[1].kind] = "assistant"
    <2> DEFINE texts == Kind(run, "assistant")
               calls == Kind(run, "call")
               parts == Spread(TurnParts, texts)
               ids == Each(TurnId, calls)
               m == AssistantRun(run)
    <2>1. ChatRun(run) = <<m>> /\ m \in Msgs
        BY <1>1, <1>4, ChatRunIs
    <2>2. m = Message("assistant", IF texts = <<>> THEN Null ELSE String(parts), ids, NoId)
        BY DEF AssistantRun
    <2>3. texts = <<>> => parts = <<>>
        BY SpreadNone
    <2>4. /\ m.role = "assistant" /\ m.calls = ids
          /\ texts = <<>> => m.content.form # "string"
          /\ texts # <<>> => m.content.form = "string" /\ m.content.parts = parts
        BY <2>2 DEF Message, Null, String
    <2>5. Each(PartWord("assistant"), parts) \o Each(CallWord, ids) = Spread(TurnSays, run)
        BY <1>4, AssistantSays
    <2> HIDE DEF texts, parts, ids, m
    <2>6. MsgSays[m] = Each(PartWord("assistant"), parts) \o Each(CallWord, ids)
        <3>1. MsgSays[m] = (IF m.content.form = "string"
                            THEN Each(PartWord("assistant"), m.content.parts) ELSE <<>>)
                             \o Each(CallWord, m.calls)
            BY <2>1, <2>4 DEF MsgSays
        <3>2. QED
            BY <2>3, <2>4, <3>1, EachNone
    <2>7. Spread(MsgSays, <<m>>) = MsgSays[m]
        BY <2>1, MsgSaysType, SpreadOne
    <2>8. QED
        BY <1>2, <2>1, <2>5, <2>6, <2>7
<1>5. QED
    BY <1>3, <1>4

LEMMA RunsSaid ==
    ASSUME NEW W, Spreads(W, TurnRuns, Msgs),
           \A run \in OrderedRuns : Spread(MsgSays, W[run]) = Spread(TurnSays, run),
           NEW runs \in Seq(OrderedRuns)
    PROVE  Spread(MsgSays, Spread(W, runs)) = Spread(TurnSays, Flatten(runs))
<1> DEFINE U == [run \in OrderedRuns |-> W[run]]
           X == [run \in OrderedRuns |-> Spread(TurnSays, run)]
           said == [i \in DOMAIN runs |-> Spread(TurnSays, runs[i])]
<1>1. \A i \in DOMAIN runs : runs[i] \in OrderedRuns
    OBVIOUS
<1>2. OrderedRuns \subseteq TurnRuns /\ OrderedRuns \subseteq Seq(Turns)
    BY DEF OrderedRuns, TurnRuns
<1>3. Spreads(U, OrderedRuns, Msgs)
    BY <1>2 DEF Spreads
<1>4. Each(W, runs) = Each(U, runs)
    BY <1>1 DEF Each
<1>5. Each(X, runs) = said
    BY <1>1 DEF Each
<1>6. \A run \in OrderedRuns : Spread(MsgSays, U[run]) = X[run]
    OBVIOUS
<1>7. runs \in Seq(Seq(Turns))
    BY <1>2
<1> HIDE DEF U, X
<1>8. Spread(MsgSays, Spread(U, runs)) = Spread(X, runs)
    BY <1>3, <1>6, MsgSaysType, SpreadSpread
<1>9. Flatten(said) = Spread(TurnSays, Flatten(runs))
    <2> HIDE DEF said
    <2>1. said = [i \in DOMAIN runs |-> Spread(TurnSays, runs[i])]
        BY DEF said
    <2>2. QED
        BY <1>7, <2>1, TurnSaysType, SpreadRuns
<1>10. QED
    BY <1>4, <1>5, <1>8, <1>9 DEF Spread
-----------------------------------------------------------------------------
(* What the blocks of a message say.                                       *)

BlockSays(kind) == [b \in ABlocks |-> Each(PartWord(kind), b.parts)]
ResultSays == [b \in ABlocks |-> <<Word("function_call_output", b.id, b.parts)>>]
UseSays == [b \in ABlocks |-> <<CallWord[b.id]>>]

LEMMA BlockFields ==
    ASSUME NEW b \in ABlocks
    PROVE  b.parts \in Seq(Pieces) /\ b.id \in Ids
BY DEF ABlocks

LEMMA BlockSaysType ==
    ASSUME NEW kind \in {"system", "user", "assistant"}
    PROVE  Spreads(BlockSays(kind), ABlocks, WordSet)
<1>1. ASSUME NEW b \in ABlocks PROVE Each(PartWord(kind), b.parts) \in Seq(WordSet)
    BY BlockFields, PartWordsType DEF Roles
<1>2. QED
    BY <1>1 DEF Spreads, BlockSays

LEMMA ResultSaysType == Spreads(ResultSays, ABlocks, WordSet)
<1>1. ASSUME NEW b \in ABlocks
      PROVE  <<Word("function_call_output", b.id, b.parts)>> \in Seq(WordSet)
    <2>1. Word("function_call_output", b.id, b.parts) \in WordSet
        BY BlockFields, ResultWord
    <2>2. QED
        BY <2>1, OneType
<1>2. QED
    BY <1>1 DEF Spreads, ResultSays

LEMMA UseSaysType == Spreads(UseSays, ABlocks, WordSet)
<1>1. ASSUME NEW b \in ABlocks PROVE <<CallWord[b.id]>> \in Seq(WordSet)
    <2>1. CallWord[b.id] \in WordSet
        BY BlockFields, CallWordIs
    <2>2. QED
        BY <2>1, OneType
<1>2. QED
    BY <1>1 DEF Spreads, UseSays

LEMMA BlocksSay ==
    ASSUME NEW bs \in Seq(ABlocks), NEW kind \in {"system", "user", "assistant"}
    PROVE  Each(PartWord(kind), A!PartsOf(bs)) = Spread(BlockSays(kind), bs)
<1> DEFINE V == PartWord(kind)
           Y == BlockSays(kind)
<1>1. Spreads(BlockParts, ABlocks, Pieces)
    BY DEF Spreads, BlockParts, ABlocks
<1>2. Maps(V, Pieces, WordSet)
    BY PartWordType DEF Roles, Maps
<1>3. EachFor(V, BlockParts, Y, ABlocks)
    BY DEF EachFor, BlockParts, BlockSays
<1>4. A!PartsOf(bs) = Spread(BlockParts, bs)
    BY IdsAre
<1> HIDE DEF V, Y
<1>5. Each(V, Spread(BlockParts, bs)) = Spread(Y, bs)
    BY <1>1, <1>2, <1>3, EachSpread
<1>6. QED
    BY <1>4, <1>5 DEF V, Y

LEMMA UsesSay ==
    ASSUME NEW bs \in Seq(ABlocks)
    PROVE  Each(CallWord, A!IdsOf(bs)) = Spread(UseSays, bs)
<1> DEFINE Y == [b \in ABlocks |-> CallWord[b.id]]
<1>1. A!IdsOf(bs) = Each(IdOf, bs)
    BY IdsAre
<1>2. Through(CallWord, IdOf, Y, ABlocks)
    BY DEF Through, IdOf
<1>3. \A b \in ABlocks : CallWord[b.id] \in WordSet
    BY BlockFields, CallWordIs
<1>4. Y \in [ABlocks -> WordSet] /\ Singly(UseSays, Y, ABlocks)
    BY <1>3 DEF Singly, UseSays
<1> HIDE DEF Y
<1>5. Each(CallWord, Each(IdOf, bs)) = Each(Y, bs)
    BY <1>2, EachEach
<1>6. Spread(UseSays, bs) = Each(Y, bs)
    BY <1>4, UseSaysType, SpreadSingles
<1>7. QED
    BY <1>1, <1>5, <1>6

LEMMA ResultsSay ==
    ASSUME NEW bs \in Seq(ABlocks)
    PROVE  Spread(MsgSays, Each(ResultOf, bs)) = Spread(ResultSays, bs)
<1>1. ASSUME NEW b \in ABlocks PROVE MsgSays[ResultOf[b]] = ResultSays[b]
    <2> DEFINE m == ResultOf[b]
    <2>1. m \in Msgs
        BY ResultOfType
    <2>2. m.role = "tool" /\ m.id = b.id /\ m.content.parts = b.parts
        BY DEF ResultOf, Message, String
    <2> HIDE DEF m
    <2>3. MsgSays[m] = <<Word("function_call_output", m.id, m.content.parts)>>
        BY <2>1, <2>2 DEF MsgSays
    <2>4. QED
        BY <2>2, <2>3 DEF ResultSays, m
<1>2. Through(MsgSays, ResultOf, ResultSays, ABlocks)
    BY <1>1 DEF Through
<1>3. QED
    BY <1>2, SpreadEach

\* What the blocks of these types have is what some turns of the run have.
BlockFor(F, types, Y, run) ==
    \A i \in DOMAIN run :
      Y[run[i]] = IF Counts(BlockOf[run[i]], types) THEN F[BlockOf[run[i]]] ELSE <<>>

LEMMA RunBlocks ==
    ASSUME NEW run \in TurnRuns, NEW types, NEW T, NEW F, Spreads(F, ABlocks, T), NEW Y,
           BlockFor(F, types, Y, run)
    PROVE  Spread(F, A!Blocks(AMsgOf[run], types)) = Spread(Y, run)
           /\ A!Blocks(AMsgOf[run], types) \in Seq(ABlocks)
           /\ AMsgOf[run] \in AMsgs /\ AMsgOf[run].role = Speaker[run[1].kind]
<1> DEFINE m == AMsgOf[run]
           B == BlocksOf(types)
           X == [b \in ABlocks |-> Spread(F, B[b])]
           Z == [t \in Turns |-> X[BlockOf[t]]]
<1>1. RunFacts(run)
    BY TurnRunFacts
<1>2. run \in Seq(Turns) /\ Head(run) = run[1] /\ \A i \in DOMAIN run : run[i] \in Turns
    BY <1>1 DEF RunFacts
<1>3. m \in AMsgs
    BY AMsgOfType
<1>4. m.blocks = Each(BlockOf, run) /\ m.role = Speaker[run[1].kind]
    <2>1. m.blocks = [j \in DOMAIN run |-> Block(run[j])] /\ m.role = Speaker[Head(run).kind]
        BY DEF AMsgOf
    <2>2. [j \in DOMAIN run |-> Block(run[j])] = Each(BlockOf, run)
        BY <1>2 DEF Each, BlockOf
    <2>3. QED
        BY <1>2, <2>1, <2>2
<1> HIDE DEF m
<1>5. /\ A!Blocks(m, types) = Spread(B, m.blocks) /\ A!Blocks(m, types) \in Seq(ABlocks)
    BY <1>3, BlocksAre
<1>6. m.blocks \in Seq(ABlocks)
    BY <1>3 DEF AMsgs
<1>7. \A b \in ABlocks : Spread(F, B[b]) = X[b]
    OBVIOUS
<1>8. Through(X, BlockOf, Z, Turns)
    BY BlockOfType DEF Through
<1>9. Spreads(B, ABlocks, ABlocks)
    BY BlocksOfType
<1>10. \A i \in DOMAIN run : Z[run[i]] = Y[run[i]]
    <2>1. ASSUME NEW i \in DOMAIN run PROVE Z[run[i]] = Y[run[i]]
        <3> DEFINE b == BlockOf[run[i]]
        <3>1. b \in ABlocks
            BY <1>2, BlockOfType
        <3>2. Z[run[i]] = Spread(F, B[b])
            BY <1>2, <3>1
        <3>3. B[b] = IF Counts(b, types) THEN <<b>> ELSE <<>>
            BY <3>1 DEF BlocksOf
        <3>4. Y[run[i]] = IF Counts(b, types) THEN F[b] ELSE <<>>
            BY DEF BlockFor
        <3> HIDE DEF b, B, Z
        <3>5. Spread(F, <<b>>) = F[b]
            BY <3>1, SpreadOne
        <3>6. QED
            BY <3>2, <3>3, <3>4, <3>5, SpreadNone
    <2>2. QED
        BY <2>1
<1> HIDE DEF X, Z, B
<1>11. Spread(F, Spread(B, m.blocks)) = Spread(X, m.blocks)
    BY <1>6, <1>7, <1>9, SpreadSpread
<1>12. Spread(X, Each(BlockOf, run)) = Spread(Z, run)
    BY <1>2, <1>8, SpreadEach
<1>13. Spread(Z, run) = Spread(Y, run)
    BY <1>10, SameEach
<1>14. QED
    BY <1>3, <1>4, <1>5, <1>11, <1>12, <1>13 DEF m

LEMMA BlockIs ==
    ASSUME NEW t \in Turns
    PROVE  /\ BlockOf[t] \in ABlocks /\ BlockOf[t].parts = t.parts /\ BlockOf[t].id = t.id
           /\ t.kind \in {"system", "assistant"} => BlockOf[t].type = "text"
           /\ t.kind = "user" => BlockOf[t].type \in {"text", "image"}
           /\ t.kind = "call" => BlockOf[t].type = "tool_use"
           /\ t.kind = "result" => BlockOf[t].type = "tool_result"
<1>1. BlockOf[t] = Block(t) /\ BlockOf[t] \in ABlocks
    BY BlockOfType DEF BlockOf
<1>2. /\ BlockType["system"] = "text" /\ BlockType["assistant"] = "text"
      /\ BlockType["call"] = "tool_use" /\ BlockType["result"] = "tool_result"
    BY DEF BlockType
<1>3. QED
    BY <1>1, <1>2 DEF Block

\* What the texts of a run say, and its uses and results.
LEMMA TextsSaid ==
    ASSUME NEW run \in TurnRuns, NEW kind \in {"system", "user", "assistant"},
           NEW types, A!TextTypes \subseteq types, types \subseteq A!TextTypes \cup {"image"},
           kind = "user" => "image" \in types,
           \A i \in DOMAIN run : Speaker[run[i].kind] = kind
    PROVE  BlockFor(BlockSays(kind), types, OfKind(kind), run)
<1>1. RunFacts(run)
    BY TurnRunFacts
<1>2. ASSUME NEW i \in DOMAIN run
      PROVE  OfKind(kind)[run[i]] = IF Counts(BlockOf[run[i]], types)
                                    THEN BlockSays(kind)[BlockOf[run[i]]] ELSE <<>>
    <2> DEFINE t == run[i]
               b == BlockOf[t]
    <2>1. t \in Turns /\ Speaker[t.kind] = kind
        BY <1>1 DEF RunFacts
    <2>2. t.kind \in {"system", "user", "result", "assistant", "call"}
        BY <2>1, TurnFacts
    <2>3. /\ b \in ABlocks /\ b.parts = t.parts
          /\ t.kind \in {"system", "assistant"} => b.type = "text"
          /\ t.kind = "user" => b.type \in {"text", "image"}
          /\ t.kind = "call" => b.type = "tool_use"
          /\ t.kind = "result" => b.type = "tool_result"
        BY <2>1, BlockIs
    <2>4. OfKind(kind)[t] = IF t.kind = kind THEN TurnSays[t] ELSE <<>>
        BY <2>1 DEF OfKind
    <2>5. BlockSays(kind)[b] = Each(PartWord(kind), t.parts)
        BY <2>3 DEF BlockSays
    <2>6. A!TextTypes = {"text", "compaction"}
        BY DEF A!TextTypes
    <2> HIDE DEF t, b
    <2>7. CASE t.kind = kind
        <3>1. TurnSays[t] = Each(PartWord(kind), t.parts)
            BY <2>1, <2>7, TurnSaysIs
        <3>2. Counts(b, types) <=> (b.type = "image" \/ t.parts # <<>>)
            BY <2>3, <2>6, <2>7 DEF Counts
        <3>3. CASE Counts(b, types)
            BY <2>4, <2>5, <2>7, <3>1, <3>3 DEF t, b
        <3>4. CASE ~Counts(b, types)
            <4>1. TurnSays[t] = <<>>
                BY <3>1, <3>2, <3>4, EachNone
            <4>2. QED
                BY <2>4, <3>4, <4>1 DEF t, b
        <3>5. QED
            BY <3>3, <3>4
    <2>8. CASE t.kind # kind
        <3>1. b.type \in {"tool_use", "tool_result"}
            BY <2>1, <2>2, <2>3, <2>8, SpeakerIs
        <3>2. ~Counts(b, types)
            BY <2>6, <3>1 DEF Counts
        <3>3. QED
            BY <2>4, <2>8, <3>2 DEF t, b
    <2>9. QED
        BY <2>7, <2>8
<1>3. QED
    BY <1>2 DEF BlockFor

LEMMA ResultsSaid ==
    ASSUME NEW run \in TurnRuns
    PROVE  BlockFor(ResultSays, {"tool_result"}, OfKind("result"), run)
<1>1. RunFacts(run)
    BY TurnRunFacts
<1>2. ASSUME NEW i \in DOMAIN run
      PROVE  OfKind("result")[run[i]] = IF Counts(BlockOf[run[i]], {"tool_result"})
                                        THEN ResultSays[BlockOf[run[i]]] ELSE <<>>
    <2>1. run[i] \in Turns
        BY <1>1 DEF RunFacts
    <2>2. ASSUME NEW t \in Turns
          PROVE  OfKind("result")[t] = IF Counts(BlockOf[t], {"tool_result"})
                                       THEN ResultSays[BlockOf[t]] ELSE <<>>
        <3>1. t.kind \in {"system", "user", "result", "assistant", "call"}
            BY TurnFacts
        <3>2. A!TextTypes = {"text", "compaction"}
            BY DEF A!TextTypes
        <3>3. Counts(BlockOf[t], {"tool_result"}) <=> t.kind = "result"
            BY <3>1, <3>2, BlockIs DEF Counts
        <3>4. ResultSays[BlockOf[t]] = <<Word("function_call_output", t.id, t.parts)>>
            BY BlockIs DEF ResultSays
        <3>5. OfKind("result")[t] = IF t.kind = "result" THEN TurnSays[t] ELSE <<>>
            BY DEF OfKind
        <3>6. QED
            BY <3>3, <3>4, <3>5, TurnSaysIs
    <2>3. QED
        BY <2>1, <2>2
<1>3. QED
    BY <1>2 DEF BlockFor

LEMMA UsesSaid ==
    ASSUME NEW run \in TurnRuns
    PROVE  BlockFor(UseSays, {"tool_use"}, OfKind("call"), run)
<1>1. RunFacts(run)
    BY TurnRunFacts
<1>2. ASSUME NEW i \in DOMAIN run
      PROVE  OfKind("call")[run[i]] = IF Counts(BlockOf[run[i]], {"tool_use"})
                                      THEN UseSays[BlockOf[run[i]]] ELSE <<>>
    <2>1. run[i] \in Turns
        BY <1>1 DEF RunFacts
    <2>2. ASSUME NEW t \in Turns
          PROVE  OfKind("call")[t] = IF Counts(BlockOf[t], {"tool_use"})
                                     THEN UseSays[BlockOf[t]] ELSE <<>>
        <3>1. t.kind \in {"system", "user", "result", "assistant", "call"}
            BY TurnFacts
        <3>2. A!TextTypes = {"text", "compaction"}
            BY DEF A!TextTypes
        <3>3. Counts(BlockOf[t], {"tool_use"}) <=> t.kind = "call"
            BY <3>1, <3>2, BlockIs DEF Counts
        <3>4. UseSays[BlockOf[t]] = <<CallWord[t.id]>>
            BY BlockIs DEF UseSays
        <3>5. OfKind("call")[t] = IF t.kind = "call" THEN TurnSays[t] ELSE <<>>
            BY DEF OfKind
        <3>6. QED
            BY <3>3, <3>4, <3>5, TurnSaysIs
    <2>3. QED
        BY <2>1, <2>2
<1>3. QED
    BY <1>2 DEF BlockFor

LEMMA StringParts ==
    ASSUME NEW parts
    PROVE  /\ String(parts).parts = parts /\ Array(parts).parts = parts
           /\ String(parts).form = "string" /\ Null.form # "string"
BY DEF String, Array, Null

\* What a message of one text says.
LEMMA TextSays ==
    ASSUME NEW role \in {"system", "user"}, NEW content \in Contents
    PROVE  /\ Message(role, content, <<>>, NoId) \in Msgs
           /\ Spread(MsgSays, <<Message(role, content, <<>>, NoId)>>)
                = Each(PartWord(role), content.parts)
<1> DEFINE m == Message(role, content, <<>>, NoId)
<1>1. <<>> \in Seq(Ids) /\ NoId \in Ids
    BY DEF Ids
<1>2. m \in Msgs
    BY <1>1, MessageForm
<1>3. m.role = role /\ m.content = content
    BY DEF Message
<1> HIDE DEF m
<1>4. MsgSays[m] = Each(PartWord(role), content.parts)
    BY <1>2, <1>3 DEF MsgSays
<1>5. Spread(MsgSays, <<m>>) = MsgSays[m]
    BY <1>2, MsgSaysType, SpreadOne
<1>6. QED
    BY <1>2, <1>4, <1>5 DEF m

LEMMA SystemRunSays ==
    ASSUME NEW run \in TurnRuns, Speaker[run[1].kind] = "system"
    PROVE  Spread(MsgSays, A!Turn(AMsgOf[run])) = Spread(TurnSays, run)
<1> DEFINE m == AMsgOf[run]
           bs == A!Blocks(m, A!TextTypes)
<1>1. RunFacts(run)
    BY TurnRunFacts
<1>2. /\ run \in Seq(Turns)
      /\ \A i \in DOMAIN run : Speaker[run[i].kind] = "system" /\ run[i].kind = "system"
    BY <1>1 DEF RunFacts
<1>3. BlockFor(BlockSays("system"), A!TextTypes, OfKind("system"), run)
    BY <1>2, TextsSaid
<1>4. /\ Spread(BlockSays("system"), bs) = Spread(OfKind("system"), run)
      /\ bs \in Seq(ABlocks) /\ m.role = "system"
    BY <1>3, BlockSaysType, RunBlocks
<1>5. Spread(OfKind("system"), run) = Spread(TurnSays, run)
    <2>1. Spreads(OfKind("system"), Turns, WordSet) /\ OneKind(OfKind("system"), TurnSays, "system")
        BY OfKindIs
    <2>2. QED
        BY <1>2, <2>1, TurnSaysType, KindSpreads
<1>6. A!Turn(m) = <<Message("system", String(A!PartsOf(bs)), <<>>, NoId)>>
    BY <1>4, SameForms DEF A!Turn, A!SystemMessage
<1> HIDE DEF m, bs
<1>7. Each(PartWord("system"), A!PartsOf(bs)) = Spread(BlockSays("system"), bs)
    BY <1>4, BlocksSay
<1>8. String(A!PartsOf(bs)) \in Contents
    BY <1>4, IdsAre, ContentForm
<1>9. Spread(MsgSays, A!Turn(m)) = Each(PartWord("system"), A!PartsOf(bs))
    BY <1>6, <1>8, StringParts, TextSays
<1>10. QED
    BY <1>4, <1>5, <1>7, <1>9 DEF m

\* What the user says besides the results.
LEMMA UserMessageSays ==
    ASSUME NEW m \in AMsgs, NEW bs, bs = A!Blocks(m, A!TextTypes \cup {"image"})
    PROVE  /\ Spread(MsgSays, A!UserMessage(m)) = Each(PartWord("user"), A!PartsOf(bs))
           /\ A!UserMessage(m) \in Seq(Msgs)
<1>1. bs \in Seq(ABlocks)
    BY BlocksAre
<1>2. A!PartsOf(bs) = Spread(BlockParts, bs) /\ A!PartsOf(bs) \in Seq(Pieces)
    BY <1>1, IdsAre
<1>3. CASE bs = <<>>
    <2>1. A!UserMessage(m) = <<>>
        BY <1>3 DEF A!UserMessage
    <2>2. A!PartsOf(bs) = <<>>
        BY <1>2, <1>3, SpreadNone
    <2>3. <<>> \in Seq(Msgs)
        OBVIOUS
    <2>4. QED
        BY <2>1, <2>2, <2>3, SpreadNone, EachNone
<1>4. CASE bs # <<>> /\ Len(bs) = 1 /\ bs[1].type # "image"
    <2>1. bs[1] \in ABlocks /\ bs = <<bs[1]>>
        BY <1>1, <1>4
    <2>2. A!UserMessage(m) = <<Message("user", String(bs[1].parts), <<>>, NoId)>>
        BY <1>4, SameForms DEF A!UserMessage
    <2>3. Spreads(BlockParts, ABlocks, Pieces)
        BY DEF Spreads, BlockParts, ABlocks
    <2>4. \A b \in ABlocks : Spread(BlockParts, <<b>>) = BlockParts[b]
        BY <2>3, SpreadOne
    <2>5. A!PartsOf(bs) = bs[1].parts
        BY <1>2, <2>1, <2>4 DEF BlockParts
    <2>6. String(A!PartsOf(bs)) \in Contents
        BY <1>2, ContentForm
    <2>7. QED
        BY <2>2, <2>5, <2>6, StringParts, TextSays, OneType
<1>5. CASE bs # <<>> /\ ~(Len(bs) = 1 /\ bs[1].type # "image")
    <2>1. A!UserMessage(m) = <<Message("user", Array(A!PartsOf(bs)), <<>>, NoId)>>
        BY <1>5, SameForms DEF A!UserMessage
    <2>2. Array(A!PartsOf(bs)) \in Contents
        BY <1>2, ContentForm
    <2>3. QED
        BY <2>1, <2>2, StringParts, TextSays, OneType
<1>6. QED
    BY <1>3, <1>4, <1>5

LEMMA UserRunSays ==
    ASSUME NEW run \in OrderedRuns, Speaker[run[1].kind] = "user"
    PROVE  Spread(MsgSays, A!Turn(AMsgOf[run])) = Spread(TurnSays, run)
<1> DEFINE m == AMsgOf[run]
           types == A!TextTypes \cup {"image"}
           bs == A!Blocks(m, types)
           rs == A!Blocks(m, {"tool_result"})
<1>1. run \in TurnRuns /\ InOrder(run, "result", "user") /\ run \in Seq(Turns)
    BY RunOrder
<1>2. RunFacts(run)
    BY <1>1, TurnRunFacts
<1>3. \A i \in DOMAIN run : Speaker[run[i].kind] = "user"
    BY <1>2 DEF RunFacts
<1>4. BlockFor(BlockSays("user"), types, OfKind("user"), run)
    BY <1>1, <1>3, TextsSaid
<1>5. BlockFor(ResultSays, {"tool_result"}, OfKind("result"), run)
    BY <1>1, ResultsSaid
<1>6. /\ Spread(BlockSays("user"), bs) = Spread(OfKind("user"), run)
      /\ bs \in Seq(ABlocks) /\ m \in AMsgs /\ m.role = "user"
    BY <1>1, <1>4, BlockSaysType, RunBlocks
<1>7. Spread(ResultSays, rs) = Spread(OfKind("result"), run) /\ rs \in Seq(ABlocks)
    BY <1>1, <1>5, ResultSaysType, RunBlocks
<1>8. A!Turn(m) = A!ResultMessages(m) \o A!UserMessage(m)
    BY <1>6 DEF A!Turn, A!UserTurn
<1>9. A!ResultMessages(m) = Each(ResultOf, rs) /\ A!ResultMessages(m) \in Seq(Msgs)
    BY <1>6, ResultsAre
<1> HIDE DEF m, bs, rs
<1>10. /\ Spread(MsgSays, A!UserMessage(m)) = Each(PartWord("user"), A!PartsOf(bs))
       /\ A!UserMessage(m) \in Seq(Msgs)
    BY <1>6, UserMessageSays DEF bs
<1>11. Each(PartWord("user"), A!PartsOf(bs)) = Spread(BlockSays("user"), bs)
    BY <1>6, BlocksSay
<1>12. Spread(MsgSays, A!ResultMessages(m)) = Spread(ResultSays, rs)
    BY <1>7, <1>9, ResultsSay
<1>13. Spread(MsgSays, A!Turn(m))
         = Spread(MsgSays, A!ResultMessages(m)) \o Spread(MsgSays, A!UserMessage(m))
    <2>1. \A s, t : s \in Seq(Msgs) /\ t \in Seq(Msgs) =>
            Spread(MsgSays, s \o t) = Spread(MsgSays, s) \o Spread(MsgSays, t)
        BY MsgSaysType, SpreadConcat
    <2>2. QED
        BY <1>8, <1>9, <1>10, <2>1, Zenon
<1>14. Spread(OfKind("result"), run) \o Spread(OfKind("user"), run) = Spread(TurnSays, run)
    <2>1. /\ Spreads(OfKind("result"), Turns, WordSet) /\ Spreads(OfKind("user"), Turns, WordSet)
          /\ OneKind(OfKind("result"), TurnSays, "result")
          /\ OneKind(OfKind("user"), TurnSays, "user")
        BY OfKindIs
    <2>2. QED
        BY <1>1, <2>1, TurnSaysType, SplitSpread
<1>15. QED
    BY <1>6, <1>7, <1>10, <1>11, <1>12, <1>13, <1>14 DEF m

LEMMA AssistantRunSays ==
    ASSUME NEW run \in OrderedRuns, Speaker[run[1].kind] = "assistant"
    PROVE  Spread(MsgSays, A!Turn(AMsgOf[run])) = Spread(TurnSays, run)
<1> DEFINE m == AMsgOf[run]
           texts == A!Blocks(m, A!TextTypes)
           uses == A!Blocks(m, {"tool_use"})
           content == IF uses # <<>> /\ texts = <<>> THEN Null ELSE String(A!PartsOf(texts))
           msg == A!AssistantMessage(m)
<1>1. run \in TurnRuns /\ InOrder(run, "assistant", "call") /\ run \in Seq(Turns)
    BY RunOrder
<1>2. RunFacts(run)
    BY <1>1, TurnRunFacts
<1>3. \A i \in DOMAIN run : Speaker[run[i].kind] = "assistant"
    BY <1>2 DEF RunFacts
<1>4. BlockFor(BlockSays("assistant"), A!TextTypes, OfKind("assistant"), run)
    BY <1>1, <1>3, TextsSaid
<1>5. BlockFor(UseSays, {"tool_use"}, OfKind("call"), run)
    BY <1>1, UsesSaid
<1>6. /\ Spread(BlockSays("assistant"), texts) = Spread(OfKind("assistant"), run)
      /\ texts \in Seq(ABlocks) /\ m \in AMsgs /\ m.role = "assistant"
    BY <1>1, <1>4, BlockSaysType, RunBlocks
<1>7. Spread(UseSays, uses) = Spread(OfKind("call"), run) /\ uses \in Seq(ABlocks)
    BY <1>1, <1>5, UseSaysType, RunBlocks
<1>8. A!Turn(m) = <<msg>>
    BY <1>6 DEF A!Turn
<1>9. msg \in Msgs
    BY <1>6, AssistantMessageForm
<1>10. msg = Message("assistant", content, A!IdsOf(uses), NoId)
    BY SameForms DEF A!AssistantMessage
<1>11. A!PartsOf(texts) = Spread(BlockParts, texts)
    BY <1>6, IdsAre
<1>12. texts = <<>> => A!PartsOf(texts) = <<>>
    BY <1>11, SpreadNone
<1> HIDE DEF m, texts, uses
<1>13. /\ msg.role = "assistant" /\ msg.calls = A!IdsOf(uses)
       /\ \/ msg.content.form = "string" /\ msg.content.parts = A!PartsOf(texts)
          \/ msg.content.form # "string" /\ A!PartsOf(texts) = <<>>
    BY <1>10, <1>12, StringParts DEF Message
<1> HIDE DEF msg, content
<1>14. MsgSays[msg] = Each(PartWord("assistant"), A!PartsOf(texts)) \o Each(CallWord, A!IdsOf(uses))
    <2>1. MsgSays[msg] = (IF msg.content.form = "string"
                          THEN Each(PartWord("assistant"), msg.content.parts) ELSE <<>>)
                           \o Each(CallWord, msg.calls)
        BY <1>9, <1>13 DEF MsgSays
    <2>2. QED
        BY <1>13, <2>1, EachNone
<1>15. /\ Each(PartWord("assistant"), A!PartsOf(texts)) = Spread(BlockSays("assistant"), texts)
       /\ Each(CallWord, A!IdsOf(uses)) = Spread(UseSays, uses)
    BY <1>6, <1>7, BlocksSay, UsesSay
<1>16. Spread(OfKind("assistant"), run) \o Spread(OfKind("call"), run) = Spread(TurnSays, run)
    <2>1. /\ Spreads(OfKind("assistant"), Turns, WordSet) /\ Spreads(OfKind("call"), Turns, WordSet)
          /\ OneKind(OfKind("assistant"), TurnSays, "assistant")
          /\ OneKind(OfKind("call"), TurnSays, "call")
        BY OfKindIs
    <2>2. QED
        BY <1>1, <2>1, TurnSaysType, SplitSpread
<1>17. Spread(MsgSays, <<msg>>) = MsgSays[msg]
    BY <1>9, MsgSaysType, SpreadOne
<1>18. QED
    BY <1>6, <1>7, <1>8, <1>14, <1>15, <1>16, <1>17 DEF m

\* The messages an Anthropic message becomes say what the run it stands for says.
AnthropicRun == [run \in TurnRuns |-> A!Turn(AMsgOf[run])]
LEMMA AnthropicRunSays ==
    ASSUME NEW run \in OrderedRuns
    PROVE  Spread(MsgSays, AnthropicRun[run]) = Spread(TurnSays, run)
<1>1. run \in TurnRuns
    BY RunOrder
<1>2. RunFacts(run)
    BY <1>1, TurnRunFacts
<1>3. Speaker[run[1].kind] \in {"system", "user", "assistant"}
    BY <1>2 DEF RunFacts
<1>4. QED
    BY <1>1, <1>3, SystemRunSays, UserRunSays, AssistantRunSays DEF AnthropicRun

LEMMA AnthropicRunType == Spreads(AnthropicRun, TurnRuns, Msgs)
<1>1. ASSUME NEW run \in TurnRuns PROVE A!Turn(AMsgOf[run]) \in Seq(Msgs)
    <2>1. AMsgOf[run] \in AMsgs
        BY AMsgOfType
    <2>2. TurnOf[AMsgOf[run]] \in Seq(Msgs)
        BY <2>1, TurnOfType, SpreadsValue
    <2>3. QED
        BY <2>1, <2>2 DEF TurnOf
<1>2. QED
    BY <1>1 DEF Spreads, AnthropicRun
-----------------------------------------------------------------------------
(* What the items of a Responses request say.                              *)

RSays == [x \in RItems |-> ItemSays[RawOf[x]]]

LEMMA RSaysIs ==
    ASSUME NEW x \in RItems
    PROVE  /\ RSays[x] \in Seq(WordSet)
           /\ RSays[x] = IF x.type = "message" THEN Each(PartWord(x.role), x.parts)
                         ELSE <<Word(x.type, x.id, x.parts)>>
<1> DEFINE y == RawOf[x]
<1>1. y \in Items /\ y = Item(x.type, x.role, x.parts, x.id)
    BY RawType
<1>2. y.type = x.type /\ y.role = x.role /\ y.parts = x.parts /\ y.id = x.id
    BY <1>1 DEF Item
<1> HIDE DEF y
<1>3. ItemSays[y] = IF x.type = "message" THEN Each(PartWord(x.role), x.parts)
                    ELSE <<Word(x.type, x.id, x.parts)>>
    BY <1>1, <1>2 DEF ItemSays
<1>4. ItemSays[y] \in Seq(WordSet)
    BY <1>1, ItemSaysType, SpreadsValue
<1>5. QED
    BY <1>3, <1>4 DEF RSays, y

LEMMA RSaysType == Spreads(RSays, RItems, WordSet)
<1>1. \A x \in RItems : RSays[x] \in Seq(WordSet)
    BY RSaysIs
<1>2. QED
    BY <1>1 DEF Spreads, RSays

LEMMA ItemTurn ==
    ASSUME NEW t \in Turns
    PROVE  ItemOf[t] \in RItems /\ RSays[ItemOf[t]] = TurnSays[t]
<1> DEFINE x == ItemOf[t]
<1>1. /\ t.kind \in {"system", "user", "result", "assistant", "call"}
      /\ t.parts \in Seq(Pieces) /\ t.id \in Ids /\ (t.kind = "call" => t.parts = <<>>)
    BY TurnFacts
<1>2. x \in RItems /\ x = ResponsesItem(t)
    BY ItemOfType DEF ItemOf
<1>3. DOMAIN ResponsesType = {"call", "result"} /\ ResponsesType["call"] = "function_call"
      /\ ResponsesType["result"] = "function_call_output"
    BY DEF ResponsesType
<1>4. /\ x.parts = t.parts /\ x.id = t.id
      /\ t.kind = "call" => x.type = "function_call"
      /\ t.kind = "result" => x.type = "function_call_output"
      /\ t.kind \in {"system", "user", "assistant"} => x.type = "message" /\ x.role = t.kind
    BY <1>1, <1>2, <1>3 DEF ResponsesItem
<1> HIDE DEF x
<1>5. RSays[x] = IF x.type = "message" THEN Each(PartWord(x.role), x.parts)
                 ELSE <<Word(x.type, x.id, x.parts)>>
    BY <1>2, RSaysIs
<1>6. CallWord[t.id] = Word("function_call", t.id, <<>>)
    BY <1>1, CallWordIs
<1>7. RSays[x] = TurnSays[t]
    BY <1>1, <1>4, <1>5, <1>6, TurnSaysIs
<1>8. QED
    BY <1>2, <1>7 DEF x

LEMMA ItemsSaid ==
    ASSUME NEW said \in Seq(Turns)
    PROVE  Spread(RSays, Each(ItemOf, said)) = Spread(TurnSays, said)
<1>1. Through(RSays, ItemOf, TurnSays, Turns)
    BY ItemTurn DEF Through
<1>2. QED
    BY <1>1, SpreadEach

\* Calls that become one message.
LEMMA CallRunSays ==
    ASSUME NEW run \in Seq(RCalls)
    PROVE  /\ Spread(RSays, run) = Each(CallWord, [i \in DOMAIN run |-> run[i].id])
           /\ [i \in DOMAIN run |-> run[i].id] \in Seq(Ids)
<1> DEFINE W == [x \in RCalls |-> <<CallWord[x.id]>>]
           V == [x \in RCalls |-> CallWord[x.id]]
<1>1. ASSUME NEW x \in RCalls
      PROVE  x.id \in Ids /\ CallWord[x.id] \in WordSet /\ RSays[x] = <<CallWord[x.id]>>
    <2>1. x \in RItems /\ x.type = "function_call"
        BY DEF RCalls
    <2>2. x.id \in Ids /\ x.parts = <<>>
        BY <2>1, RItemFields
    <2>3. RSays[x] = <<Word("function_call", x.id, <<>>)>>
        BY <2>1, <2>2, RSaysIs
    <2>4. QED
        BY <2>2, <2>3, CallWordIs
<1>2. Spreads(W, RCalls, WordSet)
    <2>1. \A x \in RCalls : <<CallWord[x.id]>> \in Seq(WordSet)
        BY <1>1, OneType
    <2>2. QED
        BY <2>1 DEF Spreads
<1>3. V \in [RCalls -> WordSet] /\ Singly(W, V, RCalls)
    BY <1>1 DEF Singly
<1>4. \A i \in DOMAIN run : run[i] \in RCalls
    OBVIOUS
<1>5. Each(RSays, run) = Each(W, run)
    BY <1>1, <1>4 DEF Each
<1>6. Each(V, run) = Each(CallWord, [i \in DOMAIN run |-> run[i].id])
    BY <1>4 DEF Each
<1>7. [i \in DOMAIN run |-> run[i].id] \in Seq(Ids)
    BY <1>1, <1>4
<1> HIDE DEF W, V
<1>8. Spread(W, run) = Each(V, run)
    BY <1>2, <1>3, SpreadSingles
<1>9. QED
    BY <1>5, <1>6, <1>7, <1>8 DEF Spread

LEMMA SaysAgree == Agree(MsgSays, RSays)
<1>1. ASSUME NEW run \in RRuns PROVE MsgSays[R!ChatOf(run)] = Spread(RSays, run)
    <2> DEFINE x == run[1]
               m == R!ChatOf(run)
    <2>1. /\ x \in RItems /\ Head(run) = x
          /\ \/ run \in Seq(RCalls) /\ x.type = "function_call"
             \/ run = <<x>> /\ x.type # "function_call"
        BY RunKinds
    <2>2. m \in Msgs
        BY ChatFormType DEF ChatForm
    <2>3. /\ x.type \in {"message", "function_call", "function_call_output"}
          /\ x.role \in {"none", "system", "user", "assistant"}
          /\ x.role = "none" <=> x.type # "message"
          /\ x.role # "user" => ~HasImage(x.parts)
          /\ x.parts \in Seq(Pieces)
        BY <2>1, RItemFields
    <2>4. Spread(RSays, <<x>>) = RSays[x]
        <3> HIDE DEF x
        <3>1. QED
            BY <2>1, RSaysType, SpreadOne
    <2>5. RSays[x] = IF x.type = "message" THEN Each(PartWord(x.role), x.parts)
                     ELSE <<Word(x.type, x.id, x.parts)>>
        BY <2>1, RSaysIs
    <2>6. CASE x.type = "message"
        <3>1. m = Message(x.role, R!ChatContent(x), <<>>, NoId)
            BY <2>6, ChatOfIs
        <3>2. /\ R!ChatContent(x).parts = x.parts
              /\ x.role # "user" => R!ChatContent(x).form = "string"
            BY <2>3 DEF R!ChatContent, R!HasImage, HasImage, R!String, R!Array
        <3>3. /\ m.role = x.role /\ m.content.parts = x.parts /\ m.calls = <<>>
              /\ x.role # "user" => m.content.form = "string"
            BY <3>1, <3>2 DEF Message
        <3>7. run = <<x>>
            BY <2>1, <2>6
        <3> HIDE DEF m, x
        <3>4. MsgSays[m] = IF m.role = "assistant"
                           THEN Each(PartWord("assistant"), x.parts) \o Each(CallWord, <<>>)
                           ELSE Each(PartWord(x.role), x.parts)
            BY <2>2, <2>3, <2>6, <3>3 DEF MsgSays
        <3>5. MsgSays[m] = Each(PartWord(x.role), x.parts)
            <4>1. Each(PartWord("assistant"), x.parts) \in Seq(WordSet)
                BY <2>3, PartWordsType DEF Roles
            <4>2. Each(PartWord("assistant"), x.parts) \o <<>>
                    = Each(PartWord("assistant"), x.parts)
                BY <4>1, ConcatNone
            <4>3. QED
                BY <3>3, <3>4, <4>2, EachNone
        <3>6. QED
            BY <2>4, <2>5, <2>6, <3>5, <3>7 DEF m
    <2>7. CASE x.type = "function_call_output"
        <3>1. m = Message("tool", String(x.parts), <<>>, x.id)
            BY <2>7, ChatOfIs
        <3>2. m.role = "tool" /\ m.id = x.id /\ m.content.parts = x.parts
            BY <3>1 DEF Message, String
        <3>5. run = <<x>>
            BY <2>1, <2>7
        <3> HIDE DEF m, x
        <3>3. MsgSays[m] = <<Word("function_call_output", x.id, x.parts)>>
            BY <2>2, <3>2 DEF MsgSays
        <3>4. QED
            BY <2>4, <2>5, <2>7, <3>3, <3>5 DEF m
    <2>8. CASE x.type = "function_call"
        <3> DEFINE ids == [i \in DOMAIN run |-> run[i].id]
        <3>1. m = Message("assistant", Null, ids, NoId)
            BY <2>8, ChatOfIs
        <3>2. run \in Seq(RCalls)
            BY <2>1, <2>8
        <3>3. Spread(RSays, run) = Each(CallWord, ids) /\ ids \in Seq(Ids)
            BY <3>2, CallRunSays
        <3> HIDE DEF ids
        <3>4. m.role = "assistant" /\ m.calls = ids /\ m.content.form # "string"
            BY <3>1, StringParts DEF Message
        <3> HIDE DEF m
        <3>5. MsgSays[m] = <<>> \o Each(CallWord, ids)
            BY <2>2, <3>4 DEF MsgSays
        <3>6. <<>> \o Each(CallWord, ids) = Each(CallWord, ids)
            <4>1. Each(CallWord, ids) \in Seq(WordSet)
                BY <3>3, CallWordsType
            <4>2. QED
                BY <4>1, ConcatNone
        <3>7. QED
            BY <3>3, <3>5, <3>6 DEF m
    <2>9. QED
        BY <2>3, <2>6, <2>7, <2>8
<1>2. QED
    BY <1>1 DEF Agree

LEMMA SystemFirstSays ==
    ASSUME NEW text \in Seq(Pieces)
    PROVE  Spread(MsgSays, SystemFirst(text)) = Each(PartWord("system"), text)
<1>1. CASE text = <<>>
    BY <1>1, SpreadNone, EachNone DEF SystemFirst
<1>2. CASE text # <<>>
    <2>1. SystemFirst(text) = <<Message("system", String(text), <<>>, NoId)>>
        BY <1>2 DEF SystemFirst
    <2>2. String(text) \in Contents
        BY ContentForm
    <2>3. QED
        BY <2>1, <2>2, StringParts, TextSays
<1>3. QED
    BY <1>1, <1>2

LEMMA InputMessagesSay ==
    ASSUME NEW b, b.turns \in Seq(RItems), Flatten(b.system) \in Seq(Pieces)
    PROVE  Spread(MsgSays, R!InputToChatMessages(b))
             = Each(PartWord("system"), Flatten(b.system)) \o Spread(RSays, b.turns)
<1> DEFINE text == Flatten(b.system)
           rs == b.turns
<1>1. PICK ms \in Seq(Msgs) :
        /\ R!InputToChatMessages(b) = SystemFirst(text) \o ms
        /\ ms = [i \in DOMAIN Cut(rs, R!RunStarts(rs)) |->
                   R!ChatOf(Cut(rs, R!RunStarts(rs))[i])]
    BY InputMessages
<1>2. Spread(MsgSays, ms) = Spread(RSays, rs)
    <2> HIDE DEF rs
    <2>1. rs \in Seq(RItems)
        BY DEF rs
    <2>2. QED
        BY <1>1, <2>1, MsgSaysType, RSaysType, SaysAgree, ChatRunsAgree
<1>3. SystemFirst(text) \in Seq(Msgs)
    BY SystemFirstType
<1>4. Spread(MsgSays, SystemFirst(text)) = Each(PartWord("system"), text)
    BY SystemFirstSays
<1>5. Spread(MsgSays, SystemFirst(text) \o ms)
        = Spread(MsgSays, SystemFirst(text)) \o Spread(MsgSays, ms)
    <2> HIDE DEF text
    <2>1. \A s, t : s \in Seq(Msgs) /\ t \in Seq(Msgs) =>
            Spread(MsgSays, s \o t) = Spread(MsgSays, s) \o Spread(MsgSays, t)
        BY MsgSaysType, SpreadConcat
    <2>2. ms \in Seq(Msgs)
        OBVIOUS
    <2>3. QED
        BY <1>3, <2>1, <2>2, Zenon
<1>6. QED
    BY <1>1, <1>2, <1>4, <1>5
-----------------------------------------------------------------------------
(* What Codex is sent of a Responses request.                              *)

SystemItems == {x \in RItems : R!IsSystem(x)}

LEMMA SystemItemIs ==
    ASSUME NEW x \in RItems
    PROVE  /\ R!IsSystem(x) <=> x.type = "message" /\ x.role = "system"
           /\ Spread(NotSys, RSays[x]) = IF R!IsSystem(x) THEN <<>> ELSE RSays[x]
           /\ Spread(SysParts, RSays[x]) = IF R!IsSystem(x) THEN x.parts ELSE <<>>
<1>1. /\ x.type \in {"message", "function_call", "function_call_output"}
      /\ x.role \in {"none", "system", "user", "assistant"}
      /\ x.role = "none" <=> x.type # "message"
      /\ x.parts \in Seq(Pieces) /\ x.id \in Ids
    BY RItemFields
<1>2. R!IsSystem(x) <=> x.type = "message" /\ x.role = "system"
    BY <1>1 DEF R!IsSystem
<1>3. RSays[x] = IF x.type = "message" THEN Each(PartWord(x.role), x.parts)
                 ELSE <<Word(x.type, x.id, x.parts)>>
    BY RSaysIs
<1>4. CASE x.type = "message"
    <2>1. x.role \in Roles /\ x.role \in {"system", "user", "assistant"}
        BY <1>1, <1>4 DEF Roles
    <2>2. /\ Spread(NotSys, Each(PartWord(x.role), x.parts))
               = IF x.role = "system" THEN <<>> ELSE Each(PartWord(x.role), x.parts)
          /\ Spread(SysParts, Each(PartWord(x.role), x.parts))
               = IF x.role = "system" THEN x.parts ELSE <<>>
        BY <1>1, <2>1, PartWordsKept
    <2>3. QED
        BY <1>2, <1>3, <1>4, <2>2
<1>5. CASE x.type # "message"
    <2> DEFINE word == Word(x.type, x.id, x.parts)
    <2>1. word \in WordSet
        BY <1>1, <1>5, WordForm
    <2>2. word.by # "system"
        BY <1>1, WordFields
    <2>3. RSays[x] = <<word>> /\ ~R!IsSystem(x)
        BY <1>2, <1>3, <1>5
    <2> HIDE DEF word
    <2>4. QED
        BY <1>2, <2>1, <2>2, <2>3, OneKept
<1>6. QED
    BY <1>2, <1>4, <1>5

LEMMA CodexSays ==
    ASSUME NEW rs \in Seq(RItems)
    PROVE  Spread(ItemSays, R!CodexInput(rs)) = Spread(NotSys, Spread(RSays, rs))
<1> DEFINE X == [x \in RItems |-> Spread(NotSys, RSays[x])]
           kept == Spread(NotSystemOf, rs)
<1>1. kept \in Seq(RItems) /\ R!CodexInput(rs) = Each(RawOf, kept)
    BY InputIs
<1>2. Through(ItemSays, RawOf, RSays, RItems)
    BY DEF Through, RSays
<1>3. \A x \in RItems : Spread(RSays, NotSystemOf[x]) = X[x]
    <2>1. ASSUME NEW x \in RItems PROVE Spread(RSays, NotSystemOf[x]) = X[x]
        <3>1. X[x] = IF R!IsSystem(x) THEN <<>> ELSE RSays[x]
            BY SystemItemIs
        <3>2. NotSystemOf[x] = IF R!IsSystem(x) THEN <<>> ELSE <<x>>
            BY DEF NotSystemOf
        <3> HIDE DEF X
        <3>3. Spread(RSays, <<x>>) = RSays[x]
            BY RSaysType, SpreadOne
        <3>4. QED
            BY <3>1, <3>2, <3>3, SpreadNone
    <2>2. QED
        BY <2>1
<1>4. \A x \in RItems : Spread(NotSys, RSays[x]) = X[x]
    OBVIOUS
<1> HIDE DEF X
<1>5. Spread(RSays, Spread(NotSystemOf, rs)) = Spread(X, rs)
    BY <1>3, NotSystemType, RSaysType, SpreadSpread
<1>6. Spread(NotSys, Spread(RSays, rs)) = Spread(X, rs)
    BY <1>4, NotSysType, RSaysType, SpreadSpread
<1> HIDE DEF kept
<1>7. Spread(ItemSays, Each(RawOf, kept)) = Spread(RSays, kept)
    BY <1>1, <1>2, SpreadEach
<1>8. QED
    BY <1>1, <1>5, <1>6, <1>7 DEF kept

\* Texts are what is left of parts without images.
LEMMA TextsAre ==
    ASSUME NEW parts \in Seq(Pieces), ~HasImage(parts)
    PROVE  R!Texts(parts) = parts
<1> DEFINE places == {i \in DOMAIN parts : parts[i] \notin Images}
           X == [p \in Pieces |-> <<p>>]
           V == [p \in Pieces |-> p]
<1>1. \A i \in DOMAIN parts : parts[i] \in Pieces /\ i \in places
    BY DEF HasImage
<1>2. R!Texts(parts) = R!Only(parts, places)
    BY DEF R!Texts
<1>3. R!Only(parts, places)
        = Flatten([i \in DOMAIN parts |-> IF i \in places THEN <<parts[i]>> ELSE <<>>])
    BY SameOnlyR DEF Only
<1>4. [i \in DOMAIN parts |-> IF i \in places THEN <<parts[i]>> ELSE <<>>] = Each(X, parts)
    BY <1>1 DEF Each
<1>5. Each(V, parts) = parts
    BY <1>1 DEF Each
<1>6. Spreads(X, Pieces, Pieces) /\ Singly(X, V, Pieces) /\ V \in [Pieces -> Pieces]
    BY DEF Spreads, Singly
<1> HIDE DEF X, V, places
<1>7. Spread(X, parts) = Each(V, parts)
    BY <1>6, SpreadSingles
<1>8. QED
    BY <1>2, <1>3, <1>4, <1>5, <1>7 DEF Spread

LEMMA InstructionsSay ==
    ASSUME NEW b, b.turns \in Seq(RItems), Flatten(b.system) \in Seq(Pieces)
    PROVE  R!InstructionsOf(b) = Flatten(b.system) \o Spread(SysParts, Spread(RSays, b.turns))
<1> DEFINE rs == b.turns
           places == {i \in DOMAIN rs : R!IsSystem(rs[i])}
           system == R!Only(rs, places)
           K == [x \in RItems |-> IF R!IsSystem(x) THEN <<x>> ELSE <<>>]
           P == [x \in SystemItems |-> x.parts]
           X == [x \in RItems |-> Spread(SysParts, RSays[x])]
           texts == [i \in DOMAIN system |-> R!Texts(system[i].parts)]
<1>1. R!InstructionsOf(b) = Flatten(b.system) \o Flatten(texts)
    BY SameFlattenR DEF R!InstructionsOf
<1>2. system = Spread(K, rs)
    <2>1. system = Flatten([i \in DOMAIN rs |-> IF i \in places THEN <<rs[i]>> ELSE <<>>])
        BY SameOnlyR DEF Only
    <2>2. \A i \in DOMAIN rs : (IF i \in places THEN <<rs[i]>> ELSE <<>>) = K[rs[i]]
        OBVIOUS
    <2>3. [i \in DOMAIN rs |-> IF i \in places THEN <<rs[i]>> ELSE <<>>] = Each(K, rs)
        BY <2>2 DEF Each
    <2>4. QED
        BY <2>1, <2>3 DEF Spread
<1>3. Spreads(K, RItems, SystemItems)
    <2>1. ASSUME NEW x \in RItems
          PROVE  (IF R!IsSystem(x) THEN <<x>> ELSE <<>>) \in Seq(SystemItems)
        <3>1. R!IsSystem(x) => x \in SystemItems
            BY DEF SystemItems
        <3>2. <<>> \in Seq(SystemItems)
            OBVIOUS
        <3>3. QED
            BY <3>1, <3>2, OneType
    <2>2. QED
        BY <2>1 DEF Spreads
<1>4. Spreads(P, SystemItems, Pieces)
    BY RItemFields DEF Spreads, SystemItems
<1>5. \A x \in RItems : Spread(P, K[x]) = X[x]
    <2>1. ASSUME NEW x \in RItems PROVE Spread(P, K[x]) = X[x]
        <3>1. X[x] = IF R!IsSystem(x) THEN x.parts ELSE <<>>
            BY SystemItemIs
        <3>2. K[x] = IF R!IsSystem(x) THEN <<x>> ELSE <<>>
            OBVIOUS
        <3>3. R!IsSystem(x) => x \in SystemItems /\ P[x] = x.parts
            BY DEF SystemItems
        <3> HIDE DEF X, K, P
        <3>4. x \in SystemItems => Spread(P, <<x>>) = P[x]
            BY <1>4, SpreadOne
        <3>5. QED
            BY <3>1, <3>2, <3>3, <3>4, SpreadNone
    <2>2. QED
        BY <2>1
<1>6. \A x \in RItems : Spread(SysParts, RSays[x]) = X[x]
    OBVIOUS
<1>7. \A x \in SystemItems : R!Texts(x.parts) = P[x]
    <2>1. ASSUME NEW x \in SystemItems PROVE R!Texts(x.parts) = P[x]
        <3>1. x \in RItems /\ R!IsSystem(x)
            BY DEF SystemItems
        <3>2. x.role = "system"
            BY <3>1, SystemItemIs
        <3>3. x.parts \in Seq(Pieces) /\ ~HasImage(x.parts)
            BY <3>1, <3>2, RItemFields
        <3>4. QED
            BY <3>3, TextsAre
    <2>2. QED
        BY <2>1
<1> HIDE DEF X, K, system, rs
<1>8. rs \in Seq(RItems)
    BY DEF rs
<1>9. system \in Seq(SystemItems)
    BY <1>2, <1>3, <1>8, SpreadType
<1>10. texts = Each(P, system)
    <2>1. \A i \in DOMAIN system : system[i] \in SystemItems
        BY <1>9
    <2>2. \A i \in DOMAIN system : R!Texts(system[i].parts) = P[system[i]]
        BY <1>7, <2>1
    <2> HIDE DEF P
    <2>3. QED
        BY <2>2 DEF Each
<1> HIDE DEF P, texts
<1>11. Spread(P, Spread(K, rs)) = Spread(X, rs)
    BY <1>3, <1>4, <1>5, <1>8, SpreadSpread
<1>12. Spread(SysParts, Spread(RSays, rs)) = Spread(X, rs)
    BY <1>6, <1>8, SysPartsType, RSaysType, SpreadSpread
<1>13. QED
    BY <1>1, <1>2, <1>10, <1>11, <1>12 DEF Spread, rs

-----------------------------------------------------------------------------
(* What is sent says what was said.                                        *)

OrderlyTelling(q) == Telling(q) /\ (q.grouped => OrderlySaid(q.said))

LEMMA TailIs ==
    ASSUME NEW S, NEW s \in Seq(S), s # <<>>
    PROVE  /\ s = <<s[1]>> \o Tail(s) /\ s[1] \in S /\ Tail(s) \in Seq(S)
           /\ Len(Tail(s)) = Len(s) - 1 /\ \A i \in 1 .. (Len(s) - 1) : Tail(s)[i] = s[i + 1]
OBVIOUS

LEMMA OrderlyRest ==
    ASSUME NEW q, OrderlyTelling(q)
    PROVE  q.grouped => OrderlySaid(Rest(q))
<1>1. q.said \in Seq(Turns)
    BY DEF OrderlyTelling, Telling
<1>2. ASSUME q.grouped, Lifted(q) PROVE OrderlySaid(Rest(q))
    <2> DEFINE s == q.said
               t == Tail(q.said)
    <2>1. s \in Seq(Turns) /\ s # <<>> /\ Rest(q) = t
        BY <1>1, <1>2 DEF Lifted, Rest
    <2>2. Len(t) = Len(s) - 1 /\ \A i \in 1 .. (Len(s) - 1) : t[i] = s[i + 1]
        BY <2>1, TailIs
    <2>3. OrderlySaid(s) /\ Len(s) \in Nat
        BY <1>2, <2>1 DEF OrderlyTelling
    <2> HIDE DEF s, t
    <2>4. ASSUME NEW i \in 1 .. (Len(t) - 1)
          PROVE  <<t[i].kind, t[i + 1].kind>> \notin {<<"user", "result">>, <<"call", "assistant">>}
        <3>1. /\ i \in 1 .. (Len(s) - 1) /\ i + 1 \in 1 .. (Len(s) - 1)
              /\ (i + 1) + 1 = (i + 1) + 1
            BY <2>2, <2>3
        <3>2. t[i] = s[i + 1] /\ t[i + 1] = s[(i + 1) + 1]
            BY <2>2, <3>1
        <3>3. <<s[i + 1].kind, s[(i + 1) + 1].kind>>
                \notin {<<"user", "result">>, <<"call", "assistant">>}
            BY <2>3, <3>1 DEF OrderlySaid
        <3>4. QED
            BY <3>2, <3>3
    <2>5. QED
        BY <2>1, <2>4 DEF OrderlySaid
<1>3. QED
    BY <1>2 DEF OrderlyTelling, Rest

\* What is lifted out of the conversation and what is left of it say all of it.
LEMMA LiftSaid ==
    ASSUME NEW q, Telling(q)
    PROVE  Each(PartWord("system"), Flatten(Body(q).system)) \o Spread(TurnSays, Rest(q))
             = Spread(TurnSays, q.said)
<1>1. q.said \in Seq(Turns)
    BY DEF Telling
<1>2. Flatten(Body(q).system) = IF Lifted(q) THEN q.said[1].parts ELSE <<>>
    BY BodySystem
<1>3. CASE Lifted(q)
    <2> DEFINE s == q.said
    <2>1. s \in Seq(Turns) /\ s # <<>> /\ s[1].kind = "system" /\ Rest(q) = Tail(s)
        BY <1>1, <1>3 DEF Lifted, Rest
    <2>2. s = <<s[1]>> \o Tail(s) /\ s[1] \in Turns /\ Tail(s) \in Seq(Turns)
        BY <2>1, TailIs
    <2>3. TurnSays[s[1]] = Each(PartWord("system"), s[1].parts)
        BY <2>1, <2>2, TurnSaysIs
    <2>4. Each(PartWord("system"), Flatten(Body(q).system)) = TurnSays[s[1]]
        BY <1>2, <1>3, <2>3
    <2> HIDE DEF s
    <2>5. ASSUME NEW t \in Turns, NEW rest \in Seq(Turns)
          PROVE  Spread(TurnSays, <<t>> \o rest) = TurnSays[t] \o Spread(TurnSays, rest)
        <3>1. <<t>> \in Seq(Turns)
            BY OneType
        <3>2. \A u, v : u \in Seq(Turns) /\ v \in Seq(Turns) =>
                Spread(TurnSays, u \o v) = Spread(TurnSays, u) \o Spread(TurnSays, v)
            BY TurnSaysType, SpreadConcat
        <3>3. Spread(TurnSays, <<t>> \o rest) = Spread(TurnSays, <<t>>) \o Spread(TurnSays, rest)
            <4>1. rest \in Seq(Turns)
                OBVIOUS
            <4>2. QED
                BY <3>1, <3>2, <4>1, Zenon
        <3>4. Spread(TurnSays, <<t>>) = TurnSays[t]
            BY TurnSaysType, SpreadOne
        <3>5. QED
            BY <3>3, <3>4
    <2>6. \A t, rest : t \in Turns /\ rest \in Seq(Turns) =>
            Spread(TurnSays, <<t>> \o rest) = TurnSays[t] \o Spread(TurnSays, rest)
        BY <2>5
    <2>7. Spread(TurnSays, <<s[1]>> \o Tail(s)) = TurnSays[s[1]] \o Spread(TurnSays, Tail(s))
        BY <2>2, <2>6, Zenon
    <2>8. Spread(TurnSays, s) = TurnSays[s[1]] \o Spread(TurnSays, Tail(s))
        BY <2>2, <2>7, Zenon
    <2>9. QED
        BY <2>1, <2>4, <2>8 DEF s
<1>4. CASE ~Lifted(q)
    <2>1. Rest(q) = q.said /\ Each(PartWord("system"), Flatten(Body(q).system)) = <<>>
        BY <1>2, <1>4, EachNone DEF Rest
    <2>2. Spread(TurnSays, q.said) \in Seq(WordSet)
        BY <1>1, SaidType
    <2>3. QED
        BY <2>1, <2>2, ConcatNone
<1>5. QED
    BY <1>3, <1>4

LEMMA SystemsSay ==
    ASSUME NEW q, Telling(q)
    PROVE  Spread(MsgSays, Each(SystemOf, Body(q).system))
             = Each(PartWord("system"), Flatten(Body(q).system))
<1>1. CASE Lifted(q)
    <2> DEFINE parts == q.said[1].parts
    <2>1. Body(q).system = <<parts>> /\ Flatten(Body(q).system) = parts
        BY <1>1, BodySystem
    <2>2. parts \in Seq(Pieces)
        BY <1>1, RestIs, TurnFacts
    <2> HIDE DEF parts
    <2>3. Each(SystemOf, <<parts>>) = <<Message("system", String(parts), <<>>, NoId)>>
        <3>1. SystemOf[parts] = Message("system", String(parts), <<>>, NoId)
            BY <2>2, SameForms DEF SystemOf, A!SystemMessage
        <3>2. Each(SystemOf, <<parts>>) = <<SystemOf[parts]>>
            BY DEF Each
        <3>3. QED
            BY <3>1, <3>2
    <2>4. String(parts) \in Contents
        BY <2>2, ContentForm
    <2>5. QED
        BY <2>1, <2>3, <2>4, StringParts, TextSays
<1>2. CASE ~Lifted(q)
    <2>1. Body(q).system = <<>> /\ Flatten(Body(q).system) = <<>>
        BY <1>2, BodySystem
    <2>2. QED
        BY <2>1, EachNone, SpreadNone
<1>3. QED
    BY <1>1, <1>2

\* The messages of a request say what its client said.
LEMMA MessagesSay ==
    ASSUME NEW q, OrderlyTelling(q), NEW req, Prepared(q, req),
           ~(q.dialect = "responses" /\ q.provider = "codex")
    PROVE  Spread(MsgSays, req.messages) = Spread(TurnSays, q.said)
<1> DEFINE rest == Rest(q)
           runs == Runs(rest, q.grouped)
           b == Body(q)
<1>1. Telling(q) /\ q.grouped \in BOOLEAN
    BY DEF OrderlyTelling, Telling
<1>2. rest \in Seq(Turns) /\ Flatten(runs) = rest
    BY <1>1, RestIs
<1>3. runs \in Seq(OrderedRuns)
    <2>1. q.grouped => OrderlySaid(rest)
        BY OrderlyRest
    <2>2. QED
        BY <1>1, <1>2, <2>1, RunsOrdered
<1>4. Flatten(b.system) \in Seq(Pieces) /\ b.system \in Seq(Seq(Pieces))
    BY <1>1, BodySystem
<1>5. Each(PartWord("system"), Flatten(b.system)) \o Spread(TurnSays, rest)
        = Spread(TurnSays, q.said)
    BY <1>1, LiftSaid
<1>6. CASE q.dialect = "chat"
    <2>1. rest = q.said /\ b.turns = Spread(ChatOfRun, runs)
        BY <1>1, <1>6, BodyTurns
    <2>2. req.messages = b.turns
        BY <1>1, <1>6, PreparedIs
    <2>3. \A run \in OrderedRuns : Spread(MsgSays, ChatOfRun[run]) = Spread(TurnSays, run)
        BY ChatRunSays
    <2> HIDE DEF runs, rest
    <2>4. Spread(MsgSays, Spread(ChatOfRun, runs)) = Spread(TurnSays, Flatten(runs))
        BY <1>3, <2>3, ChatOfRunType, RunsSaid
    <2>5. QED
        BY <1>2, <2>1, <2>2, <2>4
<1>7. CASE q.dialect = "responses"
    <2>1. b.turns = Each(ItemOf, rest) /\ b.turns \in Seq(RItems)
        BY <1>1, <1>7, BodyTurns
    <2>2. req.messages = R!InputToChatMessages(b)
        BY <1>1, <1>7, PreparedIs
    <2>3. Spread(MsgSays, R!InputToChatMessages(b))
            = Each(PartWord("system"), Flatten(b.system)) \o Spread(RSays, b.turns)
        BY <1>4, <2>1, InputMessagesSay
    <2>4. Spread(RSays, Each(ItemOf, rest)) = Spread(TurnSays, rest)
        BY <1>2, ItemsSaid
    <2>5. QED
        BY <1>5, <2>1, <2>2, <2>3, <2>4
<1>8. CASE q.dialect = "anthropic"
    <2>1. b.turns = Each(AMsgOf, runs) /\ b.turns \in Seq(AMsgs)
        BY <1>1, <1>8, BodyTurns
    <2>2. req.messages = A!Messages(b)
        BY <1>1, <1>8, PreparedIs
    <2>3. /\ A!Messages(b) = Each(SystemOf, b.system) \o Spread(TurnOf, b.turns)
          /\ Each(SystemOf, b.system) \in Seq(Msgs) /\ Spread(TurnOf, b.turns) \in Seq(Msgs)
        BY <1>4, <2>1, MessagesAre
    <2>4. Spread(MsgSays, Each(SystemOf, b.system)) = Each(PartWord("system"), Flatten(b.system))
        BY <1>1, SystemsSay
    <2>5. Spread(TurnOf, Each(AMsgOf, runs)) = Spread(AnthropicRun, runs)
        <3>1. Through(TurnOf, AMsgOf, AnthropicRun, TurnRuns)
            BY AMsgOfType DEF Through, TurnOf, AnthropicRun
        <3>2. runs \in Seq(TurnRuns)
            BY <1>1, RestIs
        <3> HIDE DEF runs
        <3>3. QED
            BY <3>1, <3>2, SpreadEach
    <2>6. Spread(MsgSays, Spread(AnthropicRun, runs)) = Spread(TurnSays, rest)
        <3>1. \A run \in OrderedRuns : Spread(MsgSays, AnthropicRun[run]) = Spread(TurnSays, run)
            BY AnthropicRunSays
        <3> HIDE DEF runs, rest
        <3>2. Spread(MsgSays, Spread(AnthropicRun, runs)) = Spread(TurnSays, Flatten(runs))
            BY <1>3, <3>1, AnthropicRunType, RunsSaid
        <3>3. QED
            BY <1>2, <3>2
    <2>7. Spread(MsgSays, Each(SystemOf, b.system) \o Spread(TurnOf, b.turns))
            = Spread(MsgSays, Each(SystemOf, b.system)) \o Spread(MsgSays, Spread(TurnOf, b.turns))
        <3>1. \A s, t : s \in Seq(Msgs) /\ t \in Seq(Msgs) =>
                Spread(MsgSays, s \o t) = Spread(MsgSays, s) \o Spread(MsgSays, t)
            BY MsgSaysType, SpreadConcat
        <3>2. QED
            BY <2>3, <3>1, Zenon
    <2>8. QED
        BY <1>5, <2>1, <2>2, <2>3, <2>4, <2>5, <2>6, <2>7
<1>9. q.dialect \in {"chat", "responses", "anthropic"}
    BY DEF Prepared
<1>10. QED
    BY <1>6, <1>7, <1>8, <1>9

LEMMA OptionalFlat ==
    ASSUME NEW S, NEW text \in Seq(S)
    PROVE  /\ Flatten(Optional(text)) = text
           /\ Flatten(IF text = <<>> THEN <<>> ELSE <<text>>) = text
<1>1. Flatten(<<text>>) = text
    BY FlattenOne
<1>2. QED
    BY <1>1, FlattenNone DEF Optional

LEMMA NoSystem == SystemTexts(<<>>) = <<>>
<1>1. [i \in DOMAIN <<>> |-> IF i \in {j \in DOMAIN <<>> : <<>>[j].role = "system"}
                             THEN <<<<>>[i]>> ELSE <<>>] = <<>>
    OBVIOUS
<1>2. Only(<<>>, {j \in DOMAIN <<>> : <<>>[j].role = "system"}) = <<>>
    BY <1>1, FlattenNone DEF Only
<1>3. QED
    BY <1>2 DEF SystemTexts

\* The instructions that go with messages, in a field of their own or among them.
LEMMA MessagesInstruct ==
    ASSUME NEW provider \in Providers, NEW req, NEW doc, doc = Marshal(provider, req),
           req.messages \in Seq(Msgs), req.codexInput = <<>>
    PROVE  Flatten(doc.instructions) \o Flatten(SystemTexts(doc.messages))
             = Spread(SysParts, Spread(MsgSays, req.messages))
<1> DEFINE ms == req.messages
           text == Spread(SysParts, Spread(MsgSays, ms))
<1>1. Flatten(SystemTexts(ms)) = text /\ Spread(MsgSays, ms) \in Seq(WordSet)
    BY MessagesSaid
<1>2. text \in Seq(Pieces)
    BY <1>1, SysPartsType, SpreadType
<1>3. CASE provider = "codex"
    <2>1. /\ doc.messages = <<>>
          /\ doc.instructions = IF SystemTexts(ms) = <<>> THEN <<>>
                                ELSE <<Flatten(SystemTexts(ms))>>
        BY <1>3, SentCodex DEF Marshal
    <2>2. Flatten(SystemTexts(doc.messages)) = <<>>
        BY <2>1, NoSystem, FlattenNone
    <2> HIDE DEF text
    <2>3. Flatten(doc.instructions) = text
        <3>1. Flatten(<<text>>) = text
            BY <1>2, FlattenOne
        <3>2. SystemTexts(ms) = <<>> => text = <<>>
            BY <1>1, FlattenNone
        <3>3. QED
            BY <1>1, <2>1, <3>1, <3>2, FlattenNone
    <2>4. QED
        BY <1>2, <2>2, <2>3, ConcatNone DEF text
<1>4. CASE provider # "codex"
    <2>1. doc.messages = ms /\ doc.instructions = <<>>
        BY <1>4 DEF Marshal, MarshalHTTP, Sent
    <2> HIDE DEF text
    <2>2. Flatten(doc.instructions) = <<>> /\ Flatten(SystemTexts(doc.messages)) = text
        BY <1>1, <2>1, FlattenNone
    <2>3. QED
        BY <1>2, <2>2, ConcatNone DEF text
<1>5. QED
    BY <1>3, <1>4

\* The items that go with messages, or are these messages, say what they say.
LEMMA MessagesDeliver ==
    ASSUME NEW provider \in Providers, NEW req, NEW doc, doc = Marshal(provider, req),
           req.messages \in Seq(Msgs), req.codexInput = <<>>
    PROVE  Meaning(ItemsSent(doc)) = Spread(NotSys, Spread(MsgSays, req.messages))
<1> DEFINE ms == req.messages
           xs == Spread(ItemsOf, ms)
<1>1. req.codexInput \in Seq(Items)
    OBVIOUS
<1>2. /\ ItemsSent(doc) = IF provider = "codex" THEN Each(MarshalOf, xs) ELSE xs
      /\ ItemsSent(doc) \in Seq(Items)
    BY <1>1, SentEvents
<1>3. xs \in Seq(Items)
    BY ItemsOfType, SpreadType
<1>4. Spread(ItemSays, xs) = Spread(NotSys, Spread(MsgSays, ms))
    BY MessagesSaid
<1> HIDE DEF xs
<1>5. Spread(ItemSays, ItemsSent(doc)) = Spread(ItemSays, xs)
    BY <1>2, <1>3, MarshalSays
<1>6. QED
    BY <1>2, <1>4, <1>5, MeaningIs

\* A Responses request to Codex: its items go as they came.
LEMMA ItemsDeliver ==
    ASSUME NEW q, OrderlyTelling(q), NEW req, Prepared(q, req),
           q.dialect = "responses", q.provider = "codex",
           NEW doc, doc = Marshal(q.provider, req)
    PROVE  /\ Meaning(ItemsSent(doc)) = Spread(NotSys, Spread(TurnSays, q.said))
           /\ Flatten(doc.instructions) \o Flatten(SystemTexts(doc.messages))
                = Spread(SysParts, Spread(TurnSays, q.said))
<1> DEFINE b == Body(q)
           rs == b.turns
           text == Flatten(b.system)
           words == Spread(RSays, rs)
           lifted == Each(PartWord("system"), text)
<1>1. Telling(q) /\ q.provider \in Providers
    BY DEF OrderlyTelling, Prepared
<1>2. /\ req.messages = <<>> /\ req.codexInput = R!CodexInput(rs)
      /\ req.codexInstructions = R!InstructionsOf(b)
    BY <1>1, PreparedIs
<1>3. req.messages \in Seq(Msgs) /\ req.codexInput \in Seq(Items)
    BY <1>1, PreparedType
<1>4. req.codexInput # <<>>
    BY <1>2 DEF Prepared, Validate
<1>5. rs = Each(ItemOf, Rest(q)) /\ rs \in Seq(RItems) /\ text \in Seq(Pieces)
    BY <1>1, BodyTurns, BodySystem
<1>6. Rest(q) \in Seq(Turns)
    BY <1>1, RestIs
<1>7. words \in Seq(WordSet) /\ words = Spread(TurnSays, Rest(q))
    BY <1>5, <1>6, RSaysType, SpreadType, ItemsSaid
<1>8. lifted \o words = Spread(TurnSays, q.said)
    BY <1>1, <1>7, LiftSaid
<1>9. /\ lifted \in Seq(WordSet)
      /\ Spread(NotSys, lifted) = <<>> /\ Spread(SysParts, lifted) = text
    <2>1. "system" \in Roles
        BY DEF Roles
    <2>2. QED
        BY <1>5, <2>1, PartWordsType, PartWordsKept
<1>10. Spread(ItemSays, req.codexInput) = Spread(NotSys, words)
    BY <1>2, <1>5, CodexSays
<1>11. R!InstructionsOf(b) = text \o Spread(SysParts, words)
    BY <1>5, InstructionsSay
<1>12. Spread(SysParts, words) \in Seq(Pieces) /\ Spread(NotSys, words) \in Seq(WordSet)
    BY <1>7, SysPartsType, NotSysType, SpreadType
<1> HIDE DEF words, lifted, text, rs
<1>13. /\ Spread(NotSys, lifted \o words) = Spread(NotSys, words)
       /\ Spread(SysParts, lifted \o words) = text \o Spread(SysParts, words)
    <2>1. \A s, t : s \in Seq(WordSet) /\ t \in Seq(WordSet) =>
            /\ Spread(NotSys, s \o t) = Spread(NotSys, s) \o Spread(NotSys, t)
            /\ Spread(SysParts, s \o t) = Spread(SysParts, s) \o Spread(SysParts, t)
        BY ConcatKept
    <2>2. words \in Seq(WordSet) /\ lifted \in Seq(WordSet)
        BY <1>7, <1>9
    <2>3. /\ Spread(NotSys, lifted \o words) = Spread(NotSys, lifted) \o Spread(NotSys, words)
          /\ Spread(SysParts, lifted \o words) = Spread(SysParts, lifted) \o Spread(SysParts, words)
        BY <2>1, <2>2, Zenon
    <2>4. <<>> \o Spread(NotSys, words) = Spread(NotSys, words)
        BY <1>12, ConcatNone
    <2>5. QED
        BY <1>9, <2>3, <2>4
<1>14. ItemsSent(doc) = req.codexInput
    BY <1>1, <1>3, <1>4, SentEvents
<1>15. Meaning(ItemsSent(doc)) = Spread(NotSys, words)
    BY <1>3, <1>10, <1>14, MeaningIs
<1>16. doc.messages = <<>> /\ doc.instructions = Optional(req.codexInstructions)
    BY <1>3, <1>4, SentCodex DEF Marshal
<1>17. Flatten(SystemTexts(doc.messages)) = <<>>
    BY <1>16, NoSystem, FlattenNone
<1>18. text \o Spread(SysParts, words) \in Seq(Pieces)
    BY <1>5, <1>12, ConcatType
<1>19. Flatten(doc.instructions) = text \o Spread(SysParts, words)
    BY <1>2, <1>11, <1>16, <1>18, OptionalFlat
<1>20. QED
    BY <1>8, <1>13, <1>15, <1>17, <1>18, <1>19, ConcatNone

\* What is sent upstream says what the client said.
LEMMA SaidSent ==
    ASSUME NEW q, OrderlyTelling(q), NEW req, Prepared(q, req),
           NEW doc, doc = Marshal(q.provider, req)
    PROVE  /\ Meaning(ItemsSent(doc)) = Spread(NotSys, Spread(TurnSays, q.said))
           /\ Flatten(doc.instructions) \o Flatten(SystemTexts(doc.messages))
                = Spread(SysParts, Spread(TurnSays, q.said))
<1>1. CASE q.dialect = "responses" /\ q.provider = "codex"
    BY <1>1, ItemsDeliver
<1>2. CASE ~(q.dialect = "responses" /\ q.provider = "codex")
    <2>1. Telling(q) /\ q.provider \in Providers
          /\ q.dialect \in {"chat", "responses", "anthropic"}
        BY DEF OrderlyTelling, Prepared
    <2>2. Spread(MsgSays, req.messages) = Spread(TurnSays, q.said)
        BY <1>2, MessagesSay
    <2>3. req.messages \in Seq(Msgs)
        BY <2>1, PreparedType
    <2>4. req.codexInput = <<>>
        BY <1>2, <2>1, PreparedIs
    <2>5. Meaning(ItemsSent(doc)) = Spread(NotSys, Spread(MsgSays, req.messages))
        BY <2>1, <2>3, <2>4, MessagesDeliver
    <2>6. Flatten(doc.instructions) \o Flatten(SystemTexts(doc.messages))
            = Spread(SysParts, Spread(MsgSays, req.messages))
        BY <2>1, <2>3, <2>4, MessagesInstruct
    <2>7. QED
        BY <2>2, <2>5, <2>6
<1>3. QED
    BY <1>1, <1>2
=============================================================================
