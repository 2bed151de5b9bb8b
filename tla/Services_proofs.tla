-------------------------- MODULE Services_proofs --------------------------
(***************************************************************************)
(* The promises of the services, as behaviours of Services keep them: for  *)
(* each an invariant of the instance that holds while a behaviour is about *)
(* it.  What an instance keeps in s1 to s14 is named at its section.       *)
(***************************************************************************)
EXTENDS Services, FiniteSetTheorems, SequenceTheorems, WellFoundedInduction, TLAPS

-----------------------------------------------------------------------------
(* Sequences of sequences.  No induction theorem of the library takes a set, *)
(* so that these facts rest on the least number outside of one.            *)

\* the sequences of a sequence, one after the other
Flatten(seqs) == Rag!Seqs!FlattenSeq(seqs)

LEMMA NatMin ==
    ASSUME NEW T, T \subseteq Nat, T # {} PROVE \E n \in T : \A m \in T : n <= m
<1>1. IsWellFoundedOn(OpToRel(<,Nat), Nat)
  BY NatLessThanWellFounded
<1>2. \E n \in T : \A m \in T : ~(<<m, n>> \in OpToRel(<,Nat))
  BY <1>1, WFMin
<1>3. OpToRel(<,Nat) = {ss \in Nat \X Nat : ss[1] < ss[2]}
  BY DEF OpToRel
<1>4. ASSUME NEW m \in T, NEW n \in T, ~(<<m, n>> \in OpToRel(<,Nat)) PROVE n <= m
  <2>1. m \in Nat /\ n \in Nat
    OBVIOUS
  <2>2. m < n => <<m, n>> \in {ss \in Nat \X Nat : ss[1] < ss[2]}
    BY <2>1
  <2>3. ~(m < n)
    BY <1>3, <1>4, <2>2
  <2> QED BY <2>1, <2>3
<1> QED BY <1>2, <1>4

LEMMA NatInd ==
    ASSUME NEW S, S \subseteq Nat, 0 \in S, \A n \in Nat : n \in S => n + 1 \in S
    PROVE  S = Nat
<1> SUFFICES ASSUME Nat \ S # {} PROVE FALSE
  OBVIOUS
<1>1. PICK n \in Nat \ S : \A m \in Nat \ S : n <= m
  BY NatMin
<1> QED BY <1>1


\* the concatenations of the first sequences exist
LEMMA FlattenExists ==
    ASSUME NEW s, Len(s) \in Nat
    PROVE  \A n \in Nat : \E f : f = [i \in 1 .. n |-> IF i = 1 THEN s[i] ELSE f[i - 1] \o s[i]]
<1> DEFINE Def(f, n) == [i \in 1 .. n |-> IF i = 1 THEN s[i] ELSE f[i - 1] \o s[i]]
           Ex(n) == \E f : f = Def(f, n)
           S == {n \in Nat : Ex(n)}
<1>1. 0 \in S
  <2> DEFINE f == [i \in 1 .. 0 |-> 0]
  <2>1. f = Def(f, 0)
    OBVIOUS
  <2> QED BY <2>1
<1>2. ASSUME NEW n \in Nat, n \in S PROVE n + 1 \in S
  <2>1. PICK f : f = Def(f, n)
    BY <1>2
  <2> DEFINE g == [i \in 1 .. n + 1 |-> IF i = n + 1 THEN (IF i = 1 THEN s[i] ELSE f[i - 1] \o s[i]) ELSE f[i]]
  <2>0. \A i \in 1 .. n : f[i] = IF i = 1 THEN s[i] ELSE f[i - 1] \o s[i]
    BY <2>1
  <2>2. ASSUME NEW i \in 1 .. n + 1 PROVE g[i] = IF i = 1 THEN s[i] ELSE g[i - 1] \o s[i]
    <3>1. i # 1 => i - 1 \in 1 .. n /\ i - 1 \in 1 .. n + 1 /\ i - 1 # n + 1
      OBVIOUS
    <3>2. i # n + 1 => i \in 1 .. n
      OBVIOUS
    <3> QED BY <2>0, <3>1, <3>2
  <2>3. g = Def(g, n + 1)
    <3>1. g = [i \in 1 .. n + 1 |-> g[i]]
      OBVIOUS
    <3> HIDE DEF g
    <3> QED BY <2>2, <3>1
  <2> HIDE DEF g, Def
  <2> QED BY <2>3
<1>3. S = Nat
  <2> HIDE DEF Ex
  <2>1. S \subseteq Nat
    OBVIOUS
  <2> HIDE DEF S
  <2> QED BY <1>1, <1>2, <2>1, NatInd
<1>4. \A n \in Nat : Ex(n)
  <2> HIDE DEF Ex
  <2> QED BY <1>3, Zenon
<1> QED BY <1>4

LEMMA FlattenDef ==
    ASSUME NEW s, Len(s) \in Nat \ {0}
    PROVE  \E f : /\ f = [i \in 1 .. Len(s) |-> IF i = 1 THEN s[i] ELSE f[i - 1] \o s[i]]
                 /\ Flatten(s) = f[Len(s)]
<1> DEFINE f == CHOOSE f : f = [i \in 1 .. Len(s) |-> IF i = 1 THEN s[i] ELSE f[i - 1] \o s[i]]
<1>1. f = [i \in 1 .. Len(s) |-> IF i = 1 THEN s[i] ELSE f[i - 1] \o s[i]]
  BY FlattenExists, Zenon
<1>2. Flatten(s) = f[Len(s)]
  BY DEF Flatten, Rag!Seqs!FlattenSeq
<1> QED BY <1>1, <1>2, Zenon

LEMMA SeqInd ==
    ASSUME NEW A, NEW T, T \subseteq Seq(A), <<>> \in T, \A s \in T, e \in A : Append(s, e) \in T
    PROVE  T = Seq(A)
<1> DEFINE S == {n \in Nat : \A s \in Seq(A) : Len(s) = n => s \in T}
<1>1. 0 \in S
  BY EmptySeq
<1>2. ASSUME NEW n \in Nat, n \in S PROVE n + 1 \in S
  <2> SUFFICES ASSUME NEW s \in Seq(A), Len(s) = n + 1 PROVE s \in T
    OBVIOUS
  <2>1. s # <<>>
    BY EmptySeq
  <2>2. PICK t \in Seq(A), e \in A : s = Append(t, e)
    BY <2>1, SequenceEmptyOrAppend
  <2>3. Len(s) = Len(t) + 1 /\ Len(t) \in Nat
    BY <2>2, AppendProperties, LenProperties
  <2>4. t \in T
    BY <1>2, <2>3
  <2> QED BY <2>2, <2>4
<1>3. S = Nat
  <2>1. S \subseteq Nat
    OBVIOUS
  <2> HIDE DEF S
  <2> QED BY <1>1, <1>2, <2>1, NatInd
<1>4. ASSUME NEW s \in Seq(A) PROVE s \in T
  <2>1. Len(s) \in S
    BY <1>3, LenProperties
  <2> QED BY <2>1
<1> QED BY <1>4

LEMMA FlattenEmpty == Flatten(<<>>) = <<>>
BY EmptySeq DEF Flatten, Rag!Seqs!FlattenSeq

LEMMA FlattenTypes == ASSUME NEW A, NEW s \in Seq(Seq(A)) PROVE Flatten(s) \in Seq(A)
<1>1. CASE s = <<>> BY <1>1, FlattenEmpty, EmptySeq
<1>2. CASE s # <<>>
  <2>0. /\ Len(s) \in Nat \ {0} /\ \A i \in 1 .. Len(s) : s[i] \in Seq(A)
    BY <1>2, EmptySeq, LenProperties, ElementOfSeq
  <2>1. PICK f : /\ f = [i \in 1 .. Len(s) |-> IF i = 1 THEN s[i] ELSE f[i - 1] \o s[i]]
                 /\ Flatten(s) = f[Len(s)]
    BY <2>0, FlattenDef
  <2>2. \A i \in 1 .. Len(s) : f[i] = IF i = 1 THEN s[i] ELSE f[i - 1] \o s[i]
    BY <2>1
  <2> DEFINE S == {k \in Nat : k \in 1 .. Len(s) => f[k] \in Seq(A)}
  <2>3. 0 \in S
    OBVIOUS
  <2>4. ASSUME NEW k \in Nat, k \in S PROVE k + 1 \in S
    <3> SUFFICES ASSUME k + 1 \in 1 .. Len(s) PROVE f[k + 1] \in Seq(A)
      OBVIOUS
    <3>1. CASE k = 0 BY <2>0, <2>2, <3>1
    <3>2. CASE k # 0
      <4>0. k \in 1 .. Len(s) /\ k + 1 # 1 /\ (k + 1) - 1 = k
        BY <2>0, <3>2
      <4>1. k \in 1 .. Len(s) /\ f[k + 1] = f[k] \o s[k + 1]
        BY <2>2, <4>0
      <4>2. f[k] \in Seq(A) /\ s[k + 1] \in Seq(A)
        BY <2>0, <2>4, <4>1
      <4> QED BY <4>1, <4>2, ConcatProperties
    <3> QED BY <3>1, <3>2
  <2>5. S = Nat
    <3>1. S \subseteq Nat
      OBVIOUS
    <3> HIDE DEF S
    <3> QED BY <2>3, <2>4, <3>1, NatInd
  <2>6. Len(s) \in S
    BY <2>0, <2>5
  <2> QED BY <2>0, <2>1, <2>6
<1> QED BY <1>1, <1>2

LEMMA FlattenAppend ==
    ASSUME NEW A, NEW s \in Seq(Seq(A)), NEW x \in Seq(A)
    PROVE  Flatten(Append(s, x)) = Flatten(s) \o x
<1> DEFINE t == Append(s, x)
<1>0. /\ t \in Seq(Seq(A)) /\ Len(t) = Len(s) + 1 /\ Len(s) \in Nat /\ t[Len(t)] = x
      /\ \A i \in 1 .. Len(s) : t[i] = s[i]
  BY AppendProperties, LenProperties
<1>5. Len(t) \in Nat \ {0}
  BY <1>0
<1> HIDE DEF t
<1>1. PICK g : /\ g = [i \in 1 .. Len(t) |-> IF i = 1 THEN t[i] ELSE g[i - 1] \o t[i]]
               /\ Flatten(t) = g[Len(t)]
  BY <1>5, FlattenDef
<1>2. \A i \in 1 .. Len(t) : g[i] = IF i = 1 THEN t[i] ELSE g[i - 1] \o t[i]
  BY <1>1
<1>3. CASE s = <<>>
  <2>1. Len(s) = 0 /\ Flatten(s) = <<>>
    BY <1>3, EmptySeq, FlattenEmpty
  <2>2. Flatten(t) = x
    BY <1>0, <1>1, <1>2, <2>1
  <2>3. <<>> \o x = x
    BY ConcatEmptySeq
  <2> QED BY <2>1, <2>2, <2>3 DEF t
<1>4. CASE s # <<>>
  <2>0. Len(s) \in Nat \ {0}
    BY <1>4, EmptySeq
  <2>1. PICK f : /\ f = [i \in 1 .. Len(s) |-> IF i = 1 THEN s[i] ELSE f[i - 1] \o s[i]]
                 /\ Flatten(s) = f[Len(s)]
    BY <2>0, FlattenDef
  <2>2. \A i \in 1 .. Len(s) : f[i] = IF i = 1 THEN s[i] ELSE f[i - 1] \o s[i]
    BY <2>1
  <2> DEFINE S == {k \in Nat : k \in 1 .. Len(s) => f[k] = g[k]}
  <2>3. 0 \in S
    OBVIOUS
  <2>4. ASSUME NEW k \in Nat, k \in S PROVE k + 1 \in S
    <3> SUFFICES ASSUME k + 1 \in 1 .. Len(s) PROVE f[k + 1] = g[k + 1]
      OBVIOUS
    <3>0. k + 1 \in 1 .. Len(t) /\ t[k + 1] = s[k + 1]
      BY <1>0
    <3>1. CASE k = 0 BY <1>2, <2>2, <3>0, <3>1
    <3>2. CASE k # 0
      <4>1. /\ k \in 1 .. Len(s) /\ k + 1 # 1 /\ (k + 1) - 1 = k
        BY <1>0, <3>2
      <4>2. f[k + 1] = f[k] \o s[k + 1] /\ g[k + 1] = g[k] \o t[k + 1]
        BY <1>2, <2>2, <3>0, <4>1
      <4> QED BY <2>4, <3>0, <4>1, <4>2
    <3> QED BY <3>1, <3>2
  <2>5. S = Nat
    <3>1. S \subseteq Nat
      OBVIOUS
    <3> HIDE DEF S
    <3> QED BY <2>3, <2>4, <3>1, NatInd
  <2>6. Len(s) \in S
    BY <2>0, <2>5
  <2>7. f[Len(s)] = g[Len(s)]
    BY <2>0, <2>6
  <2>8. Len(t) # 1 /\ Len(t) - 1 = Len(s) /\ Len(t) \in 1 .. Len(t)
    BY <1>0, <2>0
  <2>9. g[Len(t)] = g[Len(t) - 1] \o t[Len(t)]
    BY <1>2, <2>8
  <2> QED BY <1>0, <1>1, <2>1, <2>7, <2>8, <2>9 DEF t
<1> QED BY <1>3, <1>4

LEMMA FlattenConcat ==
    ASSUME NEW A, NEW s \in Seq(Seq(A)), NEW t \in Seq(Seq(A))
    PROVE  Flatten(s \o t) = Flatten(s) \o Flatten(t)
<1> DEFINE T == {u \in Seq(Seq(A)) : Flatten(s \o u) = Flatten(s) \o Flatten(u)}
<1>1. <<>> \in T
  BY EmptySeq, ConcatEmptySeq, FlattenEmpty, FlattenTypes
<1>2. ASSUME NEW u \in T, NEW x \in Seq(A) PROVE Append(u, x) \in T
  <2>1. Append(u, x) \in Seq(Seq(A)) /\ <<x>> \in Seq(Seq(A)) /\ s \o u \in Seq(Seq(A))
    BY AppendProperties, ConcatProperties
  <2>2. s \o Append(u, x) = Append(s \o u, x)
    <3>1. Append(u, x) = u \o <<x>> /\ Append(s \o u, x) = (s \o u) \o <<x>>
      BY <2>1, AppendIsConcat
    <3>2. (s \o u) \o <<x>> = s \o (u \o <<x>>)
      <4> DEFINE w == <<x>>
      <4>1. s \in Seq(Seq(A)) /\ u \in Seq(Seq(A)) /\ w \in Seq(Seq(A))
        BY <2>1
      <4> HIDE DEF w
      <4>2. (s \o u) \o w = s \o (u \o w)
        BY ONLY <4>1, ConcatAssociative
      <4> QED BY <4>2 DEF w
    <3> QED BY <3>1, <3>2
  <2>3. /\ Flatten(Append(s \o u, x)) = Flatten(s \o u) \o x
        /\ Flatten(Append(u, x)) = Flatten(u) \o x
    BY <2>1, FlattenAppend
  <2>4. (Flatten(s) \o Flatten(u)) \o x = Flatten(s) \o (Flatten(u) \o x)
    <3>1. Flatten(s) \in Seq(A) /\ Flatten(u) \in Seq(A) /\ x \in Seq(A)
      BY FlattenTypes
    <3> QED BY ONLY <3>1, ConcatAssociative
  <2> QED BY <2>1, <2>2, <2>3, <2>4
<1>3. T = Seq(Seq(A))
  <2>1. T \subseteq Seq(Seq(A))
    OBVIOUS
  <2> HIDE DEF T
  <2> QED BY <1>1, <1>2, <2>1, SeqInd
<1> QED BY <1>3

\* what is in one of the sequences is in the whole
LEMMA FlattenHas ==
    ASSUME NEW A, NEW s \in Seq(Seq(A)), NEW i \in DOMAIN s, NEW j \in DOMAIN s[i]
    PROVE  \E p \in DOMAIN Flatten(s) : Flatten(s)[p] = s[i][j]
<1> DEFINE Has(u) == \A k \in DOMAIN u : \A l \in DOMAIN u[k] : \E p \in DOMAIN Flatten(u) : Flatten(u)[p] = u[k][l]
           T == {u \in Seq(Seq(A)) : Has(u)}
<1>1. <<>> \in T
  BY EmptySeq
<1>2. ASSUME NEW u \in T, NEW x \in Seq(A) PROVE Append(u, x) \in T
  <2> DEFINE v == Append(u, x)
             f == Flatten(u)
  <2>1. /\ v \in Seq(Seq(A)) /\ DOMAIN v = 1 .. Len(u) + 1 /\ DOMAIN u = 1 .. Len(u) /\ Len(u) \in Nat
        /\ v[Len(u) + 1] = x /\ \A k \in 1 .. Len(u) : v[k] = u[k]
    BY AppendProperties, LenProperties
  <2>2. f \in Seq(A) /\ Flatten(v) = f \o x
    BY FlattenTypes, FlattenAppend
  <2> HIDE DEF f
  <2>3. /\ DOMAIN (f \o x) = 1 .. Len(f) + Len(x) /\ Len(f) \in Nat /\ Len(x) \in Nat
        /\ DOMAIN f = 1 .. Len(f) /\ DOMAIN x = 1 .. Len(x)
        /\ \A p \in 1 .. Len(f) + Len(x) : (f \o x)[p] = IF p <= Len(f) THEN f[p] ELSE x[p - Len(f)]
    <3>1. f \o x \in Seq(A) /\ Len(f \o x) = Len(f) + Len(x)
      BY <2>2, ConcatProperties
    <3> QED BY <2>2, <3>1, ConcatProperties, LenProperties
  <2>4. ASSUME NEW k \in DOMAIN v, NEW l \in DOMAIN v[k] PROVE \E p \in DOMAIN (f \o x) : (f \o x)[p] = v[k][l]
    <3>1. CASE k = Len(u) + 1
      <4>1. v[k] = x /\ l \in 1 .. Len(x)
        BY <2>1, <2>3, <3>1
      <4>2. /\ Len(f) + l \in 1 .. Len(f) + Len(x) /\ ~(Len(f) + l <= Len(f)) /\ (Len(f) + l) - Len(f) = l
        <5>1. Len(f) \in Nat /\ Len(x) \in Nat /\ l \in 1 .. Len(x)
          BY <2>3, <4>1
        <5> QED BY ONLY <5>1
      <4>3. (f \o x)[Len(f) + l] = x[l]
        BY <2>3, <4>2
      <4> HIDE DEF v
      <4> QED BY <2>3, <4>1, <4>2, <4>3
    <3>2. CASE k # Len(u) + 1
      <4>1. k \in DOMAIN u /\ v[k] = u[k]
        BY <2>1, <3>2
      <4>2. PICK p \in DOMAIN f : f[p] = u[k][l]
        <5>1. Has(u)
          OBVIOUS
        <5>2. \E p \in DOMAIN Flatten(u) : Flatten(u)[p] = u[k][l]
          BY <4>1, <5>1
        <5> QED BY <5>2 DEF f
      <4>3. p \in 1 .. Len(f) + Len(x) /\ p <= Len(f)
        BY <2>3, <4>2
      <4>4. (f \o x)[p] = u[k][l]
        BY <2>3, <4>2, <4>3
      <4> HIDE DEF v
      <4> QED BY <2>3, <4>1, <4>3, <4>4
    <3> QED BY <3>1, <3>2
  <2>5. Has(v)
    <3> HIDE DEF v
    <3> SUFFICES ASSUME NEW k \in DOMAIN v, NEW l \in DOMAIN v[k]
                 PROVE  \E p \in DOMAIN Flatten(v) : Flatten(v)[p] = v[k][l]
      OBVIOUS
    <3>1. PICK p \in DOMAIN (f \o x) : (f \o x)[p] = v[k][l]
      BY <2>4
    <3>2. Flatten(v) = f \o x
      BY <2>2
    <3> QED BY ONLY <3>1, <3>2
  <2> HIDE DEF Has
  <2> QED BY <2>1, <2>5
<1>3. T = Seq(Seq(A))
  <2>1. T \subseteq Seq(Seq(A))
    OBVIOUS
  <2> HIDE DEF T
  <2> QED BY <1>1, <1>2, <2>1, SeqInd
<1>4. Has(s)
  BY <1>3
<1> QED BY <1>4

\* each element of a sequence replaced by what h makes of it
Spread(h, s) == Flatten([i \in DOMAIN s |-> h[s[i]]])

\* h makes a sequence of B of each of A
Spreads(h, A, B) == h \in [A -> Seq(B)]

LEMMA SpreadTypes ==
    ASSUME NEW A, NEW B, NEW h, Spreads(h, A, B), NEW s \in Seq(A)
    PROVE  /\ [i \in DOMAIN s |-> h[s[i]]] \in Seq(Seq(B))
           /\ Len([i \in DOMAIN s |-> h[s[i]]]) = Len(s)
           /\ Spread(h, s) \in Seq(B)
<1>1. DOMAIN s = 1 .. Len(s) /\ Len(s) \in Nat /\ \A i \in 1 .. Len(s) : h[s[i]] \in Seq(B)
  BY LenProperties, ElementOfSeq DEF Spreads
<1>2. [i \in DOMAIN s |-> h[s[i]]] \in Seq(Seq(B)) /\ Len([i \in DOMAIN s |-> h[s[i]]]) = Len(s)
  BY <1>1
<1> QED BY <1>2, FlattenTypes DEF Spread

LEMMA SpreadEmpty == \A h : Spread(h, <<>>) = <<>>
<1>1. \A h : [i \in DOMAIN <<>> |-> h[<<>>[i]]] = <<>>
  OBVIOUS
<1> QED BY <1>1, FlattenEmpty DEF Spread

LEMMA SpreadOne ==
    ASSUME NEW A, NEW B, NEW h, Spreads(h, A, B), NEW a \in A PROVE Spread(h, <<a>>) = h[a]
<1>1. [i \in DOMAIN <<a>> |-> h[<<a>>[i]]] = <<h[a]>>
  OBVIOUS
<1>2. <<h[a]>> = Append(<<>>, h[a]) /\ <<>> \in Seq(Seq(B)) /\ h[a] \in Seq(B)
  BY EmptySeq DEF Spreads
<1>3. Flatten(<<h[a]>>) = <<>> \o h[a]
  BY <1>2, FlattenAppend, FlattenEmpty
<1> QED BY <1>1, <1>2, <1>3, ConcatEmptySeq DEF Spread

LEMMA SpreadConcat ==
    ASSUME NEW A, NEW B, NEW h, Spreads(h, A, B), NEW s \in Seq(A), NEW t \in Seq(A)
    PROVE  Spread(h, s \o t) = Spread(h, s) \o Spread(h, t)
<1> DEFINE M(u) == [i \in DOMAIN u |-> h[u[i]]]
<1>1. /\ s \o t \in Seq(A) /\ Len(s \o t) = Len(s) + Len(t) /\ Len(s) \in Nat /\ Len(t) \in Nat
      /\ DOMAIN s = 1 .. Len(s) /\ DOMAIN t = 1 .. Len(t) /\ DOMAIN (s \o t) = 1 .. Len(s \o t)
      /\ \A i \in 1 .. Len(s) + Len(t) : (s \o t)[i] = IF i <= Len(s) THEN s[i] ELSE t[i - Len(s)]
  BY ConcatProperties, LenProperties
<1>2. /\ M(s) \in Seq(Seq(B)) /\ M(t) \in Seq(Seq(B)) /\ M(s \o t) \in Seq(Seq(B))
      /\ Len(M(s)) = Len(s) /\ Len(M(t)) = Len(t) /\ Len(M(s \o t)) = Len(s) + Len(t)
  <2>1. ASSUME NEW u \in Seq(A) PROVE M(u) \in Seq(Seq(B)) /\ Len(M(u)) = Len(u)
    BY SpreadTypes
  <2> HIDE DEF M
  <2> QED BY <1>1, <2>1
<1>3. ASSUME NEW i \in 1 .. Len(s) + Len(t) PROVE M(s \o t)[i] = (M(s) \o M(t))[i]
  <2>1. M(s \o t)[i] = h[IF i <= Len(s) THEN s[i] ELSE t[i - Len(s)]]
    BY <1>1
  <2>2. (M(s) \o M(t))[i] = IF i <= Len(s) THEN M(s)[i] ELSE M(t)[i - Len(s)]
    <3> HIDE DEF M
    <3>1. M(s) \in Seq(Seq(B)) /\ M(t) \in Seq(Seq(B))
      BY <1>2
    <3>2. \A j \in 1 .. Len(M(s)) + Len(M(t)) :
            (M(s) \o M(t))[j] = IF j <= Len(M(s)) THEN M(s)[j] ELSE M(t)[j - Len(M(s))]
      BY ONLY <3>1, ConcatProperties
    <3> QED BY <1>2, <3>2
  <2>3. IF i <= Len(s) THEN i \in DOMAIN s ELSE i - Len(s) \in DOMAIN t
    BY <1>1
  <2> QED BY <2>1, <2>2, <2>3
<1>4. M(s \o t) = M(s) \o M(t)
  <2> HIDE DEF M
  <2>0. M(s) \in Seq(Seq(B)) /\ M(t) \in Seq(Seq(B))
    BY <1>2
  <2>1. M(s) \o M(t) \in Seq(Seq(B)) /\ Len(M(s) \o M(t)) = Len(M(s)) + Len(M(t))
    BY ONLY <2>0, ConcatProperties
  <2> QED BY <1>2, <1>3, <2>1, SeqEqual
<1>5. Flatten(M(s) \o M(t)) = Flatten(M(s)) \o Flatten(M(t))
  <2> HIDE DEF M
  <2> QED BY <1>2, FlattenConcat
<1> QED BY <1>4, <1>5 DEF Spread

LEMMA SpreadAppend ==
    ASSUME NEW A, NEW B, NEW h, Spreads(h, A, B), NEW s \in Seq(A), NEW a \in A
    PROVE  Spread(h, Append(s, a)) = Spread(h, s) \o h[a]
<1>1. Append(s, a) = s \o <<a>> /\ <<a>> \in Seq(A)
  BY AppendIsConcat
<1>2. Spread(h, s \o <<a>>) = Spread(h, s) \o Spread(h, <<a>>)
  <2> DEFINE t == <<a>>
  <2>1. Spreads(h, A, B) /\ s \in Seq(A) /\ t \in Seq(A)
    OBVIOUS
  <2> HIDE DEF t
  <2>2. Spread(h, s \o t) = Spread(h, s) \o Spread(h, t)
    BY ONLY <2>1, SpreadConcat
  <2> QED BY <2>2 DEF t
<1>3. Spread(h, <<a>>) = h[a]
  BY SpreadOne
<1> QED BY <1>1, <1>2, <1>3

LEMMA SeqOfMore == ASSUME NEW A, NEW B, A \subseteq B, NEW s \in Seq(A) PROVE s \in Seq(B)
OBVIOUS

\* the parts are what h makes of those of ss, in their order
SpreadParts(h, A, B, ss, parts) ==
    /\ Spreads(h, A, B) /\ ss \in Seq(Seq(A)) /\ parts \in Seq(Seq(B)) /\ Len(parts) = Len(ss)
    /\ \A i \in 1 .. Len(ss) : parts[i] = Spread(h, ss[i])

\* to spread what was flattened is to flatten what each part is spread to
LEMMA SpreadFlatten ==
    ASSUME NEW A, NEW B, NEW h, Spreads(h, A, B), NEW ss \in Seq(Seq(A))
    PROVE  \A parts : SpreadParts(h, A, B, ss, parts) => Spread(h, Flatten(ss)) = Flatten(parts)
<1> DEFINE P(u) == [i \in DOMAIN u |-> Spread(h, u[i])]
           T == {u \in Seq(Seq(A)) : Spread(h, Flatten(u)) = Flatten(P(u))}
<1>0. \A u \in Seq(A) : Spread(h, u) \in Seq(B)
  BY SpreadTypes
<1>a. ASSUME NEW u \in Seq(Seq(A))
      PROVE  P(u) \in Seq(Seq(B)) /\ Len(P(u)) = Len(u) /\ \A i \in 1 .. Len(u) : P(u)[i] = Spread(h, u[i])
  <2>1. Len(u) \in Nat /\ DOMAIN u = 1 .. Len(u) /\ \A i \in 1 .. Len(u) : u[i] \in Seq(A)
    BY LenProperties, ElementOfSeq
  <2> DEFINE g(i) == Spread(h, u[i])
  <2>2. \A i \in 1 .. Len(u) : g(i) \in Seq(B)
    BY <1>0, <2>1
  <2> HIDE DEF g
  <2>3. /\ [i \in 1 .. Len(u) |-> g(i)] \in Seq(Seq(B)) /\ Len([i \in 1 .. Len(u) |-> g(i)]) = Len(u)
        /\ \A i \in 1 .. Len(u) : [j \in 1 .. Len(u) |-> g(j)][i] = g(i)
    BY <2>1, <2>2
  <2> QED BY <2>1, <2>3 DEF g
<1>1. <<>> \in T
  <2>1. P(<<>>) = <<>>
    OBVIOUS
  <2> QED BY <2>1, EmptySeq, FlattenEmpty, SpreadEmpty
<1>2. ASSUME NEW u \in Seq(Seq(A)), Spread(h, Flatten(u)) = Flatten(P(u)), NEW x \in Seq(A)
      PROVE  Append(u, x) \in Seq(Seq(A)) /\ Spread(h, Flatten(Append(u, x))) = Flatten(P(Append(u, x)))
  <2> DEFINE v == Append(u, x)
             y == Spread(h, x)
             f == Flatten(u)
             p == P(u)
             q == P(v)
  <2>1. v \in Seq(Seq(A)) /\ Flatten(v) = f \o x /\ f \in Seq(A) /\ y \in Seq(B)
    BY <1>0, AppendProperties, FlattenAppend, FlattenTypes
  <2>2. /\ Len(u) \in Nat /\ Len(v) = Len(u) + 1
        /\ \A i \in 1 .. Len(u) : v[i] = u[i]
        /\ v[Len(u) + 1] = x
    BY LenProperties, AppendProperties
  <2>3. /\ p \in Seq(Seq(B)) /\ Len(p) = Len(u) /\ \A i \in 1 .. Len(u) : p[i] = Spread(h, u[i])
    BY <1>a
  <2> HIDE DEF v
  <2>4. /\ q \in Seq(Seq(B)) /\ Len(q) = Len(v) /\ \A i \in 1 .. Len(v) : q[i] = Spread(h, v[i])
    BY <1>a, <2>1
  <2> HIDE DEF P, y, f, p, q
  <2>5. Spread(h, f \o x) = Spread(h, f) \o y
    BY <2>1, SpreadConcat DEF y
  <2>6. /\ Append(p, y) \in Seq(Seq(B)) /\ Len(Append(p, y)) = Len(u) + 1
        /\ \A i \in 1 .. Len(u) : Append(p, y)[i] = p[i]
        /\ Append(p, y)[Len(u) + 1] = y
    <3>1. p \in Seq(Seq(B)) /\ y \in Seq(B) /\ Len(p) = Len(u)
      BY <2>1, <2>3
    <3> QED BY ONLY <3>1, AppendProperties
  <2>7. ASSUME NEW i \in 1 .. Len(u) + 1 PROVE q[i] = Append(p, y)[i]
    <3>1. CASE i = Len(u) + 1
      <4>1. q[i] = Spread(h, x)
        BY <2>2, <2>4, <3>1
      <4> QED BY <2>6, <3>1, <4>1 DEF y
    <3>2. CASE i # Len(u) + 1
      <4>1. i \in 1 .. Len(u) /\ i \in 1 .. Len(v)
        BY <2>2, <3>2
      <4>2. q[i] = Spread(h, v[i]) /\ v[i] = u[i] /\ p[i] = Spread(h, u[i]) /\ Append(p, y)[i] = p[i]
        BY <2>2, <2>3, <2>4, <2>6, <4>1
      <4> QED BY <4>2
    <3> QED BY <3>1, <3>2
  <2>8. q = Append(p, y)
    <3>1. Len(q) = Len(u) + 1
      BY <2>2, <2>4
    <3> QED BY <2>4, <2>6, <2>7, <3>1, SeqEqual
  <2>9. Flatten(Append(p, y)) = Flatten(p) \o y
    BY <2>1, <2>3, FlattenAppend
  <2>10. Spread(h, f) = Flatten(p)
    BY <1>2 DEF f, p
  <2> QED BY <2>1, <2>5, <2>8, <2>9, <2>10 DEF v, q
<1>3. T = Seq(Seq(A))
  <2>1. T \subseteq Seq(Seq(A)) /\ \A u \in T, x \in Seq(A) : Append(u, x) \in T
    <3> HIDE DEF P
    <3> QED BY <1>2
  <2> HIDE DEF T
  <2> QED BY <1>1, <2>1, SeqInd
<1>4. Spread(h, Flatten(ss)) = Flatten(P(ss))
  <2> HIDE DEF P
  <2> QED BY <1>3
<1>5. ASSUME NEW parts, SpreadParts(h, A, B, ss, parts) PROVE parts = P(ss)
  <2> DEFINE p == P(ss)
  <2>1. p \in Seq(Seq(B)) /\ Len(p) = Len(ss) /\ \A i \in 1 .. Len(ss) : p[i] = Spread(h, ss[i])
    BY <1>a
  <2> HIDE DEF p
  <2>2. parts \in Seq(Seq(B)) /\ Len(parts) = Len(ss) /\ \A i \in 1 .. Len(ss) : parts[i] = Spread(h, ss[i])
    BY <1>5 DEF SpreadParts
  <2>3. parts = p
    BY <2>1, <2>2, SeqEqual
  <2> QED BY <2>3 DEF p
<1> HIDE DEF P
<1> QED BY <1>4, <1>5

LEMMA SpreadAssembled ==
    ASSUME NEW A, NEW B, NEW h, NEW ss, NEW parts, SpreadParts(h, A, B, ss, parts)
    PROVE  Spread(h, Flatten(ss)) = Flatten(parts)
<1>1. Spreads(h, A, B) /\ ss \in Seq(Seq(A))
  BY DEF SpreadParts
<1> QED BY <1>1, SpreadFlatten

\* parts that are empty, and parts of one element
LEMMA FlattenNothing == \A s \in Seq({<<>>}) : Flatten(s) = <<>>
<1> DEFINE T == {u \in Seq({<<>>}) : Flatten(u) = <<>>}
<1>1. <<>> \in T
  BY EmptySeq, FlattenEmpty
<1>2. ASSUME NEW u \in Seq({<<>>}), Flatten(u) = <<>>
      PROVE  Append(u, <<>>) \in Seq({<<>>}) /\ Flatten(Append(u, <<>>)) = <<>>
  <2>1. u \in Seq(Seq({})) /\ <<>> \in Seq({}) /\ Append(u, <<>>) \in Seq({<<>>})
    <3>1. <<>> \in Seq({})
      BY EmptySeq
    <3>2. Len(u) \in Nat /\ DOMAIN u = 1 .. Len(u) /\ u = [i \in 1 .. Len(u) |-> u[i]]
          /\ \A i \in 1 .. Len(u) : u[i] = <<>>
      BY ElementOfSeq, LenProperties
    <3> DEFINE e == <<>>
    <3>3. \A i \in 1 .. Len(u) : u[i] \in Seq({})
      BY <3>1, <3>2
    <3>4. u \in Seq(Seq({}))
      BY ONLY <3>2, <3>3
    <3>5. Append(u, e) \in Seq({e})
      <4>1. e \in {e} /\ u \in Seq({e})
        OBVIOUS
      <4> HIDE DEF e
      <4> QED BY <4>1, AppendProperties
    <3> QED BY <3>1, <3>4, <3>5
  <2>2. Flatten(Append(u, <<>>)) = Flatten(u) \o <<>>
    BY ONLY <2>1, FlattenAppend
  <2> QED BY <1>2, <2>1, <2>2, ConcatEmptySeq
<1>3. T = Seq({<<>>})
  <2>1. T \subseteq Seq({<<>>}) /\ \A u \in T, e \in {<<>>} : Append(u, e) \in T
    BY <1>2
  <2> HIDE DEF T
  <2> QED BY <1>1, <2>1, SeqInd
<1> QED BY <1>3

LEMMA SpreadSingles ==
    ASSUME NEW A, NEW B, NEW h, Spreads(h, A, B), NEW C, C \subseteq A, \A c \in C : h[c] = <<c>>, NEW s \in Seq(C)
    PROVE  Spread(h, s) = s
<1> DEFINE T == {u \in Seq(C) : Spread(h, u) = u}
<1>0. \A u \in Seq(C) : u \in Seq(A)
  OBVIOUS
<1>1. <<>> \in T
  BY EmptySeq, SpreadEmpty
<1>2. ASSUME NEW u \in Seq(C), Spread(h, u) = u, NEW c \in C
      PROVE  Append(u, c) \in Seq(C) /\ Spread(h, Append(u, c)) = Append(u, c)
  <2>1. u \in Seq(A) /\ c \in A /\ Append(u, c) \in Seq(C) /\ h[c] = <<c>>
    BY <1>0, AppendProperties
  <2>2. Spread(h, Append(u, c)) = Spread(h, u) \o h[c]
    <3>1. Spreads(h, A, B) /\ u \in Seq(A) /\ c \in A
      BY <2>1
    <3> QED BY ONLY <3>1, SpreadAppend
  <2>3. Append(u, c) = u \o <<c>>
    BY AppendIsConcat
  <2> QED BY <1>2, <2>1, <2>2, <2>3
<1>3. T = Seq(C)
  <2>1. T \subseteq Seq(C) /\ \A u \in T, c \in C : Append(u, c) \in T
    BY <1>2
  <2> HIDE DEF T
  <2> QED BY <1>1, <2>1, SeqInd
<1> QED BY <1>3

-----------------------------------------------------------------------------
(* What a start fills.  s2 is at, s3 code, s4 metrics, s6 tags, s7 bindings, *)
(* s9 doing and s11 rated.                                                 *)

MetricRow == [builtin : BOOLEAN, active : BOOLEAN, count : Nat, num : Nat, den : Nat]

\* a request goes on with a name and a row it has read; rows are never deleted
RegAsked ==
    /\ DOMAIN s9 = Clients
    /\ \A c \in Clients :
         /\ s9[c].op = "metric" => s9[c].name \in Names
         /\ s9[c].op = "rate" =>
              /\ s9[c].name \in Names /\ Reg!Exists(s9[c].name)
              /\ s9[c].row \in MetricRow /\ s9[c].row.den > 0 /\ s9[c].rating \in Nat
RegOffered ==
    s2 = "up" => \A n \in Names :
      /\ n \in s3 => s4[n].active
      /\ n \notin s3 /\ s4[n].builtin => ~s4[n].active
RegRated == s11 \subseteq Names /\ \A n \in s11 : Reg!Exists(n) /\ s4[n].count > 0
RegBound == \A b \in s7 : b.tag \in s6
RegInv ==
    s3 \subseteq Names /\ s4 \in [Names -> MetricRow] /\ RegAsked /\ RegOffered /\ RegRated /\ RegBound

LEMMA RegStart == Reg!Init => RegInv
BY DEF Reg!Init, RegInv, MetricRow, RegAsked, RegOffered, RegRated, RegBound, Reg!NoRow, Reg!Idle

\* a step that leaves the metrics alone
LEMMA RegKeeps ==
    ASSUME RegInv, UNCHANGED <<s3, s4, s11>>, s2' = s2 \/ s2' # "up", RegAsked', RegBound'
    PROVE  RegInv'
BY DEF RegInv, RegOffered, RegRated, Reg!Exists

LEMMA RegIdles ==
    ASSUME RegInv, UNCHANGED s4, s9' = [c \in Clients |-> Reg!Idle]
    PROVE  RegAsked'
BY DEF RegAsked, Reg!Idle

LEMMA RegStarts == ASSUME RegInv, Reg!Startup PROVE RegInv'
<1>1. CASE Reg!InitPresetSources
  <2>1. RegAsked' /\ RegBound'
    BY <1>1 DEF Reg!InitPresetSources, Reg!deployment, RegInv, RegAsked, RegBound, Reg!Exists
  <2> QED BY <1>1, <2>1, RegKeeps DEF Reg!InitPresetSources, Reg!deployment
<1>2. CASE Reg!InitPresetTags
  <2>1. RegAsked' /\ RegBound'
    BY <1>2 DEF Reg!InitPresetTags, Reg!deployment, RegInv, RegAsked, RegBound, Reg!Exists
  <2> QED BY <1>2, <2>1, RegKeeps DEF Reg!InitPresetTags, Reg!deployment
<1>3. CASE Reg!SyncBuiltinMetrics
  <2> USE <1>3 DEF Reg!SyncBuiltinMetrics
  <2>1. \A n \in Names : Reg!Sync(n) \in MetricRow
    BY DEF Reg!Sync, Reg!Metric, RegInv, MetricRow
  <2>2. s4' \in [Names -> MetricRow] /\ \A n \in Names : s4'[n] = Reg!Sync(n)
    BY <2>1
  <2>3. \A n \in Names : Reg!Exists(n) => s4'[n].den = s4[n].den /\ s4'[n].count = s4[n].count
    BY <2>2 DEF Reg!Sync, RegInv, MetricRow, Reg!Exists
  <2>4. RegAsked'
    BY <2>3 DEF RegInv, RegAsked, Reg!Exists
  <2>5. RegOffered'
    BY <2>2 DEF RegInv, RegOffered, Reg!Sync, Reg!Metric, MetricRow
  <2>6. RegRated'
    BY <2>3 DEF RegInv, RegRated, Reg!Exists
  <2> QED BY <2>2, <2>4, <2>5, <2>6 DEF RegInv, RegBound
<1>4. CASE Reg!Stop
  BY <1>4, RegIdles, RegKeeps DEF Reg!Stop, Reg!deployment, Reg!tables, RegInv, RegBound
<1>5. CASE Reg!Deploy
  <2>1. RegAsked' /\ RegBound'
    BY <1>5 DEF Reg!Deploy, Reg!tables, RegInv, RegAsked, RegBound, Reg!Exists
  <2> QED BY <1>5, <2>1 DEF Reg!Deploy, Reg!tables, RegInv, RegOffered, RegRated, Reg!Exists
<1> QED BY <1>1, <1>2, <1>3, <1>4, <1>5 DEF Reg!Startup

\* what a request reads
LEMMA RegReads ==
    ASSUME RegInv, NEW c \in Clients, NEW p, NEW r, Reg!Check(c, p, r),
           r.op = "metric" => r.name \in Names,
           r.op = "rate" => /\ r.name \in Names /\ Reg!Exists(r.name)
                            /\ r.row \in MetricRow /\ r.row.den > 0 /\ r.rating \in Nat
    PROVE  RegInv'
<1>1. RegAsked'
  BY DEF Reg!Check, Reg!tables, RegInv, RegAsked, Reg!Exists
<1> QED BY <1>1, RegKeeps DEF Reg!Check, Reg!tables, Reg!deployment, RegInv, RegBound

\* a commit that leaves the metrics alone
LEMMA RegWrites ==
    ASSUME RegInv, NEW c \in Clients, NEW op, Reg!At(c, op), UNCHANGED <<s4, s11>>, RegBound'
    PROVE  RegInv'
<1>1. RegAsked'
  BY DEF Reg!At, Reg!Idle, RegInv, RegAsked, Reg!Exists
<1> QED BY <1>1, RegKeeps DEF Reg!At, Reg!deployment

LEMMA RegHandles == ASSUME RegInv, NEW c \in Clients, Reg!Handle(c) PROVE RegInv'
<1>1. CASE Reg!CheckMetric(c)
  BY <1>1, RegReads DEF Reg!CheckMetric
<1>2. CASE Reg!CreateMetric(c)
  <2> USE <1>2 DEF Reg!CreateMetric, Reg!At
  <2> DEFINE n == s9[c].name
  <2>1. n \in Names
    BY DEF RegInv, RegAsked
  <2>2. s4' = s4 \/ (~Reg!Exists(n) /\ s4' = [s4 EXCEPT ![n] = Reg!Metric(FALSE)])
    OBVIOUS
  <2>3. Reg!Metric(FALSE) \in MetricRow
    BY DEF Reg!Metric, MetricRow
  <2>4. s4' \in [Names -> MetricRow] /\ \A m \in Names : Reg!Exists(m) => s4'[m] = s4[m]
    BY <2>1, <2>2, <2>3 DEF RegInv
  <2>5. \A m \in Names : s4'[m] = s4[m] \/ (s4'[m].active /\ ~s4'[m].builtin)
    BY <2>1, <2>2 DEF RegInv, Reg!Metric
  <2>6. RegAsked'
    BY <2>4 DEF RegInv, RegAsked, Reg!Idle, Reg!Exists
  <2>7. RegOffered'
    BY <2>5 DEF RegInv, RegOffered, Reg!deployment
  <2>8. RegRated'
    BY <2>4 DEF RegInv, RegRated, Reg!Exists
  <2> QED BY <2>4, <2>6, <2>7, <2>8 DEF RegInv, RegBound, Reg!deployment
<1>3. CASE Reg!ReadMetric(c)
  BY <1>3, RegReads, RatingsAssumption DEF Reg!ReadMetric, RegInv, Reg!Exists
<1>4. CASE Reg!RateMetric(c)
  <2> DEFINE n == s9[c].name
             row == s9[c].row
             count == row.count + 1
             num == row.num * row.count + s9[c].rating * row.den
             den == row.den * count
             same == row.count > 0 /\ num * row.den = row.num * den
             newNum == IF same THEN s4[n].num ELSE num
             newDen == IF same THEN s4[n].den ELSE den
  <2>1. n \in Names /\ Reg!Exists(n) /\ row \in MetricRow /\ row.den > 0 /\ s9[c].rating \in Nat
    BY <1>4 DEF RegInv, RegAsked, Reg!RateMetric, Reg!At
  <2>2. s4[n] \in MetricRow /\ s4[n].den > 0
    BY <2>1 DEF RegInv, Reg!Exists
  <2>3. count \in Nat /\ count > 0 /\ num \in Nat /\ den \in Nat
    BY <2>1 DEF MetricRow
  <2>4. den > 0
    <3>1. \A a, b \in Nat : a > 0 /\ b > 0 => a * b > 0
      BY Z3
    <3>2. row.den \in Nat
      BY <2>1 DEF MetricRow
    <3> QED BY <2>1, <2>3, <3>1, <3>2
  <2>5. newNum \in Nat /\ newDen \in Nat /\ newDen > 0
    BY <2>2, <2>3, <2>4 DEF MetricRow
  <2>6. /\ s4' = [s4 EXCEPT ![n].count = count, ![n].num = newNum, ![n].den = newDen]
        /\ s11' = s11 \cup {n} /\ s9' = [s9 EXCEPT ![c] = Reg!Idle]
        /\ UNCHANGED <<s2, s3, s6, s7>>
    BY <1>4 DEF Reg!RateMetric, Reg!At, Reg!deployment
  <2> HIDE DEF n, count, newNum, newDen
  <2>7. /\ s4' \in [Names -> MetricRow]
        /\ s4'[n].count = count /\ s4'[n].den = newDen
        /\ \A m \in Names :
             /\ s4'[m].builtin = s4[m].builtin /\ s4'[m].active = s4[m].active
             /\ m # n => s4'[m] = s4[m]
    BY <2>1, <2>3, <2>5, <2>6 DEF RegInv, MetricRow
  <2>8. \A m \in Names : m = n \/ Reg!Exists(m) => Reg!Exists(m)'
    BY <2>5, <2>7 DEF Reg!Exists
  <2>9. RegAsked'
    BY <2>6, <2>8 DEF RegInv, RegAsked, Reg!Idle
  <2>10. RegOffered'
    BY <2>6, <2>7 DEF RegInv, RegOffered
  <2>11. RegRated'
    BY <2>1, <2>3, <2>6, <2>7, <2>8 DEF RegInv, RegRated
  <2> QED BY <2>6, <2>7, <2>9, <2>10, <2>11 DEF RegInv, RegBound
<1>5. CASE Reg!CheckSource(c)
  BY <1>5, RegReads DEF Reg!CheckSource
<1>6. CASE Reg!CreateSource(c)
  BY <1>6, RegWrites DEF Reg!CreateSource, RegInv, RegBound
<1>7. CASE Reg!DeleteSource(c) \/ Reg!DeleteCopy(c)
  <2>1. RegAsked' /\ RegBound'
    BY <1>7 DEF Reg!DeleteSource, Reg!DeleteCopy, RegInv, RegAsked, RegBound, Reg!Exists
  <2> QED BY <1>7, <2>1, RegKeeps DEF Reg!DeleteSource, Reg!DeleteCopy, Reg!deployment
<1>8. CASE Reg!CheckTag(c)
  BY <1>8, RegReads DEF Reg!CheckTag
<1>9. CASE Reg!CreateTag(c)
  BY <1>9, RegWrites DEF Reg!CreateTag, RegInv, RegBound
<1>10. CASE Reg!DeleteTag(c)
  <2>1. RegAsked' /\ RegBound'
    BY <1>10 DEF Reg!DeleteTag, RegInv, RegAsked, RegBound, Reg!Exists
  <2> QED BY <1>10, <2>1, RegKeeps DEF Reg!DeleteTag, Reg!deployment
<1>11. CASE Reg!CheckBinding(c)
  BY <1>11, RegReads DEF Reg!CheckBinding
<1>12. CASE Reg!ReadBindings(c)
  BY <1>12, RegReads DEF Reg!ReadBindings
<1>13. CASE Reg!WriteBindings(c)
  BY <1>13, RegWrites DEF Reg!WriteBindings, RegInv, RegBound
<1>14. CASE Reg!UnbindTag(c)
  <2>1. RegAsked' /\ RegBound'
    BY <1>14 DEF Reg!UnbindTag, RegInv, RegAsked, RegBound, Reg!Exists
  <2> QED BY <1>14, <2>1, RegKeeps DEF Reg!UnbindTag, Reg!deployment
<1>15. CASE Reg!CheckCopy(c)
  BY <1>15, RegReads DEF Reg!CheckCopy
<1>16. CASE Reg!CreateCopy(c)
  BY <1>16, RegWrites DEF Reg!CreateCopy, RegInv, RegBound
<1> QED BY <1>1, <1>2, <1>3, <1>4, <1>5, <1>6, <1>7, <1>8, <1>9, <1>10, <1>11, <1>12,
           <1>13, <1>14, <1>15, <1>16 DEF Reg!Handle

\* While the application is up, the market of metrics offers what the registries of its code
\* have and nothing built in that they do not have, what was rated keeps its statistics, and
\* no binding is of a tag that is gone (builtin_metrics.py:82).
THEOREM OfferedIsRegistryThm == Spec => []OfferedIsRegistry
<1>1. Init => (focus = "reg" => RegInv)
  BY RegStart DEF Init
<1>2. (focus = "reg" => RegInv) /\ [Next]_vars => (focus = "reg" => RegInv)'
  <2> SUFFICES ASSUME RegInv, [Next]_vars, focus = "reg" PROVE RegInv'
    BY DEF Next, vars
  <2>1. CASE UNCHANGED vars
    BY <2>1 DEF vars, RegInv, RegAsked, RegOffered, RegRated, RegBound, Reg!Exists
  <2>2. CASE Reg!Next
    BY <2>2, RegStarts, RegHandles DEF Reg!Next
  <2> QED BY <2>1, <2>2 DEF Next
<1>3. (focus = "reg" => RegInv) => OfferedIsRegistry
  BY DEF RegInv, RegOffered, RegRated, RegBound, OfferedIsRegistry, Reg!OfferedIsRegistry
<1> QED BY <1>1, <1>2, <1>3, PTL DEF Spec

-----------------------------------------------------------------------------
(* The workflow builder.  s5 is flow, s7 execs, s8 doing and s12 lost.     *)

InSandbox(c) == s8[c].op = "sandbox"

\* who is in the sandbox stands for a row of its own
VibeDoing ==
    /\ DOMAIN s8 = Browsers
    /\ \A c \in Browsers :
         /\ "op" \in DOMAIN s8[c]
         /\ InSandbox(c) => s8[c].n \in 1 .. Len(s7) /\ s8[c] = [op |-> "sandbox", n |-> s8[c].n]
RowStatuses == ScriptStatuses \cup {"running", "success", "error", "timeout", "failed"}
Execution == [status : RowStatuses, own : BOOLEAN]
Unsettled(e) == e.status = "running" /\ ~e.own
VibeRows == s7 \in Seq(Execution) /\ "status" \in DOMAIN s5
VibeSettles ==
    ~s12 =>
      /\ s5.status = "executing" => \E c \in Browsers : InSandbox(c)
      /\ \A i \in DOMAIN s7 : Unsettled(s7[i]) => \E c \in Browsers : InSandbox(c) /\ s8[c].n = i
VibeInv == VibeDoing /\ VibeRows /\ VibeSettles

LEMMA NoElements == DOMAIN <<>> = {} /\ Len(<<>>) = 0 /\ \A S : <<>> \in Seq(S)
<1>1. \A S : <<>> \in Seq(S) /\ Len(<<>>) = 0
  BY EmptySeq
<1>2. DOMAIN <<>> = 1 .. 0
  BY <1>1, LenProperties
<1> QED BY <1>1, <1>2

LEMMA VibeStart == Vibe!Init => VibeInv
<1> SUFFICES ASSUME Vibe!Init PROVE VibeInv
  OBVIOUS
<1>1. s8 = [c \in Browsers |-> [op |-> "idle"]] /\ s7 = <<>> /\ s5.status = "no row"
  BY DEF Vibe!Init, Vibe!Idle
<1>2. "status" \in DOMAIN s5
  BY DEF Vibe!Init
<1>3. VibeDoing
  BY <1>1 DEF VibeDoing, InSandbox
<1>4. s7 \in Seq(Execution) /\ DOMAIN s7 = {}
  BY <1>1, NoElements
<1>5. VibeSettles
  BY <1>1, <1>4 DEF VibeSettles
<1> QED BY <1>2, <1>3, <1>4, <1>5 DEF VibeInv, VibeRows

\* a step that neither enters nor leaves the sandbox
LEMMA VibeFrame ==
    ASSUME VibeInv, UNCHANGED <<s7, s12>>, DOMAIN s8' = Browsers,
           "status" \in DOMAIN s5', s5'.status = s5.status \/ s5'.status # "executing",
           \A d \in Browsers : /\ "op" \in DOMAIN s8'[d]
                               /\ InSandbox(d) \/ InSandbox(d)' => s8'[d] = s8[d]
    PROVE  VibeInv'
BY DEF VibeInv, VibeDoing, VibeRows, VibeSettles, InSandbox

LEMMA VibeBegins ==
    ASSUME VibeInv, NEW c \in Browsers, NEW r, Vibe!Begin(c, r), "op" \in DOMAIN r, r.op # "sandbox",
           UNCHANGED <<s5, s7, s12>>
    PROVE  VibeInv'
<1>1. DOMAIN s8' = Browsers /\ s8'[c] = r /\ \A d \in Browsers \ {c} : s8'[d] = s8[d]
  BY DEF Vibe!Begin, VibeInv, VibeDoing
<1>2. ~InSandbox(c) /\ ~InSandbox(c)'
  BY <1>1 DEF Vibe!Begin, Vibe!Idle, InSandbox
<1> QED BY <1>1, <1>2, VibeFrame DEF VibeInv, VibeDoing, VibeRows

LEMMA VibeMoves ==
    ASSUME VibeInv, NEW c \in Browsers, ~InSandbox(c), UNCHANGED <<s7, s12>>,
           (\E op : op # "sandbox" /\ Vibe!Goto(c, op)) \/ Vibe!End(c),
           "status" \in DOMAIN s5', s5'.status = s5.status
    PROVE  VibeInv'
<1>1. DOMAIN s8' = Browsers /\ \A d \in Browsers \ {c} : s8'[d] = s8[d]
  BY DEF Vibe!Goto, Vibe!End, VibeInv, VibeDoing
<1>2. "op" \in DOMAIN s8'[c] /\ ~InSandbox(c)'
  BY DEF Vibe!Goto, Vibe!End, Vibe!Idle, VibeInv, VibeDoing, InSandbox
<1> QED BY <1>1, <1>2, VibeFrame DEF VibeInv, VibeDoing

LEMMA VibeTalks == ASSUME VibeInv, NEW c \in Browsers, Vibe!HandleConversation(c) PROVE VibeInv'
<1> USE DEF Vibe!workflow, Vibe!conversation
<1>1. CASE Vibe!CreateSession(c)
  BY <1>1, VibeBegins DEF Vibe!CreateSession, Vibe!Talk
<1>2. CASE Vibe!Start(c)
  <2>1. /\ UNCHANGED <<s5, s7, s12>> /\ DOMAIN s8' = Browsers /\ s8[c] = Vibe!Idle
        /\ s8'[c] = Vibe!Talk("global", "slots", "ws")
        /\ \A d \in Browsers \ {c} : s8'[d] = Vibe!Replaced(s8[d])
    BY <1>2 DEF Vibe!Start
  <2>2. ~InSandbox(c) /\ ~InSandbox(c)' /\ "op" \in DOMAIN s8'[c]
    BY <2>1 DEF Vibe!Idle, Vibe!Talk, InSandbox
  <2>3. ASSUME NEW d \in Browsers \ {c}
        PROVE  "op" \in DOMAIN s8'[d] /\ (InSandbox(d) \/ InSandbox(d)' => s8'[d] = s8[d])
    <3>1. s8'[d].op = s8[d].op /\ "op" \in DOMAIN s8'[d]
      BY <2>1 DEF Vibe!Replaced, VibeInv, VibeDoing
    <3>2. InSandbox(d) => "eng" \notin DOMAIN s8[d]
      BY DEF VibeInv, VibeDoing
    <3> QED BY <2>1, <3>1, <3>2 DEF Vibe!Replaced, InSandbox
  <2> QED BY <2>1, <2>2, <2>3, VibeFrame DEF VibeInv, VibeRows
<1>3. CASE Vibe!GenerateSlots(c)
  BY <1>3, VibeMoves DEF Vibe!GenerateSlots, Vibe!At, InSandbox, VibeInv, VibeRows
<1>4. CASE Vibe!ProcessUserInput(c)
  BY <1>4, VibeBegins DEF Vibe!ProcessUserInput, Vibe!Talk
<1>5. CASE Vibe!AnalyseInput(c)
  BY <1>5, VibeMoves DEF Vibe!AnalyseInput, Vibe!At, InSandbox, VibeInv, VibeRows
<1>6. CASE Vibe!Tell(c)
  BY <1>6, VibeMoves DEF Vibe!Tell, Vibe!At, InSandbox, VibeInv, VibeRows
<1>7. CASE Vibe!SaveSession(c)
  BY <1>7, VibeMoves DEF Vibe!SaveSession, Vibe!At, InSandbox, VibeInv, VibeRows
<1>8. CASE Vibe!LlmFails(c)
  BY <1>8, VibeMoves DEF Vibe!LlmFails, Vibe!At, InSandbox, VibeInv, VibeRows
<1>9. CASE Vibe!RequestWorkflow(c)
  BY <1>9, VibeBegins DEF Vibe!RequestWorkflow, Vibe!Talk
<1>10. CASE Vibe!GenerateWorkflow(c)
  BY <1>10, VibeMoves DEF Vibe!GenerateWorkflow, Vibe!At, InSandbox, VibeInv, VibeRows
<1> QED BY <1>1, <1>2, <1>3, <1>4, <1>5, <1>6, <1>7, <1>8, <1>9, <1>10 DEF Vibe!HandleConversation

\* what the sandbox gives back is an outcome
LEMMA OutcomesAreFinal == \A o \in Vibe!Outcomes : o \in Execution /\ ~Unsettled(o)
<1> USE DEF Vibe!Returns, RowStatuses, Execution, Unsettled
<1>1. ASSUME NEW r \in Vibe!Returns
      PROVE  /\ Vibe!ExecuteRemote(r) \in RowStatuses /\ Vibe!ExecuteSubprocess(r) \in RowStatuses
             /\ r.kind # "object" => /\ Vibe!ExecuteRemote(r) # "running"
                                     /\ Vibe!ExecuteSubprocess(r) # "running"
  <2>1. r.kind \in {"object", "value", "text", "nothing", "exit", "hang", "raise"} /\ r.status \in RowStatuses
    OBVIOUS
  <2>2. /\ r.kind = "object" => Vibe!ExecuteRemote(r) = r.status
        /\ r.kind # "object" => Vibe!ExecuteRemote(r) \in {"success", "error", "timeout"}
    BY <2>1 DEF Vibe!ExecuteRemote
  <2>3. \/ Vibe!ExecuteSubprocess(r) = Vibe!ExecuteRemote(r)
        \/ r.kind # "object" /\ Vibe!ExecuteSubprocess(r) \in {"success", "error"}
    BY <2>1 DEF Vibe!ExecuteSubprocess
  <2> QED BY <2>1, <2>2, <2>3
<1>2. ASSUME NEW r \in Vibe!Returns, NEW s \in RowStatuses, r.kind # "object" => s # "running",
             NEW o, o = [status |-> s, own |-> r.kind = "object"]
      PROVE  o \in Execution /\ ~Unsettled(o)
  <2>1. CASE r.kind = "object"
    BY <1>2, <2>1
  <2>2. CASE r.kind # "object"
    BY <1>2, <2>2
  <2> QED BY <2>1, <2>2
<1> SUFFICES ASSUME NEW o \in Vibe!Outcomes PROVE o \in Execution /\ ~Unsettled(o)
  OBVIOUS
<1>3. \E r \in Vibe!Returns : \/ o = [status |-> Vibe!ExecuteRemote(r), own |-> r.kind = "object"]
                              \/ o = [status |-> Vibe!ExecuteSubprocess(r), own |-> r.kind = "object"]
  BY ONLY o \in Vibe!Outcomes DEF Vibe!Outcomes
<1> QED BY <1>1, <1>2, <1>3

\* whoever leaves the sandbox has stored an outcome
LEMMA VibeLeaves ==
    ASSUME VibeInv, NEW c \in Browsers, InSandbox(c), Vibe!End(c), "status" \in DOMAIN s5',
           s5'.status # "executing", UNCHANGED s12,
           \E outcome \in Execution : ~Unsettled(outcome) /\ s7' = [s7 EXCEPT ![s8[c].n] = outcome]
    PROVE  VibeInv'
<1>1. PICK outcome \in Execution : ~Unsettled(outcome) /\ s7' = [s7 EXCEPT ![s8[c].n] = outcome]
  OBVIOUS
<1> DEFINE n == s8[c].n
<1>2. n \in 1 .. Len(s7) /\ s7 \in Seq(Execution)
  BY DEF VibeInv, VibeDoing, VibeRows
<1>3. s7' \in Seq(Execution) /\ Len(s7') = Len(s7)
  BY <1>1, <1>2
<1>4. \A i \in DOMAIN s7' : Unsettled(s7'[i]) => i # n /\ i \in DOMAIN s7 /\ Unsettled(s7[i])
  BY <1>1, <1>2
<1>5. DOMAIN s8' = Browsers /\ s8'[c] = Vibe!Idle /\ \A d \in Browsers \ {c} : s8'[d] = s8[d]
  BY DEF Vibe!End, VibeInv, VibeDoing
<1>6. VibeDoing'
  BY <1>3, <1>5 DEF VibeInv, VibeDoing, InSandbox, Vibe!Idle
<1>7. VibeSettles'
  BY <1>4, <1>5 DEF VibeInv, VibeSettles, InSandbox
<1> QED BY <1>3, <1>6, <1>7 DEF VibeInv, VibeRows

LEMMA VibeWorks == ASSUME VibeInv, NEW c \in Browsers, Vibe!HandleWorkflow(c) PROVE VibeInv'
<1> USE DEF Vibe!workflow, Vibe!conversation
<1>1. CASE Vibe!SaveWorkflow(c)
  BY <1>1, VibeFrame DEF Vibe!SaveWorkflow, VibeInv, VibeDoing
<1>2. CASE Vibe!Read(c, "config") \/ Vibe!Read(c, "execute")
  BY <1>2, VibeBegins DEF Vibe!Read
<1>3. CASE Vibe!UpdateWorkflowConfig(c)
  <2>1. "status" \in DOMAIN s5' /\ s5'.status = s5.status
    BY <1>3 DEF Vibe!UpdateWorkflowConfig, VibeInv, VibeRows
  <2> QED BY <1>3, <2>1, VibeMoves DEF Vibe!UpdateWorkflowConfig, Vibe!At, InSandbox
<1>4. CASE Vibe!StartExecution(c)
  <2> DEFINE new == [status |-> "running", own |-> FALSE]
  <2>1. /\ s7' = Append(s7, new) /\ s12' = s12 /\ "status" \in DOMAIN s5'
        /\ DOMAIN s8' = Browsers /\ s8'[c] = [op |-> "sandbox", n |-> Len(s7) + 1]
        /\ \A d \in Browsers \ {c} : s8'[d] = s8[d]
    BY <1>4 DEF Vibe!StartExecution, VibeInv, VibeDoing, VibeRows
  <2>2. /\ s7' \in Seq(Execution) /\ Len(s7') = Len(s7) + 1
        /\ \A i \in DOMAIN s7' : i = Len(s7) + 1 \/ (i \in DOMAIN s7 /\ s7'[i] = s7[i])
        /\ Len(s7) \in Nat
    BY <2>1 DEF VibeInv, VibeRows, Execution, RowStatuses
  <2>3. ~InSandbox(c) /\ InSandbox(c)' /\ s8'[c].n = Len(s7')
    BY <1>4, <2>1, <2>2 DEF Vibe!StartExecution, Vibe!At, InSandbox
  <2>4. VibeDoing'
    BY <2>1, <2>2, <2>3 DEF VibeInv, VibeDoing, InSandbox
  <2>5. VibeSettles'
    BY <2>1, <2>2, <2>3 DEF VibeInv, VibeSettles, InSandbox
  <2> QED BY <2>1, <2>2, <2>4, <2>5 DEF VibeInv, VibeRows
<1>5. CASE Vibe!EndExecution(c)
  <2>1. "status" \in DOMAIN s5' /\ s5'.status # "executing"
    BY <1>5 DEF Vibe!EndExecution, VibeInv, VibeRows
  <2> QED BY <1>5, <2>1, VibeLeaves, OutcomesAreFinal DEF Vibe!EndExecution, Vibe!At, InSandbox
<1>6. CASE Vibe!CommitFails(c)
  <2>1. CASE s12' = TRUE /\ UNCHANGED <<s7, s5>>
    BY <1>6, <2>1 DEF Vibe!CommitFails, Vibe!End, Vibe!Idle, VibeInv, VibeDoing, VibeRows, VibeSettles, InSandbox
  <2>2. CASE /\ s7' = [s7 EXCEPT ![s8[c].n] = [status |-> "failed", own |-> FALSE]]
             /\ s5' = [s5 EXCEPT !.status = "error"] /\ UNCHANGED s12
    <3>1. "status" \in DOMAIN s5' /\ s5'.status # "executing"
      BY <2>2 DEF VibeInv, VibeRows
    <3>2. [status |-> "failed", own |-> FALSE] \in Execution /\ ~Unsettled([status |-> "failed", own |-> FALSE])
      BY DEF Execution, RowStatuses, Unsettled
    <3> QED BY <1>6, <2>2, <3>1, <3>2, VibeLeaves DEF Vibe!CommitFails, Vibe!At, InSandbox
  <2> QED BY <1>6, <2>1, <2>2 DEF Vibe!CommitFails
<1>7. CASE Vibe!CacheFlow(c)
  BY <1>7, VibeBegins DEF Vibe!CacheFlow
<1>8. CASE Vibe!TuneNode(c)
  BY <1>8, VibeMoves DEF Vibe!TuneNode, Vibe!At, InSandbox, VibeInv, VibeRows
<1>9. CASE Vibe!TestCode(c)
  BY <1>9, VibeMoves DEF Vibe!TestCode, Vibe!At, InSandbox, VibeInv, VibeRows
<1>10. CASE Vibe!ExecuteCached(c)
  BY <1>10, VibeBegins DEF Vibe!ExecuteCached
<1> QED BY <1>1, <1>2, <1>3, <1>4, <1>5, <1>6, <1>7, <1>8, <1>9, <1>10 DEF Vibe!HandleWorkflow

LEMMA VibeSteps == ASSUME VibeInv, Vibe!Next PROVE VibeInv'
<1>1. CASE Vibe!Crash
  <2>1. VibeDoing' /\ VibeRows'
    BY <1>1 DEF Vibe!Crash, Vibe!Idle, VibeInv, VibeDoing, VibeRows, InSandbox
  <2>2. VibeSettles'
    BY <1>1 DEF Vibe!Crash, Vibe!At, VibeInv, VibeSettles, InSandbox
  <2> QED BY <2>1, <2>2 DEF VibeInv
<1>2. ASSUME NEW c \in Browsers, Vibe!Connect(c) \/ Vibe!Disconnect(c) PROVE VibeInv'
  BY <1>2, VibeFrame DEF Vibe!Connect, Vibe!Disconnect, Vibe!workflow, VibeInv, VibeDoing, VibeRows
<1> QED BY <1>1, <1>2, VibeTalks, VibeWorks DEF Vibe!Next

\* When no execution is under way every execution row has its outcome (it says "running" only
\* where its own script printed that), whatever a script may print, and the workflow is not
\* left "executing", however the executions of two clients overlap, unless the process ended
\* in one or the failure could not be stored either (vibe_agent.py:361).
THEOREM ExecutionSettlesThm == Spec => []ExecutionSettles
<1>1. Init => (focus = "vibe" => VibeInv)
  BY VibeStart DEF Init
<1>2. (focus = "vibe" => VibeInv) /\ [Next]_vars => (focus = "vibe" => VibeInv)'
  <2> SUFFICES ASSUME VibeInv, [Next]_vars, focus = "vibe" PROVE VibeInv'
    BY DEF Next, vars
  <2>1. CASE UNCHANGED vars
    BY <2>1 DEF vars, VibeInv, VibeDoing, VibeRows, VibeSettles, InSandbox
  <2>2. CASE Vibe!Next
    BY <2>2, VibeSteps
  <2> QED BY <2>1, <2>2 DEF Next
<1>3. (focus = "vibe" => VibeInv) => ExecutionSettles
  BY DEF VibeInv, VibeSettles, InSandbox, Unsettled, VibeRows, Execution, ExecutionSettles, Vibe!ExecutionSettles, Vibe!Running, Vibe!At
<1> QED BY <1>1, <1>2, <1>3, PTL DEF Spec

-----------------------------------------------------------------------------
(* The retrieval metrics.  s3 is targets and s8 ids.                       *)

LEMMA RagCardinality == \A S : Rag!Cardinality(S) = Cardinality(S)
BY DEF Rag!Cardinality, Cardinality

\* the chunks that hold the answer stay what they are
LEMMA TargetsStay == ASSUME Rag!Next PROVE UNCHANGED s3
BY DEF Rag!Next, Rag!Fail, Rag!Query, Rag!StartChat, Rag!PollChat, Rag!FetchMessages, Rag!StartStream,
       Rag!ReadFrame, Rag!SkipLine, Rag!Close, Rag!EndStream, Rag!Respond, Rag!vars

LEMMA TargetsAreFinite ==
    ASSUME s3 \subseteq Passages
    PROVE  IsFiniteSet(Rag!TargetSet)
<1>1. IsFiniteSet(s3)
  BY PassagesAssumption, FS_Subset
<1> DEFINE f == [c \in s3 |-> Rag!TargetOf(c)]
<1>2. f \in Surjection(s3, Rag!TargetSet)
  BY DEF Surjection, Rag!TargetSet
<1> HIDE DEF f
<1> QED BY <1>1, <1>2, FS_Surjection

\* whatever the ids of a reply are, the three metrics agree on them
LEMMA ScoresAgree == ASSUME s3 \subseteq Passages PROVE Rag!MetricsAgree
<1> DEFINE T == Rag!TargetSet
           M == Rag!Matches
           top == Rag!TopK
           found == {top[i] : i \in M}
<1>1. IsFiniteSet(T)
  BY TargetsAreFinite
<1>2. M = {i \in DOMAIN top : top[i] \in T}
  BY DEF Rag!Matches
<1> HIDE DEF T, M, top
<1>3. found \subseteq T
  BY <1>2
<1>4. IsFiniteSet(found) /\ Cardinality(found) \in Nat /\ Cardinality(T) \in Nat
      /\ Cardinality(found) <= Cardinality(T)
  BY <1>1, <1>3, FS_Subset, FS_CardinalityType
<1>5. Cardinality(found) = 0 <=> found = {}
  BY <1>4, FS_EmptySet
<1>6. found = {} <=> M = {}
  OBVIOUS
<1>7. Cardinality(found) = Cardinality(T) => found = T
  BY <1>1, <1>3, FS_Subset
<1>8. M # {} => T # {}
  BY <1>3, <1>6
<1>9. /\ Rag!HitRateAtK[1] = IF M = {} THEN 0 ELSE 1
      /\ Rag!MRRAtK[1] = IF M = {} THEN 0 ELSE 1
  BY DEF Rag!HitRateAtK, Rag!MRRAtK, M
<1>10. /\ Rag!RecallAtK[1] = IF T = {} THEN 0 ELSE Cardinality(found)
       /\ Rag!RecallAtK[2] = IF T = {} THEN 1 ELSE Cardinality(T)
  <2>1. Rag!Cardinality(found) = Cardinality(found) /\ Rag!Cardinality(T) = Cardinality(T)
    <3> HIDE DEF found
    <3> QED BY RagCardinality
  <2>2. CASE T = {}
    <3>1. Rag!RecallAtK = <<0, 1>>
      BY <2>2 DEF Rag!RecallAtK, T
    <3> QED BY <2>2, <3>1
  <2>3. CASE T # {}
    <3>1. Rag!RecallAtK = IF T = {} THEN <<0, 1>> ELSE <<Rag!Cardinality(found), Rag!Cardinality(T)>>
      BY DEF Rag!RecallAtK, T, M, top, found
    <3> HIDE DEF found
    <3> QED BY <2>1, <2>3, <3>1
  <2> QED BY <2>2, <2>3
<1>11. (Rag!HitRateAtK[1] = 1) = (Rag!MRRAtK[1] = 1)
  BY <1>9
<1>12. (Rag!HitRateAtK[1] = 1) = (Rag!RecallAtK[1] > 0)
  <2> HIDE DEF found
  <2> QED BY <1>4, <1>5, <1>6, <1>8, <1>9, <1>10
<1>13. ASSUME s3 # {}, Rag!RecallAtK[1] = Rag!RecallAtK[2], NEW c \in s3
       PROVE  \E i \in DOMAIN top : top[i] = Rag!TargetOf(c)
  <2>1. Rag!TargetOf(c) \in T
    BY DEF T, Rag!TargetSet
  <2>2. found = T
    BY <1>7, <1>10, <1>13, <2>1
  <2> QED BY <1>2, <2>1, <2>2
<1> QED BY <1>11, <1>12, <1>13 DEF Rag!MetricsAgree, top

\* There is a hit exactly when there is a rank and when something is recalled, and recall is
\* full exactly when every target is among the first K (retrieval_metrics.py).
THEOREM MetricsAgreeThm == Spec => []MetricsAgree
<1>1. Init => (focus = "rag" => s3 \subseteq Passages)
  BY DEF Init, Rag!Init
<1>2. (focus = "rag" => s3 \subseteq Passages) /\ [Next]_vars => (focus = "rag" => s3 \subseteq Passages)'
  BY TargetsStay DEF Next, vars
<1>3. (focus = "rag" => s3 \subseteq Passages) => MetricsAgree
  BY ScoresAgree DEF MetricsAgree
<1> QED BY <1>1, <1>2, <1>3, PTL DEF Spec

-----------------------------------------------------------------------------
(* A stream of a RAG system.  s1 is row, s4 step, s5 frames, s7 answer,    *)
(* s8 ids and s9 ok.                                                       *)

\* what is kept of a reference, for the adapter of the row
RagIds ==
    [r \in Rag!Refs |-> IF r.place \notin s1.keeps THEN <<>>
                        ELSE IF Rag!NameOf(r) # "" THEN <<Rag!IdOf(r)>>
                        ELSE IF s1.pads /\ r.place = "references" THEN <<Rag!Blank>> ELSE <<>>]
RagIdsOf == {Rag!IdOf(r) : r \in Rag!Refs} \cup {Rag!Blank}

RagInv ==
    /\ s5 \in Seq(Rag!Frames)
    /\ s4 \in {"ask", "poll", "fetch"} => s5 = <<>>
    /\ s4 = "ask" => s7 = <<>> /\ s8 = <<>>
    /\ s4 \in {"stream", "end"} => s7 = Rag!Sent("text") /\ s8 = Rag!Kept(Rag!Sent("refs"), s1.keeps)
    /\ Rag!StreamIsWhole

LEMMA RagFlatten == \A s : Rag!Seqs!FlattenSeq(s) = Flatten(s)
BY DEF Flatten

LEMMA RagIdsTypes == Spreads(RagIds, Rag!Refs, RagIdsOf)
<1>1. ASSUME NEW r \in Rag!Refs PROVE <<Rag!IdOf(r)>> \in Seq(RagIdsOf) /\ <<Rag!Blank>> \in Seq(RagIdsOf)
  BY DEF RagIdsOf
<1>2. <<>> \in Seq(RagIdsOf)
  BY EmptySeq
<1> QED BY <1>1, <1>2 DEF RagIds, Spreads

LEMMA KeptIsSpread == ASSUME NEW refs \in Seq(Rag!Refs) PROVE Rag!Kept(refs, s1.keeps) = Spread(RagIds, refs)
<1>1. \A i \in DOMAIN refs : refs[i] \in Rag!Refs
  BY ElementOfSeq, LenProperties
<1>2. [i \in DOMAIN refs |-> IF refs[i].place \notin s1.keeps THEN <<>>
                             ELSE IF Rag!NameOf(refs[i]) # "" THEN <<Rag!IdOf(refs[i])>>
                             ELSE IF s1.pads /\ refs[i].place = "references" THEN <<Rag!Blank>> ELSE <<>>]
        = [i \in DOMAIN refs |-> RagIds[refs[i]]]
  BY <1>1 DEF RagIds
<1> QED BY <1>2, RagFlatten DEF Rag!Kept, Spread

LEMMA RagIdsStay == UNCHANGED s1 => RagIds' = RagIds
BY DEF RagIds, Rag!NameOf, Rag!IdOf

\* what a frame adds to the text and to the references
RagText == [f \in Rag!Frames |-> f.text]
RagRefs == [f \in Rag!Frames |-> f.refs]

LEMMA FramesAreTyped ==
    /\ Spreads(RagText, Rag!Frames, {"t"}) /\ Spreads(RagRefs, Rag!Frames, Rag!Refs)
    /\ \A f \in Rag!Frames : f.text \in Seq({"t"}) /\ f.refs \in Seq(Rag!Refs)
<1>1. ASSUME NEW f \in Rag!Frames PROVE f.text \in Seq({"t"}) /\ f.refs \in Seq(Rag!Refs)
  <2>1. f.text \in {<<>>, <<"t">>} /\ f.refs \in UNION {[1 .. n -> Rag!Refs] : n \in 0 .. 1}
    BY DEF Rag!Frames
  <2>2. <<>> \in Seq({"t"}) /\ <<"t">> \in Seq({"t"})
    OBVIOUS
  <2>3. PICK n \in 0 .. 1 : f.refs \in [1 .. n -> Rag!Refs]
    BY <2>1
  <2>4. f.refs \in Seq(Rag!Refs)
    BY <2>3, SeqDef
  <2> QED BY <2>1, <2>2, <2>4
<1> QED BY <1>1 DEF RagText, RagRefs, Spreads

LEMMA SentIsSpread ==
    ASSUME NEW fs \in Seq(Rag!Frames)
    PROVE  /\ Rag!Seqs!FlattenSeq([i \in DOMAIN fs |-> fs[i]["text"]]) = Spread(RagText, fs)
           /\ Rag!Seqs!FlattenSeq([i \in DOMAIN fs |-> fs[i]["refs"]]) = Spread(RagRefs, fs)
<1>1. \A i \in DOMAIN fs : fs[i] \in Rag!Frames
  BY ElementOfSeq, LenProperties
<1>2. /\ [i \in DOMAIN fs |-> fs[i]["text"]] = [i \in DOMAIN fs |-> RagText[fs[i]]]
      /\ [i \in DOMAIN fs |-> fs[i]["refs"]] = [i \in DOMAIN fs |-> RagRefs[fs[i]]]
  BY <1>1 DEF RagText, RagRefs
<1> QED BY <1>2, RagFlatten DEF Spread

\* what is kept of what was sent, one frame more
LEMMA OneFrameMore ==
    ASSUME s5 \in Seq(Rag!Frames), NEW f \in Rag!Frames, s5' = Append(s5, f), UNCHANGED s1
    PROVE  /\ s5' \in Seq(Rag!Frames)
           /\ Rag!Sent("text")' = Rag!Sent("text") \o f.text
           /\ Rag!Kept(Rag!Sent("refs"), s1.keeps)' = Rag!Kept(Rag!Sent("refs"), s1.keeps) \o Rag!Kept(f.refs, s1.keeps)
<1>1. s5' \in Seq(Rag!Frames)
  BY AppendProperties
<1>2. /\ Rag!Sent("text")' = Spread(RagText, s5') /\ Rag!Sent("refs")' = Spread(RagRefs, s5')
      /\ Rag!Sent("text") = Spread(RagText, s5) /\ Rag!Sent("refs") = Spread(RagRefs, s5)
  BY <1>1, SentIsSpread DEF Rag!Sent
<1>3. Spread(RagText, s5') = Spread(RagText, s5) \o f.text
  <2>1. RagText[f] = f.text
    BY DEF RagText
  <2>2. Spreads(RagText, Rag!Frames, {"t"}) /\ s5 \in Seq(Rag!Frames) /\ f \in Rag!Frames
    BY FramesAreTyped
  <2>3. Spread(RagText, Append(s5, f)) = Spread(RagText, s5) \o RagText[f]
    BY ONLY <2>2, SpreadAppend
  <2> QED BY <2>1, <2>3
<1>4. Spread(RagRefs, s5') = Spread(RagRefs, s5) \o f.refs
  <2>1. RagRefs[f] = f.refs
    BY DEF RagRefs
  <2>2. Spreads(RagRefs, Rag!Frames, Rag!Refs) /\ s5 \in Seq(Rag!Frames) /\ f \in Rag!Frames
    BY FramesAreTyped
  <2>3. Spread(RagRefs, Append(s5, f)) = Spread(RagRefs, s5) \o RagRefs[f]
    BY ONLY <2>2, SpreadAppend
  <2> QED BY <2>1, <2>3
<1>5. Spread(RagRefs, s5) \in Seq(Rag!Refs) /\ Spread(RagRefs, s5') \in Seq(Rag!Refs) /\ f.refs \in Seq(Rag!Refs)
  <2>1. Spreads(RagRefs, Rag!Frames, Rag!Refs) /\ s5 \in Seq(Rag!Frames) /\ s5' \in Seq(Rag!Frames)
    BY <1>1, FramesAreTyped
  <2>2. Spread(RagRefs, s5) \in Seq(Rag!Refs) /\ Spread(RagRefs, s5') \in Seq(Rag!Refs)
    BY ONLY <2>1, SpreadTypes
  <2> QED BY <2>2, FramesAreTyped
<1>6. /\ Rag!Kept(Rag!Sent("refs"), s1.keeps)' = Spread(RagIds, Spread(RagRefs, s5'))
      /\ Rag!Kept(Rag!Sent("refs"), s1.keeps) = Spread(RagIds, Spread(RagRefs, s5))
      /\ Rag!Kept(f.refs, s1.keeps) = Spread(RagIds, f.refs)
  <2>1. Rag!Kept(Rag!Sent("refs"), s1.keeps) = Spread(RagIds, Spread(RagRefs, s5)) /\ Rag!Kept(f.refs, s1.keeps) = Spread(RagIds, f.refs)
    BY <1>2, <1>5, KeptIsSpread
  <2>2. Rag!Kept(Rag!Sent("refs"), s1.keeps)' = Rag!Kept(Rag!Sent("refs")', s1.keeps)
    BY DEF Rag!Kept, Rag!NameOf, Rag!IdOf
  <2>3. Rag!Kept(Rag!Sent("refs")', s1.keeps) = Spread(RagIds, Rag!Sent("refs")')
    BY <1>2, <1>5, KeptIsSpread
  <2> QED BY <1>2, <2>1, <2>2, <2>3
<1>7. Spread(RagIds, Spread(RagRefs, s5) \o f.refs)
        = Spread(RagIds, Spread(RagRefs, s5)) \o Spread(RagIds, f.refs)
  <2> DEFINE u == Spread(RagRefs, s5)
             v == f.refs
  <2>1. u \in Seq(Rag!Refs) /\ v \in Seq(Rag!Refs)
    BY <1>5
  <2> HIDE DEF u, v
  <2>2. Spread(RagIds, u \o v) = Spread(RagIds, u) \o Spread(RagIds, v)
    BY <2>1, RagIdsTypes, SpreadConcat
  <2> QED BY <2>2 DEF u, v
<1> QED BY <1>1, <1>2, <1>3, <1>4, <1>6, <1>7

LEMMA NothingSent == s5 = <<>> => Rag!Sent("text") = <<>> /\ Rag!Kept(Rag!Sent("refs"), s1.keeps) = <<>>
<1>1. s5 = <<>> => [i \in DOMAIN s5 |-> s5[i]["text"]] = <<>> /\ [i \in DOMAIN s5 |-> s5[i]["refs"]] = <<>>
  OBVIOUS
<1>2. s5 = <<>> => Rag!Sent("text") = <<>> /\ Rag!Sent("refs") = <<>>
  BY <1>1, RagFlatten, FlattenEmpty DEF Rag!Sent
<1>3. Rag!Kept(<<>>, s1.keeps) = <<>>
  BY EmptySeq, KeptIsSpread, SpreadEmpty
<1> QED BY <1>2, <1>3

LEMMA RagStart == Rag!Init => RagInv
BY EmptySeq DEF Rag!Init, RagInv, Rag!StreamIsWhole

\* a step that leaves what was sent as it is
LEMMA RagSame ==
    ASSUME UNCHANGED <<s1, s5>>
    PROVE  /\ Rag!Sent("text")' = Rag!Sent("text") /\ Rag!Ended' = Rag!Ended
           /\ Rag!Kept(Rag!Sent("refs"), s1.keeps)' = Rag!Kept(Rag!Sent("refs"), s1.keeps)
<1>1. Rag!Sent("text")' = Rag!Sent("text") /\ Rag!Sent("refs")' = Rag!Sent("refs") /\ Rag!Ended' = Rag!Ended
  BY DEF Rag!Sent, Rag!Ended
<1>2. Rag!Kept(Rag!Sent("refs"), s1.keeps)' = Rag!Kept(Rag!Sent("refs")', s1.keeps)
  BY DEF Rag!Kept, Rag!NameOf, Rag!IdOf
<1> QED BY <1>1, <1>2

LEMMA RagSteps == ASSUME RagInv, Rag!Next PROVE RagInv'
<1>0. /\ s5 \in Seq(Rag!Frames)
      /\ s4 \in {"ask", "poll", "fetch"} => s5 = <<>>
      /\ s4 = "ask" => s7 = <<>> /\ s8 = <<>>
      /\ s4 \in {"stream", "end"} => s7 = Rag!Sent("text") /\ s8 = Rag!Kept(Rag!Sent("refs"), s1.keeps)
      /\ Rag!StreamIsWhole
  BY DEF RagInv
\* a reply without frames, or one that failed, is no stream that has ended
<1>1. ASSUME UNCHANGED <<s1, s5>>, s4' = "answered", s5 = <<>> \/ ~s9' PROVE RagInv'
  <2>1. s5' = <<>> => ~Rag!Ended'
    BY DEF Rag!Ended
  <2> QED BY <1>0, <1>1, <2>1 DEF RagInv, Rag!StreamIsWhole
<1>2. CASE Rag!Fail
  BY <1>1, <1>2 DEF Rag!Fail, Rag!Respond
<1>3. CASE Rag!Query
  BY <1>0, <1>1, <1>3 DEF Rag!Query, Rag!Respond
<1>4. CASE Rag!FetchMessages
  BY <1>0, <1>1, <1>4 DEF Rag!FetchMessages, Rag!Respond
<1>5. CASE Rag!StartChat
  BY <1>0, <1>5 DEF Rag!StartChat, RagInv, Rag!StreamIsWhole
<1>6. CASE Rag!PollChat
  BY <1>0, <1>6 DEF Rag!PollChat, RagInv, Rag!StreamIsWhole
<1>7. CASE Rag!StartStream
  <2>1. UNCHANGED <<s1, s5, s7, s8>> /\ s4 = "ask" /\ s4' = "stream"
    BY <1>7 DEF Rag!StartStream
  <2>2. s5 = <<>> /\ s7 = <<>> /\ s8 = <<>>
    BY <1>0, <2>1
  <2> QED BY <1>0, <2>1, <2>2, RagSame, NothingSent DEF RagInv, Rag!StreamIsWhole
<1>8. CASE Rag!ReadFrame
  <2>1. PICK f \in Rag!Frames :
          /\ s5' = Append(s5, f) /\ s7' = s7 \o f.text /\ s8' = s8 \o Rag!ReferencesOf(f)
          /\ s4' \in {"end", "stream"} /\ s4 = "stream" /\ s1' = s1
    BY <1>8 DEF Rag!ReadFrame
  <2>2. /\ s5' \in Seq(Rag!Frames) /\ Rag!Sent("text")' = s7'
        /\ Rag!Kept(Rag!Sent("refs"), s1.keeps)' = s8'
    BY <1>0, <2>1, OneFrameMore DEF Rag!ReferencesOf
  <2> QED BY <2>1, <2>2 DEF RagInv, Rag!StreamIsWhole
<1>9. CASE Rag!SkipLine
  <2>1. UNCHANGED <<s1, s4, s5, s7, s8, s9>>
    BY <1>9 DEF Rag!SkipLine, Rag!vars
  <2> QED BY <1>0, <2>1, RagSame DEF RagInv, Rag!StreamIsWhole
<1>10. CASE Rag!Close
  <2>1. UNCHANGED <<s1, s5, s7, s8>> /\ s4 = "stream" /\ s4' = "end"
    BY <1>10 DEF Rag!Close
  <2> QED BY <1>0, <2>1, RagSame DEF RagInv, Rag!StreamIsWhole
<1>11. CASE Rag!EndStream
  <2>1. /\ UNCHANGED <<s1, s5>> /\ s4 = "end" /\ s4' = "answered" /\ s7' = s7
        /\ s9' = Rag!Judge(s7) /\ s8' = IF Rag!Judge(s7) THEN s8 ELSE <<>>
    BY <1>11 DEF Rag!EndStream, Rag!Respond
  <2>2. s7' = Rag!Sent("text")' /\ (s9' => s8' = Rag!Kept(Rag!Sent("refs"), s1.keeps)')
    BY <1>0, <2>1, RagSame
  <2> QED BY <1>0, <2>1, <2>2 DEF RagInv, Rag!StreamIsWhole
<1> QED BY <1>2, <1>3, <1>4, <1>5, <1>6, <1>7, <1>8, <1>9, <1>10, <1>11 DEF Rag!Next

\* A stream read to its end frame gives the whole text in its order and every reference of
\* every frame that stands where the stream of its adapter looks (the query_stream of
\* services/adapters).
THEOREM StreamIsWholeThm == Spec => []StreamIsWhole
<1>1. Init => (focus = "rag" => RagInv)
  BY RagStart DEF Init
<1>2. (focus = "rag" => RagInv) /\ [Next]_vars => (focus = "rag" => RagInv)'
  <2>1. CASE UNCHANGED vars
    <3>1. UNCHANGED <<focus, s1, s4, s5, s7, s8, s9>>
      BY <2>1 DEF vars
    <3>2. RagInv => RagInv'
      BY <3>1, RagSame DEF RagInv, Rag!StreamIsWhole
    <3> QED BY <3>1, <3>2
  <2>2. CASE Next
    BY <2>2, RagSteps DEF Next
  <2> QED BY <2>1, <2>2
<1>3. (focus = "rag" => RagInv) => StreamIsWhole
  BY DEF RagInv, StreamIsWhole
<1> QED BY <1>1, <1>2, <1>3, PTL DEF Spec

-----------------------------------------------------------------------------
(* A mapped call.  s1 is inbound, s2 outbound, s3 phase, s6 heard, s7      *)
(* reported, s8 gen, s9 client, s10 log and s11 plain.                     *)

FrameKinds ==
    {"message_start", "text", "call", "args", "finish", "usage", "usage text", "usage call", "usage finish",
     "message_stop", "error"}
EventKinds ==
    {"error", "answer", "message_start", "block_start", "text", "call", "args", "finish", "usage",
     "done", "block_stop", "message_delta", "message_stop", "error text"}
Event == EventKinds \X Nat
Usage == [input : Nat, output : Nat]
Gen == [block : BOOLEAN, usage : Usage, finish : {"none", "tool_calls"}, completed : BOOLEAN,
        error : BOOLEAN, calls : SUBSET Nat]

\* the positions of a kind of event, and of frame
EventsAt(c, kind) == {i \in DOMAIN c : c[i][1] = kind}
FramesAt(h, kind) == {i \in DOMAIN h : h[i] = kind}

Streaming == s3 \in {"stream", "ending", "failing"}
\* the target has said why it finished, or what it used
Reported == Proxy!Said("finish") \/ Proxy!SaidUsage

ProxyTypes ==
    /\ s1 \in {"openai", "anthropic"} /\ s2 \in {"openai", "anthropic"}
    /\ s6 \in Seq(FrameKinds) /\ s7 \in Usage /\ s8 \in Gen /\ s9 \in Seq(Event)
    /\ s10 \in [status : {"none", "pending", "success", "failed"}, usage : Usage]
\* before the target is asked nothing is collected
ProxyFresh ==
    s3 \in {"verify", "log", "send"} =>
      /\ s6 = <<>> /\ s7 = Proxy!NoUsage /\ s8 = Proxy!NewGen /\ s9 = <<>>
      /\ s10.status # "success"
\* what the generator has merged is what the target has reported so far
ProxyUsage ==
    Streaming \/ s3 = "closed" =>
      /\ s10.status # "success" /\ s8.usage = s7
      /\ s8.completed => Reported
      /\ s2 = "anthropic" /\ ~Proxy!Said("finish") => s7.output = 0
      /\ s2 = "anthropic" /\ s6 = <<>> => s7.input = 0
\* a stream that has not ended: a block around the text, a call ahead of its arguments, no end
ProxyShape ==
    Streaming =>
      /\ EventsAt(s9, "done") = {} /\ EventsAt(s9, "message_stop") = {}
      /\ EventsAt(s9, "finish") = {} /\ EventsAt(s9, "message_delta") = {}
      /\ s1 = "anthropic" =>
           /\ s8.block <=> EventsAt(s9, "block_start") # {}
           /\ \A i, j \in EventsAt(s9, "block_start") : i = j
           /\ \A i \in EventsAt(s9, "text") : \E b \in EventsAt(s9, "block_start") : b < i
      /\ s1 = "openai" =>
           /\ Proxy!Said("call") => \E c \in EventsAt(s9, "call") : s9[c][2] = 1
           /\ ~Proxy!Said("usage call") =>
                \A i \in EventsAt(s9, "args") :
                  s9[i][2] = 1 /\ \E c \in EventsAt(s9, "call") : c < i /\ s9[c][2] = 1
      /\ Cardinality(EventsAt(s9, "text")) = Cardinality(FramesAt(s6, "text"))
\* the client has been told the end
ProxyClosed == s3 = "closed" => Proxy!EndTold /\ Proxy!AllText
ProxyInv ==
    /\ ProxyTypes /\ ProxyFresh /\ ProxyUsage /\ ProxyShape /\ ProxyClosed
    /\ Proxy!LogIsTrue /\ Proxy!StreamIsWellFormed

-----------------------------------------------------------------------------
LEMMA ProxyCardinality == \A S : Proxy!Cardinality(S) = Cardinality(S)
BY DEF Proxy!Cardinality, Cardinality

\* what is told to the client later stands behind what was told before
LEMMA Positions ==
    ASSUME NEW c \in Seq(Event), NEW t \in Seq(Event)
    PROVE  /\ c \o t \in Seq(Event) /\ Len(c \o t) = Len(c) + Len(t) /\ Len(c) \in Nat /\ Len(t) \in Nat
           /\ \A i \in 1 .. Len(c) : (c \o t)[i] = c[i]
           /\ \A j \in 1 .. Len(t) : (c \o t)[Len(c) + j] = t[j]
           /\ \A kind : EventsAt(c, kind) \subseteq 1 .. Len(c)
           /\ \A kind : EventsAt(c \o t, kind)
                         = EventsAt(c, kind) \cup {Len(c) + j : j \in EventsAt(t, kind)}
<1>1. /\ c \o t \in Seq(Event) /\ Len(c \o t) = Len(c) + Len(t) /\ Len(c) \in Nat /\ Len(t) \in Nat
      /\ \A i \in 1 .. Len(c) : (c \o t)[i] = c[i]
      /\ \A j \in 1 .. Len(t) : (c \o t)[Len(c) + j] = t[j]
      /\ DOMAIN c = 1 .. Len(c) /\ DOMAIN t = 1 .. Len(t) /\ DOMAIN (c \o t) = 1 .. Len(c) + Len(t)
  OBVIOUS
<1> DEFINE d == c \o t
<1> HIDE DEF d
<1>2. ASSUME NEW kind, NEW i PROVE i \in EventsAt(d, kind) <=>
        i \in EventsAt(c, kind) \/ \E j \in EventsAt(t, kind) : i = Len(c) + j
  <2>1. CASE i \in 1 .. Len(c)
    BY <1>1, <2>1 DEF EventsAt, d
  <2>2. CASE i \in Len(c) + 1 .. Len(c) + Len(t)
    <3>1. i - Len(c) \in 1 .. Len(t) /\ d[i] = t[i - Len(c)] /\ i = Len(c) + (i - Len(c)) /\ i \in DOMAIN d
      BY <1>1, <2>2 DEF d
    <3> QED BY <1>1, <2>2, <3>1 DEF EventsAt
  <2>3. CASE i \notin 1 .. Len(c) + Len(t)
    BY <1>1, <2>3 DEF EventsAt, d
  <2> QED BY <1>1, <2>1, <2>2, <2>3
<1>3. \A kind : EventsAt(d, kind) = EventsAt(c, kind) \cup {Len(c) + j : j \in EventsAt(t, kind)}
  BY <1>2
<1> QED BY <1>1, <1>3 DEF EventsAt, d

LEMMA TellOne ==
    ASSUME NEW c \in Seq(Event), NEW a \in Event
    PROVE  /\ c \o <<a>> \in Seq(Event) /\ Len(c \o <<a>>) = Len(c) + 1 /\ Len(c) \in Nat
           /\ \A i \in 1 .. Len(c) : (c \o <<a>>)[i] = c[i]
           /\ (c \o <<a>>)[Len(c) + 1] = a
           /\ \A kind : EventsAt(c, kind) \subseteq 1 .. Len(c)
           /\ \A kind : EventsAt(c \o <<a>>, kind)
                         = EventsAt(c, kind) \cup (IF a[1] = kind THEN {Len(c) + 1} ELSE {})
<1> DEFINE t == <<a>>
<1>1. t \in Seq(Event) /\ Len(t) = 1 /\ t[1] = a
  OBVIOUS
<1> HIDE DEF t
<1>2. ASSUME NEW kind PROVE EventsAt(t, kind) = IF a[1] = kind THEN {1} ELSE {}
  BY <1>1 DEF EventsAt
<1>3. ASSUME NEW kind
      PROVE  EventsAt(c \o t, kind) = EventsAt(c, kind) \cup (IF a[1] = kind THEN {Len(c) + 1} ELSE {})
  <2>1. EventsAt(c \o t, kind) = EventsAt(c, kind) \cup {Len(c) + j : j \in EventsAt(t, kind)}
    BY <1>1, Positions
  <2> QED BY <1>2, <2>1
<1>4. /\ c \o t \in Seq(Event) /\ Len(c \o t) = Len(c) + 1 /\ Len(c) \in Nat
      /\ \A i \in 1 .. Len(c) : (c \o t)[i] = c[i]
      /\ (c \o t)[Len(c) + 1] = a
      /\ \A kind : EventsAt(c, kind) \subseteq 1 .. Len(c)
  <2>1. /\ c \o t \in Seq(Event) /\ Len(c \o t) = Len(c) + Len(t) /\ Len(c) \in Nat
        /\ \A i \in 1 .. Len(c) : (c \o t)[i] = c[i]
        /\ \A j \in 1 .. Len(t) : (c \o t)[Len(c) + j] = t[j]
    BY <1>1, Positions
  <2>2. \A kind : EventsAt(c, kind) \subseteq 1 .. Len(c)
    BY <1>1, Positions
  <2> QED BY <1>1, <2>1, <2>2
<1> QED BY <1>3, <1>4 DEF t

\* two events, one after the other
LEMMA TellTwo ==
    ASSUME NEW c \in Seq(Event), NEW a \in Event, NEW b \in Event
    PROVE  /\ c \o (<<a>> \o <<b>>) \in Seq(Event) /\ Len(c) \in Nat
           /\ \A i \in 1 .. Len(c) : (c \o (<<a>> \o <<b>>))[i] = c[i]
           /\ \A kind : EventsAt(c, kind) \subseteq 1 .. Len(c)
           /\ \A kind : EventsAt(c \o (<<a>> \o <<b>>), kind)
                         = EventsAt(c, kind) \cup (IF a[1] = kind THEN {Len(c) + 1} ELSE {})
                                            \cup (IF b[1] = kind THEN {Len(c) + 2} ELSE {})
<1> DEFINE t == <<a>> \o <<b>>
<1>1. t \in Seq(Event) /\ Len(t) = 2 /\ t[1] = a /\ t[2] = b
  OBVIOUS
<1> HIDE DEF t
<1>2. ASSUME NEW kind
      PROVE  EventsAt(t, kind) = (IF a[1] = kind THEN {1} ELSE {}) \cup (IF b[1] = kind THEN {2} ELSE {})
  BY <1>1 DEF EventsAt
<1>3. ASSUME NEW kind
      PROVE  EventsAt(c \o t, kind) = EventsAt(c, kind) \cup (IF a[1] = kind THEN {Len(c) + 1} ELSE {})
                                                       \cup (IF b[1] = kind THEN {Len(c) + 2} ELSE {})
  <2>1. EventsAt(c \o t, kind) = EventsAt(c, kind) \cup {Len(c) + j : j \in EventsAt(t, kind)}
    BY <1>1, Positions
  <2> QED BY <1>2, <2>1
<1>4. /\ c \o t \in Seq(Event) /\ Len(c) \in Nat
      /\ \A i \in 1 .. Len(c) : (c \o t)[i] = c[i]
      /\ \A kind : EventsAt(c, kind) \subseteq 1 .. Len(c)
  BY <1>1, Positions
<1> QED BY <1>3, <1>4 DEF t

LEMMA EventsAreFinite == ASSUME NEW c \in Seq(Event), NEW kind PROVE IsFiniteSet(EventsAt(c, kind))
<1>1. EventsAt(c, kind) \subseteq 1 .. Len(c) /\ Len(c) \in Nat
  BY DEF EventsAt
<1>2. IsFiniteSet(1 .. Len(c))
  BY <1>1, FS_Interval
<1> QED BY <1>1, <1>2, FS_Subset

\* one more frame
LEMMA Frames ==
    ASSUME NEW h \in Seq(FrameKinds), NEW kind \in FrameKinds
    PROVE  /\ Append(h, kind) \in Seq(FrameKinds) /\ Append(h, kind) # <<>>
           /\ \A k : FramesAt(Append(h, kind), k) = FramesAt(h, k) \cup (IF k = kind THEN {Len(h) + 1} ELSE {})
           /\ \A k : IsFiniteSet(FramesAt(h, k)) /\ Len(h) + 1 \notin FramesAt(h, k)
<1>1. /\ Append(h, kind) \in Seq(FrameKinds) /\ Len(Append(h, kind)) = Len(h) + 1 /\ Len(h) \in Nat
      /\ \A i \in 1 .. Len(h) : Append(h, kind)[i] = h[i]
      /\ Append(h, kind)[Len(h) + 1] = kind
      /\ DOMAIN h = 1 .. Len(h) /\ DOMAIN Append(h, kind) = 1 .. Len(h) + 1
  OBVIOUS
<1>2. Append(h, kind) # <<>>
  BY <1>1, NoElements
<1>3. \A k : FramesAt(Append(h, kind), k) = FramesAt(h, k) \cup (IF k = kind THEN {Len(h) + 1} ELSE {})
  BY <1>1 DEF FramesAt
<1>4. ASSUME NEW k PROVE IsFiniteSet(FramesAt(h, k)) /\ Len(h) + 1 \notin FramesAt(h, k)
  <2>1. FramesAt(h, k) \subseteq 1 .. Len(h) /\ IsFiniteSet(1 .. Len(h))
    BY <1>1, FS_Interval DEF FramesAt
  <2> QED BY <1>1, <2>1, FS_Subset
<1> QED BY <1>1, <1>2, <1>3, <1>4

LEMMA SaidIsFramed == \A kind : Proxy!Said(kind) <=> FramesAt(s6, kind) # {}
BY DEF Proxy!Said, FramesAt

-----------------------------------------------------------------------------
\* while a stream goes on, the rest follows from its shape
LEMMA ProxyStreams ==
    ASSUME ProxyTypes', Streaming', ProxyUsage', ProxyShape'
    PROVE  ProxyInv'
<1>1. s3' # "closed" /\ s3' \notin {"verify", "log", "send"}
  BY DEF Streaming
<1>2. Proxy!LogIsTrue'
  BY DEF ProxyUsage, Proxy!LogIsTrue
<1>3. Proxy!StreamIsWellFormed'
  <2>1. \A kind : Proxy!At(kind)' = EventsAt(s9', kind)
    BY DEF Proxy!At, EventsAt
  <2>2. s1' = "anthropic" => Proxy!Cardinality(Proxy!At("block_start")') <= 1
    <3> SUFFICES ASSUME s1' = "anthropic" PROVE Cardinality(EventsAt(s9', "block_start")) <= 1
      BY <2>1, ProxyCardinality
    <3>1. \A i, j \in EventsAt(s9', "block_start") : i = j
      BY DEF ProxyShape
    <3>2. CASE EventsAt(s9', "block_start") = {}
      BY <3>2, FS_EmptySet
    <3>3. CASE EventsAt(s9', "block_start") # {}
      <4>1. PICK b : EventsAt(s9', "block_start") = {b}
        BY <3>1, <3>3
      <4>2. Cardinality({b}) = 1
        BY FS_Singleton
      <4> QED BY <4>1, <4>2
    <3> QED BY <3>2, <3>3
  <2> QED BY <1>1, <2>1, <2>2 DEF Proxy!StreamIsWellFormed, ProxyShape
<1> QED BY <1>1, <1>2, <1>3 DEF ProxyInv, ProxyFresh, ProxyClosed

\* a frame that the client is told nothing of
LEMMA QuietFrame ==
    ASSUME ProxyInv, Streaming, s1' = s1, s9' = s9, s8'.block = s8.block,
           s6' = s6 \/ \E kind \in FrameKinds \ {"text", "call"} : s6' = Append(s6, kind)
    PROVE  ProxyShape'
<1>1. /\ FramesAt(s6', "text") = FramesAt(s6, "text") /\ (Proxy!Said("call")' => Proxy!Said("call"))
      /\ Proxy!Said("usage call") => Proxy!Said("usage call")'
  <2>1. s6 \in Seq(FrameKinds)
    BY DEF ProxyInv, ProxyTypes
  <2> DEFINE Kept == /\ FramesAt(s6', "text") = FramesAt(s6, "text")
                     /\ FramesAt(s6', "call") = FramesAt(s6, "call")
                     /\ FramesAt(s6, "usage call") \subseteq FramesAt(s6', "usage call")
  <2>2. Kept
    <3>1. CASE s6' = s6
      BY <3>1
    <3>2. ASSUME NEW kind \in FrameKinds \ {"text", "call"}, s6' = Append(s6, kind)
          PROVE  Kept
      <4>1. \A k : FramesAt(Append(s6, kind), k) = FramesAt(s6, k) \cup (IF k = kind THEN {Len(s6) + 1} ELSE {})
        BY <2>1, Frames
      <4> QED BY <3>2, <4>1
    <3> QED BY <3>1, <3>2
  <2>3. \A kind : Proxy!Said(kind)' <=> FramesAt(s6', kind) # {}
    BY DEF Proxy!Said, FramesAt
  <2> QED BY <2>2, <2>3, SaidIsFramed
<1> QED BY <1>1 DEF ProxyInv, ProxyShape

LEMMA EventTypes ==
    /\ \A kind \in EventKinds : Proxy!E(kind) \in Event
    /\ \A kind \in EventKinds, n \in Nat : <<kind, n>> \in Event
BY DEF Proxy!E, Event

\* a piece of the answer
LEMMA ProxyPiece == ASSUME ProxyInv, Proxy!HearPiece PROVE ProxyInv'
<1> USE DEF ProxyInv
<1>1. PICK k \in {"text", "call", "args"} :
        /\ k = "args" => Proxy!Said("call") \/ Proxy!Said("usage call")
        /\ Proxy!Hear([kind |-> k, n |-> IF k = "text" THEN Len(s6) ELSE 1], k)
  BY DEF Proxy!HearPiece
<1> DEFINE n == IF k = "text" THEN Len(s6) ELSE 1
           e == [kind |-> k, n |-> n]
<1>2. n \in Nat /\ (k # "text" => n = 1)
  BY DEF ProxyTypes
<1> HIDE DEF n
<1>3. (IF s2 = "openai" THEN Proxy!OpenaiChunkToEvents(e) ELSE Proxy!AnthropicEvents(e)) = e
  BY DEF Proxy!OpenaiChunkToEvents, Proxy!AnthropicEvents, Proxy!Ev
<1>4. /\ s6' = Append(s6, k) /\ s8' = Proxy!Handle(s8, e) /\ s9' = s9 \o Proxy!Sent(s8, e)
      /\ UNCHANGED <<s1, s2, s3, s7, s10>> /\ Proxy!Talking
  BY <1>1, <1>3 DEF Proxy!Hear, Proxy!HearPiece, n
<1>5. s3 = "stream" /\ ~Proxy!Said("finish") /\ (s2 = "anthropic" => Proxy!Said("message_start"))
  BY <1>4 DEF Proxy!Talking, Proxy!Finished
<1>6. /\ s8' \in Gen /\ s8'.usage = s8.usage /\ s8'.completed = s8.completed
      /\ s8'.block = (s8.block \/ k = "text")
  BY <1>2, <1>4 DEF Proxy!Handle, ProxyTypes, Gen
<1>7. s6 \in Seq(FrameKinds) /\ s9 \in Seq(Event) /\ k \in FrameKinds
  BY DEF ProxyTypes, FrameKinds
<1>8. /\ s6' \in Seq(FrameKinds) /\ s6' # <<>>
      /\ \A kind : FramesAt(s6', kind) = FramesAt(s6, kind) \cup (IF kind = k THEN {Len(s6) + 1} ELSE {})
      /\ \A kind : IsFiniteSet(FramesAt(s6, kind)) /\ Len(s6) + 1 \notin FramesAt(s6, kind)
  BY <1>4, <1>7, Frames
<1>9. \A kind : Proxy!Said(kind)' <=> FramesAt(s6', kind) # {}
  BY DEF Proxy!Said, FramesAt
<1>10. ProxyUsage'
  <2>1. /\ ~Proxy!Said("finish")' /\ (Reported => Reported')
        /\ s6' # <<>> /\ (s2 = "anthropic" => s6 # <<>>)
    <3>1. s2 = "anthropic" => s6 # <<>>
      BY <1>5, NoElements DEF Proxy!Said
    <3>2. \A kind : Proxy!Said(kind) => Proxy!Said(kind)'
      BY <1>8, <1>9, SaidIsFramed
    <3>3. Reported => Reported'
      BY <3>2 DEF Reported, Proxy!SaidUsage, Proxy!UsageKinds
    <3> QED BY <1>1, <1>5, <1>8, <1>9, <3>1, <3>3, SaidIsFramed
  <2>2. /\ s10.status # "success" /\ s8.usage = s7 /\ (s8.completed => Reported)
        /\ s2 = "anthropic" => s7.output = 0
    BY <1>5 DEF ProxyUsage, Streaming
  <2> QED BY <1>4, <1>5, <1>6, <2>1, <2>2 DEF ProxyUsage
<1>11. s9' \in Seq(Event) /\ ProxyShape' => ProxyInv'
  <2> SUFFICES ASSUME s9' \in Seq(Event), ProxyShape' PROVE ProxyInv'
    OBVIOUS
  <2>1. ProxyTypes'
    BY <1>4, <1>6, <1>8 DEF ProxyTypes
  <2> QED BY <1>4, <1>5, <1>10, <2>1, ProxyStreams DEF Streaming
<1>12. Streaming
  BY <1>5 DEF Streaming
<1>16. Proxy!Said("usage call")' <=> Proxy!Said("usage call")
  BY <1>1, <1>8, <1>9, SaidIsFramed
<1>13. CASE k # "text" /\ s1 = "anthropic"
  <2>1. s9' = s9
    BY <1>4, <1>7, <1>13 DEF Proxy!Sent, Proxy!ToolEvents
  <2>2. FramesAt(s6', "text") = FramesAt(s6, "text")
    BY <1>8, <1>13
  <2>3. ProxyShape'
    BY <1>4, <1>6, <1>12, <1>13, <2>1, <2>2 DEF ProxyShape
  <2> QED BY <1>7, <1>11, <2>1, <2>3
<1>14. CASE k # "text" /\ s1 = "openai"
  <2> DEFINE told == <<k, 1>>
  <2>1. s9' = s9 \o <<told>>
    BY <1>2, <1>4, <1>14 DEF Proxy!Sent, Proxy!ToolEvents
  <2>2. told \in Event
    BY <1>1, EventTypes DEF EventKinds
  <2>3. told[1] = k /\ told[2] = 1
    OBVIOUS
  <2> HIDE DEF told
  <2>4. /\ \A i \in 1 .. Len(s9) : s9'[i] = s9[i]
        /\ s9'[Len(s9) + 1] = told /\ Len(s9) \in Nat /\ s9' \in Seq(Event)
        /\ \A kind : EventsAt(s9, kind) \subseteq 1 .. Len(s9)
        /\ \A kind : EventsAt(s9', kind) = EventsAt(s9, kind) \cup IF k = kind THEN {Len(s9) + 1} ELSE {}
    BY <1>7, <2>1, <2>2, <2>3, TellOne
  <2>5. FramesAt(s6', "text") = FramesAt(s6, "text")
    BY <1>8, <1>14
  <2>6. Proxy!Said("call")' => k = "call" \/ Proxy!Said("call")
    BY <1>8, <1>9, SaidIsFramed
  <2>7. Proxy!Said("call")' => \E c \in EventsAt(s9', "call") : s9'[c][2] = 1
    <3>1. Proxy!Said("call") => \E c \in EventsAt(s9, "call") : s9[c][2] = 1
      BY <1>12, <1>14 DEF ProxyShape
    <3> QED BY <2>3, <2>4, <2>6, <3>1
  <2>8. ASSUME ~Proxy!Said("usage call")
        PROVE  \A i \in EventsAt(s9', "args") :
                 s9'[i][2] = 1 /\ \E c \in EventsAt(s9', "call") : c < i /\ s9'[c][2] = 1
    <3>1. \A i \in EventsAt(s9, "args") :
            s9[i][2] = 1 /\ \E c \in EventsAt(s9, "call") : c < i /\ s9[c][2] = 1
      BY <1>12, <1>14, <2>8 DEF ProxyShape
    <3>2. k = "args" => \E c \in EventsAt(s9, "call") : s9[c][2] = 1
      BY <1>1, <1>12, <1>14, <2>8 DEF ProxyShape
    <3> QED BY <2>3, <2>4, <3>1, <3>2
  <2>9. \A kind : kind # k => EventsAt(s9', kind) = EventsAt(s9, kind)
    BY <2>4
  <2>10. /\ EventsAt(s9', "done") = {} /\ EventsAt(s9', "message_stop") = {}
         /\ EventsAt(s9', "finish") = {} /\ EventsAt(s9', "message_delta") = {}
         /\ Cardinality(EventsAt(s9', "text")) = Cardinality(FramesAt(s6', "text"))
    BY <1>1, <1>12, <1>14, <2>5, <2>9 DEF ProxyShape
  <2>11. ProxyShape'
    BY <1>4, <1>14, <1>16, <2>7, <2>8, <2>10 DEF ProxyShape
  <2> QED BY <1>11, <2>4, <2>11
<1>15. CASE k = "text"
  <2> DEFINE text == <<"text", n>>
             start == Proxy!E("block_start")
  <2>1. text \in Event /\ start \in Event /\ text[1] = "text" /\ start[1] = "block_start"
    BY <1>2, EventTypes DEF EventKinds, Proxy!E
  <2>2. PICK extra \in 1 .. 2 :
          /\ s9' \in Seq(Event) /\ Len(s9) \in Nat
          /\ \A i \in 1 .. Len(s9) : s9'[i] = s9[i]
          /\ \A kind : EventsAt(s9, kind) \subseteq 1 .. Len(s9)
          /\ EventsAt(s9', "text") = EventsAt(s9, "text") \cup {Len(s9) + extra}
          /\ \A kind : kind \notin {"text", "block_start"} => EventsAt(s9', kind) = EventsAt(s9, kind)
          /\ s1 = "anthropic" =>
               IF s8.block THEN EventsAt(s9', "block_start") = EventsAt(s9, "block_start")
               ELSE EventsAt(s9', "block_start") = EventsAt(s9, "block_start") \cup {Len(s9) + 1} /\ extra = 2
    <3>1. CASE s1 = "anthropic" /\ ~s8.block
      <4>1. s9' = s9 \o (<<start>> \o <<text>>)
        BY <1>4, <1>15, <3>1 DEF Proxy!Sent, Proxy!TextEvents
      <4> HIDE DEF text, start
      <4>2. /\ s9' \in Seq(Event) /\ Len(s9) \in Nat
            /\ \A i \in 1 .. Len(s9) : s9'[i] = s9[i]
            /\ \A kind : EventsAt(s9, kind) \subseteq 1 .. Len(s9)
            /\ \A kind : EventsAt(s9', kind) = EventsAt(s9, kind)
                            \cup (IF start[1] = kind THEN {Len(s9) + 1} ELSE {})
                            \cup (IF text[1] = kind THEN {Len(s9) + 2} ELSE {})
        <5>1. /\ s9 \o (<<start>> \o <<text>>) \in Seq(Event) /\ Len(s9) \in Nat
              /\ \A i \in 1 .. Len(s9) : (s9 \o (<<start>> \o <<text>>))[i] = s9[i]
              /\ \A kind : EventsAt(s9, kind) \subseteq 1 .. Len(s9)
              /\ \A kind : EventsAt(s9 \o (<<start>> \o <<text>>), kind) = EventsAt(s9, kind)
                            \cup (IF start[1] = kind THEN {Len(s9) + 1} ELSE {})
                            \cup (IF text[1] = kind THEN {Len(s9) + 2} ELSE {})
          BY <1>7, <2>1, TellTwo
        <5> DEFINE later == s9 \o (<<start>> \o <<text>>)
        <5>2. s9' = later
          BY <4>1
        <5>3. /\ later \in Seq(Event) /\ Len(s9) \in Nat
              /\ \A i \in 1 .. Len(s9) : later[i] = s9[i]
              /\ \A kind : EventsAt(s9, kind) \subseteq 1 .. Len(s9)
              /\ \A kind : EventsAt(later, kind) = EventsAt(s9, kind)
                            \cup (IF start[1] = kind THEN {Len(s9) + 1} ELSE {})
                            \cup (IF text[1] = kind THEN {Len(s9) + 2} ELSE {})
          BY <5>1
        <5> HIDE DEF later
        <5> QED BY <5>2, <5>3
      <4>3. EventsAt(s9', "text") = EventsAt(s9, "text") \cup {Len(s9) + 2}
        BY <2>1, <4>2
      <4>4. EventsAt(s9', "block_start") = EventsAt(s9, "block_start") \cup {Len(s9) + 1}
        BY <2>1, <4>2
      <4>5. ASSUME NEW kind, kind \notin {"text", "block_start"} PROVE EventsAt(s9', kind) = EventsAt(s9, kind)
        <5>1. start[1] # kind /\ text[1] # kind
          BY <2>1, <4>5
        <5> QED BY <4>2, <5>1
      <4> QED BY <3>1, <4>2, <4>3, <4>4, <4>5
    <3>2. CASE ~(s1 = "anthropic" /\ ~s8.block)
      <4>1. s9' = s9 \o <<text>>
        BY <1>4, <1>7, <1>15, <3>2 DEF Proxy!Sent, Proxy!TextEvents, ProxyTypes
      <4> HIDE DEF text, start
      <4>2. /\ s9' \in Seq(Event) /\ Len(s9) \in Nat
            /\ \A i \in 1 .. Len(s9) : s9'[i] = s9[i]
            /\ \A kind : EventsAt(s9, kind) \subseteq 1 .. Len(s9)
            /\ \A kind : EventsAt(s9', kind) = EventsAt(s9, kind) \cup IF "text" = kind THEN {Len(s9) + 1} ELSE {}
        BY <1>7, <2>1, <4>1, TellOne
      <4>3. EventsAt(s9', "text") = EventsAt(s9, "text") \cup {Len(s9) + 1}
        BY <4>2
      <4>4. \A kind : kind # "text" => EventsAt(s9', kind) = EventsAt(s9, kind)
        BY <4>2
      <4> QED BY <3>2, <4>2, <4>3, <4>4
    <3> QED BY <3>1, <3>2
  <2>3. Len(s9) + extra \notin EventsAt(s9, "text")
    BY <2>2
  <2>4. Cardinality(EventsAt(s9', "text")) = Cardinality(FramesAt(s6', "text"))
    <3>1. FramesAt(s6', "text") = FramesAt(s6, "text") \cup {Len(s6) + 1}
      BY <1>8, <1>15
    <3>2. Cardinality(EventsAt(s9, "text")) = Cardinality(FramesAt(s6, "text"))
      BY <1>12 DEF ProxyShape
    <3>3. IsFiniteSet(EventsAt(s9, "text"))
      BY <1>7, EventsAreFinite
    <3>4. Cardinality(EventsAt(s9', "text")) = Cardinality(EventsAt(s9, "text")) + 1
      BY <2>2, <2>3, <3>3, FS_AddElement
    <3>5. Cardinality(FramesAt(s6', "text")) = Cardinality(FramesAt(s6, "text")) + 1
      BY <1>8, <3>1, FS_AddElement
    <3> QED BY <3>2, <3>4, <3>5
  <2>5. s1 = "anthropic" =>
          /\ EventsAt(s9', "block_start") # {}
          /\ \A i, j \in EventsAt(s9', "block_start") : i = j
          /\ \A i \in EventsAt(s9', "text") : \E b \in EventsAt(s9', "block_start") : b < i
    <3> SUFFICES ASSUME s1 = "anthropic"
                 PROVE  /\ EventsAt(s9', "block_start") # {}
                        /\ \A i, j \in EventsAt(s9', "block_start") : i = j
                        /\ \A i \in EventsAt(s9', "text") : \E b \in EventsAt(s9', "block_start") : b < i
      OBVIOUS
    <3>1. /\ s8.block <=> EventsAt(s9, "block_start") # {}
          /\ \A i, j \in EventsAt(s9, "block_start") : i = j
          /\ \A i \in EventsAt(s9, "text") : \E b \in EventsAt(s9, "block_start") : b < i
      BY <1>12 DEF ProxyShape
    <3>2. CASE s8.block
      BY <2>2, <3>1, <3>2
    <3>3. CASE ~s8.block
      <4>1. EventsAt(s9, "block_start") = {} /\ EventsAt(s9, "text") = {}
        BY <3>1, <3>3
      <4>2. EventsAt(s9', "block_start") = {Len(s9) + 1} /\ EventsAt(s9', "text") = {Len(s9) + 2}
        BY <2>2, <3>3, <4>1
      <4>3. Len(s9) + 1 < Len(s9) + 2
        BY <2>2
      <4> QED BY <4>2, <4>3
    <3> QED BY <3>2, <3>3
  <2>6. s1 = "openai" =>
          /\ Proxy!Said("call")' => \E c \in EventsAt(s9', "call") : s9'[c][2] = 1
          /\ ~Proxy!Said("usage call") =>
               \A i \in EventsAt(s9', "args") :
                 s9'[i][2] = 1 /\ \E c \in EventsAt(s9', "call") : c < i /\ s9'[c][2] = 1
    <3>1. Proxy!Said("call")' <=> Proxy!Said("call")
      BY <1>8, <1>9, <1>15, SaidIsFramed
    <3>2. EventsAt(s9', "call") = EventsAt(s9, "call") /\ EventsAt(s9', "args") = EventsAt(s9, "args")
      BY <2>2
    <3>3. \A i \in EventsAt(s9, "call") \cup EventsAt(s9, "args") : s9'[i] = s9[i]
      BY <2>2
    <3>4. s1 = "openai" =>
            /\ Proxy!Said("call") => \E c \in EventsAt(s9, "call") : s9[c][2] = 1
            /\ ~Proxy!Said("usage call") =>
                 \A i \in EventsAt(s9, "args") :
                   s9[i][2] = 1 /\ \E c \in EventsAt(s9, "call") : c < i /\ s9[c][2] = 1
      BY <1>12 DEF ProxyShape
    <3>5. ASSUME s1 = "openai", ~Proxy!Said("usage call"), NEW i \in EventsAt(s9', "args")
          PROVE  s9'[i][2] = 1 /\ \E c \in EventsAt(s9', "call") : c < i /\ s9'[c][2] = 1
      <4>1. PICK c \in EventsAt(s9, "call") : s9[i][2] = 1 /\ c < i /\ s9[c][2] = 1
        BY <3>2, <3>4, <3>5
      <4> QED BY <3>2, <3>3, <3>5, <4>1
    <3>6. ASSUME s1 = "openai", Proxy!Said("call")
          PROVE  \E c \in EventsAt(s9', "call") : s9'[c][2] = 1
      BY <3>2, <3>3, <3>4, <3>6
    <3> QED BY <3>1, <3>5, <3>6
  <2>7. /\ EventsAt(s9', "done") = {} /\ EventsAt(s9', "message_stop") = {}
        /\ EventsAt(s9', "finish") = {} /\ EventsAt(s9', "message_delta") = {}
    BY <1>12, <2>2 DEF ProxyShape
  <2>8. s8'.block
    BY <1>6, <1>15
  <2>9. ProxyShape'
    BY <1>4, <1>16, <2>4, <2>5, <2>6, <2>7, <2>8 DEF ProxyShape
  <2> QED BY <1>11, <2>2, <2>9
<1> QED BY <1>13, <1>14, <1>15 DEF ProxyTypes

-----------------------------------------------------------------------------
\* nothing has been told, or one thing
LEMMA FewEvents ==
    ASSUME NEW a \in Event
    PROVE  /\ \A kind : EventsAt(<<>>, kind) = {}
           /\ \A kind : EventsAt(<<a>>, kind) = IF a[1] = kind THEN {1} ELSE {}
           /\ <<a>> \in Seq(Event) /\ <<>> \in Seq(Event)
<1> DEFINE t == <<a>>
<1>1. t \in Seq(Event) /\ DOMAIN t = {1} /\ t[1] = a
  OBVIOUS
<1> HIDE DEF t
<1>2. \A kind : EventsAt(t, kind) = IF a[1] = kind THEN {1} ELSE {}
  BY <1>1 DEF EventsAt
<1>3. \A kind : EventsAt(<<>>, kind) = {}
  BY NoElements DEF EventsAt
<1> QED BY <1>1, <1>2, <1>3, NoElements DEF t

\* a call that never became a stream
LEMMA NoStream ==
    ASSUME NEW a \in Event, a[1] \in {"error", "answer", "message_start"}, s9' = <<>> \/ s9' = <<a>>
    PROVE  Proxy!StreamIsWellFormed'
<1>1. \A kind : kind # a[1] => EventsAt(s9', kind) = {}
  BY FewEvents
<1>2. \A kind : Proxy!At(kind)' = EventsAt(s9', kind)
  BY DEF Proxy!At, EventsAt
<1>3. Proxy!Cardinality({}) <= 1
  BY ProxyCardinality, FS_EmptySet
<1>4. /\ Proxy!At("block_start")' = {} /\ Proxy!At("text")' = {} /\ Proxy!At("message_delta")' = {}
      /\ Proxy!At("args")' = {} /\ Proxy!At("done")' = {} /\ Proxy!At("message_stop")' = {}
      /\ Proxy!At("finish")' = {}
  BY <1>1, <1>2
<1> QED BY <1>3, <1>4 DEF Proxy!StreamIsWellFormed

\* the end of a stream
LEMMA StreamEnds ==
    ASSUME ProxyInv, Streaming, NEW t \in Seq(Event), s9' = s9 \o t, UNCHANGED <<s1, s6>>,
           \A j \in 1 .. Len(t) :
             /\ t[j][1] \notin {"block_start", "text", "call", "args"}
             /\ t[j][1] \in {"done", "message_stop"} => j = Len(t)
             /\ s1 = "anthropic" /\ s8.block /\ t[j][1] = "message_delta" =>
                  \E b \in 1 .. Len(t) : b < j /\ t[b][1] = "block_stop"
    PROVE  s9' \in Seq(Event) /\ Proxy!StreamIsWellFormed' /\ Proxy!AllText'
<1>1. s9 \in Seq(Event)
  BY DEF ProxyInv, ProxyTypes
<1>2. /\ s9' \in Seq(Event) /\ Len(s9') = Len(s9) + Len(t) /\ Len(s9) \in Nat /\ Len(t) \in Nat
      /\ \A i \in 1 .. Len(s9) : s9'[i] = s9[i]
      /\ \A kind : EventsAt(s9, kind) \subseteq 1 .. Len(s9)
      /\ \A kind : EventsAt(s9', kind) = EventsAt(s9, kind) \cup {Len(s9) + j : j \in EventsAt(t, kind)}
  BY <1>1, Positions
<1>3. \A kind : \A j : j \in EventsAt(t, kind) <=> j \in 1 .. Len(t) /\ t[j][1] = kind
  BY DEF EventsAt
<1>4. \A kind : Proxy!At(kind)' = EventsAt(s9', kind)
  BY DEF Proxy!At, EventsAt
<1>5. \A kind \in {"block_start", "text", "call", "args"} : EventsAt(s9', kind) = EventsAt(s9, kind)
  <2> SUFFICES ASSUME NEW kind \in {"block_start", "text", "call", "args"}
               PROVE  EventsAt(s9', kind) = EventsAt(s9, kind)
    OBVIOUS
  <2>1. EventsAt(t, kind) = {}
    BY <1>3
  <2>2. EventsAt(s9', kind) = EventsAt(s9, kind) \cup {Len(s9) + j : j \in EventsAt(t, kind)}
    BY <1>2
  <2>3. {Len(s9) + j : j \in {}} = {}
    OBVIOUS
  <2> QED BY <2>1, <2>2, <2>3
<1>6. \A kind \in {"done", "message_stop", "message_delta"} :
        \A i \in EventsAt(s9', kind) : \E j \in 1 .. Len(t) : i = Len(s9) + j /\ t[j][1] = kind
  <2> SUFFICES ASSUME NEW kind \in {"done", "message_stop", "message_delta"}, NEW i \in EventsAt(s9', kind)
               PROVE  \E j \in 1 .. Len(t) : i = Len(s9) + j /\ t[j][1] = kind
    OBVIOUS
  <2>1. EventsAt(s9, kind) = {}
    BY DEF ProxyInv, ProxyShape
  <2>2. EventsAt(s9', kind) = EventsAt(s9, kind) \cup {Len(s9) + j : j \in EventsAt(t, kind)}
    BY <1>2
  <2>3. \E j \in EventsAt(t, kind) : i = Len(s9) + j
    BY <2>1, <2>2
  <2> QED BY <1>3, <2>3
<1>7. \A i \in EventsAt(s9', "done") \cup EventsAt(s9', "message_stop") : i = Len(s9')
  BY <1>2, <1>6
<1>8. s1 = "anthropic" =>
        \A e \in EventsAt(s9', "message_delta") :
          EventsAt(s9', "block_start") # {} => \E b \in EventsAt(s9', "block_stop") : b < e
  <2> SUFFICES ASSUME s1 = "anthropic", NEW e \in EventsAt(s9', "message_delta"),
                      EventsAt(s9', "block_start") # {}
               PROVE  \E b \in EventsAt(s9', "block_stop") : b < e
    OBVIOUS
  <2>1. s8.block
    BY <1>5 DEF ProxyInv, ProxyShape
  <2>2. PICK j \in 1 .. Len(t) : e = Len(s9) + j /\ t[j][1] = "message_delta"
    BY <1>6
  <2>3. PICK b \in 1 .. Len(t) : b < j /\ t[b][1] = "block_stop"
    BY <2>1, <2>2
  <2>4. Len(s9) + b \in EventsAt(s9', "block_stop")
    <3>1. b \in EventsAt(t, "block_stop")
      BY <1>3, <2>3
    <3>2. EventsAt(s9', "block_stop")
            = EventsAt(s9, "block_stop") \cup {Len(s9) + k : k \in EventsAt(t, "block_stop")}
      BY <1>2
    <3> QED BY <3>1, <3>2
  <2>5. Len(s9) + b < e
    BY <1>2, <2>2, <2>3
  <2> QED BY <2>4, <2>5
<1>9. /\ s1 = "anthropic" =>
           /\ Proxy!Cardinality(Proxy!At("block_start")) <= 1
           /\ \A i \in EventsAt(s9, "text") : \E b \in EventsAt(s9, "block_start") : b < i
      /\ s1 = "openai" /\ ~Proxy!Said("usage call") =>
           \A i \in EventsAt(s9, "args") : \E c \in EventsAt(s9, "call") : c < i /\ s9[c][2] = s9[i][2]
      /\ Cardinality(EventsAt(s9, "text")) = Cardinality(FramesAt(s6, "text"))
  <2>1. ProxyShape /\ Proxy!StreamIsWellFormed
    BY DEF ProxyInv
  <2>2. Cardinality(EventsAt(s9, "text")) = Cardinality(FramesAt(s6, "text"))
    BY <2>1 DEF ProxyShape
  <2>3. s1 = "anthropic" =>
          /\ Proxy!Cardinality(Proxy!At("block_start")) <= 1
          /\ \A i \in EventsAt(s9, "text") : \E b \in EventsAt(s9, "block_start") : b < i
    BY <2>1 DEF ProxyShape, Proxy!StreamIsWellFormed
  <2>4. s1 = "openai" /\ ~Proxy!Said("usage call") =>
          \A i \in EventsAt(s9, "args") : \E c \in EventsAt(s9, "call") : c < i /\ s9[c][2] = s9[i][2]
    <3>1. s1 = "openai" /\ ~Proxy!Said("usage call") =>
            \A i \in EventsAt(s9, "args") :
              s9[i][2] = 1 /\ \E c \in EventsAt(s9, "call") : c < i /\ s9[c][2] = 1
      BY <2>1 DEF ProxyShape
    <3> QED BY <3>1
  <2> QED BY <2>2, <2>3, <2>4
<1>10. Proxy!At("block_start") = EventsAt(s9, "block_start")
  BY DEF Proxy!At, EventsAt
<1>11. s1 = "openai" /\ ~Proxy!Said("usage call") =>
         \A i \in EventsAt(s9', "args") : \E c \in EventsAt(s9', "call") : c < i /\ s9'[c][2] = s9'[i][2]
  <2>1. \A i \in EventsAt(s9, "args") \cup EventsAt(s9, "call") : s9'[i] = s9[i]
    BY <1>2
  <2>2. EventsAt(s9', "args") = EventsAt(s9, "args") /\ EventsAt(s9', "call") = EventsAt(s9, "call")
    BY <1>5
  <2> SUFFICES ASSUME s1 = "openai", ~Proxy!Said("usage call"), NEW i \in EventsAt(s9, "args")
               PROVE  \E c \in EventsAt(s9, "call") : c < i /\ s9'[c][2] = s9'[i][2]
    BY <2>2
  <2>3. PICK c \in EventsAt(s9, "call") : c < i /\ s9[c][2] = s9[i][2]
    BY <1>9
  <2> QED BY <2>1, <2>3
<1>12. Proxy!Cardinality(EventsAt(s9', "text")) = Proxy!Cardinality(FramesAt(s6', "text"))
  BY <1>5, <1>9, ProxyCardinality
<1>13. s1' = "anthropic" =>
         /\ Proxy!Cardinality(EventsAt(s9', "block_start")) <= 1
         /\ \A i \in EventsAt(s9', "text") : \E b \in EventsAt(s9', "block_start") : b < i
  BY <1>5, <1>9, <1>10
<1>14. Proxy!AllText'
  BY <1>4, <1>12 DEF Proxy!AllText, FramesAt
<1>15. s1' = "openai" /\ ~Proxy!Said("usage call")' =>
         \A i \in Proxy!At("args")' : \E c \in Proxy!At("call")' : c < i /\ s9'[c][2] = s9'[i][2]
  BY <1>4, <1>11 DEF Proxy!Said
<1>16. s1' = "anthropic" =>
         /\ Proxy!Cardinality(Proxy!At("block_start")') <= 1
         /\ \A i \in Proxy!At("text")' : \E s \in Proxy!At("block_start")' : s < i
         /\ \A e \in Proxy!At("message_delta")' :
              Proxy!At("block_start")' # {} => \E b \in Proxy!At("block_stop")' : b < e
  BY <1>4, <1>8, <1>13
<1>17. \A i \in Proxy!At("done")' \cup Proxy!At("message_stop")' : i = Len(s9')
  BY <1>4, <1>7
<1>18. Proxy!StreamIsWellFormed'
  BY <1>14, <1>15, <1>16, <1>17 DEF Proxy!StreamIsWellFormed
<1> QED BY <1>2, <1>14, <1>18

-----------------------------------------------------------------------------
\* up to the answer of a call without a stream
LEMMA ProxyBefore ==
    ASSUME ProxyInv,
           \/ Proxy!VerifyMappingFails \/ Proxy!HandleInbound \/ Proxy!StartLog
           \/ Proxy!Call \/ Proxy!NeverRead
    PROVE  ProxyInv'
<1>1. /\ ProxyTypes
      /\ s6 = <<>> /\ s7 = Proxy!NoUsage /\ s8 = Proxy!NewGen /\ s9 = <<>> /\ s10.status # "success"
      /\ UNCHANGED <<s1, s2, s6, s8>> /\ s3' \notin {"stream", "ending", "failing", "closed"}
  BY DEF ProxyInv, ProxyFresh, Proxy!VerifyMappingFails, Proxy!HandleInbound, Proxy!StartLog,
         Proxy!Call, Proxy!NeverRead
<1>2. ProxyUsage' /\ ProxyShape' /\ ProxyClosed'
  BY <1>1 DEF ProxyUsage, ProxyShape, ProxyClosed, Streaming
<1>3. Proxy!E("error") \in Event /\ Proxy!E("answer") \in Event
      /\ Proxy!E("error")[1] = "error" /\ Proxy!E("answer")[1] = "answer"
  BY EventTypes DEF EventKinds, Proxy!E
<1>4. \A status \in {"success", "failed"}, usage \in Usage :
        Proxy!Finish(status, usage) =>
          /\ s10' \in [status : {"none", "pending", "success", "failed"}, usage : Usage]
          /\ s10'.status = "success" => status = "success" /\ s10'.usage = usage
  BY <1>1 DEF Proxy!Finish, ProxyTypes
<1>5. s9' \in {<<>>, <<Proxy!E("error")>>, <<Proxy!E("answer")>>}
  BY <1>1 DEF Proxy!VerifyMappingFails, Proxy!HandleInbound, Proxy!StartLog, Proxy!Call, Proxy!NeverRead
<1>6. s9' \in Seq(Event) /\ Proxy!StreamIsWellFormed'
  <2>1. CASE s9' \in {<<>>, <<Proxy!E("error")>>}
    BY <1>3, <2>1, NoStream, FewEvents
  <2>2. CASE s9' = <<Proxy!E("answer")>>
    BY <1>3, <2>2, NoStream, FewEvents
  <2> QED BY <1>5, <2>1, <2>2
<1>7. Proxy!NoUsage \in Usage
  BY DEF Proxy!NoUsage, Usage
<1>8. CASE Proxy!VerifyMappingFails \/ Proxy!HandleInbound \/ Proxy!StartLog \/ Proxy!NeverRead
  <2>1. /\ UNCHANGED s7 /\ s10'.status # "success"
        /\ s10' \in [status : {"none", "pending", "success", "failed"}, usage : Usage]
        /\ s3' \in {"verify", "log", "send"} => s9' = s9
    BY <1>1, <1>7, <1>8 DEF Proxy!VerifyMappingFails, Proxy!HandleInbound, Proxy!StartLog, Proxy!NeverRead,
         ProxyTypes, Proxy!NoLog
  <2>2. ProxyTypes' /\ ProxyFresh' /\ Proxy!LogIsTrue'
    BY <1>1, <1>6, <2>1 DEF ProxyTypes, ProxyFresh, Proxy!LogIsTrue
  <2> QED BY <1>2, <1>6, <2>2 DEF ProxyInv
<1>9. CASE Proxy!Call
  <2>1. /\ s3' = "over" /\ s7' \in Usage
        /\ s10' \in [status : {"none", "pending", "success", "failed"}, usage : Usage]
        /\ s10'.status = "success" => s10'.usage = s7' /\ s9' = <<Proxy!E("answer")>>
    <3> DEFINE Logged == /\ s7' \in Usage
                         /\ s10' \in [status : {"none", "pending", "success", "failed"}, usage : Usage]
                         /\ s10'.status = "success" => s10'.usage = s7' /\ s9' = <<Proxy!E("answer")>>
    <3>1. s3' = "over"
      BY <1>9 DEF Proxy!Call
    <3>2. ASSUME NEW p \in Proxy!Counts, NEW c \in Proxy!Counts,
                 s7' = [input |-> p, output |-> c], Proxy!Finish("success", [input |-> p, output |-> c]),
                 s9' = <<Proxy!E("answer")>>
          PROVE  Logged
      <4>1. [input |-> p, output |-> c] \in Usage
        BY DEF Proxy!Counts, Usage
      <4> QED BY <1>4, <3>1, <3>2, <4>1
    <3>3. ASSUME UNCHANGED s7, Proxy!Finish("failed", Proxy!NoUsage)
          PROVE  Logged
      BY <1>1, <1>4, <1>7, <3>1, <3>3 DEF ProxyTypes
    <3> QED BY <1>9, <3>1, <3>2, <3>3 DEF Proxy!Call
  <2>2. ProxyTypes' /\ ProxyFresh' /\ Proxy!LogIsTrue'
    BY <1>1, <1>6, <2>1 DEF ProxyTypes, ProxyFresh, Proxy!LogIsTrue
  <2> QED BY <1>2, <1>6, <2>2 DEF ProxyInv
<1> QED BY <1>8, <1>9

\* the stream is opened, and perhaps asked for once more
LEMMA ProxyOpens == ASSUME ProxyInv, Proxy!OpenStream PROVE ProxyInv'
<1>1. /\ ProxyTypes
      /\ s6 = <<>> /\ s7 = Proxy!NoUsage /\ s8 = Proxy!NewGen /\ s10.status # "success"
      /\ UNCHANGED <<s1, s2, s6, s7, s8, s10>> /\ s3' = "stream"
      /\ s9' \in {<<>>, <<Proxy!E("message_start")>>}
  BY DEF ProxyInv, ProxyFresh, Proxy!OpenStream
<1>2. Proxy!E("message_start") \in Event /\ Proxy!E("message_start")[1] = "message_start"
  BY EventTypes DEF EventKinds, Proxy!E
<1>3. s9' \in Seq(Event) /\ \A kind : kind # "message_start" => EventsAt(s9', kind) = {}
  BY <1>1, <1>2, FewEvents
<1>4. \A kind : FramesAt(s6', kind) = {} /\ ~Proxy!Said(kind)'
  BY <1>1, NoElements DEF FramesAt, Proxy!Said
<1>5. ProxyTypes' /\ Streaming'
  BY <1>1, <1>3 DEF ProxyTypes, Streaming
<1>6. ProxyUsage'
  BY <1>1, <1>4 DEF ProxyUsage, Streaming, Proxy!NewGen, Proxy!NoUsage
<1>7. ProxyShape'
  BY <1>1, <1>3, <1>4 DEF ProxyShape, Proxy!NewGen
<1> QED BY <1>5, <1>6, <1>7, ProxyStreams

LEMMA ProxyAgain == ASSUME ProxyInv, Proxy!SendPlain PROVE ProxyInv'
<1>1. Streaming /\ Streaming' /\ UNCHANGED <<s1, s2, s3, s6, s7, s8, s9, s10>>
  BY DEF Proxy!SendPlain, Streaming
<1>2. ProxyTypes' /\ ProxyUsage'
  BY <1>1 DEF ProxyInv, ProxyTypes, ProxyUsage, Streaming, Reported, Proxy!SaidUsage, Proxy!Said
<1>3. ProxyShape'
  BY <1>1, QuietFrame
<1> QED BY <1>1, <1>2, <1>3, ProxyStreams

\* a frame that carries no piece, or the end of the connection
LEMMA ProxyFrame ==
    ASSUME ProxyInv, Streaming, Streaming', UNCHANGED <<s1, s2, s9, s10>>,
           NEW kind \in FrameKinds \ {"text", "call"}, s6' = Append(s6, kind),
           s7' \in Usage, s8' \in Gen, s8'.block = s8.block, s8'.usage = s7',
           s8'.completed => s8.completed \/ Reported \/ kind \in {"finish"} \cup Proxy!UsageKinds,
           s2 = "anthropic" /\ kind # "finish" /\ ~Proxy!Said("finish") => s7'.output = 0
    PROVE  ProxyInv'
<1>1. s6 \in Seq(FrameKinds) /\ ProxyTypes
  BY DEF ProxyInv, ProxyTypes
<1>2. /\ s6' \in Seq(FrameKinds) /\ s6' # <<>>
      /\ \A k : FramesAt(s6', k) = FramesAt(s6, k) \cup (IF k = kind THEN {Len(s6) + 1} ELSE {})
  BY <1>1, Frames
<1>3. \A k : Proxy!Said(k)' <=> FramesAt(s6', k) # {}
  BY DEF Proxy!Said, FramesAt
<1>4. \A k : Proxy!Said(k)' <=> Proxy!Said(k) \/ k = kind
  BY <1>2, <1>3, SaidIsFramed
<1>5. ProxyTypes'
  BY <1>1, <1>2 DEF ProxyTypes
<1>6. ProxyUsage'
  <2>1. (Reported \/ kind \in {"finish"} \cup Proxy!UsageKinds) => Reported'
    BY <1>4 DEF Reported, Proxy!SaidUsage, Proxy!UsageKinds
  <2> QED BY <1>2, <1>4, <2>1 DEF ProxyInv, ProxyUsage, Streaming
<1>7. ProxyShape'
  BY QuietFrame
<1> QED BY <1>5, <1>6, <1>7, ProxyStreams

\* what the generator makes of the frames that carry no piece
LEMMA HandleStart ==
    ASSUME NEW g \in Gen, NEW u \in Usage, NEW e, e = [kind |-> "start", usage |-> u]
    PROVE  /\ Proxy!Handle(g, e) \in Gen /\ Proxy!Handle(g, e).block = g.block
           /\ Proxy!Handle(g, e).usage = u /\ Proxy!Handle(g, e).completed = g.completed
           /\ Proxy!Sent(g, e) = <<>>
<1>1. e.kind = "start" /\ e.usage = u
  OBVIOUS
<1>2. Proxy!Handle(g, e) = [g EXCEPT !.usage = u] /\ Proxy!Sent(g, e) = <<>>
  BY <1>1 DEF Proxy!Handle, Proxy!Sent
<1> QED BY <1>2 DEF Gen

LEMMA HandleFinal ==
    ASSUME NEW g \in Gen, NEW reason \in {"none", "tool_calls"}, NEW i \in Nat, NEW o \in Nat,
           NEW e, e = Proxy!Final(reason, i, o)
    PROVE  /\ Proxy!Handle(g, e) \in Gen /\ Proxy!Handle(g, e).block = g.block
           /\ Proxy!Handle(g, e).completed
           /\ Proxy!Handle(g, e).usage = [input |-> IF i # 0 THEN i ELSE g.usage.input,
                                          output |-> IF o # 0 THEN o ELSE g.usage.output]
           /\ Proxy!Handle(g, e).usage \in Usage
           /\ Proxy!Sent(g, e) = <<>>
<1>1. e.kind = "final" /\ e.reason = reason /\ e.usage = [input |-> i, output |-> o]
  BY DEF Proxy!Final
<1> DEFINE u == [input |-> IF i # 0 THEN i ELSE g.usage.input, output |-> IF o # 0 THEN o ELSE g.usage.output]
           f == IF reason # "none" THEN reason ELSE g.finish
<1>2. Proxy!MergeUsage(g.usage, e.usage) = u /\ u \in Usage /\ f \in {"none", "tool_calls"}
  BY <1>1 DEF Proxy!MergeUsage, Gen, Usage
<1>3. Proxy!Handle(g, e) = [g EXCEPT !.completed = TRUE, !.usage = Proxy!MergeUsage(g.usage, e.usage), !.finish = f]
      /\ Proxy!Sent(g, e) = <<>>
  BY <1>1 DEF Proxy!Handle, Proxy!Sent
<1> HIDE DEF u, f
<1>4. Proxy!Handle(g, e) = [g EXCEPT !.completed = TRUE, !.usage = u, !.finish = f] /\ Proxy!Sent(g, e) = <<>>
  BY <1>2, <1>3
<1>5. /\ Proxy!Handle(g, e) \in Gen /\ Proxy!Handle(g, e).block = g.block
      /\ Proxy!Handle(g, e).completed /\ Proxy!Handle(g, e).usage = u
  BY <1>2, <1>4 DEF Gen
<1> QED BY <1>2, <1>4, <1>5 DEF u

LEMMA ProxyHears ==
    ASSUME ProxyInv,
           Proxy!HearStart \/ Proxy!HearFinish \/ Proxy!HearUsage \/ Proxy!HearStop \/ Proxy!HearError
    PROVE  ProxyInv'
<1>1. s3 = "stream" /\ Streaming
  BY DEF Proxy!HearStart, Proxy!HearFinish, Proxy!HearUsage, Proxy!HearStop, Proxy!HearError, Streaming,
         Proxy!Talking
<1>2. /\ s7 \in Usage /\ s8 \in Gen /\ s8.usage = s7 /\ s9 \in Seq(Event) /\ s2 \in {"openai", "anthropic"}
      /\ s2 = "anthropic" /\ ~Proxy!Said("finish") => s7.output = 0
  BY <1>1 DEF ProxyInv, ProxyTypes, ProxyUsage
<1>3. s9 \o <<>> = s9
  BY <1>2, ConcatEmptySeq
<1>4. s7 = [input |-> s7.input, output |-> s7.output] /\ s7.input \in Nat /\ s7.output \in Nat
  BY <1>2 DEF Usage
<1>5. \A f, kind, e :
        /\ Proxy!Hear(f, kind) /\ Proxy!Sent(s8, e) = <<>>
        /\ e = IF s2 = "openai" THEN Proxy!OpenaiChunkToEvents(f) ELSE Proxy!AnthropicEvents(f)
        => /\ s6' = Append(s6, kind) /\ s8' = Proxy!Handle(s8, e)
           /\ UNCHANGED <<s1, s2, s3, s9, s10>>
  BY <1>3 DEF Proxy!Hear
<1>6. CASE Proxy!HearStart
  <2>1. PICK p \in Proxy!Counts : /\ s7' = [s7 EXCEPT !.input = p]
                                 /\ Proxy!Hear([kind |-> "message_start", input |-> p], "message_start")
    BY <1>6 DEF Proxy!HearStart
  <2>2. s2 = "anthropic" /\ s6 = <<>> /\ ~Proxy!Said("finish")
    BY <1>6, NoElements DEF Proxy!HearStart, Proxy!Said
  <2> DEFINE u == [input |-> p, output |-> 0]
             e == [kind |-> "start", usage |-> u]
  <2>3. u \in Usage /\ s7' = u /\ u.output = 0
    BY <1>2, <1>4, <2>1, <2>2 DEF Proxy!Counts, Usage
  <2>4. Proxy!AnthropicEvents([kind |-> "message_start", input |-> p]) = e
    BY DEF Proxy!AnthropicEvents
  <2> HIDE DEF u
  <2>5. /\ Proxy!Handle(s8, e) \in Gen /\ Proxy!Handle(s8, e).block = s8.block
        /\ Proxy!Handle(s8, e).usage = u /\ Proxy!Handle(s8, e).completed = s8.completed
        /\ Proxy!Sent(s8, e) = <<>>
    BY <1>2, <2>3, HandleStart
  <2> HIDE DEF e
  <2>6. s6' = Append(s6, "message_start") /\ s8' = Proxy!Handle(s8, e) /\ UNCHANGED <<s1, s2, s3, s9, s10>>
    BY <1>5, <2>1, <2>2, <2>4, <2>5
  <2> QED BY <1>1, <2>2, <2>3, <2>5, <2>6, ProxyFrame DEF Streaming, FrameKinds, Reported
<1>7. CASE Proxy!HearFinish
  <2>1. PICK c \in Proxy!Counts :
          /\ s7' = IF s2 = "anthropic" THEN [s7 EXCEPT !.output = c] ELSE s7
          /\ Proxy!Hear([kind |-> "finish", output |-> c], "finish")
    BY <1>7 DEF Proxy!HearFinish
  <2>2. ~Proxy!Said("finish") /\ c \in Nat
    <3>1. ~Proxy!Said("finish")
      BY <1>7 DEF Proxy!HearFinish, Proxy!Talking, Proxy!Finished
    <3> QED BY <2>1, <3>1 DEF Proxy!Counts
  <2> DEFINE o == IF s2 = "anthropic" THEN c ELSE 0
             e == Proxy!Final("tool_calls", 0, o)
  <2>3. o \in Nat /\ (s2 = "openai" => s7' = s7)
    BY <2>1, <2>2
  <2>4. e = IF s2 = "openai" THEN Proxy!OpenaiChunkToEvents([kind |-> "finish", output |-> c])
                             ELSE Proxy!AnthropicEvents([kind |-> "finish", output |-> c])
    BY <1>2 DEF Proxy!OpenaiChunkToEvents, Proxy!AnthropicEvents
  <2>5. s7' \in Usage /\ s7' = [input |-> s7.input, output |-> IF o # 0 THEN o ELSE s7.output]
    BY <1>2, <1>4, <2>1, <2>2 DEF Usage
  <2> HIDE DEF o
  <2>6. /\ Proxy!Handle(s8, e) \in Gen /\ Proxy!Handle(s8, e).block = s8.block
        /\ Proxy!Handle(s8, e).usage = s7' /\ Proxy!Sent(s8, e) = <<>>
    BY <1>2, <2>3, <2>5, HandleFinal
  <2> HIDE DEF e
  <2>7. s6' = Append(s6, "finish") /\ s8' = Proxy!Handle(s8, e) /\ UNCHANGED <<s1, s2, s3, s9, s10>>
    BY <1>5, <2>1, <2>4, <2>6
  <2> QED BY <1>1, <2>3, <2>5, <2>6, <2>7, ProxyFrame DEF Streaming, FrameKinds, Reported
<1>8. CASE Proxy!HearUsage
  <2>1. PICK p \in Proxy!Counts, c \in Proxy!Counts, kind \in Proxy!UsageKinds :
          /\ p >= s7.input /\ c >= s7.output
          /\ s7' = [input |-> p, output |-> c]
          /\ Proxy!Hear([kind |-> "usage", with |-> kind, input |-> p, output |-> c], kind)
    BY <1>8 DEF Proxy!HearUsage
  <2>2. s2 = "openai" /\ p \in Nat /\ c \in Nat /\ kind \in FrameKinds \ {"text", "call"}
    <3>1. s2 = "openai"
      BY <1>8 DEF Proxy!HearUsage
    <3>2. p \in Nat /\ c \in Nat
      BY <2>1 DEF Proxy!Counts
    <3>3. Proxy!UsageKinds \subseteq FrameKinds \ {"text", "call"}
      BY DEF Proxy!UsageKinds, FrameKinds
    <3> QED BY <2>1, <3>1, <3>2, <3>3
  <2> DEFINE e == Proxy!Final("none", p, c)
  <2>3. e = Proxy!OpenaiChunkToEvents([kind |-> "usage", with |-> kind, input |-> p, output |-> c])
    BY DEF Proxy!OpenaiChunkToEvents
  <2>4. s7' \in Usage /\ s7' = [input |-> IF p # 0 THEN p ELSE s7.input, output |-> IF c # 0 THEN c ELSE s7.output]
    BY <1>4, <2>1, <2>2 DEF Usage
  <2>5. /\ Proxy!Handle(s8, e) \in Gen /\ Proxy!Handle(s8, e).block = s8.block
        /\ Proxy!Handle(s8, e).usage = s7' /\ Proxy!Sent(s8, e) = <<>>
    BY <1>2, <2>2, <2>4, HandleFinal
  <2> HIDE DEF e
  <2>6. s6' = Append(s6, kind) /\ s8' = Proxy!Handle(s8, e) /\ UNCHANGED <<s1, s2, s3, s9, s10>>
    BY <1>5, <2>1, <2>2, <2>3, <2>5
  <2> QED BY <1>1, <2>1, <2>2, <2>4, <2>5, <2>6, ProxyFrame DEF Streaming
<1>9. CASE Proxy!HearStop
  <2>1. /\ s2 = "anthropic" /\ Proxy!Said("finish") /\ s7' = s7
        /\ Proxy!Hear([kind |-> "message_stop"], "message_stop")
    BY <1>9 DEF Proxy!HearStop
  <2> DEFINE e == Proxy!Final("none", 0, 0)
  <2>2. e = Proxy!AnthropicEvents([kind |-> "message_stop"])
    BY DEF Proxy!AnthropicEvents
  <2> HIDE DEF e
  <2>3. /\ Proxy!Handle(s8, e) \in Gen /\ Proxy!Handle(s8, e).block = s8.block
        /\ Proxy!Handle(s8, e).usage = s7 /\ Proxy!Sent(s8, e) = <<>>
    <3>1. /\ Proxy!Handle(s8, e) \in Gen /\ Proxy!Handle(s8, e).block = s8.block
          /\ Proxy!Handle(s8, e).usage = [input |-> IF 0 # 0 THEN 0 ELSE s8.usage.input,
                                         output |-> IF 0 # 0 THEN 0 ELSE s8.usage.output]
          /\ Proxy!Sent(s8, e) = <<>>
      BY <1>2, HandleFinal DEF e
    <3> QED BY <1>2, <1>4, <3>1
  <2>4. s6' = Append(s6, "message_stop") /\ s8' = Proxy!Handle(s8, e) /\ UNCHANGED <<s1, s2, s3, s9, s10>>
    BY <1>5, <2>1, <2>2, <2>3
  <2> QED BY <1>1, <1>2, <2>1, <2>3, <2>4, ProxyFrame DEF Streaming, FrameKinds, Reported
<1>10. CASE Proxy!HearError
  <2>1. /\ s7' = s7 /\ s6' = Append(s6, "error") /\ s3' = "failing" /\ UNCHANGED <<s1, s2, s9, s10>>
        /\ s8' = Proxy!Handle(s8, Proxy!Ev("error", 0))
    BY <1>10 DEF Proxy!HearError
  <2>2. s8' = [s8 EXCEPT !.error = TRUE]
    BY <2>1 DEF Proxy!Handle, Proxy!Ev
  <2>3. s8' \in Gen /\ s8'.block = s8.block /\ s8'.usage = s8.usage /\ s8'.completed = s8.completed
    BY <1>2, <2>2 DEF Gen
  <2> QED BY <1>1, <1>2, <2>1, <2>3, ProxyFrame DEF Streaming, FrameKinds, Reported
<1> QED BY <1>6, <1>7, <1>8, <1>9, <1>10

LEMMA ProxyCloses == ASSUME ProxyInv, Proxy!HearClose PROVE ProxyInv'
<1>1. Streaming /\ Streaming' /\ UNCHANGED <<s1, s2, s6, s7, s8, s9, s10>>
  BY DEF Proxy!HearClose, Streaming
<1>2. ProxyTypes' /\ ProxyUsage'
  BY <1>1 DEF ProxyInv, ProxyTypes, ProxyUsage, Streaming, Reported, Proxy!SaidUsage, Proxy!Said
<1>3. ProxyShape'
  BY <1>1, QuietFrame
<1> QED BY <1>1, <1>2, <1>3, ProxyStreams

-----------------------------------------------------------------------------
LEMMA ProxyFinishes ==
    ASSUME ProxyTypes, s10.status # "success", NEW status \in {"success", "failed"}, NEW usage \in Usage,
           Proxy!Finish(status, usage)
    PROVE  /\ s10' \in [status : {"none", "pending", "success", "failed"}, usage : Usage]
           /\ s10'.status = "success" => status = "success" /\ s10'.usage = usage
BY DEF Proxy!Finish, ProxyTypes

\* what has to be shown of a step that gives out the events t and ends the stream, with the
\* log of the call or ahead of it
LEMMA ProxyEnded ==
    ASSUME ProxyInv, Streaming, NEW t \in Seq(Event), s9' = s9 \o t, UNCHANGED <<s1, s2, s6, s7, s8>>,
           \/ s3' = "closed" /\ UNCHANGED s10 /\ \E j \in 1 .. Len(t) : t[j][1] \in {"done", "message_stop"}
           \/ s3' = "over" /\ Proxy!Finish("failed", s8.usage)
           \/ s3' = "left" /\ \E status \in {"success", "failed"} :
                /\ status = "success" => s8.completed
                /\ Proxy!Finish(status, s8.usage),
           \A j \in 1 .. Len(t) :
             /\ t[j][1] \notin {"block_start", "text", "call", "args"}
             /\ t[j][1] \in {"done", "message_stop"} => j = Len(t)
             /\ s1 = "anthropic" /\ s8.block /\ t[j][1] = "message_delta" =>
                  \E b \in 1 .. Len(t) : b < j /\ t[b][1] = "block_stop"
    PROVE  ProxyInv'
<1>1. s9' \in Seq(Event) /\ Proxy!StreamIsWellFormed' /\ Proxy!AllText'
  BY StreamEnds
<1>2. /\ ProxyTypes /\ s10.status # "success" /\ s8.usage = s7 /\ s8.usage \in Usage
      /\ s8.completed => Reported
  BY DEF ProxyInv, ProxyTypes, ProxyUsage
<1>3. \A status \in {"success", "failed"} :
        Proxy!Finish(status, s8.usage) =>
          /\ s10' \in [status : {"none", "pending", "success", "failed"}, usage : Usage]
          /\ s10'.status = "success" => status = "success" /\ s10'.usage = s8.usage
  BY <1>2, ProxyFinishes
<1>4. s3' = "closed" => Proxy!EndTold'
  <2> SUFFICES ASSUME s3' = "closed" PROVE Proxy!EndTold'
    OBVIOUS
  <2>1. PICK j \in 1 .. Len(t) : t[j][1] \in {"done", "message_stop"}
    OBVIOUS
  <2>2. /\ s9' \in Seq(Event) /\ Len(s9') = Len(s9) + Len(t) /\ Len(s9) \in Nat /\ Len(t) \in Nat
        /\ s9'[Len(s9) + j] = t[j]
    BY Positions DEF ProxyInv, ProxyTypes
  <2>3. Len(s9) + j \in DOMAIN s9'
    BY <2>2
  <2>4. \A kind : s9'[Len(s9) + j][1] = kind => Len(s9) + j \in Proxy!At(kind)'
    BY <2>3 DEF Proxy!At
  <2> QED BY <2>1, <2>2, <2>4 DEF Proxy!EndTold
<1>5. /\ s10' \in [status : {"none", "pending", "success", "failed"}, usage : Usage]
      /\ s10'.status = "success" => s3' = "left" /\ s8.completed /\ s10'.usage = s8.usage
      /\ s3' \in {"closed", "over", "left"} /\ (s3' = "closed" => s10'.status # "success")
  BY <1>2, <1>3 DEF ProxyTypes
<1>6. Reported' <=> Reported
  BY DEF Reported, Proxy!SaidUsage, Proxy!Said
<1>7. Proxy!LogIsTrue'
  BY <1>1, <1>2, <1>5, <1>6 DEF Proxy!LogIsTrue, Reported
<1>8. ProxyUsage'
  <2>1. /\ s2 = "anthropic" /\ ~Proxy!Said("finish") => s7.output = 0
        /\ s2 = "anthropic" /\ s6 = <<>> => s7.input = 0
    BY DEF ProxyInv, ProxyUsage
  <2>2. Proxy!Said("finish")' <=> Proxy!Said("finish")
    BY DEF Proxy!Said
  <2> QED BY <1>2, <1>5, <1>6, <2>1, <2>2 DEF ProxyUsage, Streaming
<1>9. ProxyTypes' /\ ProxyFresh' /\ ProxyShape' /\ ProxyClosed'
  BY <1>1, <1>2, <1>4, <1>5 DEF ProxyTypes, ProxyFresh, ProxyShape, ProxyClosed, Streaming
<1> QED BY <1>1, <1>7, <1>8, <1>9 DEF ProxyInv

LEMMA OneEvent ==
    ASSUME NEW a \in Event PROVE <<a>> \in Seq(Event) /\ Len(<<a>>) = 1 /\ <<a>>[1] = a
OBVIOUS

LEMMA TwoEvents ==
    ASSUME NEW a \in Event, NEW b \in Event
    PROVE  <<a, b>> \in Seq(Event) /\ Len(<<a, b>>) = 2 /\ <<a, b>>[1] = a /\ <<a, b>>[2] = b
OBVIOUS

LEMMA ThreeEvents ==
    ASSUME NEW a \in Event, NEW b \in Event, NEW c \in Event
    PROVE  LET t == <<a>> \o <<b>> \o <<c>>
           IN  t \in Seq(Event) /\ Len(t) = 3 /\ t[1] = a /\ t[2] = b /\ t[3] = c
<1> DEFINE two == <<a>> \o <<b>>
<1>1. two \in Seq(Event) /\ Len(two) = 2 /\ two[1] = a /\ two[2] = b
  OBVIOUS
<1> HIDE DEF two
<1>2. /\ two \o <<c>> \in Seq(Event) /\ Len(two \o <<c>>) = 3
      /\ (two \o <<c>>)[1] = two[1] /\ (two \o <<c>>)[2] = two[2] /\ (two \o <<c>>)[3] = c
  <2>0. two \in Seq(Event)
    BY <1>1
  <2>1. /\ two \o <<c>> \in Seq(Event) /\ Len(two \o <<c>>) = Len(two) + 1
        /\ \A i \in 1 .. Len(two) : (two \o <<c>>)[i] = two[i]
        /\ (two \o <<c>>)[Len(two) + 1] = c
    BY <2>0, TellOne, Zenon
  <2>2. 1 \in 1 .. Len(two) /\ 2 \in 1 .. Len(two) /\ Len(two) + 1 = 3
    BY ONLY <1>1
  <2> QED BY ONLY <2>1, <2>2
<1> QED BY <1>1, <1>2 DEF two

\* the normal end: the finish, perhaps the usage, and the end of the client's protocol
LEMMA ClosingIs ==
    ASSUME ProxyInv
    PROVE  LET t == Proxy!Closing IN
           /\ t \in Seq(Event) /\ Len(t) \in Nat \ {0} /\ t[Len(t)][1] \in {"done", "message_stop"}
           /\ \A j \in 1 .. Len(t) :
                /\ t[j][1] \notin {"block_start", "text", "call", "args"}
                /\ t[j][1] \in {"done", "message_stop"} => j = Len(t)
                /\ s1 = "anthropic" /\ s8.block /\ t[j][1] = "message_delta" =>
                     \E b \in 1 .. Len(t) : b < j /\ t[b][1] = "block_stop"
<1> DEFINE t == Proxy!Closing
<1>3. /\ t \in Seq(Event) /\ Len(t) \in Nat \ {0} /\ t[Len(t)][1] \in {"done", "message_stop"}
      /\ \A j \in 1 .. Len(t) :
           /\ t[j][1] \notin {"block_start", "text", "call", "args"}
           /\ t[j][1] \in {"done", "message_stop"} => j = Len(t)
           /\ s1 = "anthropic" /\ s8.block /\ t[j][1] = "message_delta" =>
                \E b \in 1 .. Len(t) : b < j /\ t[b][1] = "block_stop"
  <2> DEFINE a == Proxy!E("finish")
             u == Proxy!E("usage")
             d == Proxy!E("done")
             x == Proxy!E("block_stop")
             y == Proxy!E("message_delta")
             z == Proxy!E("message_stop")
  <2>1. a \in Event /\ u \in Event /\ d \in Event /\ x \in Event /\ y \in Event /\ z \in Event
    BY EventTypes DEF EventKinds
  <2>2. /\ a[1] = "finish" /\ u[1] = "usage" /\ d[1] = "done"
        /\ x[1] = "block_stop" /\ y[1] = "message_delta" /\ z[1] = "message_stop"
    BY DEF Proxy!E
  <2>3. t = IF s1 = "openai" THEN <<a>> \o (IF s8.usage # Proxy!NoUsage THEN <<u>> ELSE <<>>) \o <<d>>
            ELSE (IF s8.block THEN <<x>> ELSE <<>>) \o <<y, z>>
    BY DEF Proxy!Closing
  <2> HIDE DEF a, u, d, x, y, z, t
  <2>4. CASE s1 = "openai" /\ s8.usage # Proxy!NoUsage
    <3>1. t \in Seq(Event) /\ Len(t) = 3 /\ t[1] = a /\ t[2] = u /\ t[3] = d
      <4>1. t = <<a>> \o <<u>> \o <<d>>
        BY <2>3, <2>4
      <4>2. LET three == <<a>> \o <<u>> \o <<d>>
            IN  three \in Seq(Event) /\ Len(three) = 3 /\ three[1] = a /\ three[2] = u /\ three[3] = d
        BY <2>1, ThreeEvents
      <4> QED BY <4>1, <4>2
    <3> QED BY <2>2, <2>4, <3>1
  <2>5. CASE s1 = "openai" /\ s8.usage = Proxy!NoUsage
    <3>1. t \in Seq(Event) /\ Len(t) = 2 /\ t[1] = a /\ t[2] = d
      BY <2>1, <2>3, <2>5
    <3> QED BY <2>2, <2>5, <3>1
  <2>6. CASE s1 # "openai" /\ s8.block
    <3>1. t \in Seq(Event) /\ Len(t) = 3 /\ t[1] = x /\ t[2] = y /\ t[3] = z
      BY <2>1, <2>3, <2>6
    <3> QED BY <2>2, <2>6, <3>1
  <2>7. CASE s1 # "openai" /\ ~s8.block
    <3>1. t \in Seq(Event) /\ Len(t) = 2 /\ t[1] = y /\ t[2] = z
      BY <2>1, <2>3, <2>7
    <3> QED BY <2>2, <2>7, <3>1
  <2> QED BY <2>4, <2>5, <2>6, <2>7
<1> QED BY <1>3

LEMMA ProxyTells == ASSUME ProxyInv, Proxy!TellEnd PROVE ProxyInv'
<1> DEFINE t == Proxy!Closing
<1>1. /\ Streaming /\ s9' = s9 \o t /\ UNCHANGED <<s1, s2, s6, s7, s8, s10>> /\ s3' = "closed"
  BY DEF Proxy!TellEnd, Streaming
<1>2. /\ t \in Seq(Event) /\ Len(t) \in Nat \ {0} /\ t[Len(t)][1] \in {"done", "message_stop"}
      /\ \A j \in 1 .. Len(t) :
           /\ t[j][1] \notin {"block_start", "text", "call", "args"}
           /\ t[j][1] \in {"done", "message_stop"} => j = Len(t)
           /\ s1 = "anthropic" /\ s8.block /\ t[j][1] = "message_delta" =>
                \E b \in 1 .. Len(t) : b < j /\ t[b][1] = "block_stop"
  BY ClosingIs
<1> HIDE DEF t
<1>3. Len(t) \in 1 .. Len(t)
  BY <1>2
<1> QED BY <1>1, <1>2, <1>3, ProxyEnded

\* the first of some events are events, and each stands where it stood
LEMMA Beginning ==
    ASSUME NEW t \in Seq(Event), NEW n \in 0 .. Len(t)
    PROVE  /\ SubSeq(t, 1, n) \in Seq(Event) /\ Len(SubSeq(t, 1, n)) = n
           /\ \A j \in 1 .. n : SubSeq(t, 1, n)[j] = t[j]
OBVIOUS

\* the client leaves in the closing yields
LEMMA ProxyLeaves == ASSUME ProxyInv, Proxy!LeaveEnd PROVE ProxyInv'
<1> DEFINE all == Proxy!Closing
<1>1. PICK n \in 0 .. Len(all) - 1 :
        /\ s9' = s9 \o SubSeq(all, 1, n) /\ s3 = "ending" /\ s3' = "left"
        /\ Proxy!Finish(Proxy!Status(FALSE), s8.usage) /\ UNCHANGED <<s1, s2, s6, s7, s8>>
  BY DEF Proxy!LeaveEnd
<1>2. /\ all \in Seq(Event) /\ Len(all) \in Nat \ {0}
      /\ \A j \in 1 .. Len(all) :
           /\ all[j][1] \notin {"block_start", "text", "call", "args"}
           /\ all[j][1] \in {"done", "message_stop"} => j = Len(all)
           /\ s1 = "anthropic" /\ s8.block /\ all[j][1] = "message_delta" =>
                \E b \in 1 .. Len(all) : b < j /\ all[b][1] = "block_stop"
  BY ClosingIs
<1> DEFINE t == SubSeq(all, 1, n)
<1> HIDE DEF all
<1>3. t \in Seq(Event) /\ Len(t) = n /\ n < Len(all) /\ \A j \in 1 .. n : t[j] = all[j]
  BY <1>1, <1>2, Beginning
<1>4. s9' = s9 \o t
  BY <1>1
<1> HIDE DEF t
<1>5. \A j \in 1 .. Len(t) :
        /\ t[j][1] \notin {"block_start", "text", "call", "args"}
        /\ t[j][1] \in {"done", "message_stop"} => j = Len(t)
        /\ s1 = "anthropic" /\ s8.block /\ t[j][1] = "message_delta" =>
             \E b \in 1 .. Len(t) : b < j /\ t[b][1] = "block_stop"
  <2> SUFFICES ASSUME NEW j \in 1 .. Len(t)
               PROVE  /\ t[j][1] \notin {"block_start", "text", "call", "args"}
                      /\ t[j][1] \in {"done", "message_stop"} => j = Len(t)
                      /\ s1 = "anthropic" /\ s8.block /\ t[j][1] = "message_delta" =>
                           \E b \in 1 .. Len(t) : b < j /\ t[b][1] = "block_stop"
    OBVIOUS
  <2>1. j \in 1 .. n /\ j \in 1 .. Len(all) /\ j # Len(all) /\ t[j] = all[j]
    BY <1>1, <1>2, <1>3
  <2>2. \A b \in 1 .. Len(all) : b < j => b \in 1 .. Len(t) /\ t[b] = all[b]
    BY <1>1, <1>2, <1>3, <2>1
  <2> QED BY <1>2, <2>1, <2>2
<1> DEFINE status == Proxy!Status(FALSE)
<1>6. status \in {"success", "failed"} /\ (status = "success" => s8.completed) /\ Proxy!Finish(status, s8.usage)
  BY <1>1 DEF Proxy!Status
<1> HIDE DEF status
<1>7. Streaming
  BY <1>1 DEF Streaming
<1> QED BY <1>1, <1>3, <1>4, <1>5, <1>6, <1>7, ProxyEnded

\* nothing more is heard and nothing more is told
LEMMA ProxyQuiet ==
    ASSUME UNCHANGED <<s1, s6, s9>>
    PROVE  /\ Reported' <=> Reported
           /\ Proxy!EndTold' <=> Proxy!EndTold
           /\ Proxy!AllText' <=> Proxy!AllText
           /\ Proxy!StreamIsWellFormed' <=> Proxy!StreamIsWellFormed
<1>1. \A kind : Proxy!Said(kind)' <=> Proxy!Said(kind)
  BY DEF Proxy!Said
<1>2. \A kind : Proxy!At(kind)' = Proxy!At(kind)
  BY DEF Proxy!At
<1>3. Reported' <=> Reported
  BY <1>1 DEF Reported, Proxy!SaidUsage
<1>4. Proxy!EndTold' <=> Proxy!EndTold
  BY <1>2 DEF Proxy!EndTold
<1>5. Proxy!AllText' <=> Proxy!AllText
  BY <1>2 DEF Proxy!AllText
<1>6. Proxy!StreamIsWellFormed' <=> Proxy!StreamIsWellFormed
  BY <1>1, <1>2, <1>5 DEF Proxy!StreamIsWellFormed
<1> QED BY <1>3, <1>4, <1>5, <1>6

\* and the log is finished after them
LEMMA ProxyEnds == ASSUME ProxyInv, Proxy!EndStream PROVE ProxyInv'
<1>1. /\ s3 = "closed" /\ s3' = "over" /\ UNCHANGED <<s1, s2, s6, s7, s8, s9>>
      /\ Proxy!Finish(Proxy!Status(FALSE), s8.usage)
  BY DEF Proxy!EndStream
<1>2. /\ ProxyTypes /\ s10.status # "success" /\ s8.usage = s7 /\ s8.usage \in Usage
      /\ s8.completed => Reported
      /\ Proxy!EndTold /\ Proxy!AllText /\ Proxy!StreamIsWellFormed
  BY <1>1 DEF ProxyInv, ProxyTypes, ProxyUsage, ProxyClosed
<1> DEFINE status == Proxy!Status(FALSE)
<1>3. status \in {"success", "failed"} /\ (status = "success" => s8.completed) /\ Proxy!Finish(status, s8.usage)
  BY <1>1 DEF Proxy!Status
<1> HIDE DEF status
<1>4. /\ s10' \in [status : {"none", "pending", "success", "failed"}, usage : Usage]
      /\ s10'.status = "success" => status = "success" /\ s10'.usage = s8.usage
  BY <1>2, <1>3, ProxyFinishes
<1>5. /\ Reported' <=> Reported
      /\ Proxy!EndTold' /\ Proxy!AllText' /\ Proxy!StreamIsWellFormed'
  BY <1>1, <1>2, ProxyQuiet
<1>6. Proxy!LogIsTrue'
  BY <1>1, <1>2, <1>3, <1>4, <1>5 DEF Proxy!LogIsTrue, Reported
<1>7. ProxyTypes' /\ ProxyFresh' /\ ProxyUsage' /\ ProxyShape' /\ ProxyClosed'
  BY <1>1, <1>2, <1>4 DEF ProxyTypes, ProxyFresh, ProxyUsage, ProxyShape, ProxyClosed, Streaming
<1> QED BY <1>5, <1>6, <1>7 DEF ProxyInv

\* an error, and a connection that breaks: one or two events, and no success
LEMMA ProxyFails == ASSUME ProxyInv, Proxy!FailStream \/ Proxy!BreakStream PROVE ProxyInv'
<1> DEFINE a == Proxy!E("error text")
           d == Proxy!E("done")
           e == Proxy!E("error")
<1>1. a \in Event /\ d \in Event /\ e \in Event /\ a[1] = "error text" /\ d[1] = "done" /\ e[1] = "error"
  BY EventTypes DEF EventKinds, Proxy!E
<1>2. s9 \in Seq(Event)
  BY DEF ProxyInv, ProxyTypes
<1>3. /\ Streaming /\ UNCHANGED <<s1, s2, s6, s7, s8>> /\ s3' = "over" /\ Proxy!Finish("failed", s8.usage)
      /\ s9' \in {s9 \o <<a, d>>, s9 \o <<e>>, Append(s9, d), Append(s9, e)}
  BY DEF Proxy!FailStream, Proxy!BreakStream, Streaming
<1> HIDE DEF a, d, e
<1>4. s9' \in {s9 \o <<a, d>>, s9 \o <<e>>, s9 \o <<d>>}
  BY <1>1, <1>2, <1>3, AppendIsConcat
<1>5. CASE s9' = s9 \o <<a, d>>
  <2> DEFINE t == <<a, d>>
  <2>1. t \in Seq(Event) /\ Len(t) = 2 /\ t[1] = a /\ t[2] = d
    BY <1>1, TwoEvents
  <2>3. s9' = s9 \o t
    BY <1>5
  <2> HIDE DEF t
  <2>2. \A j \in 1 .. Len(t) :
          /\ t[j][1] \notin {"block_start", "text", "call", "args", "message_delta"}
          /\ t[j][1] \in {"done", "message_stop"} => j = Len(t)
    <3>1. 1 .. Len(t) = {1, 2}
      BY <2>1
    <3>2. t[1][1] = "error text" /\ t[2][1] = "done"
      BY <1>1, <2>1
    <3> QED BY <2>1, <3>1, <3>2
  <2> QED BY <1>3, <2>1, <2>2, <2>3, ProxyEnded
<1>6. CASE s9' \in {s9 \o <<e>>, s9 \o <<d>>}
  <2>1. PICK x \in {e, d} : s9' = s9 \o <<x>>
    BY <1>6
  <2> DEFINE t == <<x>>
  <2>2. t \in Seq(Event) /\ Len(t) = 1 /\ t[1] = x
    BY <1>1, OneEvent
  <2>4. s9' = s9 \o t
    BY <2>1
  <2> HIDE DEF t
  <2>3. \A j \in 1 .. Len(t) :
          /\ t[j][1] \notin {"block_start", "text", "call", "args", "message_delta"}
          /\ t[j][1] \in {"done", "message_stop"} => j = Len(t)
    <3>1. 1 .. Len(t) = {1}
      BY <2>2
    <3>2. t[1][1] \in {"error", "done"}
      BY <1>1, <2>2
    <3> QED BY <2>2, <3>1, <3>2
  <2> QED BY <1>3, <2>2, <2>3, <2>4, ProxyEnded
<1> QED BY <1>4, <1>5, <1>6

LEMMA ProxyLeft == ASSUME ProxyInv, Proxy!Disconnect PROVE ProxyInv'
<1>1. /\ Streaming /\ UNCHANGED <<s1, s2, s6, s7, s8, s9>> /\ s3' = "left" /\ s9 \in Seq(Event)
      /\ Proxy!Finish("failed", s8.usage) \/ Proxy!Finish(Proxy!Status(FALSE), s8.usage)
  BY DEF Proxy!Disconnect, Streaming, ProxyInv, ProxyTypes
<1> DEFINE t == <<>>
<1>2. t \in Seq(Event) /\ Len(t) = 0 /\ s9' = s9 \o t
  BY <1>1, NoElements, ConcatEmptySeq
<1> HIDE DEF t
<1>3. 1 .. Len(t) = {}
  BY <1>2
<1>4. \E status \in {"success", "failed"} :
        (status = "success" => s8.completed) /\ Proxy!Finish(status, s8.usage)
  BY <1>1 DEF Proxy!Status
<1> QED BY <1>1, <1>2, <1>3, <1>4, ProxyEnded

-----------------------------------------------------------------------------
LEMMA ProxyInitial == Init => (focus = "proxy" => ProxyInv)
<1> SUFFICES ASSUME Init, focus = "proxy" PROVE ProxyInv
  OBVIOUS
<1>1. Proxy!Init
  BY DEF Init
<1>2. ProxyTypes /\ ProxyFresh /\ ProxyUsage /\ ProxyShape /\ ProxyClosed /\ Proxy!LogIsTrue
  BY <1>1, NoElements DEF Proxy!Init, Proxy!Protocols, Proxy!NoUsage, Proxy!NewGen, Proxy!NoLog, ProxyTypes,
     ProxyFresh, ProxyUsage, ProxyShape, ProxyClosed, Streaming, Usage, Gen, Proxy!LogIsTrue
<1>3. \A kind : Proxy!At(kind) = {}
  BY <1>1, NoElements DEF Proxy!At, Proxy!Init
<1>4. Proxy!Cardinality({}) <= 1
  BY ProxyCardinality, FS_EmptySet
<1>5. Proxy!StreamIsWellFormed
  BY <1>1, <1>3, <1>4 DEF Proxy!StreamIsWellFormed, Proxy!Init
<1> QED BY <1>2, <1>5 DEF ProxyInv

LEMMA ProxyStep == (focus = "proxy" => ProxyInv) /\ [Next]_vars => (focus = "proxy" => ProxyInv)'
<1> SUFFICES ASSUME focus = "proxy" => ProxyInv, [Next]_vars, focus' = "proxy" PROVE ProxyInv'
  OBVIOUS
<1>1. CASE Next
  <2>1. ProxyInv /\ Proxy!Next
    BY <1>1 DEF Next
  <2> QED BY <2>1, ProxyBefore, ProxyOpens, ProxyAgain, ProxyHears, ProxyPiece, ProxyCloses, ProxyTells,
             ProxyEnds, ProxyFails, ProxyLeft, ProxyLeaves DEF Proxy!Next
<1>2. CASE UNCHANGED vars
  <2>1. ProxyInv /\ UNCHANGED <<s1, s2, s3, s6, s7, s8, s9, s10>>
    BY <1>2 DEF vars
  <2>2. ProxyTypes' /\ ProxyFresh'
    BY <2>1 DEF ProxyInv, ProxyTypes, ProxyFresh
  <2>3. \A kind : Proxy!Said(kind)' <=> Proxy!Said(kind)
    BY <2>1 DEF Proxy!Said
  <2>4. ProxyUsage'
    BY <2>1, <2>3, ProxyQuiet DEF ProxyInv, ProxyUsage, Streaming
  <2>5. ProxyShape'
    BY <2>1, <2>3 DEF ProxyInv, ProxyShape, Streaming
  <2>6. ProxyClosed' /\ Proxy!LogIsTrue' /\ Proxy!StreamIsWellFormed'
    <3>1. /\ Proxy!SaidUsage' <=> Proxy!SaidUsage
          /\ Proxy!Said("finish")' <=> Proxy!Said("finish")
      BY <2>3 DEF Proxy!SaidUsage
    <3> QED BY <2>1, <3>1, ProxyQuiet DEF ProxyInv, ProxyClosed, Proxy!LogIsTrue
  <2> QED BY <2>2, <2>4, <2>5, <2>6 DEF ProxyInv
<1> QED BY <1>1, <1>2

\* The log says success only of a whole answer, or of a stream whose target has said why it
\* finished or what it used, with the usage the target reported and all its text given out; the
\* client was told the end unless it left, in the closing yields or at a piece after a chunk
\* with usage (proxy.py, mapping_logger.py).
THEOREM LogIsTrueThm == Spec => []LogIsTrue
<1>1. (focus = "proxy" => ProxyInv) => LogIsTrue
  BY DEF LogIsTrue, ProxyInv
<1> QED BY <1>1, ProxyInitial, ProxyStep, PTL DEF Spec

\* What the client is sent is well formed in its protocol: one block around the text and closed
\* before the message, a call ahead of its arguments, nothing after the end, and a normal end
\* only with all the text of the target, bar what the target puts into a chunk with usage
\* (protocol_converter.py, proxy.py).
THEOREM StreamIsWellFormedThm == Spec => []StreamIsWellFormed
<1>1. (focus = "proxy" => ProxyInv) => StreamIsWellFormed
  BY DEF StreamIsWellFormed, ProxyInv
<1> QED BY <1>1, ProxyInitial, ProxyStep, PTL DEF Spec

-----------------------------------------------------------------------------
(* Diagnostics.  s1 is at, s2 sample, s3 stored, s4 judged and s5 cause.   *)

Ranked == [len : Nat, rank : Nat]
Attributions ==
    {"call_failed", "no_retrieval_trace", "no_gold", "retrieval_miss", "retrieved_but_answer_weak", "retrieved_ok"}
Steps == {"no_gold", "gold_in_final", "no_trace", "channel_all_miss", "lost_in_truncation", "lost_in_fusion"}
Judgements == [attribution : Attributions, step : Steps, sent : Steps, traced : BOOLEAN]

\* what is known of a reply
DiagReply(s) ==
    /\ s = [gold |-> s.gold, channels |-> s.channels, over |-> s.over, ids |-> s.ids,
            final |-> s.final, error |-> s.error, generation |-> s.generation]
    /\ s.gold \in BOOLEAN /\ s.over \in BOOLEAN /\ s.ids \in BOOLEAN /\ s.error \in BOOLEAN
    /\ s.final \in Ranked
    /\ \A c \in DOMAIN s.channels : s.channels[c] \in Ranked
\* a row is the compaction of the reply; a step that is blamed is the step of the reply too
DiagInv ==
    /\ s4 \in Seq(Judgements)
    /\ s1 \in {"store", "judge"} => DiagReply(s2)
    /\ s1 = "judge" => s3 = [s2 EXCEPT !.channels = Diag!CompactTrace(s2.channels, s2.over)]
    /\ Diag!StepIsKept /\ Diag!ClassificationsAgree
    /\ \A i \in DOMAIN s4 : s4[i].step \in {"lost_in_fusion", "lost_in_truncation"} => s4[i].sent = s4[i].step
    /\ Diag!BlameIsFounded

LEMMA DiagCardinality == \A S : Diag!Cardinality(S) = Cardinality(S)
BY DEF Diag!Cardinality, Cardinality

LEMMA ListsAreRanked == \A n \in Nat : \A x \in Diag!Lists(n) : x \in Ranked
BY DEF Diag!Lists, Ranked

\* what compaction does to a trace: its channels stay, and their ranks up to what is kept
LEMMA Compacted ==
    ASSUME NEW s, DiagReply(s), NEW t, t = [s EXCEPT !.channels = Diag!CompactTrace(s.channels, s.over)]
    PROVE  /\ t.gold = s.gold /\ t.final = s.final /\ t.ids = s.ids /\ t.error = s.error
           /\ t.generation = s.generation /\ DOMAIN t.channels = DOMAIN s.channels
           /\ Diag!Kept(s) \in Nat
           /\ Diag!ChannelRankOf(t) = {r \in Diag!ChannelRankOf(s) : r <= Diag!Kept(s)}
           /\ Diag!ChannelRankOf(s) \subseteq Nat \ {0}
<1> DEFINE C == Diag!CompactTrace(s.channels, s.over)
<1>1. /\ t.gold = s.gold /\ t.final = s.final /\ t.ids = s.ids /\ t.error = s.error
      /\ t.generation = s.generation /\ t.channels = C
  <2>1. t = [s EXCEPT !.channels = C]
    OBVIOUS
  <2> HIDE DEF C
  <2>2. DOMAIN s = {"gold", "channels", "over", "ids", "final", "error", "generation"}
    BY DEF DiagReply
  <2> QED BY <2>1, <2>2
<1>2. Diag!Kept(s) \in Nat
  BY KeepAssumption DEF Diag!Kept
<1>3. DOMAIN C = DOMAIN s.channels
  BY DEF Diag!CompactTrace
<1>4. \A c \in DOMAIN s.channels :
        /\ s.channels[c].rank \in Nat
        /\ C[c].rank = IF s.channels[c].rank <= Diag!Kept(s) THEN s.channels[c].rank ELSE 0
  <2> SUFFICES ASSUME NEW c \in DOMAIN s.channels
               PROVE  /\ s.channels[c].rank \in Nat
                      /\ C[c].rank = IF s.channels[c].rank <= Diag!Kept(s) THEN s.channels[c].rank ELSE 0
    OBVIOUS
  <2>1. s.channels[c].rank \in Nat
    BY DEF DiagReply, Ranked
  <2>2. C[c] = Diag!Shrink(s.channels[c], Diag!Kept(s))
    BY DEF Diag!CompactTrace, Diag!Kept
  <2> QED BY <2>1, <2>2 DEF Diag!Shrink
<1> HIDE DEF C
<1>5. Diag!ChannelRankOf(s) \subseteq Nat \ {0}
  BY <1>4 DEF Diag!ChannelRankOf
<1>6. \A r : r \in Diag!ChannelRankOf(t) <=> r \in Diag!ChannelRankOf(s) /\ r <= Diag!Kept(s)
  BY <1>1, <1>2, <1>3, <1>4 DEF Diag!ChannelRankOf
<1>7. Diag!ChannelRankOf(t) = {r \in Diag!ChannelRankOf(s) : r <= Diag!Kept(s)}
  BY <1>6
<1> QED BY <1>1, <1>2, <1>3, <1>5, <1>7

LEMMA DiagStore == ASSUME DiagInv, Diag!Store PROVE DiagInv'
<1>1. /\ s1 = "store" /\ s1' = "judge" /\ UNCHANGED <<s2, s4, s5>>
      /\ s3' = [s2 EXCEPT !.channels = Diag!CompactTrace(s2.channels, s2.over)]
      /\ DiagReply(s2)
  BY DEF Diag!Store, DiagInv
<1>2. /\ s3'.gold = s2.gold /\ s3'.final = s2.final /\ s3'.ids = s2.ids /\ s3'.error = s2.error
      /\ s3'.generation = s2.generation /\ DOMAIN s3'.channels = DOMAIN s2.channels
      /\ Diag!Kept(s2) \in Nat
      /\ Diag!ChannelRankOf(s3') = {r \in Diag!ChannelRankOf(s2) : r <= Diag!Kept(s2)}
      /\ Diag!ChannelRankOf(s2) \subseteq Nat \ {0}
  BY <1>1, Compacted
<1>3. Diag!StepIsKept'
  <2> DEFINE R == Diag!ChannelRankOf(s2)
             T == Diag!ChannelRankOf(s3')
             keep == Diag!Kept(s2)
             before == Diag!RetrievalStep(s2)
             after == Diag!RetrievalStep(s3')
  <2>1. /\ R \subseteq Nat \ {0} /\ T = {r \in R : r <= keep} /\ keep \in Nat
        /\ s2.final.len \in Nat /\ s2.final.rank \in Nat
    BY <1>1, <1>2 DEF DiagReply, Ranked
  <2>2. CASE ~s2.gold \/ s2.final.rank > 0 \/ DOMAIN s2.channels = {}
    <3>1. after = before
      BY <1>2, <2>1, <2>2 DEF Diag!RetrievalStep
    <3> QED BY <1>1, <3>1 DEF Diag!StepIsKept
  <2>3. CASE s2.gold /\ s2.final.rank = 0 /\ DOMAIN s2.channels # {}
    <3>1. before = IF R = {} THEN "channel_all_miss"
                   ELSE IF \A r \in R : r > s2.final.len THEN "lost_in_truncation" ELSE "lost_in_fusion"
      BY <2>3 DEF Diag!RetrievalStep
    <3>2. after = IF T = {} THEN "channel_all_miss"
                  ELSE IF \A r \in T : r > s2.final.len THEN "lost_in_truncation" ELSE "lost_in_fusion"
      BY <1>2, <2>3 DEF Diag!RetrievalStep
    <3> HIDE DEF R, T, keep, before, after
    <3>3. \/ after = before
          \/ /\ before \in {"lost_in_truncation", "lost_in_fusion"} /\ after = "channel_all_miss"
             /\ \A r \in R : r > keep
      <4>1. CASE T = {}
        BY <2>1, <3>1, <3>2, <4>1
      <4>2. CASE T # {} /\ \E r \in R : ~(r > s2.final.len)
        <5>1. PICK r \in R : r <= s2.final.len
          BY <2>1, <4>2
        <5>2. PICK q \in R : q <= keep
          BY <2>1, <4>2
        <5>3. \E x \in T : x <= s2.final.len
          <6>1. CASE r <= keep
            BY <2>1, <5>1, <6>1
          <6>2. CASE ~(r <= keep)
            BY <2>1, <5>1, <5>2, <6>2
          <6> QED BY <6>1, <6>2
        <5> QED BY <2>1, <3>1, <3>2, <4>2, <5>3
      <4>3. CASE T # {} /\ \A r \in R : r > s2.final.len
        BY <2>1, <3>1, <3>2, <4>3
      <4> QED BY <4>1, <4>2, <4>3
    <3> QED BY <1>1, <3>3 DEF Diag!StepIsKept, R, keep, before, after
  <2> QED BY <2>1, <2>2, <2>3
<1>4. Diag!ClassificationsAgree'
  BY <1>1, <1>2 DEF Diag!ClassificationsAgree, Diag!ClassifyAttribution, Diag!GoldHit, Diag!RetrievalStep,
     DiagReply, Ranked
<1> QED BY <1>1, <1>3, <1>4 DEF DiagInv, Diag!BlameIsFounded

LEMMA StepsAreJudged ==
    \A s : Diag!RetrievalStep(s) \in Steps /\ Diag!ClassifyAttribution(s) \in Attributions
BY DEF Diag!RetrievalStep, Diag!ClassifyAttribution, Steps, Attributions

LEMMA DiagReplies == ASSUME DiagInv, Diag!Reply PROVE DiagInv'
<1>1. s1' = "store" /\ UNCHANGED <<s3, s4, s5>>
  BY DEF Diag!Reply
<1>2. DiagReply(s2')
  <2>1. PICK gold \in BOOLEAN, over \in BOOLEAN, ids \in BOOLEAN, error \in BOOLEAN,
             final \in Diag!Lists(MaxLen), names \in SUBSET Channels :
          \E channels \in [names -> Diag!Lists(MaxLen)], generation \in {"none", "weak", "strong"} :
            /\ ids \/ final.len = 0
            /\ error => ~ids /\ names = {} /\ generation = "none"
            /\ over => names # {}
            /\ ~gold => final.rank = 0 /\ \A c \in names : channels[c].rank = 0
            /\ s2' = [gold |-> gold, channels |-> channels, over |-> over, ids |-> ids,
                      final |-> final, error |-> error, generation |-> generation]
    BY Zenon DEF Diag!Reply
  <2>2. PICK channels \in [names -> Diag!Lists(MaxLen)], generation \in {"none", "weak", "strong"} :
          s2' = [gold |-> gold, channels |-> channels, over |-> over, ids |-> ids,
                 final |-> final, error |-> error, generation |-> generation]
    BY Zenon, <2>1
  <2>3. final \in Ranked /\ \A c \in DOMAIN channels : channels[c] \in Ranked
    BY ListsAreRanked, KeepAssumption
  <2> QED BY <2>2, <2>3 DEF DiagReply
<1> QED BY <1>1, <1>2 DEF DiagInv, Diag!StepIsKept, Diag!ClassificationsAgree, Diag!BlameIsFounded

LEMMA DiagJudge == ASSUME DiagInv, Diag!Judge PROVE DiagInv'
<1> DEFINE j == [attribution |-> Diag!ClassifyAttribution(s3), step |-> Diag!RetrievalStep(s3),
                 sent |-> Diag!RetrievalStep(s2), traced |-> DOMAIN s3.channels # {}]
<1>1. s1 = "judge" /\ s1' = "call" /\ s4' = Append(s4, j) /\ s5' = s5
  BY DEF Diag!Judge
<1>2. j \in Judgements
  BY StepsAreJudged DEF Judgements
<1>3. j.step \in {"lost_in_fusion", "lost_in_truncation"} => j.sent = j.step
  BY <1>1 DEF DiagInv, Diag!StepIsKept
<1> HIDE DEF j
<1>4. /\ s4' \in Seq(Judgements) /\ DOMAIN s4' = DOMAIN s4 \cup {Len(s4) + 1}
      /\ \A i \in DOMAIN s4 : s4'[i] = s4[i]
      /\ s4'[Len(s4) + 1] = j
  BY <1>1, <1>2 DEF DiagInv
<1>5. \A i \in DOMAIN s4' : s4'[i].step \in {"lost_in_fusion", "lost_in_truncation"} => s4'[i].sent = s4'[i].step
  BY <1>3, <1>4 DEF DiagInv
<1>6. Diag!BlameIsFounded'
  BY <1>1, <1>4 DEF DiagInv, Diag!BlameIsFounded
<1> QED BY <1>1, <1>4, <1>5, <1>6 DEF DiagInv, Diag!StepIsKept, Diag!ClassificationsAgree

\* a rate that is not 0 counts somebody
LEMMA Counted ==
    ASSUME DiagInv, NEW step, NEW all \in Nat
    PROVE  /\ Diag!Stepped(step) \in Nat
           /\ Diag!AtLeast(Diag!Stepped(step), all, 30) =>
                \E i \in DOMAIN s4 : s4[i].step = step
<1> DEFINE S == {i \in DOMAIN s4 : s4[i].step = step}
<1>1. Diag!Stepped(step) = Cardinality(S)
  BY DiagCardinality DEF Diag!Stepped, Diag!Number
<1>2. IsFiniteSet(S)
  <2>1. DOMAIN s4 = 1 .. Len(s4) /\ Len(s4) \in Nat
    BY DEF DiagInv
  <2>2. S \subseteq 1 .. Len(s4) /\ IsFiniteSet(1 .. Len(s4))
    BY <2>1, FS_Interval
  <2> QED BY <2>2, FS_Subset
<1>3. Cardinality(S) \in Nat /\ (Cardinality(S) = 0 <=> S = {})
  BY <1>2, FS_CardinalityType, FS_EmptySet
<1>4. S # {} => \E i \in DOMAIN s4 : s4[i].step = step
  OBVIOUS
<1> HIDE DEF S
<1> QED BY <1>1, <1>3, <1>4 DEF Diag!AtLeast

LEMMA DiagAnalyse == ASSUME DiagInv, Diag!Analyse PROVE DiagInv'
<1>1. s1' = "done" /\ UNCHANGED <<s2, s3, s4>> /\ s5' = Diag!RootCause
  BY DEF Diag!Analyse
<1>2. Diag!Retrievable \in Nat
  <2>1. /\ Diag!Stepped("gold_in_final") \in Nat /\ Diag!Stepped("lost_in_fusion") \in Nat
        /\ Diag!Stepped("lost_in_truncation") \in Nat /\ Diag!Stepped("channel_all_miss") \in Nat
    BY Counted
  <2> QED BY <2>1 DEF Diag!Retrievable
<1>3. /\ Diag!SubStage = "fusion" => \E i \in DOMAIN s4 : s4[i].step = "lost_in_fusion"
      /\ Diag!SubStage = "top_k" => \E i \in DOMAIN s4 : s4[i].step = "lost_in_truncation"
  <2>1. /\ Diag!SubStage = "fusion" => Diag!AtLeast(Diag!Stepped("lost_in_fusion"), Diag!Retrievable, 30)
        /\ Diag!SubStage = "top_k" => Diag!AtLeast(Diag!Stepped("lost_in_truncation"), Diag!Retrievable, 30)
    BY DEF Diag!SubStage
  <2> QED BY <1>2, <2>1, Counted
<1>4. s5'.sub \in {"none", Diag!SubStage}
  BY <1>1 DEF Diag!RootCause
<1>5. Diag!BlameIsFounded'
  BY <1>1, <1>3, <1>4 DEF DiagInv, Diag!BlameIsFounded
<1> QED BY <1>1, <1>5 DEF DiagInv, Diag!StepIsKept, Diag!ClassificationsAgree

\* What is stored of a reply leads to the diagnosis that what was sent leads to, the two
\* judgements of a sample agree, and a part of the retrieval is blamed only when it has lost
\* the gold chunk of some sample (trace.py, evaluations.py).
THEOREM DiagnosisIsSoundThm == Spec => []DiagnosisIsSound
<1>1. Init => (focus = "diag" => DiagInv)
  <2> SUFFICES ASSUME Init, focus = "diag" PROVE DiagInv
    OBVIOUS
  <2>1. s1 = "call" /\ s4 = <<>> /\ s5 = Diag!NoCause
    BY DEF Init, Diag!Init
  <2> QED BY <2>1, NoElements DEF DiagInv, Diag!StepIsKept, Diag!ClassificationsAgree, Diag!BlameIsFounded,
             Diag!NoCause
<1>2. (focus = "diag" => DiagInv) /\ [Next]_vars => (focus = "diag" => DiagInv)'
  <2> SUFFICES ASSUME focus = "diag" => DiagInv, [Next]_vars, focus' = "diag" PROVE DiagInv'
    OBVIOUS
  <2>1. CASE Next
    <3>1. DiagInv /\ Diag!Next
      BY <2>1 DEF Next
    <3> QED BY <3>1, DiagReplies, DiagStore, DiagJudge, DiagAnalyse DEF Diag!Next
  <2>2. CASE UNCHANGED vars
    BY <2>2 DEF vars, DiagInv, Diag!StepIsKept, Diag!ClassificationsAgree, Diag!BlameIsFounded
  <2> QED BY <2>1, <2>2
<1>3. (focus = "diag" => DiagInv) => DiagnosisIsSound
  BY DEF DiagnosisIsSound, DiagInv, Diag!DiagnosisIsSound
<1> QED BY <1>1, <1>2, <1>3, PTL DEF Spec

-----------------------------------------------------------------------------
(* What refers to what.  s2 is rows, s3 links, s4 eval and s5 told.        *)

\* the tables something refers to, those that own others, and those a result goes with
Parents ==
    {"datasets", "documents", "qa_records", "rag_systems", "models", "invocation_batches", "invocation_results",
     "evaluations", "doc_parse_batches", "data_sources", "hot_news_sources", "training_data_evals"}
Owners ==
    {"datasets", "documents", "invocation_batches", "evaluations", "doc_parse_batches", "hot_news_sources",
     "training_data_evals"}
OwnedResults ==
    {<<"invocation_results", "invocation_batches">>, <<"eval_results", "evaluations">>,
     <<"training_data_eval_results", "training_data_evals">>}

\* the shape of a reference: what is deleted with its owner owns nothing itself, a cascade ends
\* where it begins, and a required reference is never left to a NULL
RefIsShaped(r) ==
    /\ r.parent \in Parents
    /\ r.orm \in {"delete", "nullify", "none"} /\ r.db \in {"cascade", "null", "refuse"}
    /\ r.orm = "delete" =>
         /\ r.parent \in Owners /\ r.child \notin Owners \cup {"models"}
         /\ r.child \in Cat!Results => <<r.child, r.parent>> \in OwnedResults
    /\ r.db = "cascade" =>
         /\ r.child \notin Parents
         /\ r.child \in Cat!Results => r.child = "model_request_logs" /\ r.parent = "models"
    /\ r.db = "cascade" /\ r.orm = "none" => r.parent = "models"
    /\ r.required => r.db \in {"cascade", "refuse"} /\ (r.db = "cascade" => r.orm \in {"delete", "none"})
    /\ r.required /\ r.child = "doc_parse_batches" => r.parent = "models"
    /\ r.required /\ r.child = "doc_parse_results" => r.parent = "doc_parse_batches"
    /\ r.required => r.child # "documents"

CatInv == Cat!Intact /\ \A l \in s3 : l[2] \in Parents

LEMMA ReferencesAreShaped == \A r \in Cat!References : RefIsShaped(r)
<1> USE DEF RefIsShaped, Cat!R, Cat!Results, Parents, Owners, OwnedResults
<1>1. \A r \in Cat!DatasetRefs : RefIsShaped(r)
  BY DEF Cat!DatasetRefs
<1>2. \A r \in Cat!DocumentRefs : RefIsShaped(r)
  BY DEF Cat!DocumentRefs
<1>3. \A r \in Cat!InvocationRefs : RefIsShaped(r)
  BY DEF Cat!InvocationRefs
<1>4. \A r \in Cat!EvaluationRefs : RefIsShaped(r)
  BY DEF Cat!EvaluationRefs
<1>5. \A r \in Cat!CorrectionRefs : RefIsShaped(r)
  BY DEF Cat!CorrectionRefs
<1>6. \A r \in Cat!LoadTestRefs : RefIsShaped(r)
  BY DEF Cat!LoadTestRefs
<1>7. \A r \in Cat!ApiIngestRefs : RefIsShaped(r)
  BY DEF Cat!ApiIngestRefs
<1>8. \A r \in Cat!DocParseRefs : RefIsShaped(r)
  BY DEF Cat!DocParseRefs
<1>9. \A r \in Cat!SyncRefs : RefIsShaped(r)
  BY DEF Cat!SyncRefs
<1>10. \A r \in Cat!HotNewsRefs : RefIsShaped(r)
  BY DEF Cat!HotNewsRefs
<1>11. \A r \in Cat!ModelRefs : RefIsShaped(r)
  BY DEF Cat!ModelRefs
<1>12. \A r \in Cat!TrainingRefs : RefIsShaped(r)
  BY DEF Cat!TrainingRefs
<1>13. \A r \in Cat!ProfileRefs : RefIsShaped(r)
  BY DEF Cat!ProfileRefs
<1> HIDE DEF RefIsShaped
<1> QED BY <1>1, <1>2, <1>3, <1>4, <1>5, <1>6, <1>7, <1>8, <1>9, <1>10, <1>11, <1>12, <1>13 DEF Cat!References

LEMMA Referred ==
    \A S, orm, db, t : t \in Cat!Children(S, orm, db) <=>
      t \in S \/ \E q \in Cat!References :
                   Cat!Linked(q) /\ q.parent \in S /\ q.orm \in orm /\ q.db \in db /\ t = q.child
BY DEF Cat!Children

\* rows that are inserted with all their references
LEMMA CatInserts ==
    ASSUME CatInv, NEW new, NEW refs, Cat!InsertRows(new, refs),
           \A l \in refs : l[1] \in s2 \cup new /\ l[2] \in (s2 \cup new) \cap Parents,
           \A t \in new : \A p \in Cat!RequiredBy(t) : <<t, p>> \in refs
    PROVE  CatInv' /\ Cat!Survives
<1>1. s2' = s2 \cup new /\ s3' = s3 \cup refs
  BY DEF Cat!InsertRows
<1>2. \A t : Cat!RequiredBy(t)' = Cat!RequiredBy(t)
  BY DEF Cat!RequiredBy
<1>3. Cat!Intact'
  BY <1>1, <1>2 DEF CatInv, Cat!Intact
<1>4. \A l \in s3' : l[2] \in Parents
  BY <1>1 DEF CatInv
<1> QED BY <1>1, <1>3, <1>4 DEF CatInv, Cat!Survives

LEMMA CatInsertsWith ==
    ASSUME CatInv, NEW t, NEW named \in SUBSET Parents, Cat!InsertWith(t, named)
    PROVE  CatInv' /\ Cat!Survives
<1> DEFINE refs == {<<t, p>> : p \in Cat!RequiredBy(t) \cup named}
<1>1. Cat!RequiredBy(t) \cup named \subseteq s2 /\ Cat!InsertRows({t}, refs)
  BY DEF Cat!InsertWith
<1>2. Cat!RequiredBy(t) \subseteq Parents
  BY ReferencesAreShaped DEF Cat!RequiredBy, RefIsShaped
<1>3. \A l \in refs : l[1] \in s2 \cup {t} /\ l[2] \in (s2 \cup {t}) \cap Parents
  BY <1>1, <1>2
<1>4. \A u \in {t} : \A p \in Cat!RequiredBy(u) : <<u, p>> \in refs
  OBVIOUS
<1> HIDE DEF refs
<1> QED BY <1>1, <1>3, <1>4, CatInserts

LEMMA CatInsertRow == ASSUME CatInv, Cat!InsertRow PROVE CatInv' /\ Cat!Survives
<1>1. ASSUME NEW t, NEW optional \in SUBSET Parents, Cat!Insert(t, optional)
      PROVE  CatInv' /\ Cat!Survives
  <2>1. PICK named \in SUBSET optional : Cat!InsertWith(t, named)
    BY <1>1 DEF Cat!Insert
  <2> QED BY <2>1, CatInsertsWith
<1>2. {} \in SUBSET Parents
  OBVIOUS
<1>3. CASE Cat!CreateParseBatch
  <2>1. PICK named \in SUBSET ({"datasets"} \cap s2) :
          /\ "models" \in s2
          /\ Cat!InsertRows({"doc_parse_batches", "doc_parse_results"},
                            {<<"doc_parse_batches", p>> : p \in {"models"} \cup named}
                              \cup {<<"doc_parse_results", "doc_parse_batches">>})
    BY <1>3 DEF Cat!CreateParseBatch
  <2> DEFINE new == {"doc_parse_batches", "doc_parse_results"}
             refs == {<<"doc_parse_batches", p>> : p \in {"models"} \cup named}
                       \cup {<<"doc_parse_results", "doc_parse_batches">>}
  <2>2. \A l \in refs : l[1] \in s2 \cup new /\ l[2] \in (s2 \cup new) \cap Parents
    BY <2>1 DEF Parents
  <2>3. /\ Cat!RequiredBy("doc_parse_batches") \subseteq {"models"}
        /\ Cat!RequiredBy("doc_parse_results") \subseteq {"doc_parse_batches"}
    BY ReferencesAreShaped DEF Cat!RequiredBy, RefIsShaped
  <2>4. \A t \in new : \A p \in Cat!RequiredBy(t) : <<t, p>> \in refs
    BY <2>3
  <2> HIDE DEF refs, new
  <2> QED BY <2>1, <2>2, <2>4, CatInserts DEF refs, new
<1>4. CASE Cat!SaveParsed
  <2> DEFINE of == {q \in {"datasets"} : <<"doc_parse_batches", q>> \in s3}
             new == {"documents"}
             refs == {<<"doc_parse_results", "documents">>} \cup {<<"documents", p>> : p \in of}
  <2>1. "doc_parse_results" \in s2 /\ Cat!InsertRows(new, refs)
    BY <1>4 DEF Cat!SaveParsed
  <2>2. of \subseteq s2 \cap Parents
    <3>1. \A q \in of : q \in Parents /\ <<"doc_parse_batches", q>> \in s3
      BY DEF Parents
    <3>2. \A q : <<"doc_parse_batches", q>> \in s3 => q \in s2
      BY DEF CatInv, Cat!Intact
    <3> QED BY <3>1, <3>2
  <2> HIDE DEF of
  <2>3. \A l \in refs : l[1] \in s2 \cup new /\ l[2] \in (s2 \cup new) \cap Parents
    BY <2>1, <2>2 DEF Parents
  <2>4. \A t \in new : \A p \in Cat!RequiredBy(t) : <<t, p>> \in refs
    BY ReferencesAreShaped DEF Cat!RequiredBy, RefIsShaped
  <2> HIDE DEF refs, new
  <2> QED BY <2>1, <2>3, <2>4, CatInserts
<1>5. CASE Cat!CreateLoadTest
  <2>1. PICK target \in SUBSET {"rag_systems", "models"} \ {{}}, data \in SUBSET {"datasets"} :
          Cat!InsertWith("load_tests", target \cup data)
    BY <1>5 DEF Cat!CreateLoadTest
  <2>2. target \cup data \in SUBSET Parents
    BY DEF Parents
  <2> QED BY <2>1, <2>2, CatInsertsWith
<1>6. CASE Cat!CreateEvaluation
  <2>1. PICK named \in SUBSET {"rag_systems", "models", "invocation_batches"} :
          Cat!InsertWith("evaluations", named)
    BY <1>6 DEF Cat!CreateEvaluation
  <2>2. named \in SUBSET Parents
    BY DEF Parents
  <2> QED BY <2>1, <2>2, CatInsertsWith
<1>7. CASE Cat!RunEvaluation
  <2>1. PICK named \in SUBSET {"invocation_results"} : Cat!InsertWith("eval_results", named)
    <3>1. \E named \in {{"invocation_results"} \cap s2, {}} : Cat!InsertWith("eval_results", named)
      BY <1>7 DEF Cat!RunEvaluation
    <3> QED BY <3>1
  <2>2. named \in SUBSET Parents
    BY DEF Parents
  <2> QED BY <2>1, <2>2, CatInsertsWith
<1>8. CASE \E t : \E optional \in SUBSET Parents : Cat!Insert(t, optional)
  BY <1>1, <1>8
<1>9. ASSUME Cat!InsertRow, ~Cat!CreateParseBatch, ~Cat!SaveParsed, ~Cat!CreateLoadTest,
             ~Cat!CreateEvaluation, ~Cat!RunEvaluation
      PROVE  \E t : \E optional \in SUBSET Parents : Cat!Insert(t, optional)
  <2>1. /\ {} \in SUBSET Parents /\ {"datasets"} \in SUBSET Parents
        /\ {"invocation_results", "qa_records", "invocation_batches"} \in SUBSET Parents
    BY DEF Parents
  <2>2. CASE \E t : Cat!Insert(t, {})
    BY <2>1, <2>2
  <2>3. CASE Cat!CreateDocument \/ Cat!StartApiIngest
    BY <2>1, <2>3 DEF Cat!CreateDocument, Cat!StartApiIngest
  <2>4. CASE Cat!CreateCorrection
    BY <2>1, <2>4 DEF Cat!CreateCorrection
  <2>5. \/ \E t : Cat!Insert(t, {})
        \/ Cat!CreateDocument \/ Cat!StartApiIngest \/ Cat!CreateCorrection
    BY Zenon, <1>9 DEF Cat!InsertRow, Cat!CreateDataset, Cat!CreateModel, Cat!CreateRagSystem, Cat!CreateQaRecord,
       Cat!SaveChunks, Cat!TakeSnapshot, Cat!CreateInvocationBatch, Cat!SaveResult, Cat!CreateDataSource,
       Cat!ExecuteSync, Cat!CreateSource, Cat!SaveArticle, Cat!CreateMapping, Cat!SaveLog,
       Cat!CreateTrainingEval, Cat!SaveTrainingRows, Cat!ImportProfiles
  <2> QED BY <2>2, <2>3, <2>4, <2>5
<1> QED BY <1>3, <1>4, <1>5, <1>6, <1>7, <1>8, <1>9

-----------------------------------------------------------------------------
\* what goes with a row leaves nothing behind that must refer to it
LEMMA CatRemoves ==
    ASSUME CatInv, NEW gone, Cat!Remove(gone),
           \A r \in Cat!References : r.required /\ Cat!Linked(r) /\ r.parent \in gone => r.child \in gone
    PROVE  CatInv'
<1>1. s2' = s2 \ gone /\ s3' = {l \in s3 : l[1] \notin gone /\ l[2] \notin gone}
  BY DEF Cat!Remove
<1>2. \A t : Cat!RequiredBy(t)' = Cat!RequiredBy(t)
  BY DEF Cat!RequiredBy
<1>3. \A l \in s3' : l[1] \in s2' /\ l[2] \in s2' /\ l[2] \in Parents
  BY <1>1 DEF CatInv, Cat!Intact
<1>4. ASSUME NEW t \in s2', NEW p \in Cat!RequiredBy(t) PROVE <<t, p>> \in s3'
  <2>1. <<t, p>> \in s3
    BY <1>1, <1>4 DEF CatInv, Cat!Intact
  <2>2. PICK r \in Cat!References : r.child = t /\ r.parent = p /\ r.required
    BY <1>4 DEF Cat!RequiredBy
  <2>3. p \notin gone
    BY <1>1, <2>1, <2>2 DEF Cat!Linked
  <2> QED BY <1>1, <2>1, <2>3
<1> QED BY <1>2, <1>3, <1>4 DEF CatInv, Cat!Intact

\* nothing is deleted
LEMMA CatRefuses == ASSUME CatInv, Cat!Refused PROVE CatInv' /\ Cat!Survives
<1>1. \A t : Cat!RequiredBy(t)' = Cat!RequiredBy(t)
  BY DEF Cat!RequiredBy
<1> QED BY <1>1 DEF Cat!Refused, CatInv, Cat!Intact, Cat!Survives

\* session.delete: nothing stands in the way, and the owned rows go first
LEMMA CatDeletes ==
    ASSUME CatInv, NEW t, NEW answer, Cat!Delete(t, answer),
           t \in Cat!Results => t \in {"evaluations", "invocation_batches", "documents", "training_data_evals",
                                      "load_tests", "model_request_logs"}
    PROVE  CatInv' /\ Cat!Survives
<1> DEFINE owned == Cat!Children({t}, {"delete"}, Cat!AnyRule)
           D == Cat!ByOrm(t)
           gone == Cat!Children(D, {"none"}, {"cascade"})
<1>1. CASE Cat!Blocking(D) # {}
  <2>1. Cat!Refused
    BY <1>1 DEF Cat!Delete
  <2> QED BY <2>1, CatRefuses
<1>2. CASE Cat!Blocking(D) = {}
  <2>1. Cat!Remove(gone) /\ s5'.table = t /\ s5'.how = "delete"
    BY <1>2 DEF Cat!Delete
  <2>2. \A q \in Cat!References : Cat!Linked(q) /\ q.parent = t /\ q.orm = "delete" => q.child \in owned
    <3> SUFFICES ASSUME NEW q \in Cat!References, Cat!Linked(q), q.parent = t, q.orm = "delete"
                 PROVE  q.child \in owned
      OBVIOUS
    <3>1. q.db \in Cat!AnyRule
      BY ReferencesAreShaped DEF RefIsShaped, Cat!AnyRule
    <3> QED BY <3>1 DEF Cat!Children
  <2>3. \A x \in owned : x = t \/ \E q \in Cat!References : q.parent = t /\ q.orm = "delete" /\ x = q.child
    BY Referred
  <2>4. D = owned
    <3>1. \A x : x \in D <=> x \in owned \/ \E q \in Cat!References :
                     Cat!Linked(q) /\ q.parent \in owned /\ q.orm = "delete" /\ q.db \in Cat!AnyRule /\ x = q.child
      BY Referred DEF Cat!ByOrm
    <3>2. \A q \in Cat!References : q.parent \in owned /\ q.orm = "delete" => q.parent = t
      BY <2>3, ReferencesAreShaped DEF RefIsShaped
    <3>3. ASSUME NEW x \in D PROVE x \in owned
      <4> HIDE DEF D, owned
      <4>1. CASE \E q \in Cat!References : Cat!Linked(q) /\ q.parent \in owned /\ q.orm = "delete" /\ x = q.child
        BY <2>2, <3>2, <4>1
      <4> QED BY <3>1, <3>3, <4>1
    <3>4. \A x \in owned : x \in D
      BY <3>1
    <3> QED BY <3>3, <3>4
  <2>5. \A x : x \in gone <=> x \in D \/ \E q \in Cat!References :
                     Cat!Linked(q) /\ q.parent \in D /\ q.orm = "none" /\ q.db = "cascade" /\ x = q.child
    BY Referred
  <2>6. \A q \in Cat!References : Cat!Linked(q) /\ q.parent \in D /\ q.child \notin D => ~Cat!Refuses(q)
    BY <1>2 DEF Cat!Blocking
  <2> HIDE DEF owned, D, gone
  <2>7. ASSUME NEW r \in Cat!References, r.required, Cat!Linked(r), r.parent \in gone PROVE r.child \in gone
    <3>1. RefIsShaped(r)
      BY ReferencesAreShaped
    <3>2. r.parent \in D
      BY <2>5, <2>7, <3>1, ReferencesAreShaped DEF RefIsShaped
    <3>3. CASE r.orm = "delete"
      <4>1. r.parent = t
        BY <2>3, <2>4, <3>1, <3>2, <3>3, ReferencesAreShaped DEF RefIsShaped
      <4> QED BY <2>2, <2>4, <2>5, <2>7, <3>3, <4>1
    <3>4. CASE r.orm # "delete" /\ r.child \notin D
      <4>1. r.orm = "none" /\ r.db = "cascade"
        BY <2>6, <2>7, <3>1, <3>2, <3>4 DEF Cat!Refuses, RefIsShaped
      <4> QED BY <2>5, <2>7, <3>2, <4>1
    <3> QED BY <2>5, <3>3, <3>4
  <2>8. CatInv'
    BY <2>1, <2>7, CatRemoves
  <2>9. ASSUME NEW x \in Cat!Results, x \in s2, x \notin s2' PROVE s5'.table = Cat!Owner(x)
    <3>1. x \in gone
      BY <2>1, <2>9 DEF Cat!Remove
    <3>2. CASE x = t
      BY <2>1, <3>2 DEF Cat!Owner, Cat!Results
    <3>3. CASE \E q \in Cat!References : q.parent = t /\ q.orm = "delete" /\ x = q.child
      <4>1. <<x, t>> \in OwnedResults
        BY <2>9, <3>3, ReferencesAreShaped DEF RefIsShaped
      <4> QED BY <2>1, <4>1 DEF OwnedResults, Cat!Owner
    <3>4. CASE \E q \in Cat!References : q.parent \in D /\ q.orm = "none" /\ q.db = "cascade" /\ x = q.child
      <4>1. x = "model_request_logs" /\ "models" \in D
        BY <2>9, <3>4, ReferencesAreShaped DEF RefIsShaped
      <4>2. t = "models"
        <5>1. \A q \in Cat!References : q.orm = "delete" => q.child # "models"
          BY ReferencesAreShaped DEF RefIsShaped
        <5> QED BY <2>3, <2>4, <4>1, <5>1
      <4> QED BY <2>1, <4>1, <4>2 DEF Cat!Owner
    <3> QED BY <2>3, <2>4, <2>5, <3>1, <3>2, <3>3, <3>4
  <2> QED BY <2>8, <2>9 DEF Cat!Survives, CatInv
<1> QED BY <1>1, <1>2

\* a DELETE statement: nothing that is left refers to the row
LEMMA CatDeletesRaw ==
    ASSUME CatInv, NEW t, NEW how, Cat!RawDelete(t, how),
           t \in Cat!Results => t = "evaluations" \/ (t = "invocation_results" /\ how = "retry"),
           t # "models"
    PROVE  CatInv' /\ Cat!Survives
<1> DEFINE gone == Cat!Children({t}, {"delete", "none"}, {"cascade"})
           blocked == \E r \in Cat!References : Cat!Linked(r) /\ r.parent = t /\ r.db = "refuse"
<1>1. CASE blocked
  <2>1. Cat!Refused
    BY <1>1 DEF Cat!RawDelete
  <2> QED BY <2>1, CatRefuses
<1>2. CASE ~blocked
  <2>1. Cat!Remove(gone) /\ s5'.table = t /\ s5'.how = how
    BY <1>2 DEF Cat!RawDelete
  <2>2. \A x : x \in gone <=> x = t \/ \E q \in Cat!References :
                Cat!Linked(q) /\ q.parent = t /\ q.orm \in {"delete", "none"} /\ q.db = "cascade" /\ x = q.child
    BY Referred
  <2> HIDE DEF gone
  <2>3. ASSUME NEW r \in Cat!References, r.required, Cat!Linked(r), r.parent \in gone PROVE r.child \in gone
    <3>1. RefIsShaped(r)
      BY ReferencesAreShaped
    <3>2. r.parent = t
      BY <2>2, <2>3, <3>1, ReferencesAreShaped DEF RefIsShaped
    <3>3. r.db = "cascade" /\ r.orm \in {"delete", "none"}
      BY <1>2, <2>3, <3>1, <3>2 DEF RefIsShaped
    <3> QED BY <2>2, <2>3, <3>2, <3>3
  <2>4. CatInv'
    BY <2>1, <2>3, CatRemoves
  <2>5. ASSUME NEW x \in Cat!Results, x \in s2, x \notin s2' PROVE s5'.table = Cat!Owner(x)
    <3>1. x = t
      <4>1. x \in gone
        BY <2>1, <2>5 DEF Cat!Remove
      <4>2. \A q \in Cat!References : q.parent = t /\ q.db = "cascade" => q.child # x
        BY <2>5, ReferencesAreShaped DEF RefIsShaped
      <4> QED BY <2>2, <4>1, <4>2
    <3> QED BY <2>1, <3>1 DEF Cat!Owner, Cat!Results
  <2> QED BY <2>4, <2>5 DEF Cat!Survives, CatInv
<1> QED BY <1>1, <1>2

\* the scores of an evaluation that is run again
LEMMA CatRetries == ASSUME CatInv, Cat!RetryEvaluation PROVE CatInv' /\ Cat!Survives
<1>1. /\ s2' = s2 \ {"eval_results"} /\ s3' = {l \in s3 : l[1] # "eval_results"}
      /\ s5'.table = "evaluations"
  BY DEF Cat!RetryEvaluation
<1>2. \A t : Cat!RequiredBy(t)' = Cat!RequiredBy(t)
  BY DEF Cat!RequiredBy
<1>3. \A l \in s3 : l[2] # "eval_results"
  BY DEF CatInv, Parents
<1>4. CatInv'
  BY <1>1, <1>2, <1>3 DEF CatInv, Cat!Intact
<1>5. \A x \in s2 \ s2' : Cat!Owner(x) = "evaluations"
  BY <1>1 DEF Cat!Owner
<1> QED BY <1>1, <1>4, <1>5 DEF Cat!Survives, CatInv

LEMMA CatDeleteRow == ASSUME CatInv, Cat!DeleteRow PROVE CatInv' /\ Cat!Survives
<1> DEFINE whole == {"datasets", "models", "rag_systems", "training_data_profiles", "eval_set_profiles", "qa_records",
                     "model_mappings", "model_request_logs", "evaluations", "invocation_batches", "data_sources",
                     "load_tests", "doc_parse_batches", "training_data_evals", "hot_news_sources", "documents"}
<1>1. ASSUME NEW t \in whole, NEW answer, Cat!Delete(t, answer) PROVE CatInv' /\ Cat!Survives
  BY <1>1, CatDeletes DEF Cat!Results
<1>2. ASSUME NEW t, NEW how, Cat!RawDelete(t, how),
             t \in {"hot_articles", "evaluations", "sync_tasks"} \/ (t = "invocation_results" /\ how = "retry")
      PROVE  CatInv' /\ Cat!Survives
  BY <1>2, CatDeletesRaw DEF Cat!Results
<1>3. CASE Cat!DeleteArticle \/ Cat!Cleanup \/ Cat!RetryResult
  BY <1>2, <1>3 DEF Cat!DeleteArticle, Cat!Cleanup, Cat!RetryResult
<1>4. CASE Cat!RetryEvaluation
  BY <1>4, CatRetries
<1>5. CASE \E t \in whole : \E answer : Cat!Delete(t, answer)
  BY <1>1, <1>5
<1>6. \/ Cat!DeleteArticle \/ Cat!Cleanup \/ Cat!RetryResult \/ Cat!RetryEvaluation
      \/ \E t \in whole : \E answer : Cat!Delete(t, answer)
  BY DEF Cat!DeleteRow, Cat!DeleteDataset, Cat!DeleteModel, Cat!DeleteRagSystem, Cat!DeleteProfile,
     Cat!DeleteQaRecord, Cat!DeleteMapping, Cat!DeleteLog, Cat!DeleteEvaluation, Cat!DeleteInvocationBatch,
     Cat!DeleteDataSource, Cat!DeleteLoadTest, Cat!DeleteParseBatch, Cat!DeleteTrainingEval, Cat!DeleteSource,
     Cat!ReplaceDocument
<1> QED BY <1>3, <1>4, <1>5, <1>6

\* A result vanishes only with what owns it, and no row that is left refers to one that is gone
\* (models, api/v1).
THEOREM ResultsSurviveThm == Spec => ResultsSurvive
<1>1. Init => (focus = "cat" => CatInv)
  BY DEF Init, Cat!Init, CatInv, Cat!Intact
<1>2. (focus = "cat" => CatInv) /\ [Next]_vars => (focus = "cat" => CatInv)'
  <2> SUFFICES ASSUME focus = "cat" => CatInv, [Next]_vars, focus' = "cat" PROVE CatInv'
    OBVIOUS
  <2>1. CASE Next
    BY <2>1, CatInsertRow, CatDeleteRow DEF Next, Cat!Next
  <2>2. CASE UNCHANGED vars
    BY <2>2 DEF vars, CatInv, Cat!Intact, Cat!RequiredBy
  <2> QED BY <2>1, <2>2
<1>3. (focus = "cat" => CatInv) /\ [Next]_vars => [focus = "cat" => Cat!Survives]_vars
  BY CatInsertRow, CatDeleteRow DEF Next, Cat!Next
<1> QED BY <1>1, <1>2, <1>3, PTL DEF Spec, ResultsSurvive

-----------------------------------------------------------------------------
(* Connectors.  s1 is sys, s2 step, s3 at, s4 kb, s5 up, s6 seen, s7 last, *)
(* s8 offset and s12 got.                                                  *)

\* a connector that takes the id from the answer and reads chunks
ConOwn == s1.upload = "id" /\ s1.chunks # "none"

ConNames == {"other"} \cup {Files[i] : i \in DOMAIN Files} \cup {Old[i] : i \in DOMAIN Old}
ConRaws(s) == s.done \cup s.failed \cup s.busy \cup s.partial
ConDocs(s) ==
    [name : ConNames, file : Nat, raw : ConRaws(s), chunks : Nat, there : BOOLEAN, training : BOOLEAN,
     early : BOOLEAN]
\* what is shown as done is over, or was shown so early; either stays
ConOver(doc) == ~doc.training \/ doc.early
ConStatuses == {"done", "failed", "busy"}
ConSteps == {"kb", "upload", "name", "list", "sleep", "read", "done", "failed", "timeout"}

ConTypes ==
    /\ s2 \in ConSteps /\ s3 \in Nat \ {0} /\ s8 \in Nat
    /\ s4 \in Seq(ConDocs(s1))
    /\ DOMAIN s5 = DOMAIN Files
    /\ s12 \in [DOMAIN Files -> Seq(Nat \X Nat)]
\* an id is that of a document the session has uploaded for the file
ConIds ==
    /\ \A f \in DOMAIN Files : s5[f] # Con!NoDoc => s5[f] \in DOMAIN s4 /\ s4[s5[f]].file = f
    /\ s2 = "name" => s3 \in DOMAIN Files /\ \E d \in DOMAIN s4 : s4[d].file = s3
    /\ s2 = "kb" => s4 = <<>> /\ \A f \in DOMAIN Files : s5[f] = Con!NoDoc
    /\ \A d \in DOMAIN s4 : s4[d].raw \in s1.done => ConOver(s4[d])
\* what was listed as done is over, or was shown so early
ConListed ==
    /\ s2 \in {"kb", "upload", "name"} => s6 = <<>> /\ s7 = <<>>
    /\ \A d \in Con!Wanted :
         /\ d \in DOMAIN s6 => s6[d] \in ConStatuses /\ (s6[d] = "done" => ConOver(s4[d]))
         /\ d \in DOMAIN s7 => s7[d] \in ConStatuses /\ (s7[d] = "done" => ConOver(s4[d]))
         /\ s2 \in {"read", "done"} => d \in DOMAIN s7 /\ s7[d] # "busy"
\* the chunks read so far: those of a file that is behind, the pages read of the next one
ConFirst(f, n) == n <= s4[s5[f]].chunks /\ s12[f] = Con!FirstChunks(s5[f], n)
ConWhole(f) ==
    Con!Readable(f) /\ s12[f] # Con!Unread =>
      /\ \E n \in Nat : ConFirst(f, n)
      /\ ~s4[s5[f]].early => s12[f] = Con!Chunks(s5[f])
ConPart(f) == IF Con!Readable(f) THEN ConFirst(f, s8) ELSE s8 = 0
ConGot ==
    /\ s2 \notin {"read", "done"} => \A f \in DOMAIN Files : s12[f] = <<>>
    /\ s2 = "read" =>
         /\ s1.chunks = "whole" => s8 = 0
         /\ \A f \in DOMAIN Files :
              /\ f < s3 => ConWhole(f)
              /\ f = s3 => ConPart(f)
              /\ f > s3 => s12[f] = <<>>
    /\ s2 = "done" => \A f \in DOMAIN Files : ConWhole(f)
ConInv == s1 \in Con!AllSystems /\ (ConOwn => ConTypes /\ ConIds /\ ConListed /\ ConGot)

LEMMA Systems ==
    \A s \in Con!AllSystems :
      /\ s.done # {}
      /\ s.upload = "id" /\ s.chunks # "none" =>
           s.done \cap s.busy = {} /\ s.failed \cap s.busy = {} /\ s.chunks \in {"pages", "counted", "whole"}
      /\ s.list = "own" => s.upload \in {"id", "id_or_name"}
<1> DEFINE P(s) ==
      /\ s.done # {}
      /\ s.upload = "id" /\ s.chunks # "none" =>
           s.done \cap s.busy = {} /\ s.failed \cap s.busy = {} /\ s.chunks \in {"pages", "counted", "whole"}
      /\ s.list = "own" => s.upload \in {"id", "id_or_name"}
<1>1. P(Con!RAGFlow) /\ P(Con!Dify) /\ P(Con!FastGPT)
  BY DEF Con!Row, Con!RAGFlow, Con!Dify, Con!FastGPT
<1>2. P(Con!Coze) /\ P(Con!MaxKB) /\ P(Con!LightRAG)
  BY DEF Con!Row, Con!Coze, Con!MaxKB, Con!LightRAG
<1>3. P(Con!PageIndex) /\ P(Con!Generic)
  BY DEF Con!Row, Con!PageIndex, Con!Generic
<1>4. P(Con!R2R) /\ P(Con!QAnything) /\ P(Con!LlmWiki) /\ P(Con!AnythingLLM) /\ P(Con!OpenWebUI)
      /\ P(Con!LangchainChatchat) /\ P(Con!DocsGPT) /\ P(Con!PrivateGPT) /\ P(Con!Khoj)
  BY DEF Con!Row, Con!R2R, Con!QAnything, Con!LlmWiki, Con!AnythingLLM, Con!OpenWebUI,
     Con!LangchainChatchat, Con!DocsGPT, Con!PrivateGPT, Con!Khoj, Con!Shown
<1> HIDE DEF P
<1>5. \A s \in Con!AllSystems : P(s)
  BY <1>1, <1>2, <1>3, <1>4 DEF Con!AllSystems
<1> QED BY <1>5 DEF P

\* the status of a raw value
LEMMA Statuses == \A raw : Con!StatusOf(raw) \in ConStatuses /\ (Con!StatusOf(raw) = "done" => raw \in s1.done)
<1> SUFFICES ASSUME NEW raw
             PROVE  Con!StatusOf(raw) \in ConStatuses /\ (Con!StatusOf(raw) = "done" => raw \in s1.done)
  OBVIOUS
<1>1. CASE raw \in s1.done
  BY <1>1, Zenon DEF Con!StatusOf, ConStatuses
<1>2. CASE raw \notin s1.done
  <2>1. Con!StatusOf(raw) \in {"failed", "busy"}
    BY <1>2 DEF Con!StatusOf
  <2> QED BY <2>1 DEF ConStatuses
<1> QED BY <1>1, <1>2

\* the pages of a sequence, one after the other
LEMMA Pages ==
    ASSUME NEW S, NEW all \in Seq(S), NEW o \in 0 .. Len(all), Page \in Nat
    PROVE  /\ SubSeq(all, 1, 0) = <<>> /\ SubSeq(all, 1, Len(all)) = all
           /\ LET page == Con!PageOf(all, o) IN
              /\ Len(page) < Page \/ o + Len(page) >= Len(all) => SubSeq(all, 1, o) \o page = all
              /\ Len(page) >= Page => o + Page <= Len(all) /\ SubSeq(all, 1, o) \o page = SubSeq(all, 1, o + Page)
<1> DEFINE m == IF o + Page < Len(all) THEN o + Page ELSE Len(all)
           page == SubSeq(all, o + 1, m)
<1>1. m \in Nat /\ o <= m /\ m <= Len(all) /\ Len(all) \in Nat
  OBVIOUS
<1>2. Con!PageOf(all, o) = page
  BY DEF Con!PageOf
<1> HIDE DEF m
<1>3. Len(page) = m - o /\ page \in Seq(S) /\ \A i \in 1 .. m - o : page[i] = all[o + i]
  <2>1. o \in Int /\ m \in Int /\ o + 1 \in Int /\ \A i \in (o + 1) .. m : all[i] \in S
    BY <1>1
  <2>2. /\ page \in Seq(S)
        /\ Len(page) = IF o + 1 <= m THEN m - (o + 1) + 1 ELSE 0
        /\ \A i \in 1 .. m - (o + 1) + 1 : page[i] = all[o + 1 + i - 1]
    BY <2>1, SubSeqProperties
  <2>3. \A i \in 1 .. m - o : i \in 1 .. m - (o + 1) + 1 /\ o + 1 + i - 1 = o + i
    BY <1>1
  <2> HIDE DEF page
  <2> QED BY <1>1, <2>2, <2>3
<1>4. SubSeq(all, 1, o) \in Seq(S) /\ Len(SubSeq(all, 1, o)) = o /\ \A i \in 1 .. o : SubSeq(all, 1, o)[i] = all[i]
  BY <1>1
<1>5. SubSeq(all, 1, m) \in Seq(S) /\ Len(SubSeq(all, 1, m)) = m /\ \A i \in 1 .. m : SubSeq(all, 1, m)[i] = all[i]
  BY <1>1
<1>6. SubSeq(all, 1, o) \o page = SubSeq(all, 1, m)
  <2> DEFINE a == SubSeq(all, 1, o)
             b == SubSeq(all, 1, m)
  <2> HIDE DEF a, b, page
  <2>1. a \o page \in Seq(S) /\ Len(a \o page) = m /\ \A i \in 1 .. m : (a \o page)[i] = b[i]
    BY <1>1, <1>3, <1>4, <1>5 DEF a, b
  <2>2. a \o page = b
    BY <1>5, <2>1, SeqEqual DEF b
  <2> QED BY <2>2 DEF a, b
<1>7. SubSeq(all, 1, 0) = <<>> /\ SubSeq(all, 1, Len(all)) = all
  BY <1>1
<1>8. Len(page) < Page \/ o + Len(page) >= Len(all) => m = Len(all)
  BY <1>1, <1>3 DEF m
<1>9. Len(page) >= Page => m = o + Page
  BY <1>1, <1>3 DEF m
<1> HIDE DEF page
<1> QED BY <1>1, <1>2, <1>6, <1>7, <1>8, <1>9, Zenon

LEMMA NoPage == \A S : \A all \in Seq(S) : SubSeq(all, 1, 0) = <<>> /\ 0 <= Len(all)
OBVIOUS

\* the first chunks of a document
LEMMA ChunkRow ==
    \A d, n \in Nat :
      /\ Con!FirstChunks(d, n) \in Seq(Nat \X Nat) /\ Len(Con!FirstChunks(d, n)) = n
      /\ Con!FirstChunks(d, 0) = <<>>
      /\ \A k \in 0 .. n : SubSeq(Con!FirstChunks(d, n), 1, k) = Con!FirstChunks(d, k)
BY DEF Con!FirstChunks

\* Every action keeps the connector; those of the session leave most of the rest alone.
LEMMA SysStays == Con!Next => s1' = s1
BY DEF Con!Next, Con!ChooseKb, Con!CreateKb, Con!UploadDocument, Con!NameDocument, Con!UploadFails, Con!TriggerParse,
       Con!ListPage, Con!ListEnds, Con!Poll, Con!ListFails, Con!ReadChunks, Con!ReadFails, Con!SkipFile, Con!Done,
       Con!RemoteParses, Con!Others

\* the documents of the knowledge base that is chosen or found
LEMMA OldOnes ==
    ASSUME s1 \in Con!AllSystems
    PROVE  Con!OldDocs \in Seq(ConDocs(s1)) /\ \A i \in DOMAIN Con!OldDocs : ConOver(Con!OldDocs[i])
<1>1. s1.done # {}
  BY Systems
<1>2. (CHOOSE r \in s1.done : TRUE) \in s1.done
  BY <1>1
<1> DEFINE raw == CHOOSE r \in s1.done : TRUE
<1> HIDE DEF raw
<1>3. \A i \in DOMAIN Old : [Con!Doc(Old[i], Con!Anyone, raw) EXCEPT !.chunks = 1] \in ConDocs(s1)
  BY <1>2 DEF Con!Doc, Con!Anyone, ConDocs, ConRaws, ConNames, raw
<1>4. Con!OldDocs = [i \in 1 .. Len(Old) |-> [Con!Doc(Old[i], Con!Anyone, raw) EXCEPT !.chunks = 1]]
  BY FilesAssumption DEF Con!OldDocs, raw
<1>5. Len(Old) \in Nat /\ DOMAIN Old = 1 .. Len(Old)
  BY FilesAssumption
<1> DEFINE d(i) == [Con!Doc(Old[i], Con!Anyone, raw) EXCEPT !.chunks = 1]
<1> HIDE DEF d
<1>6. \A i \in 1 .. Len(Old) : d(i) \in ConDocs(s1) /\ ConOver(d(i))
  <2>1. \A i \in 1 .. Len(Old) : ~d(i).training
    BY DEF d, Con!Doc, Con!Anyone
  <2> QED BY <1>3, <1>5, <2>1 DEF d, ConOver
<1> HIDE DEF ConOver
<1>7. /\ [i \in 1 .. Len(Old) |-> d(i)] \in Seq(ConDocs(s1))
      /\ \A j \in DOMAIN [i \in 1 .. Len(Old) |-> d(i)] : ConOver([i \in 1 .. Len(Old) |-> d(i)][j])
  BY <1>5, <1>6
<1> QED BY <1>4, <1>7 DEF d

\* before anything is listed
LEMMA ConChooses ==
    ASSUME ConInv, s1' = s1, Con!ChooseKb \/ Con!CreateKb
    PROVE  ConInv'
<1> SUFFICES ASSUME ConOwn PROVE (ConTypes /\ ConIds /\ ConListed /\ ConGot)'
  BY DEF ConInv, ConOwn
<1>1. ConTypes /\ ConIds /\ ConListed /\ ConGot /\ s1 \in Con!AllSystems
  BY DEF ConInv
<1>2. /\ s2 = "kb" /\ s2' = "upload" /\ s4' \in {<<>>, Con!OldDocs}
      /\ UNCHANGED <<s3, s5, s6, s7, s8, s12>>
  BY DEF Con!ChooseKb, Con!CreateKb
<1>3. s4' \in Seq(ConDocs(s1)) /\ \A d \in DOMAIN s4' : ConOver(s4'[d])
  BY <1>1, <1>2, OldOnes, NoElements
<1>4. ConTypes'
  BY <1>1, <1>2, <1>3 DEF ConTypes, ConSteps
<1>5. ConIds' /\ Con!Wanted' = {}
  BY <1>1, <1>2, <1>3 DEF ConIds, Con!Wanted
<1>6. ConListed'
  BY <1>1, <1>2, <1>5 DEF ConListed
<1>7. ConGot'
  BY <1>1, <1>2 DEF ConGot
<1> QED BY <1>4, <1>5, <1>6, <1>7

\* one more document, of a file or of somebody else
LEMMA ConAppends ==
    ASSUME s4 \in Seq(ConDocs(s1)), NEW doc \in ConDocs(s1), s4' = Append(s4, doc)
    PROVE  /\ s4' \in Seq(ConDocs(s1)) /\ DOMAIN s4' = DOMAIN s4 \cup {Len(s4) + 1}
           /\ \A d \in DOMAIN s4 : s4'[d] = s4[d]
           /\ s4'[Len(s4) + 1] = doc
OBVIOUS

LEMMA ConUploads == ASSUME ConInv, s1' = s1, Con!UploadDocument PROVE ConInv'
<1> SUFFICES ASSUME ConOwn PROVE (ConTypes /\ ConIds /\ ConListed /\ ConGot)'
  BY DEF ConInv, ConOwn
<1>1. ConTypes /\ ConIds /\ ConListed /\ ConGot /\ s1 \in Con!AllSystems
  BY DEF ConInv
<1>2. /\ s2 = "upload" /\ s2' = "name" /\ s3 <= Len(Files)
      /\ UNCHANGED <<s3, s5, s6, s7, s8, s12>>
  BY DEF Con!UploadDocument
<1>3. s3 \in DOMAIN Files
  BY <1>1, <1>2, FilesAssumption DEF ConTypes
<1>4. PICK r \in s1.busy : s4' = Append(s4, Con!Doc(Files[s3], s3, r))
  BY DEF Con!UploadDocument, ConOwn
<1> DEFINE doc == Con!Doc(Files[s3], s3, r)
<1>5. doc \in ConDocs(s1) /\ doc.file = s3 /\ (doc.raw \in s1.done => ConOver(doc))
  BY <1>1, <1>3 DEF Con!Doc, Con!Anyone, ConDocs, ConRaws, ConNames, ConTypes, ConOver
<1> HIDE DEF doc
<1>6. /\ s4' \in Seq(ConDocs(s1)) /\ DOMAIN s4' = DOMAIN s4 \cup {Len(s4) + 1}
      /\ \A d \in DOMAIN s4 : s4'[d] = s4[d]
      /\ s4'[Len(s4) + 1] = doc
  BY <1>1, <1>4, <1>5, ConAppends DEF ConTypes, doc
<1>7. ConTypes'
  BY <1>1, <1>2, <1>6 DEF ConTypes, ConSteps
<1>8. ConIds'
  BY <1>1, <1>2, <1>3, <1>5, <1>6 DEF ConIds
<1>9. ConListed'
  BY <1>1, <1>2 DEF ConListed
<1>10. ConGot'
  BY <1>1, <1>2 DEF ConGot
<1> QED BY <1>7, <1>8, <1>9, <1>10

LEMMA ConRemembers == ASSUME ConInv, s1' = s1, Con!NameDocument \/ Con!UploadFails PROVE ConInv'
<1> SUFFICES ASSUME ConOwn PROVE (ConTypes /\ ConIds /\ ConListed /\ ConGot)'
  BY DEF ConInv, ConOwn
<1>1. ConTypes /\ ConIds /\ ConListed /\ ConGot
  BY DEF ConInv
<1>2. /\ s2 \in {"upload", "name"} /\ s2' = "upload" /\ s3' = s3 + 1 /\ UNCHANGED <<s4, s6, s7, s8, s12>>
  BY DEF Con!NameDocument, Con!UploadFails
<1>3. ConIds' /\ DOMAIN s5' = DOMAIN Files
  <2>1. CASE Con!UploadFails
    BY <1>1, <1>2, <2>1 DEF Con!UploadFails, ConIds, ConTypes
  <2>2. CASE Con!NameDocument
    <3> DEFINE mine == CHOOSE d \in DOMAIN s4 : s4[d].file = s3
    <3>1. s3 \in DOMAIN Files /\ \E d \in DOMAIN s4 : s4[d].file = s3
      BY <1>1, <2>2 DEF ConIds, Con!NameDocument
    <3>2. mine \in DOMAIN s4 /\ s4[mine].file = s3
      BY <3>1
    <3>3. \E id \in Con!IdOf(mine) : s5' = [s5 EXCEPT ![s3] = id]
      BY <2>2 DEF Con!NameDocument
    <3> HIDE DEF mine
    <3>4. Con!IdOf(mine) = {mine}
      BY DEF Con!IdOf, ConOwn
    <3>5. s5' = [s5 EXCEPT ![s3] = mine]
      BY <3>3, <3>4
    <3> QED BY <1>1, <1>2, <3>1, <3>2, <3>5 DEF ConIds, ConTypes
  <2> QED BY <2>1, <2>2
<1>4. ConTypes'
  BY <1>1, <1>2, <1>3 DEF ConTypes, ConSteps
<1>5. ConListed'
  BY <1>1, <1>2 DEF ConListed
<1>6. ConGot'
  BY <1>1, <1>2 DEF ConGot
<1> QED BY <1>3, <1>4, <1>5, <1>6

\* a step of the listing, which may be the last
LEMMA ConLists ==
    ASSUME ConInv, s1' = s1,
           Con!TriggerParse \/ Con!ListPage \/ Con!ListEnds \/ Con!Poll \/ Con!ListFails
    PROVE  ConInv'
<1> SUFFICES ASSUME ConOwn PROVE (ConTypes /\ ConIds /\ ConListed /\ ConGot)'
  BY DEF ConInv, ConOwn
<1>1. ConTypes /\ ConIds /\ ConListed /\ ConGot
  BY DEF ConInv
<1>2. /\ s2 \in {"upload", "list", "sleep"} /\ s2' \in {"failed", "list", "read", "timeout", "sleep"}
      /\ UNCHANGED <<s4, s5, s12>> /\ s3' \in {s3, 1}
      /\ s2' = "read" => s3' = 1 /\ s8' = 0
  BY DEF Con!TriggerParse, Con!ListPage, Con!ListEnds, Con!Poll, Con!ListFails
<1>3. /\ Con!Wanted' = Con!Wanted
      /\ \A d : \A i : Con!StatusOf(s4[i].raw) \in ConStatuses
                       /\ (Con!StatusOf(s4[i].raw) = "done" => s4[i].raw \in s1.done)
  BY <1>2, Statuses DEF Con!Wanted
<1> DEFINE now == Con!Now(Con!Reach)
           ids == {Con!Reach[i] : i \in DOMAIN Con!Reach}
<1>4. /\ DOMAIN now = DOMAIN s6 \cup ids
      /\ \A d \in DOMAIN now : now[d] = IF d \in ids THEN Con!StatusOf(s4[d].raw) ELSE s6[d]
  <2> DEFINE reach == Con!Reach
  <2>1. now = [d \in DOMAIN s6 \cup ids |-> IF d \in ids THEN Con!StatusOf(s4[d].raw) ELSE s6[d]]
    BY DEF Con!Now
  <2> HIDE DEF now, ids
  <2> QED BY <2>1
<1> HIDE DEF now, ids
<1>5. \A d \in Con!Wanted : d \in DOMAIN now => now[d] \in ConStatuses /\ (now[d] = "done" => ConOver(s4[d]))
  <2> SUFFICES ASSUME NEW d \in Con!Wanted, d \in DOMAIN now
               PROVE  now[d] \in ConStatuses /\ (now[d] = "done" => ConOver(s4[d]))
    OBVIOUS
  <2>1. CASE d \in ids
    <3>1. s4[d].raw \in s1.done => ConOver(s4[d])
      BY <1>1 DEF ConIds, Con!Wanted
    <3> QED BY <1>4, <2>1, <3>1, Statuses
  <2>2. CASE d \notin ids
    BY <1>1, <1>4, <2>2 DEF ConListed
  <2> QED BY <2>1, <2>2
<1>6. ConListed'
  <2>1. CASE Con!TriggerParse \/ Con!Poll \/ Con!ListFails
    <3>1. UNCHANGED <<s6, s7>> /\ s2' # "read"
      BY <2>1 DEF Con!TriggerParse, Con!Poll, Con!ListFails
    <3> QED BY <1>1, <1>2, <1>3, <3>1 DEF ConListed
  <2>2. CASE Con!ListPage
    <3>1. s6' = now /\ s7' = s7 /\ s2' = "list"
      BY <2>2 DEF Con!ListPage, now
    <3> QED BY <1>1, <1>2, <1>3, <1>5, <3>1 DEF ConListed
  <2>3. CASE Con!ListEnds
    <3>1. s6' = <<>> /\ s7' = Con!Known /\ (s2' = "read" => Con!Enough)
      BY <2>3 DEF Con!ListEnds
    <3>2. /\ DOMAIN s7' = DOMAIN s7 \cup (DOMAIN now \cap Con!Wanted)
          /\ \A d \in DOMAIN s7' : s7'[d] = IF d \in DOMAIN now THEN now[d] ELSE s7[d]
      BY <3>1 DEF Con!Known, now
    <3>3. \A d \in Con!Wanted :
            d \in DOMAIN s7' => s7'[d] \in ConStatuses /\ (s7'[d] = "done" => ConOver(s4[d]))
      BY <1>1, <1>5, <3>2 DEF ConListed
    <3>4. s2' = "read" => \A d \in Con!Wanted : d \in DOMAIN s7' /\ s7'[d] # "busy"
      BY <3>1 DEF Con!Enough
    <3> QED BY <1>2, <1>3, <3>1, <3>3, <3>4, NoElements DEF ConListed
  <2> QED BY <2>1, <2>2, <2>3
<1>7. ConTypes'
  <2>1. s8' \in Nat
    <3>1. CASE Con!ListPage
      <4>1. s8' = s8 + Len(Con!Reach) /\ Len(Con!Reach) = Page
        BY <3>1 DEF Con!ListPage, Con!Another
      <4> QED BY <1>1, <4>1, PageAssumption DEF ConTypes
    <3>2. CASE ~Con!ListPage
      <4>1. s8' \in {0, s8}
        BY <3>2 DEF Con!TriggerParse, Con!ListEnds, Con!Poll, Con!ListFails
      <4> QED BY <1>1, <4>1 DEF ConTypes
    <3> QED BY <3>1, <3>2
  <2> QED BY <1>1, <1>2, <2>1 DEF ConTypes, ConSteps
<1>8. ConIds'
  BY <1>1, <1>2 DEF ConIds
<1>9. ConGot'
  <2>1. \A f \in DOMAIN Files : s12'[f] = <<>>
    BY <1>1, <1>2 DEF ConGot
  <2>2. CASE s2' # "read"
    BY <1>2, <2>1, <2>2 DEF ConGot
  <2>3. CASE s2' = "read"
    <3>1. \A f \in DOMAIN Files : f \in Nat /\ f >= 1
      BY FilesAssumption
    <3>2. s3' = 1 /\ s8' = 0
      BY <1>2, <2>3
    <3>3. ASSUME NEW f \in DOMAIN Files PROVE ConPart(f)'
      <4>1. ASSUME Con!Readable(f)' PROVE ConFirst(f, 0)'
        <5>1. s5'[f] \in DOMAIN s4'
          BY <1>8, <4>1 DEF ConIds, Con!Readable
        <5>2. s4'[s5'[f]].chunks \in Nat /\ s5'[f] \in Nat
          <6>1. s4'[s5'[f]] \in ConDocs(s1') /\ s5'[f] \in Nat
            BY <1>7, <5>1 DEF ConTypes
          <6> QED BY <6>1 DEF ConDocs
        <5> QED BY <2>1, <5>2, ChunkRow DEF ConFirst, Con!FirstChunks
      <4> QED BY <3>2, <4>1 DEF ConPart
    <3> QED BY <2>1, <2>3, <3>1, <3>2, <3>3 DEF ConGot
  <2> QED BY <2>2, <2>3
<1> QED BY <1>6, <1>7, <1>8, <1>9

-----------------------------------------------------------------------------
LEMMA ChunksOf ==
    ASSUME ConTypes, ConIds, NEW f \in DOMAIN Files, Con!Readable(f)
    PROVE  /\ s5[f] \in DOMAIN s4 /\ s5[f] \in Con!Wanted
           /\ s5[f] \in Nat /\ s4[s5[f]].chunks \in Nat
           /\ Con!Chunks(s5[f]) = Con!FirstChunks(s5[f], s4[s5[f]].chunks)
<1>1. s5[f] \in DOMAIN s4 /\ s5[f] \in Con!Wanted
  BY DEF ConIds, Con!Readable, Con!Wanted
<1> DEFINE n == s4[s5[f]].chunks
<1>2. n \in Nat /\ s5[f] \in Nat
  <2>1. s4[s5[f]] \in ConDocs(s1) /\ s5[f] \in Nat
    BY <1>1 DEF ConTypes
  <2> QED BY <2>1 DEF ConDocs
<1>3. Con!Chunks(s5[f]) = Con!FirstChunks(s5[f], n)
  BY <1>1 DEF Con!Chunks
<1> QED BY <1>1, <1>2, <1>3

\* a step of the reading: the documents stay, and so do their ids and their last statuses
LEMMA ReadingStays ==
    ASSUME UNCHANGED <<s1, s4, s5, s7>>
    PROVE  \A f : /\ Con!Readable(f)' <=> Con!Readable(f)
                  /\ Con!Chunks(s5[f])' = Con!Chunks(s5[f])
BY DEF Con!Readable, Con!Chunks, Con!FirstChunks

LEMMA ConReads ==
    ASSUME ConInv, s1' = s1, Con!ReadChunks \/ Con!ReadFails \/ Con!SkipFile \/ Con!Done
    PROVE  ConInv'
<1> SUFFICES ASSUME ConOwn PROVE (ConTypes /\ ConIds /\ ConListed /\ ConGot)'
  BY DEF ConInv, ConOwn
\* at is the file the step is about
<1>0. PICK at : at = s3
  OBVIOUS
<1>1. ConTypes /\ ConIds /\ ConListed /\ ConGot /\ s1.chunks \in {"pages", "counted", "whole"}
  BY Systems DEF ConInv, ConOwn
<1>2. s2 = "read" /\ UNCHANGED <<s4, s5, s6, s7>> /\ s2' \in {"read", "done"}
  BY DEF Con!ReadChunks, Con!ReadFails, Con!SkipFile, Con!Done
<1>3. /\ s1.chunks = "whole" => s8 = 0
      /\ \A f \in DOMAIN Files :
           /\ f \in Nat
           /\ f < at => ConWhole(f)
           /\ f = at => ConPart(f)
           /\ f > at => s12[f] = <<>>
  BY <1>0, <1>1, <1>2, FilesAssumption DEF ConGot
<1>4. at \in Nat /\ (at <= Len(Files) <=> at \in DOMAIN Files) /\ s8 \in Nat
  BY <1>0, <1>1, FilesAssumption DEF ConTypes
<1>5. \A f : /\ Con!Readable(f)' <=> Con!Readable(f)
             /\ Con!Chunks(s5[f])' = Con!Chunks(s5[f])
  BY <1>2, ReadingStays
<1>6. ConIds' /\ ConListed' /\ Con!Wanted' = Con!Wanted
  BY <1>1, <1>2 DEF ConIds, ConListed, Con!Wanted
<1>7. Con!Unread \in Seq(Nat \X Nat)
  BY DEF Con!Unread
\* a file that is not touched keeps its chunks
<1>8. \A f \in DOMAIN Files : f < at /\ s12'[f] = s12[f] => ConWhole(f)'
  BY <1>2, <1>3, <1>5 DEF ConWhole, ConFirst
\* the file behind the one that is left
<1>9. ASSUME NEW f \in DOMAIN Files, s12'[f] = <<>>, s8' = 0 PROVE ConPart(f)'
  <2>1. CASE Con!Readable(f)
    <3>1. s5[f] \in Nat /\ s4[s5[f]].chunks \in Nat
      BY <1>1, <2>1, ChunksOf
    <3> QED BY <1>2, <1>5, <1>9, <2>1, <3>1, ChunkRow DEF ConPart, ConFirst, Con!FirstChunks
  <2>2. CASE ~Con!Readable(f)
    BY <1>5, <1>9, <2>2 DEF ConPart
  <2> QED BY <2>1, <2>2
\* on to the next file
<1>10. ASSUME at \in DOMAIN Files, s3' = at + 1, s8' = 0, s2' = "read", ConWhole(at)',
              s12' \in [DOMAIN Files -> Seq(Nat \X Nat)],
              \A f \in DOMAIN Files : f # at => s12'[f] = s12[f]
       PROVE  (ConTypes /\ ConIds /\ ConListed /\ ConGot)'
  <2>1. ConTypes'
    BY <1>1, <1>2, <1>4, <1>10 DEF ConTypes
  <2>2. ConGot'
    <3>0. /\ s3' = at + 1 /\ s8' = 0 /\ s2' = "read"
          /\ \A f \in DOMAIN Files : f # at => s12'[f] = s12[f]
      BY <1>10
    <3>3. ASSUME NEW f \in DOMAIN Files, f >= s3' PROVE s12'[f] = <<>>
      <4>1. f > at
        BY <1>3, <1>4, <3>0, <3>3
      <4> QED BY <1>3, <1>4, <3>0, <4>1
    <3>2. \A f \in DOMAIN Files : f = s3' => ConPart(f)'
      BY <1>3, <1>4, <1>9, <3>0, <3>3
    <3>1. ASSUME NEW f \in DOMAIN Files, f < s3' PROVE ConWhole(f)'
      <4>1. CASE f = at
        BY <1>10, <4>1
      <4>2. CASE f # at
        BY <1>3, <1>4, <1>8, <3>0, <3>1, <4>2
      <4> QED BY <4>1, <4>2
    <3>4. \A f \in DOMAIN Files : f > s3' => s12'[f] = <<>>
      BY <1>3, <1>4, <3>0, <3>3
    <3> QED BY <3>0, <3>1, <3>2, <3>4 DEF ConGot
  <2> QED BY <1>6, <2>1, <2>2
<1>11. CASE Con!ReadChunks
  <2> DEFINE d == s5[at]
             all == Con!Chunks(d)
             page == IF s1.chunks = "whole" THEN all ELSE Con!PageOf(all, s8)
  <2>1. /\ at \in DOMAIN Files /\ Con!Readable(at) /\ s2' = "read"
        /\ s12' = [s12 EXCEPT ![at] = s12[at] \o page]
        /\ IF Con!LastChunks(page) THEN s3' = at + 1 /\ s8' = 0 ELSE s3' = at /\ s8' = s8 + Page
    BY <1>0, <1>2, <1>4, <1>11 DEF Con!ReadChunks
  <2>9. PICK n \in Nat : n = s4[d].chunks /\ d \in Nat /\ all = Con!FirstChunks(d, n)
    BY <1>1, <2>1, ChunksOf
  <2>2. all \in Seq(Nat \X Nat) /\ Len(all) = n /\ \A k \in 0 .. n : SubSeq(all, 1, k) = Con!FirstChunks(d, k)
    BY <2>9, ChunkRow
  <2>3. s8 \in 0 .. Len(all) /\ s12[at] = SubSeq(all, 1, s8)
    BY <1>3, <1>4, <2>1, <2>2, <2>9 DEF ConPart, ConFirst
  <2>4. Page \in Nat
    BY PageAssumption
  <2>5. /\ Con!LastChunks(page) => SubSeq(all, 1, s8) \o page = all
        /\ ~Con!LastChunks(page) =>
             s8 + Page <= Len(all) /\ SubSeq(all, 1, s8) \o page = SubSeq(all, 1, s8 + Page)
    <3>1. CASE s1.chunks = "whole"
      <4>1. s8 = 0 /\ page = all /\ Con!LastChunks(page)
        BY <1>3, <3>1 DEF Con!LastChunks
      <4>2. SubSeq(all, 1, 0) = <<>> /\ <<>> \o all = all
        BY <2>2, NoPage, ConcatEmptySeq
      <4> QED BY <4>1, <4>2
    <3>2. CASE s1.chunks \in {"pages", "counted"}
      <4> DEFINE part == Con!PageOf(all, s8)
      <4>1. /\ part = page
            /\ Len(page) < Page => Con!LastChunks(page)
            /\ Con!LastChunks(page) => Len(page) < Page \/ s8 + Len(page) >= Len(all)
        BY <1>0, <3>2 DEF Con!LastChunks
      <4>2. /\ Len(part) < Page \/ s8 + Len(part) >= Len(all) => SubSeq(all, 1, s8) \o part = all
            /\ Len(part) >= Page => s8 + Page <= Len(all) /\ SubSeq(all, 1, s8) \o part = SubSeq(all, 1, s8 + Page)
        BY <2>2, <2>3, <2>4, Pages
      <4>3. Len(part) \in Nat
        BY <2>2, <2>3, <2>4 DEF Con!PageOf
      <4> HIDE DEF all, page, part
      <4>4. ~Con!LastChunks(page) => Len(page) >= Page
        BY <2>4, <4>1, <4>3
      <4> QED BY <4>1, <4>2, <4>4
    <3> QED BY <1>1, <3>1, <3>2
  <2>8. /\ Con!Chunks(s5[at])' = all /\ s5'[at] = d /\ s4'[d].chunks = n
        /\ \A k : Con!FirstChunks(d, k)' = Con!FirstChunks(d, k)
    BY <1>2, <1>5, <2>9 DEF Con!FirstChunks
  <2> HIDE DEF all, page, d
  <2>6. CASE Con!LastChunks(page)
    <3>1. s12'[at] = all /\ s12' \in [DOMAIN Files -> Seq(Nat \X Nat)]
      BY <1>1, <2>1, <2>2, <2>3, <2>5, <2>6 DEF ConTypes
    <3>3. n <= s4'[d].chunks /\ s12'[at] = Con!FirstChunks(d, n)
      BY <2>8, <2>9, <3>1
    <3>2. \A f \in DOMAIN Files : f = at => ConWhole(f)'
      BY <2>8, <3>1, <3>3 DEF ConWhole, ConFirst
    <3> QED BY <1>1, <1>10, <2>1, <2>6, <3>1, <3>2 DEF ConTypes
  <2>7. CASE ~Con!LastChunks(page)
    <3>1. s3' = at /\ s8' = s8 + Page /\ s12'[at] = SubSeq(all, 1, s8 + Page) /\ s8 + Page <= Len(all)
      BY <1>1, <2>1, <2>3, <2>5, <2>7 DEF ConTypes
    <3>2. SubSeq(all, 1, s8 + Page) \in Seq(Nat \X Nat)
      BY <1>4, <2>2, <2>4, <3>1
    <3>3. s12' \in [DOMAIN Files -> Seq(Nat \X Nat)] /\ \A f \in DOMAIN Files : f # at => s12'[f] = s12[f]
      BY <1>1, <2>1, <3>1, <3>2 DEF ConTypes
    <3>4. ConTypes'
      BY <1>1, <1>2, <1>4, <2>1, <2>4, <3>1, <3>3 DEF ConTypes
    <3>7. s12'[at] = Con!FirstChunks(d, s8') /\ s8' <= s4'[d].chunks
      <4>1. s8 + Page \in 0 .. n /\ s8 + Page <= Len(all) /\ Len(all) = n
        BY <1>4, <2>2, <2>4, <2>9, <3>1
      <4>2. SubSeq(all, 1, s8 + Page) = Con!FirstChunks(d, s8 + Page)
        BY <2>2, <4>1
      <4> QED BY <2>8, <3>1, <4>1, <4>2
    <3>5. \A f \in DOMAIN Files : f = s3' => ConPart(f)'
      BY <1>5, <2>1, <2>8, <3>1, <3>7 DEF ConPart, ConFirst
    <3>6. s1.chunks # "whole"
      BY <2>7 DEF Con!LastChunks
    <3> QED BY <1>3, <1>4, <1>6, <1>8, <2>1, <3>1, <3>3, <3>4, <3>5, <3>6 DEF ConGot
  <2> QED BY <2>6, <2>7
<1>12. CASE Con!ReadFails
  <2>1. /\ at \in DOMAIN Files /\ s2' = "read" /\ s12' = [s12 EXCEPT ![at] = Con!Unread]
        /\ s3' = at + 1 /\ s8' = 0
    BY <1>0, <1>2, <1>4, <1>12 DEF Con!ReadFails
  <2>2. s12'[at] = Con!Unread /\ s12' \in [DOMAIN Files -> Seq(Nat \X Nat)]
    BY <1>1, <1>7, <2>1 DEF ConTypes
  <2>3. ConWhole(at)'
    BY <2>2 DEF ConWhole, Con!Unread
  <2> QED BY <1>1, <1>10, <2>1, <2>2, <2>3 DEF ConTypes
<1>13. CASE Con!SkipFile
  <2>1. /\ at \in DOMAIN Files /\ s2' = "read" /\ s12' = s12 /\ s3' = at + 1 /\ s8' = s8 /\ ~Con!Readable(at)
    BY <1>0, <1>2, <1>4, <1>13 DEF Con!SkipFile
  <2>2. s8' = 0 /\ ConWhole(at)'
    BY <1>3, <1>5, <2>1 DEF ConPart, ConWhole
  <2> QED BY <1>1, <1>10, <2>1, <2>2 DEF ConTypes
<1>14. CASE Con!Done
  <2>1. s2' = "done" /\ UNCHANGED <<s8, s12>> /\ s3' = at /\ at > Len(Files)
    BY <1>0, <1>14 DEF Con!Done
  <2>2. \A f \in DOMAIN Files : ConWhole(f)'
    BY <1>4, <1>8, <2>1, FilesAssumption
  <2>3. ConTypes'
    BY <1>0, <1>1, <1>2, <2>1 DEF ConTypes, ConSteps
  <2>4. ConGot'
    BY <2>1, <2>2 DEF ConGot
  <2> QED BY <1>6, <2>3, <2>4
<1> QED BY <1>11, <1>12, <1>13, <1>14

-----------------------------------------------------------------------------
\* the documents change: what is over stays so, and chunks are only added, to those that are not
ConGrows(old, new) ==
    /\ new.file = old.file /\ new.chunks >= old.chunks
    /\ ConOver(old) => ConOver(new)
    /\ ~old.training => new.early = old.early /\ new.chunks = old.chunks
    /\ old.early => new.early

LEMMA ConChanges ==
    ASSUME ConInv, ConOwn, UNCHANGED <<s1, s2, s3, s5, s6, s7, s8, s12>>,
           s2 \notin {"kb", "done"}, s4' \in Seq(ConDocs(s1)), DOMAIN s4 \subseteq DOMAIN s4',
           \A d \in DOMAIN s4 : ConGrows(s4[d], s4'[d]),
           \A d \in DOMAIN s4' : s4'[d].raw \in s1.done => ConOver(s4'[d])
    PROVE  ConInv'
<1>1. ConTypes /\ ConIds /\ ConListed /\ ConGot
  BY DEF ConInv
<1>2. ConTypes'
  BY <1>1 DEF ConTypes
<1>3. ConIds' /\ Con!Wanted' = Con!Wanted
  BY <1>1 DEF ConIds, Con!Wanted, ConGrows
<1>4. \A d \in Con!Wanted : d \in DOMAIN s4
  BY <1>1 DEF ConIds, Con!Wanted
<1>5. ConListed'
  BY <1>1, <1>3, <1>4 DEF ConListed, ConGrows
<1>6. \A f : Con!Readable(f)' <=> Con!Readable(f)
  BY DEF Con!Readable
<1>7. ASSUME s2 = "read", NEW f \in DOMAIN Files, Con!Readable(f)
      PROVE  /\ s4'[s5[f]].chunks \in Nat /\ s4[s5[f]].chunks \in Nat /\ s4'[s5[f]].chunks >= s4[s5[f]].chunks
             /\ ~s4'[s5[f]].early => ~s4[s5[f]].early /\ Con!Chunks(s5[f])' = Con!Chunks(s5[f])
  <2>1. s5[f] \in Con!Wanted /\ s5[f] \in DOMAIN s4 /\ s5[f] \in DOMAIN s4'
    BY <1>1, <1>7, ChunksOf
  <2>2. s7[s5[f]] = "done"
    BY <1>1, <1>7, <2>1 DEF ConListed, ConStatuses, Con!Readable
  <2>3. ConOver(s4[s5[f]]) /\ ConGrows(s4[s5[f]], s4'[s5[f]])
    BY <1>1, <1>7, <2>1, <2>2 DEF ConListed
  <2>4. s4'[s5[f]] \in ConDocs(s1) /\ s4[s5[f]] \in ConDocs(s1)
    BY <1>1, <2>1 DEF ConTypes
  <2>5. s4'[s5[f]].chunks \in Nat /\ s4[s5[f]].chunks \in Nat
    BY <2>4 DEF ConDocs
  <2>6. ~s4'[s5[f]].early => ~s4[s5[f]].early /\ s4'[s5[f]].chunks = s4[s5[f]].chunks
    BY <2>3 DEF ConOver, ConGrows
  <2>7. s4'[s5[f]].chunks = s4[s5[f]].chunks => Con!Chunks(s5[f])' = Con!Chunks(s5[f])
    BY <2>1 DEF Con!Chunks, Con!FirstChunks
  <2> QED BY <2>3, <2>5, <2>6, <2>7 DEF ConGrows
<1>9. \A d, n : Con!FirstChunks(d, n)' = Con!FirstChunks(d, n)
  BY DEF Con!FirstChunks
<1>10. ASSUME s2 = "read", NEW f \in DOMAIN Files, Con!Readable(f), NEW n \in Nat, ConFirst(f, n)
       PROVE  n <= s4'[s5'[f]].chunks /\ s12'[f] = Con!FirstChunks(s5[f], n)
  <2>1. n <= s4[s5[f]].chunks /\ s12[f] = Con!FirstChunks(s5[f], n)
    BY <1>10 DEF ConFirst
  <2>2. /\ s4'[s5[f]].chunks \in Nat /\ s4[s5[f]].chunks \in Nat
        /\ s4'[s5[f]].chunks >= s4[s5[f]].chunks
    BY <1>7, <1>10
  <2> QED BY <2>1, <2>2
<1>11. ASSUME s2 = "read", NEW f \in DOMAIN Files
       PROVE  (ConWhole(f) => ConWhole(f)') /\ (ConPart(f) => ConPart(f)')
  <2>1. ConWhole(f) => ConWhole(f)'
    <3> SUFFICES ASSUME ConWhole(f), Con!Readable(f), s12[f] # Con!Unread
                 PROVE  /\ \E n \in Nat : n <= s4'[s5'[f]].chunks /\ s12'[f] = Con!FirstChunks(s5[f], n)
                        /\ ~s4'[s5[f]].early => s12[f] = Con!Chunks(s5[f])'
      BY <1>6, <1>9 DEF ConWhole, ConFirst, Con!Unread
    <3> QED BY <1>7, <1>10, <1>11 DEF ConWhole
  <2>2. ConPart(f) => ConPart(f)'
    <3>1. CASE Con!Readable(f)
      BY <1>1, <1>6, <1>9, <1>10, <1>11, <3>1 DEF ConPart, ConFirst, ConTypes
    <3>2. CASE ~Con!Readable(f)
      BY <1>6, <3>2 DEF ConPart
    <3> QED BY <3>1, <3>2
  <2> QED BY <2>1, <2>2
<1>8. ConGot'
  <2>1. CASE s2 # "read"
    BY <1>1, <2>1 DEF ConGot
  <2>2. CASE s2 = "read"
    BY <1>1, <1>11, <2>2 DEF ConGot
  <2> QED BY <2>1, <2>2
<1> QED BY <1>2, <1>3, <1>5, <1>8 DEF ConInv, ConOwn

\* an element put in the place of another
LEMMA Replaced ==
    ASSUME NEW S, NEW s \in Seq(S), NEW d \in DOMAIN s, NEW e \in S, NEW t, t = [s EXCEPT ![d] = e]
    PROVE  t \in Seq(S) /\ DOMAIN t = DOMAIN s /\ t[d] = e /\ \A i \in DOMAIN s : i # d => t[i] = s[i]
<1>0. DOMAIN s = 1 .. Len(s) /\ Len(s) \in Nat
  BY LenProperties
<1>1. DOMAIN t = 1 .. Len(s) /\ t = [i \in 1 .. Len(s) |-> IF i = d THEN e ELSE s[i]]
  BY <1>0
<1> DEFINE f(i) == IF i = d THEN e ELSE s[i]
<1>2. \A i \in 1 .. Len(s) : f(i) \in S
  BY <1>0
<1> HIDE DEF f
<1>3. [i \in 1 .. Len(s) |-> f(i)] \in Seq(S)
  BY <1>0, <1>2
<1>4. t \in Seq(S)
  BY <1>1, <1>3 DEF f
<1> QED BY <1>0, <1>1, <1>4

\* a document of the session is parsed, or some more of it is shown
LEMMA Parsed ==
    ASSUME s1 \in Con!AllSystems, s4 \in Seq(ConDocs(s1)), Con!RemoteParses
    PROVE  \E d \in DOMAIN s4 : \E doc \in ConDocs(s1) :
             /\ ConGrows(s4[d], doc) /\ doc.there = s4[d].there /\ (doc.raw \in s1.done => ConOver(doc))
             /\ s4' \in Seq(ConDocs(s1)) /\ DOMAIN s4' = DOMAIN s4 /\ s4'[d] = doc
             /\ \A e \in DOMAIN s4 : e # d => s4'[e] = s4[e]
<1> DEFINE D == ConDocs(s1)
<1>2. PICK d \in DOMAIN s4 :
        /\ s4[d].training
        /\ \/ \E r \in s1.done, n \in ChunkCounts :
                n >= s4[d].chunks /\ s4' = [s4 EXCEPT ![d].raw = r, ![d].chunks = n, ![d].training = FALSE]
           \/ \E r \in s1.failed : s4' = [s4 EXCEPT ![d].raw = r, ![d].training = FALSE]
           \/ \E r \in s1.partial, n \in ChunkCounts :
                /\ n >= s4[d].chunks
                /\ s4' = [s4 EXCEPT ![d].raw = r, ![d].chunks = n, ![d].early = @ \/ r \in s1.done]
  BY DEF Con!RemoteParses
<1>4. s4[d] \in D
  <2> HIDE DEF D
  <2> QED BY DEF D
<1> DEFINE Is(doc) == /\ ConGrows(s4[d], doc) /\ doc.there = s4[d].there /\ (doc.raw \in s1.done => ConOver(doc))
                      /\ s4' = [s4 EXCEPT ![d] = doc]
<1>5. \E doc \in D : Is(doc)
  <2>1. ASSUME NEW r \in s1.done, NEW n \in ChunkCounts, n >= s4[d].chunks,
               s4' = [s4 EXCEPT ![d].raw = r, ![d].chunks = n, ![d].training = FALSE]
        PROVE  \E doc \in D : Is(doc)
    <3> DEFINE doc == [s4[d] EXCEPT !.raw = r, !.chunks = n, !.training = FALSE]
    <3>1. n \in Nat
      BY <2>1, PageAssumption
    <3>2. /\ doc \in D /\ doc.file = s4[d].file /\ doc.there = s4[d].there /\ ~doc.training
          /\ doc.chunks = n /\ doc.early = s4[d].early
      BY <1>4, <3>1 DEF ConDocs, ConRaws
    <3>3. s4' = [s4 EXCEPT ![d] = doc]
      BY <1>2, <2>1
    <3> HIDE DEF doc
    <3> QED BY <1>2, <2>1, <3>2, <3>3 DEF ConGrows, ConOver
  <2>2. ASSUME NEW r \in s1.failed, s4' = [s4 EXCEPT ![d].raw = r, ![d].training = FALSE]
        PROVE  \E doc \in D : Is(doc)
    <3> DEFINE doc == [s4[d] EXCEPT !.raw = r, !.training = FALSE]
    <3>1. /\ doc \in D /\ doc.file = s4[d].file /\ doc.there = s4[d].there /\ ~doc.training
          /\ doc.chunks = s4[d].chunks /\ doc.early = s4[d].early /\ doc.chunks \in Nat
      BY <1>4 DEF ConDocs, ConRaws
    <3>2. s4' = [s4 EXCEPT ![d] = doc]
      BY <1>2, <2>2
    <3> HIDE DEF doc
    <3>3. doc.chunks >= s4[d].chunks
      BY <3>1
    <3>4. ConGrows(s4[d], doc) /\ ConOver(doc)
      BY <1>2, <3>1, <3>3 DEF ConGrows, ConOver
    <3> QED BY <3>1, <3>2, <3>4
  <2>3. ASSUME NEW r \in s1.partial, NEW n \in ChunkCounts, n >= s4[d].chunks,
               s4' = [s4 EXCEPT ![d].raw = r, ![d].chunks = n, ![d].early = @ \/ r \in s1.done]
        PROVE  \E doc \in D : Is(doc)
    <3> DEFINE e == s4[d].early \/ r \in s1.done
               doc == [s4[d] EXCEPT !.raw = r, !.chunks = n, !.early = e]
    <3>1. n \in Nat /\ e \in BOOLEAN
      BY <2>3, PageAssumption
    <3>3. s4' = [s4 EXCEPT ![d] = doc]
      BY <1>2, <2>3
    <3>4. (s4[d].early => e) /\ (r \in s1.done => e)
      OBVIOUS
    <3> HIDE DEF e
    <3>2. /\ doc \in D /\ doc.file = s4[d].file /\ doc.there = s4[d].there
          /\ doc.training = s4[d].training /\ doc.chunks = n /\ doc.early = e /\ doc.raw = r
      BY <1>4, <3>1 DEF ConDocs, ConRaws
    <3> HIDE DEF doc
    <3> QED BY <1>2, <2>3, <3>2, <3>3, <3>4 DEF ConGrows, ConOver
  <2> HIDE DEF Is, D
  <2> QED BY <1>2, <2>1, <2>2, <2>3
<1>6. PICK doc \in D : Is(doc)
  BY <1>5
<1>7. s4' \in Seq(D) /\ DOMAIN s4' = DOMAIN s4 /\ s4'[d] = doc
      /\ \A e \in DOMAIN s4 : e # d => s4'[e] = s4[e]
  <2>1. s4' = [s4 EXCEPT ![d] = doc] /\ s4 \in Seq(D) /\ d \in DOMAIN s4 /\ doc \in D
    BY <1>2, <1>6
  <2> HIDE DEF D, Is
  <2> QED BY <2>1, Replaced
<1> HIDE DEF D
<1> QED BY <1>2, <1>6, <1>7 DEF D

LEMMA GrowsSelf == ASSUME NEW S, NEW doc \in ConDocs(S) PROVE ConGrows(doc, doc)
BY DEF ConGrows, ConDocs

LEMMA ConParses == ASSUME ConInv, s1' = s1, Con!RemoteParses PROVE ConInv'
<1> SUFFICES ASSUME ConOwn PROVE ConInv'
  BY DEF ConInv, ConOwn
<1>1. UNCHANGED <<s1, s2, s3, s5, s6, s7, s8, s12>> /\ s2 # "done" /\ s1 \in Con!AllSystems
  BY DEF Con!RemoteParses, ConInv
<1>2. /\ s4 \in Seq(ConDocs(s1)) /\ (s2 = "kb" => s4 = <<>>)
      /\ \A d \in DOMAIN s4 : s4[d].raw \in s1.done => ConOver(s4[d])
  BY DEF ConInv, ConTypes, ConIds
<1>3. PICK d \in DOMAIN s4, doc \in ConDocs(s1) :
        /\ ConGrows(s4[d], doc) /\ (doc.raw \in s1.done => ConOver(doc))
        /\ s4' \in Seq(ConDocs(s1)) /\ DOMAIN s4' = DOMAIN s4 /\ s4'[d] = doc
        /\ \A e \in DOMAIN s4 : e # d => s4'[e] = s4[e]
  BY <1>1, <1>2, Parsed
<1>4. \A e \in DOMAIN s4 : ConGrows(s4[e], s4'[e])
  BY <1>2, <1>3, GrowsSelf
<1>6. \A e \in DOMAIN s4' : s4'[e].raw \in s1.done => ConOver(s4'[e])
  BY <1>2, <1>3
<1>5. s2 # "kb"
  BY <1>2, <1>3, NoElements
<1> QED BY <1>1, <1>3, <1>4, <1>5, <1>6, ConChanges

\* others add a document or take one of theirs away
LEMMA OthersKeep ==
    ASSUME s1 \in Con!AllSystems, s4 \in Seq(ConDocs(s1)), Con!Others
    PROVE  /\ s4' \in Seq(ConDocs(s1)) /\ DOMAIN s4 \subseteq DOMAIN s4'
           /\ \A d \in DOMAIN s4 : s4'[d] = s4[d] \/ s4'[d] = [s4[d] EXCEPT !.there = FALSE]
           /\ \A d \in DOMAIN s4' : d \notin DOMAIN s4 => ~s4'[d].training
<1> DEFINE D == ConDocs(s1)
<1>3. CASE s4' = Append(s4, Con!Doc("other", Con!Anyone, CHOOSE r \in s1.done : TRUE))
  <2> DEFINE raw == CHOOSE r \in s1.done : TRUE
             doc == Con!Doc("other", Con!Anyone, raw)
  <2>1. raw \in s1.done
    <3>1. s1.done # {}
      BY Systems
    <3> QED BY <3>1
  <2> HIDE DEF raw
  <2>2. doc \in D /\ ~doc.training
    BY <2>1 DEF Con!Doc, Con!Anyone, ConDocs, ConRaws, ConNames
  <2>3. s4' = Append(s4, doc)
    BY <1>3 DEF raw
  <2> HIDE DEF doc
  <2>4. /\ s4' \in Seq(D) /\ DOMAIN s4 \subseteq DOMAIN s4' /\ \A d \in DOMAIN s4 : s4'[d] = s4[d]
        /\ \A d \in DOMAIN s4' : d \notin DOMAIN s4 => s4'[d] = doc
    <3>1. s4 \in Seq(D)
      OBVIOUS
    <3> HIDE DEF D
    <3> QED BY <2>2, <2>3, <3>1
  <2> QED BY <2>2, <2>4
<1>4. CASE \E d \in DOMAIN s4 : s4' = [s4 EXCEPT ![d].there = FALSE]
  <2>1. PICK d \in DOMAIN s4 : s4' = [s4 EXCEPT ![d].there = FALSE]
    BY <1>4
  <2> DEFINE doc == [s4[d] EXCEPT !.there = FALSE]
  <2>2. s4[d] \in D
    <3>1. s4 \in Seq(D)
      OBVIOUS
    <3> HIDE DEF D
    <3> QED BY <2>1, <3>1
  <2>3. doc \in D
    BY <2>2 DEF ConDocs
  <2>4. s4' = [s4 EXCEPT ![d] = doc]
    BY <2>1
  <2>5. s4' \in Seq(D) /\ DOMAIN s4' = DOMAIN s4 /\ s4'[d] = doc /\ \A e \in DOMAIN s4 : e # d => s4'[e] = s4[e]
    <3>1. d \in DOMAIN s4 /\ doc \in D /\ s4 \in Seq(D)
      BY <2>1, <2>3
    <3> HIDE DEF doc, D
    <3> QED BY <2>4, <3>1, Replaced
  <2> QED BY <2>5
<1> QED BY <1>3, <1>4 DEF Con!Others

LEMMA ConOthers == ASSUME ConInv, s1' = s1, Con!Others PROVE ConInv'
<1> SUFFICES ASSUME ConOwn PROVE ConInv'
  BY DEF ConInv, ConOwn
<1>1. UNCHANGED <<s1, s2, s3, s5, s6, s7, s8, s12>> /\ s2 \notin {"kb", "done"}
  BY DEF Con!Others
<1>2. /\ s1 \in Con!AllSystems /\ s4 \in Seq(ConDocs(s1))
      /\ \A d \in DOMAIN s4 : s4[d].raw \in s1.done => ConOver(s4[d])
  BY DEF ConInv, ConTypes, ConIds
<1>3. /\ s4' \in Seq(ConDocs(s1)) /\ DOMAIN s4 \subseteq DOMAIN s4'
      /\ \A d \in DOMAIN s4 : s4'[d] = s4[d] \/ s4'[d] = [s4[d] EXCEPT !.there = FALSE]
      /\ \A d \in DOMAIN s4' : d \notin DOMAIN s4 => ~s4'[d].training
  BY <1>2, OthersKeep
<1>4. ASSUME NEW d \in DOMAIN s4
      PROVE  ConGrows(s4[d], s4'[d]) /\ (s4'[d].raw \in s1.done => ConOver(s4'[d]))
  <2>1. s4[d] \in ConDocs(s1)
    BY <1>2
  <2>2. /\ s4'[d].file = s4[d].file /\ s4'[d].raw = s4[d].raw /\ s4'[d].chunks = s4[d].chunks
        /\ s4'[d].training = s4[d].training /\ s4'[d].early = s4[d].early /\ s4[d].chunks \in Nat
    BY <1>3, <2>1 DEF ConDocs
  <2> QED BY <1>2, <2>2 DEF ConGrows, ConOver
<1>5. \A d \in DOMAIN s4' : s4'[d].raw \in s1.done => ConOver(s4'[d])
  BY <1>3, <1>4 DEF ConOver
<1> QED BY <1>1, <1>3, <1>4, <1>5, ConChanges

LEMMA ConInitial == Con!Init => ConInv
<1> SUFFICES ASSUME Con!Init, ConOwn PROVE ConTypes /\ ConIds /\ ConListed /\ ConGot
  BY DEF ConInv, Con!Init
<1>1. /\ s2 = "kb" /\ s3 = 1 /\ s8 = 0 /\ s4 = <<>> /\ s6 = <<>> /\ s7 = <<>>
      /\ s5 = [f \in DOMAIN Files |-> Con!NoDoc] /\ s12 = [f \in DOMAIN Files |-> <<>>]
  BY DEF Con!Init
<1>2. ConTypes
  BY <1>1, NoElements DEF ConTypes, ConSteps
<1>3. ConIds /\ Con!Wanted = {}
  BY <1>1 DEF ConIds, Con!Wanted
<1>4. ConListed
  BY <1>1, <1>3 DEF ConListed
<1>5. ConGot
  BY <1>1 DEF ConGot
<1> QED BY <1>2, <1>3, <1>4, <1>5

LEMMA ConStep == ASSUME ConInv, [Con!Next]_Con!vars PROVE ConInv'
<1>1. CASE Con!Next
  BY <1>1, SysStays, ConChooses, ConUploads, ConRemembers, ConLists, ConReads, ConParses, ConOthers DEF Con!Next
<1>2. CASE UNCHANGED Con!vars
  <2>1. UNCHANGED <<s1, s2, s3, s4, s5, s6, s7, s8, s12>>
    BY <1>2 DEF Con!vars
  <2>2. Con!Wanted' = Con!Wanted /\ \A f : (Con!Readable(f)' <=> Con!Readable(f)) /\ Con!Chunks(s5[f])' = Con!Chunks(s5[f])
    BY <2>1, ReadingStays DEF Con!Wanted
  <2>3. \A f : (ConWhole(f)' <=> ConWhole(f)) /\ (ConPart(f)' <=> ConPart(f))
    BY <2>1, <2>2 DEF ConWhole, ConPart, ConFirst, Con!FirstChunks
  <2>4. (ConOwn' <=> ConOwn) /\ (ConTypes' <=> ConTypes) /\ (ConIds' <=> ConIds)
    BY <2>1 DEF ConOwn, ConTypes, ConIds
  <2>5. (ConListed' <=> ConListed) /\ (ConGot' <=> ConGot)
    BY <2>1, <2>2, <2>3 DEF ConListed, ConGot
  <2> QED BY <2>1, <2>4, <2>5 DEF ConInv
<1> QED BY <1>1, <1>2

LEMMA ConSound == ConInv => Con!ChunksAreOwn
<1> SUFFICES ASSUME ConInv, s1.upload = "id", s2 = "done",
                    NEW f \in DOMAIN Files, Con!Readable(f), s12[f] # Con!Unread
             PROVE  /\ s4[s5[f]].file = f
                    /\ \E n \in 0 .. s4[s5[f]].chunks : s12[f] = Con!FirstChunks(s5[f], n)
                    /\ ~s4[s5[f]].early => s12[f] = Con!Chunks(s5[f])
  BY DEF Con!ChunksAreOwn
<1>1. ConOwn /\ s5[f] # Con!NoDoc
  BY DEF ConOwn, Con!Readable
<1>2. ConTypes /\ ConIds /\ ConGot
  BY <1>1 DEF ConInv
<1>3. ConWhole(f) /\ s4[s5[f]].chunks \in Nat
  BY <1>2, ChunksOf DEF ConGot
<1>4. \E n \in 0 .. s4[s5[f]].chunks : s12[f] = Con!FirstChunks(s5[f], n)
  BY <1>3 DEF ConWhole, ConFirst
<1> QED BY <1>1, <1>2, <1>3, <1>4 DEF ConIds, ConWhole

\* The chunks a session has read for a file are those of the document it uploaded for that
\* file, the first ones and in order, and all of them unless the document was shown as done
\* while it was being trained; for every connector that takes the id from the answer
\* (api_ingest/*.py).
THEOREM ChunksAreOwnThm == Spec => []ChunksAreOwn
<1>1. Init => (focus = "con" => ConInv)
  BY ConInitial DEF Init
<1>2. (focus = "con" => ConInv) /\ [Next]_vars => (focus = "con" => ConInv)'
  <2> SUFFICES ASSUME ConInv, [Next]_vars, focus = "con" PROVE ConInv'
    BY DEF Next, vars
  <2>1. [Con!Next]_Con!vars
    BY DEF Next, vars, Con!vars
  <2> QED BY <2>1, ConStep
<1>3. (focus = "con" => ConInv) => ChunksAreOwn
  BY ConSound DEF ChunksAreOwn
<1> QED BY <1>1, <1>2, <1>3, PTL DEF Spec

-----------------------------------------------------------------------------
(* The wait of a session for its documents.  s11 is quiet.                 *)

WaitTypes ==
    /\ s1 \in Con!AllSystems /\ s3 \in Nat \ {0} /\ s8 \in Nat
    /\ s4 \in Seq(ConDocs(s1)) /\ DOMAIN s5 = DOMAIN Files
\* where a listing shows the uploads of the session only, what it waits for is one of them
WaitFiles ==
    /\ s2 = "kb" => \A f \in DOMAIN Files : s5[f] = Con!NoDoc
    /\ s1.list = "own" =>
         /\ s2 = "name" => s3 \in DOMAIN Files /\ \E d \in DOMAIN s4 : s4[d].file = s3
         /\ \A f \in DOMAIN Files :
              s5[f] \notin {Con!NoDoc, 0} => s5[f] \in DOMAIN s4 /\ s4[s5[f]].file = f
WaitLast ==
    /\ s2 \in {"kb", "upload", "name"} => s7 = <<>>
    /\ s2 \in {"list", "sleep"} => DOMAIN s7 \subseteq Con!Wanted
    /\ s2 \in {"kb", "upload", "name", "sleep"} => s8 = 0
\* while nobody interferes, every wanted document on a page that was read is known as settled
WaitQuiet ==
    s2 = "list" /\ s11 =>
      /\ Con!AllSettled
      /\ s1.list # "newest" =>
           \A p \in DOMAIN Con!Listed :
             p <= s8 /\ Con!Listed[p] \in Con!Wanted =>
               Con!Listed[p] \in DOMAIN s6 /\ s6[Con!Listed[p]] # "busy"
WaitInv == WaitTypes /\ WaitFiles /\ WaitLast /\ WaitQuiet /\ Con!TimeoutIsReal

LEMMA ConFlatten == \A s : Con!Seqs!FlattenSeq(s) = Flatten(s)
BY DEF Flatten, Con!Seqs!FlattenSeq, Rag!Seqs!FlattenSeq

\* a listing that is not sorted has every document that it shows at all
LEMMA ListedHas ==
    ASSUME s4 \in Seq(ConDocs(s1)), s1.list # "newest"
    PROVE  /\ Con!Listed \in Seq(Nat)
           /\ \A d \in DOMAIN s4 :
                s4[d].there /\ (s1.list = "own" => s4[d].file # Con!Anyone) =>
                  \E p \in DOMAIN Con!Listed : Con!Listed[p] = d
<1> DEFINE show(i) == IF s4[i].there /\ (s1.list = "own" => s4[i].file # Con!Anyone) THEN <<i>> ELSE <<>>
           one == [i \in DOMAIN s4 |-> show(i)]
<1>1. Con!Listed = Flatten(one)
  BY ConFlatten DEF Con!Listed
<1>2. DOMAIN s4 = 1 .. Len(s4) /\ Len(s4) \in Nat
  BY LenProperties
<1>3. \A i \in 1 .. Len(s4) : show(i) \in Seq(Nat)
  <2>1. \A i \in 1 .. Len(s4) : <<i>> \in Seq(Nat) /\ <<>> \in Seq(Nat)
    BY <1>2
  <2> QED BY <2>1
<1> HIDE DEF show
<1>4. one \in Seq(Seq(Nat))
  BY <1>2, <1>3
<1>5. ASSUME NEW d \in DOMAIN s4, s4[d].there /\ (s1.list = "own" => s4[d].file # Con!Anyone)
      PROVE  \E p \in DOMAIN Flatten(one) : Flatten(one)[p] = d
  <2>1. one[d] = <<d>> /\ d \in DOMAIN one /\ 1 \in DOMAIN one[d] /\ one[d][1] = d
    BY <1>5 DEF show
  <2> HIDE DEF one
  <2>2. \E p \in DOMAIN Flatten(one) : Flatten(one)[p] = one[d][1]
    <3>1. one \in Seq(Seq(Nat)) /\ d \in DOMAIN one /\ 1 \in DOMAIN one[d]
      BY <1>4, <2>1
    <3> QED BY ONLY <3>1, FlattenHas
  <2> QED BY <2>1, <2>2
<1> HIDE DEF one
<1> QED BY <1>1, <1>4, <1>5, FlattenTypes

\* what a listing shows depends on whether the documents are there and whose they are
LEMMA ListedStays ==
    ASSUME s1' = s1, DOMAIN s4' = DOMAIN s4, s2' = s2, s5' = s5,
           \A d \in DOMAIN s4 : s4'[d].there = s4[d].there /\ s4'[d].file = s4[d].file
    PROVE  Con!Listed' = Con!Listed /\ Con!Wanted' = Con!Wanted
<1> DEFINE show(i) == IF s4[i].there /\ (s1.list = "own" => s4[i].file # Con!Anyone) THEN <<i>> ELSE <<>>
<1>1. [i \in DOMAIN s4 |-> show(i)]' = [i \in DOMAIN s4 |-> show(i)]
  OBVIOUS
<1>2. Con!Wanted' = Con!Wanted
  BY DEF Con!Wanted
<1> QED BY <1>1, <1>2 DEF Con!Listed

LEMMA WaitStart == Con!Init => WaitInv
<1> SUFFICES ASSUME Con!Init PROVE WaitInv
  OBVIOUS
<1>1. /\ s1 \in Con!AllSystems /\ s2 = "kb" /\ s3 = 1 /\ s8 = 0 /\ s4 = <<>> /\ s7 = <<>>
      /\ s5 = [f \in DOMAIN Files |-> Con!NoDoc]
  BY DEF Con!Init
<1>2. WaitTypes
  BY <1>1, NoElements DEF WaitTypes
<1> QED BY <1>1, <1>2 DEF WaitInv, WaitFiles, WaitLast, WaitQuiet, Con!TimeoutIsReal

LEMMA WaitChooses == ASSUME WaitInv, s1' = s1, Con!ChooseKb \/ Con!CreateKb PROVE WaitInv'
<1>1. /\ s2 = "kb" /\ s2' = "upload" /\ s4' \in {<<>>, Con!OldDocs}
      /\ UNCHANGED <<s3, s5, s6, s7, s8>>
  BY DEF Con!ChooseKb, Con!CreateKb
<1>2. WaitTypes /\ WaitFiles /\ WaitLast
  BY DEF WaitInv
<1>3. s4' \in Seq(ConDocs(s1))
  BY <1>1, <1>2, OldOnes, NoElements DEF WaitTypes
<1>4. WaitTypes'
  BY <1>1, <1>2, <1>3 DEF WaitTypes
<1>5. WaitFiles' /\ WaitLast'
  BY <1>1, <1>2 DEF WaitFiles, WaitLast
<1> QED BY <1>1, <1>4, <1>5 DEF WaitInv, WaitQuiet, Con!TimeoutIsReal

LEMMA WaitUploads == ASSUME WaitInv, s1' = s1, Con!UploadDocument PROVE WaitInv'
<1>1. /\ s2 = "upload" /\ s2' = "name" /\ s3 <= Len(Files)
      /\ UNCHANGED <<s3, s5, s6, s7, s8>>
  BY DEF Con!UploadDocument
<1>2. WaitTypes /\ WaitFiles /\ WaitLast
  BY DEF WaitInv
<1>3. s3 \in DOMAIN Files /\ s3 \in Nat /\ s4 \in Seq(ConDocs(s1))
  BY <1>1, <1>2, FilesAssumption DEF WaitTypes
<1> DEFINE old == {d \in DOMAIN s4 : s4[d].there /\ s4[d].name = Files[s3]}
<1>4. PICK r \in s1.busy :
        s4' = IF s1.upload = "keyed" /\ old # {}
              THEN [s4 EXCEPT ![CHOOSE d \in old : TRUE] = Con!Doc(Files[s3], s3, r)]
              ELSE Append(s4, Con!Doc(Files[s3], s3, r))
  BY DEF Con!UploadDocument
<1> DEFINE doc == Con!Doc(Files[s3], s3, r)
<1>5. doc \in ConDocs(s1) /\ doc.file = s3
  BY <1>3 DEF Con!Doc, Con!Anyone, ConDocs, ConRaws, ConNames
<1>6. CASE s1.upload = "keyed" /\ old # {}
  <2> DEFINE d == CHOOSE d \in old : TRUE
  <2>1. d \in DOMAIN s4
    BY <1>6
  <2>2. s4' = [s4 EXCEPT ![d] = doc]
    BY <1>4, <1>6
  <2>3. s1.list # "own"
    BY <1>2, <1>6, Systems DEF WaitTypes
  <2> HIDE DEF d, doc, old
  <2>4. s4' \in Seq(ConDocs(s1))
    BY <1>3, <1>5, <2>1, <2>2, Replaced
  <2> QED BY <1>1, <1>2, <2>3, <2>4 DEF WaitInv, WaitTypes, WaitFiles, WaitLast, WaitQuiet, Con!TimeoutIsReal
<1>7. CASE ~(s1.upload = "keyed" /\ old # {})
  <2>1. s4' = Append(s4, doc)
    BY <1>4, <1>7
  <2> HIDE DEF doc, old
  <2>2. /\ s4' \in Seq(ConDocs(s1)) /\ DOMAIN s4' = DOMAIN s4 \cup {Len(s4) + 1}
        /\ \A d \in DOMAIN s4 : s4'[d] = s4[d]
        /\ s4'[Len(s4) + 1] = doc
    BY <1>3, <1>5, <2>1, ConAppends
  <2>3. WaitFiles'
    BY <1>1, <1>2, <1>3, <1>5, <2>2 DEF WaitFiles
  <2> QED BY <1>1, <1>2, <2>2, <2>3 DEF WaitInv, WaitTypes, WaitLast, WaitQuiet, Con!TimeoutIsReal
<1> QED BY <1>6, <1>7

LEMMA WaitRemembers == ASSUME WaitInv, s1' = s1, Con!NameDocument \/ Con!UploadFails PROVE WaitInv'
<1>1. /\ s2 \in {"upload", "name"} /\ s2' = "upload" /\ s3' = s3 + 1 /\ UNCHANGED <<s4, s6, s7, s8>>
  BY DEF Con!NameDocument, Con!UploadFails
<1>2. WaitTypes /\ WaitFiles /\ WaitLast
  BY DEF WaitInv
<1>3. DOMAIN s5' = DOMAIN Files
  BY <1>2 DEF WaitTypes, Con!NameDocument, Con!UploadFails
<1>4. WaitFiles'
  <2>1. CASE Con!UploadFails
    BY <1>1, <1>2, <2>1 DEF Con!UploadFails, WaitFiles
  <2>2. CASE Con!NameDocument
    <3> SUFFICES ASSUME s1.list = "own" PROVE WaitFiles'
      BY <1>1 DEF WaitFiles
    <3> DEFINE mine == CHOOSE d \in DOMAIN s4 : s4[d].file = s3
    <3>1. s3 \in DOMAIN Files /\ \E d \in DOMAIN s4 : s4[d].file = s3
      BY <1>2, <2>2 DEF WaitFiles, Con!NameDocument
    <3>2. mine \in DOMAIN s4 /\ s4[mine].file = s3
      BY <3>1
    <3>3. \E id \in Con!IdOf(mine) : s5' = [s5 EXCEPT ![s3] = id]
      BY <2>2 DEF Con!NameDocument
    <3> HIDE DEF mine
    <3>4. s1.upload \in {"id", "id_or_name"}
      BY <1>2, Systems DEF WaitTypes
    <3>5. Con!IdOf(mine) \subseteq {mine, 0}
      BY <3>4 DEF Con!IdOf
    <3>6. PICK id \in {mine, 0} : s5' = [s5 EXCEPT ![s3] = id]
      BY <3>3, <3>5
    <3> QED BY <1>1, <1>2, <3>1, <3>2, <3>6 DEF WaitFiles, WaitTypes
  <2> QED BY <2>1, <2>2
<1> QED BY <1>1, <1>2, <1>3, <1>4 DEF WaitInv, WaitTypes, WaitLast, WaitQuiet, Con!TimeoutIsReal

\* a listing begins: no page of it is read
LEMMA WaitBegins == ASSUME WaitInv, s1' = s1, Con!TriggerParse \/ Con!Poll PROVE WaitInv'
<1>1. /\ UNCHANGED <<s3, s4, s5, s6, s7, s8>> /\ s2 \in {"upload", "sleep"} /\ s2' \in {"list", "failed"}
      /\ s2' = "list" => s11' = Con!AllSettled
  BY DEF Con!TriggerParse, Con!Poll
<1>2. WaitTypes /\ WaitFiles /\ WaitLast
  BY DEF WaitInv
<1>3. Con!AllSettled' <=> Con!AllSettled
  BY <1>1 DEF Con!AllSettled, Con!Settled, Con!Wanted, Con!StatusOf
<1>4. s8' = 0 /\ Con!Wanted' = Con!Wanted
  BY <1>1, <1>2 DEF WaitLast, Con!Wanted
<1>5. ~\E p \in DOMAIN Con!Listed' : p <= 0 /\ s1.list # "newest"
  <2>1. s1.list # "newest" => Con!Listed \in Seq(Nat)
    BY <1>2, ListedHas DEF WaitTypes
  <2>2. Con!Listed' = Con!Listed
    BY <1>1 DEF Con!Listed
  <2>3. s1.list # "newest" => \A p \in DOMAIN Con!Listed : ~(p <= 0)
    BY <2>1, LenProperties
  <2> QED BY <2>2, <2>3
<1>6. WaitQuiet'
  BY <1>1, <1>3, <1>4, <1>5 DEF WaitQuiet
<1>7. WaitTypes' /\ WaitFiles'
  BY <1>1, <1>2 DEF WaitTypes, WaitFiles
<1>8. WaitLast'
  BY <1>1, <1>2, <1>4, NoElements DEF WaitLast
<1> QED BY <1>1, <1>6, <1>7, <1>8 DEF WaitInv, Con!TimeoutIsReal

\* While nobody interferes: a page of the listing is read, and what it shows is settled; the
\* last page leaves no position of the listing out.
LEMMA ReachCovers ==
    ASSUME WaitTypes, s1.list \in {"pages", "whole", "own"}, NEW p \in DOMAIN Con!Listed,
           \/ Con!Another(Con!Listed) /\ p <= s8 + Len(Con!Reach)
           \/ ~Con!Another(Con!Listed)
    PROVE  p <= s8 \/ \E i \in DOMAIN Con!Reach : Con!Reach[i] = Con!Listed[p]
<1> DEFINE L == Con!Listed
           m == IF s8 + Page < Len(L) THEN s8 + Page ELSE Len(L)
<1>1. L \in Seq(Nat) /\ s8 \in Nat /\ Page \in Nat \ {0}
  BY ListedHas, PageAssumption DEF WaitTypes
<1>2. CASE s1.list \in {"whole", "own"}
  BY <1>2 DEF Con!Reach
<1>3. CASE s1.list = "pages"
  <2>1. Con!Reach = SubSeq(L, s8 + 1, m)
    BY <1>3 DEF Con!Reach, Con!PageOf
  <2>2. Con!Another(Con!Listed) <=> Len(Con!Reach) = Page /\ s8 + Page < Len(L)
    BY <1>3 DEF Con!Another
  <2>3. p \in 1 .. Len(L) /\ Len(L) \in Nat
    BY <1>1, LenProperties
  <2> DEFINE reach == Con!Reach
  <2> HIDE DEF L, reach
  <2> SUFFICES ASSUME ~(p <= s8) PROVE \E i \in DOMAIN reach : reach[i] = L[p]
    BY DEF L, reach
  <2>4. s8 + 1 <= m /\ m <= Len(L) /\ m \in Nat
    BY <1>1, <2>3
  <2>5. /\ reach \in Seq(Nat) /\ Len(reach) = m - s8
        /\ \A i \in 1 .. m - s8 : reach[i] = L[s8 + i]
    <3>1. reach = SubSeq(L, s8 + 1, m)
      BY <2>1 DEF reach, L
    <3> HIDE DEF m
    <3>2. s8 + 1 \in Int /\ m \in Int /\ s8 \in Nat /\ m \in Nat /\ s8 + 1 <= m
          /\ \A i \in (s8 + 1) .. m : L[i] \in Nat
      <4>1. \A i \in (s8 + 1) .. m : i \in 1 .. Len(L)
        BY <1>1, <2>3, <2>4
      <4> QED BY <1>1, <2>4, <4>1, ElementOfSeq
    <3>3. /\ reach \in Seq(Nat)
          /\ Len(reach) = IF s8 + 1 <= m THEN m - (s8 + 1) + 1 ELSE 0
          /\ \A i \in 1 .. m - (s8 + 1) + 1 : reach[i] = L[s8 + 1 + i - 1]
      BY <3>1, <3>2, SubSeqProperties
    <3>4. m - (s8 + 1) + 1 = m - s8 /\ \A i \in 1 .. m - s8 : s8 + 1 + i - 1 = s8 + i
      BY <3>2
    <3> QED BY <3>2, <3>3, <3>4
  <2>6. p <= m
    <3>1. CASE Con!Another(Con!Listed)
      <4>1. Len(reach) = Page /\ s8 + Page < Len(L) /\ p <= s8 + Len(reach)
        BY <2>2, <3>1 DEF reach
      <4> QED BY <1>1, <2>3, <4>1
    <3>2. CASE ~Con!Another(Con!Listed)
      <4>1. ~(Len(reach) = Page /\ s8 + Page < Len(L))
        BY <2>2, <3>2 DEF reach
      <4> QED BY <1>1, <2>3, <2>5, <4>1
    <3> QED BY <3>1, <3>2
  <2> HIDE DEF m
  <2>7. p - s8 \in 1 .. m - s8 /\ s8 + (p - s8) = p /\ DOMAIN reach = 1 .. m - s8
    <3>1. s8 \in Nat /\ m \in Nat /\ p \in Nat /\ s8 + 1 <= p /\ p <= m
      BY <1>1, <2>3, <2>4, <2>6
    <3>2. p - s8 \in 1 .. m - s8 /\ s8 + (p - s8) = p
      BY ONLY <3>1
    <3>3. DOMAIN reach = 1 .. m - s8
      BY <2>5, LenProperties
    <3> QED BY <3>2, <3>3
  <2> QED BY <2>5, <2>7
<1> QED BY <1>2, <1>3

LEMMA NowIs ==
    LET now == Con!Now(Con!Reach)
        ids == {Con!Reach[i] : i \in DOMAIN Con!Reach}
    IN /\ DOMAIN now = DOMAIN s6 \cup ids
       /\ \A d \in DOMAIN now : now[d] = IF d \in ids THEN Con!StatusOf(s4[d].raw) ELSE s6[d]
<1> DEFINE now == Con!Now(Con!Reach)
           ids == {Con!Reach[i] : i \in DOMAIN Con!Reach}
<1>1. now = [d \in DOMAIN s6 \cup ids |-> IF d \in ids THEN Con!StatusOf(s4[d].raw) ELSE s6[d]]
  BY DEF Con!Now
<1> HIDE DEF now, ids
<1>2. /\ DOMAIN now = DOMAIN s6 \cup ids
      /\ \A d \in DOMAIN now : now[d] = IF d \in ids THEN Con!StatusOf(s4[d].raw) ELSE s6[d]
  BY <1>1
<1> QED BY <1>2 DEF now, ids

\* a wanted document within reach is known, and known as settled
LEMMA NowSettled ==
    ASSUME WaitTypes, WaitQuiet, s2 = "list", s11, s1.list \in {"pages", "whole", "own"},
           NEW p \in DOMAIN Con!Listed, Con!Listed[p] \in Con!Wanted,
           \/ Con!Another(Con!Listed) /\ p <= s8 + Len(Con!Reach)
           \/ ~Con!Another(Con!Listed)
    PROVE  /\ Con!Listed[p] \in DOMAIN Con!Now(Con!Reach)
           /\ Con!Now(Con!Reach)[Con!Listed[p]] # "busy"
<1> DEFINE d == Con!Listed[p]
           now == Con!Now(Con!Reach)
           ids == {Con!Reach[i] : i \in DOMAIN Con!Reach}
<1>1. /\ DOMAIN now = DOMAIN s6 \cup ids
      /\ \A e \in DOMAIN now : now[e] = IF e \in ids THEN Con!StatusOf(s4[e].raw) ELSE s6[e]
  BY NowIs
<1>2. Con!StatusOf(s4[d].raw) # "busy"
  BY DEF WaitQuiet, Con!AllSettled, Con!Settled
<1>3. d \in ids \/ (d \in DOMAIN s6 /\ s6[d] # "busy")
  BY ReachCovers DEF WaitQuiet
<1> HIDE DEF now, ids
<1> QED BY <1>1, <1>2, <1>3 DEF now

LEMMA WaitListPage == ASSUME WaitInv, s1' = s1, Con!ListPage PROVE WaitInv'
<1>1. /\ UNCHANGED <<s2, s3, s4, s5, s7, s11>> /\ s2 = "list" /\ Con!Another(Con!Listed)
      /\ s6' = Con!Now(Con!Reach) /\ s8' = s8 + Len(Con!Reach)
  BY DEF Con!ListPage
<1>2. WaitTypes /\ WaitFiles /\ WaitLast /\ WaitQuiet
  BY DEF WaitInv
<1>3. /\ Con!Listed' = Con!Listed /\ Con!Wanted' = Con!Wanted
      /\ Con!AllSettled' <=> Con!AllSettled
  BY <1>1 DEF Con!Listed, Con!Wanted, Con!AllSettled, Con!Settled, Con!StatusOf
<1>4. s8' \in Nat /\ s1.list = "pages"
  <2>1. Len(Con!Reach) = Page /\ s1.list = "pages"
    BY <1>1 DEF Con!Another
  <2> QED BY <1>1, <1>2, <2>1, PageAssumption DEF WaitTypes
<1>5. WaitQuiet'
  <2> SUFFICES ASSUME s11, NEW p \in DOMAIN Con!Listed, p <= s8', Con!Listed[p] \in Con!Wanted
               PROVE  Con!Listed[p] \in DOMAIN s6' /\ s6'[Con!Listed[p]] # "busy"
    BY <1>1, <1>2, <1>3 DEF WaitQuiet
  <2> QED BY <1>1, <1>2, <1>4, NowSettled
<1> QED BY <1>1, <1>2, <1>3, <1>4, <1>5 DEF WaitInv, WaitTypes, WaitFiles, WaitLast, Con!TimeoutIsReal

\* the last page: with all documents settled and nobody interfering there is enough
LEMMA EnoughWhenQuiet ==
    ASSUME WaitInv, s2 = "list", s11, s1.list \in {"pages", "whole", "own"}, ~Con!Another(Con!Listed)
    PROVE  Con!Enough
<1> DEFINE now == Con!Now(Con!Reach)
<1>1. WaitTypes /\ WaitFiles /\ WaitLast /\ WaitQuiet /\ DOMAIN s7 \subseteq Con!Wanted
  BY DEF WaitInv, WaitLast
<1>2. ASSUME NEW d \in Con!Wanted PROVE d \in DOMAIN now /\ now[d] # "busy"
  <2>1. d \in DOMAIN s4 /\ s4[d].there
    BY <1>1 DEF WaitQuiet, Con!AllSettled, Con!Settled
  <2>2. s1.list = "own" => s4[d].file # Con!Anyone
    <3> SUFFICES ASSUME s1.list = "own" PROVE s4[d].file # Con!Anyone
      OBVIOUS
    <3>1. PICK f \in DOMAIN Files : d = s5[f] /\ d # Con!NoDoc
      BY DEF Con!Wanted
    <3>2. d # 0
      BY <1>1, <2>1, LenProperties DEF WaitTypes
    <3>3. s4[d].file = f
      BY <1>1, <3>1, <3>2 DEF WaitFiles
    <3> QED BY <3>3, FilesAssumption DEF Con!Anyone
  <2>3. PICK p \in DOMAIN Con!Listed : Con!Listed[p] = d
    BY <1>1, <2>1, <2>2, ListedHas DEF WaitTypes
  <2> QED BY <1>1, <2>3, NowSettled
<1> HIDE DEF now
<1>3. DOMAIN s7 \cup (DOMAIN now \cap Con!Wanted) = Con!Wanted
  BY <1>1, <1>2
<1>4. Con!Known = [d \in Con!Wanted |-> now[d]]
  <2>1. Con!Known = [d \in DOMAIN s7 \cup (DOMAIN now \cap Con!Wanted) |-> IF d \in DOMAIN now THEN now[d] ELSE s7[d]]
    BY DEF Con!Known, now
  <2> QED BY <1>2, <1>3, <2>1
<1> QED BY <1>2, <1>4 DEF Con!Enough

LEMMA WaitEnds == ASSUME WaitInv, s1' = s1, Con!ListEnds PROVE WaitInv'
<1>1. /\ UNCHANGED <<s4, s5, s11>> /\ s3' \in {s3, 1} /\ s2 = "list" /\ ~Con!Another(Con!Listed)
      /\ s7' = Con!Known /\ s8' = 0 /\ s2' \in {"failed", "read", "timeout", "sleep"}
      /\ s2' = "timeout" => ~Con!Enough
  BY DEF Con!ListEnds
<1>2. WaitTypes /\ WaitFiles /\ WaitLast
  BY DEF WaitInv
<1>3. DOMAIN s7' \subseteq Con!Wanted'
  <2>1. Con!Wanted' = Con!Wanted /\ DOMAIN s7 \subseteq Con!Wanted
    BY <1>1, <1>2 DEF Con!Wanted, WaitLast
  <2> QED BY <1>1, <2>1 DEF Con!Known
<1>4. Con!TimeoutIsReal'
  BY <1>1, EnoughWhenQuiet DEF Con!TimeoutIsReal
<1>5. WaitTypes' /\ WaitFiles'
  BY <1>1, <1>2 DEF WaitTypes, WaitFiles
<1> QED BY <1>1, <1>3, <1>4, <1>5 DEF WaitInv, WaitLast, WaitQuiet

\* a listing that fails, and what comes after the wait
LEMMA WaitIsOver ==
    ASSUME WaitInv, s1' = s1,
           Con!ListFails \/ Con!ReadChunks \/ Con!ReadFails \/ Con!SkipFile \/ Con!Done
    PROVE  WaitInv'
<1>1. /\ UNCHANGED <<s4, s5, s7, s11>> /\ s3' \in {s3, s3 + 1} /\ s8' \in {s8, 0, s8 + Page}
      /\ s2' \in {"failed", "read", "done"}
  BY DEF Con!ListFails, Con!ReadChunks, Con!ReadFails, Con!SkipFile, Con!Done
<1>2. WaitTypes /\ WaitFiles
  BY DEF WaitInv
<1>3. WaitTypes' /\ WaitFiles'
  BY <1>1, <1>2, PageAssumption DEF WaitTypes, WaitFiles
<1> QED BY <1>1, <1>3 DEF WaitInv, WaitLast, WaitQuiet, Con!TimeoutIsReal

\* a document is parsed, or shown as unsettled again, which the listing is told of
LEMMA WaitParses == ASSUME WaitInv, s1' = s1, Con!RemoteParses PROVE WaitInv'
<1>1. UNCHANGED <<s2, s3, s5, s6, s7, s8>> /\ s2 # "timeout" /\ s11' = (s11 /\ Con!AllSettled')
  BY DEF Con!RemoteParses
<1>2. WaitTypes /\ WaitFiles /\ WaitLast /\ WaitQuiet
  BY DEF WaitInv
<1>3. PICK d \in DOMAIN s4, doc \in ConDocs(s1) :
        /\ ConGrows(s4[d], doc) /\ doc.there = s4[d].there
        /\ s4' \in Seq(ConDocs(s1)) /\ DOMAIN s4' = DOMAIN s4 /\ s4'[d] = doc
        /\ \A e \in DOMAIN s4 : e # d => s4'[e] = s4[e]
  BY <1>2, Parsed DEF WaitTypes
<1>4. \A e \in DOMAIN s4 : s4'[e].there = s4[e].there /\ s4'[e].file = s4[e].file
  BY <1>3 DEF ConGrows
<1>5. Con!Listed' = Con!Listed /\ Con!Wanted' = Con!Wanted
  BY <1>1, <1>3, <1>4, ListedStays
<1>6. WaitQuiet'
  BY <1>1, <1>2, <1>5 DEF WaitQuiet
<1>7. WaitFiles'
  BY <1>1, <1>2, <1>3, <1>4 DEF WaitFiles
<1>8. WaitTypes' /\ WaitLast' /\ Con!TimeoutIsReal'
  BY <1>1, <1>2, <1>3, <1>5 DEF WaitTypes, WaitLast, Con!TimeoutIsReal
<1> QED BY <1>6, <1>7, <1>8 DEF WaitInv

LEMMA WaitOthers == ASSUME WaitInv, s1' = s1, Con!Others PROVE WaitInv'
<1> DEFINE D == ConDocs(s1)
<1>1. UNCHANGED <<s2, s3, s5, s6, s7, s8>> /\ ~s11' /\ s2 \in {"upload", "name", "list", "sleep"}
  BY DEF Con!Others
<1>2. WaitTypes /\ WaitFiles /\ WaitLast
  BY DEF WaitInv
<1>3. /\ s4' \in Seq(D) /\ DOMAIN s4 \subseteq DOMAIN s4'
      /\ \A d \in DOMAIN s4 : s4'[d].file = s4[d].file
  <2>1. /\ s4' \in Seq(D) /\ DOMAIN s4 \subseteq DOMAIN s4'
        /\ \A d \in DOMAIN s4 : s4'[d] = s4[d] \/ s4'[d] = [s4[d] EXCEPT !.there = FALSE]
    BY <1>2, OthersKeep DEF WaitTypes
  <2>2. \A d \in DOMAIN s4 : s4[d] \in ConDocs(s1)
    BY <1>2 DEF WaitTypes
  <2>3. \A d \in DOMAIN s4 : [s4[d] EXCEPT !.there = FALSE].file = s4[d].file
    BY <2>2 DEF ConDocs
  <2> QED BY <2>1, <2>3
<1>4. WaitTypes' /\ WaitFiles'
  BY <1>1, <1>2, <1>3 DEF WaitTypes, WaitFiles
<1>5. Con!Wanted' = Con!Wanted
  BY <1>1 DEF Con!Wanted
<1> QED BY <1>1, <1>2, <1>4, <1>5 DEF WaitInv, WaitLast, WaitQuiet, Con!TimeoutIsReal

LEMMA WaitStep == ASSUME WaitInv, [Con!Next]_Con!vars PROVE WaitInv'
<1>1. CASE Con!Next
  BY <1>1, SysStays, WaitChooses, WaitUploads, WaitRemembers, WaitBegins, WaitListPage, WaitEnds, WaitIsOver,
     WaitParses, WaitOthers DEF Con!Next
<1>2. CASE UNCHANGED Con!vars
  <2>1. UNCHANGED <<s1, s2, s3, s4, s5, s6, s7, s8, s11>>
    BY <1>2 DEF Con!vars
  <2>2. Con!Wanted' = Con!Wanted /\ Con!Listed' = Con!Listed /\ (Con!AllSettled' <=> Con!AllSettled)
    BY <2>1 DEF Con!Wanted, Con!Listed, Con!AllSettled, Con!Settled, Con!StatusOf
  <2>3. (WaitTypes' <=> WaitTypes) /\ (WaitFiles' <=> WaitFiles)
    BY <2>1 DEF WaitTypes, WaitFiles
  <2>4. (WaitLast' <=> WaitLast) /\ (WaitQuiet' <=> WaitQuiet) /\ (Con!TimeoutIsReal' <=> Con!TimeoutIsReal)
    BY <2>1, <2>2 DEF WaitLast, WaitQuiet, Con!TimeoutIsReal
  <2> QED BY <2>3, <2>4 DEF WaitInv
<1> QED BY <1>1, <1>2

\* A wait gives up only when a document it waits for is unsettled at some time of the last
\* listing, or somebody changes the knowledge base under it, for every connector that reads
\* the whole listing (wait_until_parsed and the list_documents of api_ingest/*.py).
THEOREM TimeoutIsRealThm == Spec => []TimeoutIsReal
<1>1. Init => (focus = "con" => WaitInv)
  BY WaitStart DEF Init
<1>2. (focus = "con" => WaitInv) /\ [Next]_vars => (focus = "con" => WaitInv)'
  <2> SUFFICES ASSUME WaitInv, [Next]_vars, focus = "con" PROVE WaitInv'
    BY DEF Next, vars
  <2>1. [Con!Next]_Con!vars
    BY DEF Next, vars, Con!vars
  <2> QED BY <2>1, WaitStep
<1>3. (focus = "con" => WaitInv) => TimeoutIsReal
  BY DEF WaitInv, TimeoutIsReal
<1> QED BY <1>1, <1>2, <1>3, PTL DEF Spec

-----------------------------------------------------------------------------
(* The request of a mapped call.  s1 is inbound, s2 outbound, s3 phase, s4 *)
(* talk and s5 body.                                                       *)

BlockKinds == {"text", "use", "result"}
\* a block of a message of the request, and what may be sent for one
OwnBlock == (Nat \ {0}) \X BlockKinds
Block == Nat \X BlockKinds
MessageRow == [role : {"system", "user", "assistant", "tool"}, blocks : Seq(Block)]

\* the blocks of a message, and a block without the filler
BlocksOf == [m \in MessageRow |-> m.blocks]
Meaning == [b \in Block |-> IF b # Proxy!EmptyText THEN <<b>> ELSE <<>>]

LEMMA ProxyFlatten == \A s : Proxy!Seqs!FlattenSeq(s) = Flatten(s)
BY DEF Flatten, Proxy!Seqs!FlattenSeq, Rag!Seqs!FlattenSeq

LEMMA BlockFunctions ==
    /\ Spreads(BlocksOf, MessageRow, Block) /\ Spreads(Meaning, Block, Block)
    /\ OwnBlock \subseteq Block /\ \A b \in OwnBlock : Meaning[b] = <<b>>
    /\ Proxy!EmptyText \in Block /\ Meaning[Proxy!EmptyText] = <<>>
<1>1. Spreads(BlocksOf, MessageRow, Block)
  BY DEF BlocksOf, MessageRow, Spreads
<1>2. Spreads(Meaning, Block, Block)
  <2>1. \A b \in Block : <<b>> \in Seq(Block) /\ <<>> \in Seq(Block)
    OBVIOUS
  <2> QED BY <2>1 DEF Meaning, Spreads
<1>3. OwnBlock \subseteq Block /\ \A b \in OwnBlock : b # Proxy!EmptyText
  BY DEF OwnBlock, Block, Proxy!EmptyText
<1>4. Proxy!EmptyText \in Block
  BY DEF Block, BlockKinds, Proxy!EmptyText
<1> QED BY <1>1, <1>2, <1>3, <1>4 DEF Meaning

LEMMA CarriedIs == ASSUME NEW ms \in Seq(MessageRow) PROVE Proxy!Carried(ms) = Spread(BlocksOf, ms)
<1>1. \A i \in DOMAIN ms : ms[i] \in MessageRow
  BY ElementOfSeq, LenProperties
<1>2. [i \in DOMAIN ms |-> ms[i].blocks] = [i \in DOMAIN ms |-> BlocksOf[ms[i]]]
  BY <1>1 DEF BlocksOf
<1> QED BY <1>2, ProxyFlatten DEF Proxy!Carried, Spread

LEMMA MeantIs == ASSUME NEW bs \in Seq(Block) PROVE Proxy!Meant(bs) = Spread(Meaning, bs)
<1>1. \A i \in DOMAIN bs : bs[i] \in Block
  BY ElementOfSeq, LenProperties
<1>2. [i \in DOMAIN bs |-> IF bs[i] # Proxy!EmptyText THEN <<bs[i]>> ELSE <<>>] = [i \in DOMAIN bs |-> Meaning[bs[i]]]
  BY <1>1 DEF Meaning
<1> QED BY <1>2, ProxyFlatten DEF Proxy!Meant, Spread

-----------------------------------------------------------------------------
\* the neighbours of one role joined
LEMMA MergedExists ==
    ASSUME NEW s, Len(s) \in Nat
    PROVE  \A n \in Nat : \E f : f = [i \in 0 .. n |-> IF i = 0 THEN <<>> ELSE Proxy!Joined(f[i - 1], s[i])]
<1> DEFINE Def(f, n) == [i \in 0 .. n |-> IF i = 0 THEN <<>> ELSE Proxy!Joined(f[i - 1], s[i])]
           S == {n \in Nat : \E f : f = Def(f, n)}
<1>1. 0 \in S
  <2> DEFINE f == [i \in 0 .. 0 |-> <<>>]
  <2>1. f = Def(f, 0)
    OBVIOUS
  <2> QED BY <2>1
<1>2. ASSUME NEW n \in Nat, n \in S PROVE n + 1 \in S
  <2>1. PICK f : f = Def(f, n)
    BY <1>2
  <2> DEFINE g == [i \in 0 .. n + 1 |-> IF i = n + 1 THEN Proxy!Joined(f[n], s[n + 1]) ELSE f[i]]
  <2>0. \A i \in 0 .. n : f[i] = IF i = 0 THEN <<>> ELSE Proxy!Joined(f[i - 1], s[i])
    BY <2>1
  <2>2. ASSUME NEW i \in 0 .. n + 1 PROVE g[i] = IF i = 0 THEN <<>> ELSE Proxy!Joined(g[i - 1], s[i])
    <3>1. i # 0 => i - 1 \in 0 .. n /\ i - 1 \in 0 .. n + 1 /\ i - 1 # n + 1
      OBVIOUS
    <3>2. i # n + 1 => i \in 0 .. n
      OBVIOUS
    <3>3. i = n + 1 => i # 0 /\ i - 1 = n
      OBVIOUS
    <3> QED BY <2>0, <3>1, <3>2, <3>3
  <2>3. g = Def(g, n + 1)
    <3>1. g = [i \in 0 .. n + 1 |-> g[i]]
      OBVIOUS
    <3> HIDE DEF g
    <3> QED BY <2>2, <3>1
  <2> HIDE DEF g, Def
  <2> QED BY <2>3
<1>3. S = Nat
  <2>1. S \subseteq Nat
    OBVIOUS
  <2> HIDE DEF S
  <2> QED BY <1>1, <1>2, <2>1, NatInd
<1> QED BY <1>3

LEMMA MergedDef ==
    ASSUME NEW s, Len(s) \in Nat
    PROVE  \E f : /\ f = [i \in 0 .. Len(s) |-> IF i = 0 THEN <<>> ELSE Proxy!Joined(f[i - 1], s[i])]
                  /\ Proxy!MergeAdjacentRoles(s) = f[Len(s)]
<1> DEFINE f == CHOOSE f : f = [i \in 0 .. Len(s) |-> IF i = 0 THEN <<>> ELSE Proxy!Joined(f[i - 1], s[i])]
<1>1. f = [i \in 0 .. Len(s) |-> IF i = 0 THEN <<>> ELSE Proxy!Joined(f[i - 1], s[i])]
  BY MergedExists
<1>2. Proxy!MergeAdjacentRoles(s) = f[Len(s)]
  BY DEF Proxy!MergeAdjacentRoles
<1> QED BY <1>1, <1>2

\* no two neighbours of one role
Alternating(ms) == \A i \in 1 .. Len(ms) - 1 : ms[i].role # ms[i + 1].role

LEMMA SpreadMessage ==
    ASSUME NEW ms \in Seq(MessageRow), NEW m \in MessageRow
    PROVE  /\ Spread(BlocksOf, ms) \in Seq(Block) /\ m.blocks \in Seq(Block)
           /\ Spread(BlocksOf, Append(ms, m)) = Spread(BlocksOf, ms) \o m.blocks
<1>1. Spreads(BlocksOf, MessageRow, Block) /\ BlocksOf[m] = m.blocks /\ m.blocks \in Seq(Block)
  BY BlockFunctions DEF BlocksOf, MessageRow
<1>2. Spread(BlocksOf, Append(ms, m)) = Spread(BlocksOf, ms) \o BlocksOf[m]
  <2>1. Spreads(BlocksOf, MessageRow, Block) /\ ms \in Seq(MessageRow) /\ m \in MessageRow
    BY <1>1
  <2> QED BY ONLY <2>1, SpreadAppend
<1>3. Spread(BlocksOf, ms) \in Seq(Block)
  <2>1. Spreads(BlocksOf, MessageRow, Block) /\ ms \in Seq(MessageRow)
    BY <1>1
  <2> QED BY ONLY <2>1, SpreadTypes
<1> QED BY <1>1, <1>2, <1>3

\* one message more loses no block, and makes no neighbours of one role
LEMMA JoinedKeeps ==
    ASSUME NEW ms \in Seq(MessageRow), NEW m \in MessageRow, Alternating(ms)
    PROVE  /\ Proxy!Joined(ms, m) \in Seq(MessageRow) /\ Alternating(Proxy!Joined(ms, m))
           /\ Spread(BlocksOf, Proxy!Joined(ms, m)) = Spread(BlocksOf, ms) \o m.blocks
<1>1. m.blocks \in Seq(Block)
  BY SpreadMessage
<1>2. CASE ms # <<>> /\ ms[Len(ms)].role = m.role
  <2>1. PICK head \in Seq(MessageRow), last \in MessageRow : ms = Append(head, last)
    BY <1>2, SequenceEmptyOrAppend
  <2> DEFINE new == Proxy!Message(m.role, last.blocks \o m.blocks)
  <2>2. /\ Len(head) \in Nat /\ Len(ms) = Len(head) + 1 /\ ms[Len(head) + 1] = last
        /\ \A i \in 1 .. Len(head) : ms[i] = head[i]
    BY <2>1, AppendProperties, LenProperties
  <2>3. new \in MessageRow /\ new.role = last.role /\ new.blocks = last.blocks \o m.blocks
        /\ last.blocks \in Seq(Block)
    <3>1. last.blocks \in Seq(Block) /\ last.role = m.role
      BY <1>2, <2>2 DEF MessageRow
    <3>2. last.blocks \o m.blocks \in Seq(Block)
      BY <1>1, <3>1, ConcatProperties
    <3> QED BY <3>1, <3>2 DEF MessageRow, Proxy!Message
  <2>4. Proxy!Joined(ms, m) = [ms EXCEPT ![Len(head) + 1] = new]
    BY <1>2, <2>2 DEF Proxy!Joined
  <2> HIDE DEF new
  <2>5. Append(head, new) \in Seq(MessageRow) /\ Len(Append(head, new)) = Len(head) + 1
        /\ Append(head, new)[Len(head) + 1] = new
        /\ \A i \in 1 .. Len(head) : Append(head, new)[i] = head[i]
    BY <2>3, AppendProperties
  <2>6. Len(head) + 1 \in DOMAIN ms
    BY <2>2, LenProperties
  <2>7. /\ Proxy!Joined(ms, m) \in Seq(MessageRow) /\ DOMAIN Proxy!Joined(ms, m) = DOMAIN ms
        /\ Proxy!Joined(ms, m)[Len(head) + 1] = new
        /\ \A i \in DOMAIN ms : i # Len(head) + 1 => Proxy!Joined(ms, m)[i] = ms[i]
    BY <2>3, <2>4, <2>6, Replaced
  <2> DEFINE j == Proxy!Joined(ms, m)
  <2> HIDE DEF j
  <2>8. j \in Seq(MessageRow) /\ Len(j) = Len(head) + 1 /\ j[Len(head) + 1] = new
        /\ \A i \in 1 .. Len(head) : j[i] = head[i]
    BY <2>2, <2>7, LenProperties DEF j
  <2>9. j = Append(head, new)
    <3>1. \A i \in 1 .. Len(head) + 1 : j[i] = Append(head, new)[i]
      BY <2>2, <2>5, <2>8
    <3> QED BY <2>5, <2>8, <3>1, SeqEqual
  <2>10. Alternating(j)
    <3> SUFFICES ASSUME NEW i \in 1 .. Len(j) - 1 PROVE j[i].role # j[i + 1].role
      BY DEF Alternating
    <3>1. i \in 1 .. Len(head) /\ i \in 1 .. Len(ms) - 1 /\ i + 1 \in 1 .. Len(head) + 1
      BY <2>2, <2>8
    <3>2. ms[i].role # ms[i + 1].role
      BY <3>1 DEF Alternating
    <3>3. j[i] = ms[i] /\ j[i + 1].role = ms[i + 1].role
      BY <2>2, <2>3, <2>8, <3>1
    <3> QED BY <3>2, <3>3
  <2>11. Spread(BlocksOf, Append(head, new)) = Spread(BlocksOf, head) \o new.blocks
    BY <2>3, SpreadMessage
  <2>12. Spread(BlocksOf, ms) = Spread(BlocksOf, head) \o last.blocks
    BY <2>1, SpreadMessage
  <2>13. Spread(BlocksOf, head) \o (last.blocks \o m.blocks) = (Spread(BlocksOf, head) \o last.blocks) \o m.blocks
    <3> DEFINE a == Spread(BlocksOf, head)
               b == last.blocks
               c == m.blocks
    <3>1. a \in Seq(Block) /\ b \in Seq(Block) /\ c \in Seq(Block)
      BY SpreadMessage
    <3> HIDE DEF a, b, c
    <3>2. a \o (b \o c) = (a \o b) \o c
      BY ONLY <3>1, ConcatAssociative
    <3> QED BY <3>2 DEF a, b, c
  <2> QED BY <2>3, <2>7, <2>9, <2>10, <2>11, <2>12, <2>13 DEF j
<1>3. CASE ~(ms # <<>> /\ ms[Len(ms)].role = m.role)
  <2>1. Proxy!Joined(ms, m) = Append(ms, m)
    BY <1>3 DEF Proxy!Joined
  <2>2. /\ Append(ms, m) \in Seq(MessageRow) /\ Len(Append(ms, m)) = Len(ms) + 1 /\ Len(ms) \in Nat
        /\ Append(ms, m)[Len(ms) + 1] = m
        /\ \A i \in 1 .. Len(ms) : Append(ms, m)[i] = ms[i]
    BY AppendProperties, LenProperties
  <2>3. Spread(BlocksOf, Append(ms, m)) = Spread(BlocksOf, ms) \o m.blocks
    BY SpreadMessage
  <2>4. Alternating(Append(ms, m))
    <3> SUFFICES ASSUME NEW i \in 1 .. Len(ms) PROVE Append(ms, m)[i].role # Append(ms, m)[i + 1].role
      BY <2>2 DEF Alternating
    <3>1. CASE i = Len(ms)
      <4>1. ms # <<>> /\ Append(ms, m)[i] = ms[Len(ms)] /\ Append(ms, m)[i + 1] = m
        BY <2>2, <3>1, EmptySeq
      <4> QED BY <1>3, <4>1
    <3>2. CASE i # Len(ms)
      <4>1. i \in 1 .. Len(ms) - 1 /\ i + 1 \in 1 .. Len(ms)
        BY <2>2, <3>2
      <4>2. ms[i].role # ms[i + 1].role
        BY <4>1 DEF Alternating
      <4> QED BY <2>2, <4>1, <4>2
    <3> QED BY <3>1, <3>2
  <2> QED BY <2>1, <2>2, <2>3, <2>4
<1> QED BY <1>2, <1>3

LEMMA OnePositionMore ==
    ASSUME NEW S, NEW s \in Seq(S), NEW k \in Nat, k + 1 <= Len(s)
    PROVE  SubSeq(s, 1, k + 1) = Append(SubSeq(s, 1, k), s[k + 1]) /\ SubSeq(s, 1, k) \in Seq(S)
<1>0. Len(s) \in Nat /\ DOMAIN s = 1 .. Len(s) /\ \A i \in 1 .. Len(s) : s[i] \in S
  BY LenProperties, ElementOfSeq
<1> DEFINE a == SubSeq(s, 1, k)
           b == SubSeq(s, 1, k + 1)
<1>1. a \in Seq(S) /\ Len(a) = k /\ \A i \in 1 .. k : a[i] = s[i]
  BY <1>0
<1>2. b \in Seq(S) /\ Len(b) = k + 1 /\ \A i \in 1 .. k + 1 : b[i] = s[i]
  BY <1>0
<1>3. s[k + 1] \in S
  BY <1>0
<1> HIDE DEF a, b
<1>4. /\ Append(a, s[k + 1]) \in Seq(S) /\ Len(Append(a, s[k + 1])) = k + 1
      /\ Append(a, s[k + 1])[k + 1] = s[k + 1]
      /\ \A i \in 1 .. k : Append(a, s[k + 1])[i] = a[i]
  BY <1>1, <1>3, AppendProperties
<1>5. \A i \in 1 .. k + 1 : b[i] = Append(a, s[k + 1])[i]
  BY <1>1, <1>2, <1>4
<1>6. b = Append(a, s[k + 1])
  BY <1>2, <1>4, <1>5, SeqEqual
<1> QED BY <1>1, <1>6 DEF a, b

\* joining neighbours loses no block, and leaves no neighbours of one role
LEMMA MergeKeeps ==
    ASSUME NEW ms \in Seq(MessageRow)
    PROVE  /\ Proxy!MergeAdjacentRoles(ms) \in Seq(MessageRow) /\ Alternating(Proxy!MergeAdjacentRoles(ms))
           /\ Spread(BlocksOf, Proxy!MergeAdjacentRoles(ms)) = Spread(BlocksOf, ms)
<1>0. Len(ms) \in Nat /\ DOMAIN ms = 1 .. Len(ms) /\ \A i \in 1 .. Len(ms) : ms[i] \in MessageRow
  BY LenProperties, ElementOfSeq
<1>1. PICK f : /\ f = [i \in 0 .. Len(ms) |-> IF i = 0 THEN <<>> ELSE Proxy!Joined(f[i - 1], ms[i])]
               /\ Proxy!MergeAdjacentRoles(ms) = f[Len(ms)]
  BY <1>0, MergedDef
<1>2. \A i \in 0 .. Len(ms) : f[i] = IF i = 0 THEN <<>> ELSE Proxy!Joined(f[i - 1], ms[i])
  BY <1>1
<1> DEFINE Good(k) == /\ f[k] \in Seq(MessageRow) /\ Alternating(f[k])
                      /\ Spread(BlocksOf, f[k]) = Spread(BlocksOf, SubSeq(ms, 1, k))
           S == {k \in Nat : k \in 0 .. Len(ms) => Good(k)}
<1>3. Good(0)
  <2>1. f[0] = <<>> /\ SubSeq(ms, 1, 0) = <<>>
    BY <1>0, <1>2, NoPage
  <2>2. <<>> \in Seq(MessageRow) /\ Alternating(<<>>)
    BY EmptySeq DEF Alternating
  <2> QED BY <2>1, <2>2
<1>4. ASSUME NEW k \in Nat, k \in 0 .. Len(ms) => Good(k), k + 1 \in 0 .. Len(ms) PROVE Good(k + 1)
  <2>1. k \in 0 .. Len(ms) /\ k + 1 # 0 /\ (k + 1) - 1 = k /\ k + 1 \in 1 .. Len(ms)
    BY <1>0, <1>4
  <2>2. f[k + 1] = Proxy!Joined(f[k], ms[k + 1])
    BY <1>2, <1>4, <2>1
  <2>3. f[k] \in Seq(MessageRow) /\ Alternating(f[k]) /\ Spread(BlocksOf, f[k]) = Spread(BlocksOf, SubSeq(ms, 1, k))
    BY <1>4, <2>1
  <2>4. ms[k + 1] \in MessageRow
    BY <1>0, <2>1
  <2>5. /\ f[k + 1] \in Seq(MessageRow) /\ Alternating(f[k + 1])
        /\ Spread(BlocksOf, f[k + 1]) = Spread(BlocksOf, f[k]) \o ms[k + 1].blocks
    BY <2>2, <2>3, <2>4, JoinedKeeps
  <2>6. SubSeq(ms, 1, k + 1) = Append(SubSeq(ms, 1, k), ms[k + 1]) /\ SubSeq(ms, 1, k) \in Seq(MessageRow)
    BY <1>0, <2>1, OnePositionMore
  <2>7. Spread(BlocksOf, SubSeq(ms, 1, k + 1)) = Spread(BlocksOf, SubSeq(ms, 1, k)) \o ms[k + 1].blocks
    BY <2>4, <2>6, SpreadMessage
  <2> QED BY <2>3, <2>5, <2>7
<1>5. S = Nat
  <2> HIDE DEF Good
  <2>1. S \subseteq Nat /\ 0 \in S /\ \A k \in Nat : k \in S => k + 1 \in S
    <3>1. S \subseteq Nat /\ 0 \in S
      BY <1>3
    <3>2. ASSUME NEW k \in Nat, k \in S PROVE k + 1 \in S
      BY <1>4, <3>2
    <3> QED BY <3>1, <3>2
  <2> HIDE DEF S
  <2> QED BY <2>1, NatInd
<1>6. Good(Len(ms))
  <2>1. Len(ms) \in S /\ Len(ms) \in 0 .. Len(ms)
    BY <1>0, <1>5
  <2> HIDE DEF Good
  <2> QED BY <2>1
<1>7. SubSeq(ms, 1, Len(ms)) = ms
  BY <1>0
<1> QED BY <1>1, <1>6, <1>7

-----------------------------------------------------------------------------
\* what the messages of a client are
ClientMessage(m) ==
    /\ m.role \in {"system", "user", "assistant", "tool"} /\ m.blocks \in Seq(BlockKinds)
    /\ m.role = "tool" => \A k \in DOMAIN m.blocks : m.blocks[k] = "result"

LEMMA ClientMessages ==
    /\ \A m \in Proxy!OpenAIMessages :
         ClientMessage(m) /\ (m.role # "tool" => \A k \in DOMAIN m.blocks : m.blocks[k] # "result")
    /\ \A m \in Proxy!AnthropicMessages : ClientMessage(m) /\ m.role \in {"user", "assistant"}
<1>1. /\ \A a : DOMAIN <<a>> = {1} /\ <<a>>[1] = a
      /\ \A a, b : DOMAIN <<a, b>> = {1, 2} /\ <<a, b>>[1] = a /\ <<a, b>>[2] = b
  OBVIOUS
<1>2. "text" \in BlockKinds /\ "use" \in BlockKinds /\ "result" \in BlockKinds
  BY DEF BlockKinds
<1>3. /\ \A bs : \A a \in BlockKinds : bs = <<a>> => bs \in Seq(BlockKinds)
      /\ \A bs : \A a, b \in BlockKinds : bs = <<a, b>> => bs \in Seq(BlockKinds)
  <2>1. ASSUME NEW bs, NEW a \in BlockKinds, bs = <<a>> PROVE bs \in Seq(BlockKinds)
    BY <2>1
  <2>2. ASSUME NEW bs, NEW a \in BlockKinds, NEW b \in BlockKinds, bs = <<a, b>> PROVE bs \in Seq(BlockKinds)
    BY <2>2
  <2> QED BY <2>1, <2>2
<1>4. ASSUME NEW m \in Proxy!OpenAIMessages
      PROVE  ClientMessage(m) /\ (m.role # "tool" => \A k \in DOMAIN m.blocks : m.blocks[k] # "result")
  <2>1. \/ m.role \in {"system", "user"} /\ m.blocks = <<"text">>
        \/ m.role = "assistant" /\ m.blocks = <<"text">>
        \/ m.role = "assistant" /\ m.blocks = <<"use", "use">>
        \/ m.role = "assistant" /\ m.blocks = <<"text", "use">>
        \/ m.role = "tool" /\ m.blocks = <<"result">>
    BY DEF Proxy!OpenAIMessages
  <2> DEFINE bs == m.blocks
             role == m.role
  <2> HIDE DEF bs, role
  <2>2. \/ role \in {"system", "user"} /\ bs = <<"text">>
        \/ role = "assistant" /\ bs = <<"text">>
        \/ role = "assistant" /\ bs = <<"use", "use">>
        \/ role = "assistant" /\ bs = <<"text", "use">>
        \/ role = "tool" /\ bs = <<"result">>
    BY <2>1 DEF bs, role
  <2>3. bs \in Seq(BlockKinds) /\ role \in {"system", "user", "assistant", "tool"}
    BY <1>2, <1>3, <2>2
  <2>4. role = "tool" => \A k \in DOMAIN bs : bs[k] = "result"
    BY <1>1, <1>2, <2>2
  <2>5. role # "tool" => \A k \in DOMAIN bs : bs[k] # "result"
    BY <1>1, <1>2, <2>2
  <2> QED BY <2>3, <2>4, <2>5 DEF ClientMessage, bs, role
<1>5. ASSUME NEW m \in Proxy!AnthropicMessages PROVE ClientMessage(m) /\ m.role \in {"user", "assistant"}
  <2>1. /\ m.role \in {"user", "assistant"}
        /\ m.blocks \in {<<"text">>, <<"result">>, <<"result", "result">>, <<"result", "text">>, <<"text", "result">>,
                          <<"use">>, <<"text", "use">>}
    BY DEF Proxy!AnthropicMessages
  <2> DEFINE bs == m.blocks
             role == m.role
  <2> HIDE DEF bs, role
  <2>2. /\ role \in {"user", "assistant"}
        /\ bs \in {<<"text">>, <<"result">>, <<"result", "result">>, <<"result", "text">>, <<"text", "result">>,
                    <<"use">>, <<"text", "use">>}
    BY <2>1 DEF bs, role
  <2>3. bs \in Seq(BlockKinds)
    BY <1>2, <1>3, <2>2
  <2> QED BY <2>2, <2>3 DEF ClientMessage, bs, role
<1> QED BY <1>4, <1>5

LEMMA TalkIs ==
    ASSUME s4 \in Proxy!Talks(s1), s1 \in Proxy!Protocols
    PROVE  /\ Len(s4) \in Nat /\ DOMAIN s4 = 1 .. Len(s4)
           /\ \A i \in DOMAIN s4 :
                /\ i \in Nat \ {0} /\ ClientMessage(s4[i])
                /\ s1 = "openai" => s4[i] \in Proxy!OpenAIMessages
                /\ s1 # "openai" => s4[i] \in Proxy!AnthropicMessages
<1> DEFINE M == IF s1 = "openai" THEN Proxy!OpenAIMessages ELSE Proxy!AnthropicMessages
<1>1. PICK n \in 1 .. MaxMessages : s4 \in [1 .. n -> M]
  BY DEF Proxy!Talks
<1>2. n \in Nat
  BY <1>1
<1> HIDE DEF M
<1>3. Len(s4) = n /\ DOMAIN s4 = 1 .. n /\ \A i \in 1 .. n : s4[i] \in M
  BY <1>1, <1>2
<1>4. \A i \in 1 .. n : i \in Nat \ {0}
  BY <1>2
<1> QED BY <1>2, <1>3, <1>4, ClientMessages DEF M

LEMMA PartIs ==
    ASSUME NEW i \in DOMAIN s4, i \in Nat \ {0}, ClientMessage(s4[i]), NEW kind \in BlockKinds
    PROVE  /\ Proxy!Part(i, kind) \in Seq(OwnBlock)
           /\ (\A k \in DOMAIN s4[i].blocks : s4[i].blocks[k] # kind) => Proxy!Part(i, kind) = <<>>
<1> DEFINE bs == s4[i].blocks
           one(k) == IF bs[k] = kind THEN << <<i, kind>> >> ELSE <<>>
           all == [k \in DOMAIN bs |-> one(k)]
<1>1. Proxy!Part(i, kind) = Flatten(all)
  BY ProxyFlatten DEF Proxy!Part
<1>2. DOMAIN bs = 1 .. Len(bs) /\ Len(bs) \in Nat
  BY LenProperties DEF ClientMessage
<1>3. \A k \in DOMAIN bs : one(k) \in Seq(OwnBlock)
  <2>1. <<i, kind>> \in OwnBlock
    BY DEF OwnBlock
  <2>2. << <<i, kind>> >> \in Seq(OwnBlock) /\ <<>> \in Seq(OwnBlock)
    BY <2>1
  <2> QED BY <2>2
<1>4. all \in Seq(Seq(OwnBlock))
  <2> HIDE DEF one, bs
  <2> QED BY <1>2, <1>3
<1>5. ASSUME \A k \in DOMAIN bs : bs[k] # kind PROVE Flatten(all) = <<>>
  <2>1. \A k \in DOMAIN bs : one(k) = <<>>
    BY <1>5
  <2> HIDE DEF one, bs
  <2>2. all \in Seq({<<>>})
    BY <1>2, <2>1
  <2> HIDE DEF all
  <2> QED BY <2>2, FlattenNothing
<1> HIDE DEF all
<1>6. Flatten(all) \in Seq(OwnBlock)
  BY <1>4, FlattenTypes
<1> QED BY <1>1, <1>5, <1>6

LEMMA OwnBlocks == \A bs \in Seq(OwnBlock) : bs \in Seq(Block)
<1>1. OwnBlock \subseteq Block
  BY BlockFunctions
<1> QED BY <1>1

\* what was spread message by message
LEMMA Assembled ==
    ASSUME NEW ins \in Seq(Seq(MessageRow)), NEW exs \in Seq(Seq(OwnBlock)), Len(exs) = Len(ins),
           \A i \in 1 .. Len(ins) : Spread(BlocksOf, ins[i]) = exs[i]
    PROVE  /\ Flatten(ins) \in Seq(MessageRow) /\ Flatten(exs) \in Seq(OwnBlock)
           /\ Spread(BlocksOf, Flatten(ins)) = Flatten(exs)
<1>1. Flatten(ins) \in Seq(MessageRow) /\ Flatten(exs) \in Seq(OwnBlock)
  BY FlattenTypes
<1>2. Spread(BlocksOf, Flatten(ins)) = Flatten(exs)
  <2>1. Seq(OwnBlock) \subseteq Seq(Block)
    BY OwnBlocks
  <2>2. exs \in Seq(Seq(Block))
    BY <2>1, SeqOfMore
  <2>3. SpreadParts(BlocksOf, MessageRow, Block, ins, exs)
    BY <2>2, BlockFunctions DEF SpreadParts
  <2> QED BY <2>3, SpreadAssembled
<1> QED BY <1>1, <1>2

\* the messages of the internal form that one message becomes
OneOpenai(i) ==
    CASE s4[i].role = "system" -> <<>>
      [] s4[i].role = "tool" -> <<Proxy!Message("tool", Proxy!Part(i, "result"))>>
      [] OTHER -> <<Proxy!Message(s4[i].role, Proxy!Part(i, "text") \o Proxy!Part(i, "use"))>>
OneAnthropic(i) ==
    LET results == Proxy!Part(i, "result") IN
    Append([k \in DOMAIN results |-> Proxy!Message("tool", <<results[k]>>)],
           Proxy!Message(s4[i].role, Proxy!Part(i, "text") \o Proxy!Part(i, "use")))
OneExpected(i) ==
    IF s4[i].role = "system" THEN <<>>
    ELSE Proxy!Part(i, "result") \o Proxy!Part(i, "text") \o Proxy!Part(i, "use")

LEMMA OneMessage ==
    ASSUME NEW role \in {"system", "user", "assistant", "tool"}, NEW bs \in Seq(Block)
    PROVE  /\ Proxy!Message(role, bs) \in MessageRow /\ <<Proxy!Message(role, bs)>> \in Seq(MessageRow)
           /\ BlocksOf[Proxy!Message(role, bs)] = bs
           /\ Spread(BlocksOf, <<Proxy!Message(role, bs)>>) = bs
<1> DEFINE m == Proxy!Message(role, bs)
<1>1. m \in MessageRow /\ m.blocks = bs
  BY DEF MessageRow, Proxy!Message
<1> HIDE DEF m
<1>2. BlocksOf[m] = bs /\ <<m>> \in Seq(MessageRow)
  BY <1>1 DEF BlocksOf
<1>3. Spread(BlocksOf, <<m>>) = bs
  BY <1>1, <1>2, BlockFunctions, SpreadOne
<1> QED BY <1>1, <1>2, <1>3 DEF m

LEMMA OneOpenaiKeeps ==
    ASSUME NEW i \in DOMAIN s4, i \in Nat \ {0}, s4[i] \in Proxy!OpenAIMessages
    PROVE  /\ OneOpenai(i) \in Seq(MessageRow) /\ OneExpected(i) \in Seq(OwnBlock)
           /\ Spread(BlocksOf, OneOpenai(i)) = OneExpected(i)
<1> DEFINE r == Proxy!Part(i, "result")
           t == Proxy!Part(i, "text")
           u == Proxy!Part(i, "use")
<1>1. /\ ClientMessage(s4[i]) /\ s4[i].role \in {"system", "user", "assistant", "tool"}
      /\ s4[i].role # "tool" => \A k \in DOMAIN s4[i].blocks : s4[i].blocks[k] # "result"
      /\ s4[i].role = "tool" => \A k \in DOMAIN s4[i].blocks : s4[i].blocks[k] = "result"
  BY ClientMessages DEF ClientMessage
<1>2. /\ r \in Seq(OwnBlock) /\ t \in Seq(OwnBlock) /\ u \in Seq(OwnBlock)
      /\ s4[i].role # "tool" => r = <<>>
      /\ s4[i].role = "tool" => t = <<>> /\ u = <<>>
  BY <1>1, PartIs DEF BlockKinds
<1> HIDE DEF r, t, u
<1>3. r \in Seq(Block) /\ t \o u \in Seq(Block) /\ t \o u \in Seq(OwnBlock) /\ (r \o t) \o u \in Seq(OwnBlock)
      /\ r \o <<>> = r /\ <<>> \o t = t
  <2>1. t \o u \in Seq(OwnBlock) /\ r \o t \in Seq(OwnBlock)
    BY <1>2, ConcatProperties
  <2>2. (r \o t) \o u \in Seq(OwnBlock)
    BY <1>2, <2>1, ConcatProperties
  <2> QED BY <1>2, <2>1, <2>2, OwnBlocks, ConcatEmptySeq
<1>4. OneExpected(i) = IF s4[i].role = "system" THEN <<>> ELSE r \o t \o u
  BY DEF OneExpected, r, t, u
<1>5. OneExpected(i) \in Seq(OwnBlock)
  BY <1>3, <1>4, EmptySeq
<1>6. CASE s4[i].role = "system"
  <2>1. OneOpenai(i) = <<>>
    BY <1>6 DEF OneOpenai
  <2> QED BY <1>4, <1>5, <1>6, <2>1, SpreadEmpty, EmptySeq
<1>7. CASE s4[i].role = "tool"
  <2>1. OneOpenai(i) = <<Proxy!Message("tool", r)>>
    BY <1>7 DEF OneOpenai, r
  <2>2. OneExpected(i) = r
    BY <1>2, <1>3, <1>4, <1>7
  <2>3. "tool" \in {"system", "user", "assistant", "tool"} /\ r \in Seq(Block)
    BY <1>3
  <2>4. <<Proxy!Message("tool", r)>> \in Seq(MessageRow) /\ Spread(BlocksOf, <<Proxy!Message("tool", r)>>) = r
    BY ONLY <2>3, OneMessage
  <2> QED BY <1>5, <2>1, <2>2, <2>4
<1>8. CASE s4[i].role \notin {"system", "tool"}
  <2>1. OneOpenai(i) = <<Proxy!Message(s4[i].role, t \o u)>>
    BY <1>8 DEF OneOpenai, t, u
  <2>2. OneExpected(i) = t \o u
    BY <1>2, <1>3, <1>4, <1>8
  <2> DEFINE role == s4[i].role
             bs == t \o u
  <2>3. role \in {"system", "user", "assistant", "tool"} /\ bs \in Seq(Block)
    BY <1>1, <1>3
  <2> HIDE DEF role, bs
  <2>4. <<Proxy!Message(role, bs)>> \in Seq(MessageRow) /\ Spread(BlocksOf, <<Proxy!Message(role, bs)>>) = bs
    BY ONLY <2>3, OneMessage
  <2> QED BY <1>5, <2>1, <2>2, <2>4 DEF role, bs
<1> QED BY <1>6, <1>7, <1>8

LEMMA OneAnthropicKeeps ==
    ASSUME NEW i \in DOMAIN s4, i \in Nat \ {0}, s4[i] \in Proxy!AnthropicMessages
    PROVE  /\ OneAnthropic(i) \in Seq(MessageRow) /\ OneExpected(i) \in Seq(OwnBlock)
           /\ Spread(BlocksOf, OneAnthropic(i)) = OneExpected(i)
<1> DEFINE r == Proxy!Part(i, "result")
           t == Proxy!Part(i, "text")
           u == Proxy!Part(i, "use")
           tools == [k \in DOMAIN r |-> Proxy!Message("tool", <<r[k]>>)]
           m == Proxy!Message(s4[i].role, t \o u)
<1>1. ClientMessage(s4[i]) /\ s4[i].role \in {"user", "assistant"}
  BY ClientMessages
<1>2. r \in Seq(OwnBlock) /\ t \in Seq(OwnBlock) /\ u \in Seq(OwnBlock)
  BY <1>1, PartIs DEF BlockKinds
<1>3. OneAnthropic(i) = Append(tools, m) /\ OneExpected(i) = (r \o t) \o u
  BY <1>1 DEF OneAnthropic, OneExpected
<1> HIDE DEF r, t, u
<1>4. t \o u \in Seq(OwnBlock) /\ (r \o t) \o u = r \o (t \o u) /\ r \o (t \o u) \in Seq(OwnBlock)
  <2>1. t \o u \in Seq(OwnBlock)
    BY <1>2, ConcatProperties
  <2>2. r \o (t \o u) \in Seq(OwnBlock)
    BY <1>2, <2>1, ConcatProperties
  <2> QED BY <1>2, <2>1, <2>2, ConcatAssociative
<1>5. m \in MessageRow /\ m.blocks = t \o u
  <2>1. t \o u \in Seq(Block) /\ s4[i].role \in {"system", "user", "assistant", "tool"}
    BY <1>1, <1>4, OwnBlocks
  <2> QED BY <2>1, OneMessage DEF Proxy!Message
<1>6. tools \in Seq(MessageRow) /\ Spread(BlocksOf, tools) = r
  <2>1. DOMAIN r = 1 .. Len(r) /\ Len(r) \in Nat /\ \A k \in DOMAIN r : r[k] \in OwnBlock
    BY <1>2, LenProperties, ElementOfSeq
  <2> DEFINE tool(k) == Proxy!Message("tool", <<r[k]>>)
  <2>2. \A k \in DOMAIN r : tool(k) \in MessageRow /\ BlocksOf[tool(k)] = <<r[k]>>
    <3>1. \A b \in OwnBlock : <<b>> \in Seq(Block)
      <4>1. OwnBlock \subseteq Block
        BY BlockFunctions
      <4> QED BY <4>1
    <3> QED BY <2>1, <3>1, OneMessage
  <2> HIDE DEF tool
  <2>3. [k \in DOMAIN r |-> tool(k)] \in Seq(MessageRow)
    BY <2>1, <2>2
  <2>4. Spread(BlocksOf, [k \in DOMAIN r |-> tool(k)]) = Flatten([k \in DOMAIN r |-> <<r[k]>>])
    <3>1. [j \in DOMAIN [k \in DOMAIN r |-> tool(k)] |-> BlocksOf[[k \in DOMAIN r |-> tool(k)][j]]]
            = [k \in DOMAIN r |-> <<r[k]>>]
      BY <2>2
    <3> QED BY <3>1 DEF Spread
  <2>5. Spread(Meaning, r) = Flatten([k \in DOMAIN r |-> <<r[k]>>])
    <3>1. [k \in DOMAIN r |-> Meaning[r[k]]] = [k \in DOMAIN r |-> <<r[k]>>]
      BY <2>1, BlockFunctions
    <3> QED BY <3>1 DEF Spread
  <2>6. Spread(Meaning, r) = r
    BY <1>2, BlockFunctions, SpreadSingles
  <2> QED BY <2>3, <2>4, <2>5, <2>6 DEF tool
<1> HIDE DEF tools, m
<1>7. Append(tools, m) \in Seq(MessageRow)
  BY <1>5, <1>6, AppendProperties
<1>8. Spread(BlocksOf, Append(tools, m)) = r \o (t \o u)
  BY <1>5, <1>6, SpreadMessage
<1> QED BY <1>3, <1>4, <1>7, <1>8

\* the internal form has all the client said, in the order expected
LEMMA InternalKeeps ==
    ASSUME s4 \in Proxy!Talks(s1), s1 \in Proxy!Protocols
    PROVE  /\ Proxy!Internal \in Seq(MessageRow) /\ Proxy!Expected \in Seq(OwnBlock)
           /\ Spread(BlocksOf, Proxy!Internal) = Proxy!Expected
<1> DEFINE one(i) == IF s1 = "openai" THEN OneOpenai(i) ELSE OneAnthropic(i)
           ins == [i \in DOMAIN s4 |-> one(i)]
           exs == [i \in DOMAIN s4 |-> OneExpected(i)]
<1>1. Len(s4) \in Nat /\ DOMAIN s4 = 1 .. Len(s4)
  BY TalkIs
<1>2. \A i \in DOMAIN s4 : /\ one(i) \in Seq(MessageRow) /\ OneExpected(i) \in Seq(OwnBlock)
                           /\ Spread(BlocksOf, one(i)) = OneExpected(i)
  BY TalkIs, OneOpenaiKeeps, OneAnthropicKeeps
<1>3. Proxy!Expected = Flatten(exs)
  BY ProxyFlatten DEF Proxy!Expected, OneExpected
<1>4. Proxy!Internal = Flatten(ins)
  <2>1. CASE s1 = "openai"
    <3>1. ins = [i \in DOMAIN s4 |-> OneOpenai(i)]
      BY <2>1
    <3> QED BY <2>1, <3>1, ProxyFlatten DEF Proxy!Internal, Proxy!OpenaiRequestToInternal, OneOpenai
  <2>2. CASE s1 # "openai"
    <3>1. ins = [i \in DOMAIN s4 |-> OneAnthropic(i)]
      BY <2>2
    <3> QED BY <2>2, <3>1, ProxyFlatten DEF Proxy!Internal, Proxy!AnthropicRequestToInternal, OneAnthropic
  <2> QED BY <2>1, <2>2
<1> HIDE DEF one
<1>5. /\ ins \in Seq(Seq(MessageRow)) /\ exs \in Seq(Seq(OwnBlock)) /\ Len(ins) = Len(s4) /\ Len(exs) = Len(s4)
      /\ \A i \in 1 .. Len(s4) : Spread(BlocksOf, ins[i]) = exs[i]
  BY <1>1, <1>2
<1> HIDE DEF ins, exs
<1> QED BY <1>3, <1>4, <1>5, Assembled

-----------------------------------------------------------------------------
\* a result given to the user and an empty message filled lose nothing
Filled(ms) ==
    [i \in DOMAIN ms |->
        Proxy!Message(IF ms[i].role = "tool" THEN "user" ELSE ms[i].role,
                      IF ms[i].blocks = <<>> THEN <<Proxy!EmptyText>> ELSE ms[i].blocks)]


LEMMA OneFilled ==
    ASSUME NEW m \in MessageRow,
           NEW n, n = Proxy!Message(IF m.role = "tool" THEN "user" ELSE m.role,
                                    IF m.blocks = <<>> THEN <<Proxy!EmptyText>> ELSE m.blocks)
    PROVE  n \in MessageRow /\ Spread(Meaning, n.blocks) = Spread(Meaning, m.blocks)
<1> DEFINE e == Proxy!EmptyText
<1>1. e \in Block /\ Meaning[e] = <<>> /\ Spreads(Meaning, Block, Block)
  BY BlockFunctions
<1>2. m.role \in {"system", "user", "assistant", "tool"} /\ m.blocks \in Seq(Block)
  BY DEF MessageRow
<1>3. n.blocks = (IF m.blocks = <<>> THEN <<e>> ELSE m.blocks) /\ n = [role |-> n.role, blocks |-> n.blocks]
      /\ n.role \in {"system", "user", "assistant", "tool"}
  BY <1>2 DEF Proxy!Message
<1> HIDE DEF e
<1>4. Spread(Meaning, <<e>>) = <<>> /\ Spread(Meaning, <<>>) = <<>>
  BY <1>1, SpreadOne, SpreadEmpty
<1>5. n.blocks \in Seq(Block)
  <2> DEFINE bs == n.blocks
  <2>1. bs = <<e>> \/ bs = m.blocks
    BY <1>3
  <2> HIDE DEF bs
  <2>2. ASSUME bs = <<e>> PROVE bs \in Seq(Block)
    BY <1>1, <2>2
  <2>3. bs \in Seq(Block)
    BY <1>2, <2>1, <2>2
  <2> QED BY <2>3 DEF bs
<1>6. n \in MessageRow
  BY <1>3, <1>5 DEF MessageRow
<1> QED BY <1>3, <1>4, <1>6

\* what is meant by all the messages is what is meant by each
LEMMA MeantTogether ==
    ASSUME NEW ms \in Seq(MessageRow), NEW parts \in Seq(Seq(Block)), Len(parts) = Len(ms),
           \A i \in 1 .. Len(ms) : parts[i] = Spread(Meaning, ms[i].blocks)
    PROVE  Spread(Meaning, Spread(BlocksOf, ms)) = Flatten(parts)
<1>1. DOMAIN ms = 1 .. Len(ms) /\ Len(ms) \in Nat /\ \A i \in 1 .. Len(ms) : ms[i] \in MessageRow
  BY LenProperties, ElementOfSeq
<1>2. \A i \in 1 .. Len(ms) : BlocksOf[ms[i]] = ms[i].blocks /\ ms[i].blocks \in Seq(Block)
  BY <1>1 DEF BlocksOf, MessageRow
<1> DEFINE bs == [i \in DOMAIN ms |-> BlocksOf[ms[i]]]
<1>3. bs \in Seq(Seq(Block)) /\ Len(bs) = Len(ms) /\ \A i \in 1 .. Len(ms) : bs[i] = ms[i].blocks
  <2>1. \A i \in 1 .. Len(ms) : BlocksOf[ms[i]] \in Seq(Block)
    BY <1>2
  <2>2. bs \in Seq(Seq(Block)) /\ Len(bs) = Len(ms)
    BY <1>1, <2>1
  <2>3. \A i \in 1 .. Len(ms) : bs[i] = BlocksOf[ms[i]]
    BY <1>1
  <2> HIDE DEF bs
  <2> QED BY <1>2, <2>2, <2>3
<1>4. Spread(BlocksOf, ms) = Flatten(bs)
  BY DEF Spread
<1> HIDE DEF bs
<1>5. SpreadParts(Meaning, Block, Block, bs, parts)
  BY <1>3, BlockFunctions DEF SpreadParts
<1>6. Spread(Meaning, Flatten(bs)) = Flatten(parts)
  BY <1>5, SpreadAssembled
<1> QED BY <1>4, <1>6

LEMMA FilledKeeps ==
    ASSUME NEW ms \in Seq(MessageRow)
    PROVE  /\ Filled(ms) \in Seq(MessageRow)
           /\ Spread(Meaning, Spread(BlocksOf, Filled(ms))) = Spread(Meaning, Spread(BlocksOf, ms))
<1>1. DOMAIN ms = 1 .. Len(ms) /\ Len(ms) \in Nat /\ \A i \in 1 .. Len(ms) : ms[i] \in MessageRow
  BY LenProperties, ElementOfSeq
<1> DEFINE n == Filled(ms)
           one(i) == Proxy!Message(IF ms[i].role = "tool" THEN "user" ELSE ms[i].role,
                                   IF ms[i].blocks = <<>> THEN <<Proxy!EmptyText>> ELSE ms[i].blocks)
           means(i) == Spread(Meaning, ms[i].blocks)
           parts == [i \in 1 .. Len(ms) |-> means(i)]
<1>2. n = [i \in 1 .. Len(ms) |-> one(i)]
  BY <1>1 DEF Filled
<1>3. \A i \in 1 .. Len(ms) : one(i) \in MessageRow /\ Spread(Meaning, one(i).blocks) = means(i)
  BY <1>1, OneFilled
<1>4. \A i \in 1 .. Len(ms) : means(i) \in Seq(Block)
  <2>1. \A i \in 1 .. Len(ms) : ms[i].blocks \in Seq(Block)
    BY <1>1 DEF MessageRow
  <2> QED BY <2>1, BlockFunctions, SpreadTypes
<1> HIDE DEF one, means, n
<1>5. parts \in Seq(Seq(Block)) /\ Len(parts) = Len(ms) /\ \A i \in 1 .. Len(ms) : parts[i] = means(i)
  BY <1>1, <1>4
<1>6. n \in Seq(MessageRow) /\ Len(n) = Len(ms) /\ \A i \in 1 .. Len(ms) : n[i] = one(i)
  BY <1>1, <1>2, <1>3
<1> HIDE DEF parts
<1>7. Spread(Meaning, Spread(BlocksOf, n)) = Flatten(parts)
  <2>1. \A i \in 1 .. Len(n) : parts[i] = Spread(Meaning, n[i].blocks)
    BY <1>3, <1>5, <1>6
  <2> QED BY <1>5, <1>6, <2>1, MeantTogether
<1>8. Spread(Meaning, Spread(BlocksOf, ms)) = Flatten(parts)
  <2>1. \A i \in 1 .. Len(ms) : parts[i] = Spread(Meaning, ms[i].blocks)
    BY <1>5 DEF means
  <2> QED BY <1>5, <2>1, MeantTogether
<1> QED BY <1>6, <1>7, <1>8 DEF n

LEMMA OwnIsMeant == ASSUME NEW bs \in Seq(OwnBlock) PROVE Spread(Meaning, bs) = bs
<1>1. /\ Spreads(Meaning, Block, Block) /\ OwnBlock \subseteq Block
      /\ \A b \in OwnBlock : Meaning[b] = <<b>>
  BY BlockFunctions
<1> QED BY <1>1, SpreadSingles

\* the body of either protocol
LEMMA BodyKeeps ==
    ASSUME s4 \in Proxy!Talks(s1), s1 \in Proxy!Protocols, NEW sent,
           sent = IF s2 = "openai" THEN Proxy!InternalToOpenaiCallBody(Proxy!Internal)
                                   ELSE Proxy!InternalToAnthropicCallBody(Proxy!Internal)
    PROVE  /\ Proxy!Meant(Proxy!Carried(sent)) = Proxy!Expected
           /\ s2 # "openai" => Alternating(sent)
<1> DEFINE ms == Proxy!Internal
           ex == Proxy!Expected
<1>1. ms \in Seq(MessageRow) /\ ex \in Seq(OwnBlock) /\ Spread(BlocksOf, ms) = ex
  BY InternalKeeps
<1>2. ex \in Seq(Block) /\ Spread(Meaning, ex) = ex
  BY <1>1, OwnBlocks, OwnIsMeant
<1>3. CASE s2 = "openai"
  <2>1. sent = ms
    BY <1>3 DEF Proxy!InternalToOpenaiCallBody
  <2> HIDE DEF ms, ex
  <2>2. Proxy!Carried(sent) = ex
    BY <1>1, <2>1, CarriedIs
  <2> QED BY <1>2, <1>3, <2>2, MeantIs DEF ex
<1>4. CASE s2 # "openai"
  <2>1. sent = Proxy!MergeAdjacentRoles(Filled(ms))
    BY <1>4 DEF Proxy!InternalToAnthropicCallBody, Filled
  <2> HIDE DEF ms, ex
  <2> DEFINE n == Filled(ms)
  <2>2. n \in Seq(MessageRow) /\ Spread(Meaning, Spread(BlocksOf, n)) = ex
    BY <1>1, <1>2, FilledKeeps
  <2> HIDE DEF n
  <2>3. sent \in Seq(MessageRow) /\ Alternating(sent) /\ Spread(BlocksOf, sent) = Spread(BlocksOf, n)
    BY <2>1, <2>2, MergeKeeps DEF n
  <2>4. Spread(BlocksOf, n) \in Seq(Block)
    BY <2>2, BlockFunctions, SpreadTypes
  <2>5. Proxy!Carried(sent) = Spread(BlocksOf, n)
    BY <2>3, CarriedIs
  <2>6. Proxy!Meant(Proxy!Carried(sent)) = ex
    BY <2>2, <2>4, <2>5, MeantIs
  <2> QED BY <2>3, <2>6 DEF ex
<1> QED BY <1>3, <1>4

\* the request is read before it is put together, and is gone once it is sent
KeptInv ==
    /\ s1 \in Proxy!Protocols /\ s2 \in Proxy!Protocols
    /\ s3 = "log" => s4 \in Proxy!Talks(s1)
    /\ Proxy!RequestIsKept

LEMMA KeptStart == Proxy!Init => KeptInv
BY DEF Proxy!Init, KeptInv, Proxy!RequestIsKept

LEMMA KeptLogged == ASSUME KeptInv, Proxy!StartLog PROVE KeptInv'
<1>1. /\ UNCHANGED <<s1, s2, s4>> /\ s3 = "log" /\ s3' = "send"
      /\ s5' = IF s2 = "openai" THEN Proxy!InternalToOpenaiCallBody(Proxy!Internal)
                                ELSE Proxy!InternalToAnthropicCallBody(Proxy!Internal)
  BY DEF Proxy!StartLog
<1>2. s1 \in Proxy!Protocols /\ s2 \in Proxy!Protocols /\ s4 \in Proxy!Talks(s1)
  BY <1>1 DEF KeptInv
<1>3. Proxy!Meant(Proxy!Carried(s5')) = Proxy!Expected /\ (s2 # "openai" => Alternating(s5'))
  BY <1>1, <1>2, BodyKeeps
<1>4. Proxy!Expected' = Proxy!Expected
  BY <1>1 DEF Proxy!Expected, Proxy!Part
<1>5. Proxy!Meant(Proxy!Carried(s5))' = Proxy!Meant(Proxy!Carried(s5'))
  OBVIOUS
<1>6. s2' = "anthropic" => \A i \in 1 .. Len(s5') - 1 : s5'[i].role # s5'[i + 1].role
  BY <1>1, <1>3 DEF Alternating
<1>7. Proxy!RequestIsKept'
  BY <1>3, <1>4, <1>5, <1>6 DEF Proxy!RequestIsKept
<1> QED BY <1>1, <1>2, <1>7 DEF KeptInv

LEMMA KeptStep == ASSUME KeptInv, [Proxy!Next]_Proxy!vars PROVE KeptInv'
<1>1. CASE Proxy!StartLog
  BY <1>1, KeptLogged
<1>2. CASE Proxy!HandleInbound
  <2>1. UNCHANGED <<s1, s2>> /\ s3' = "log" /\ s4' \in Proxy!Talks(s1)
    BY <1>2 DEF Proxy!HandleInbound
  <2> QED BY <2>1 DEF KeptInv, Proxy!RequestIsKept, Proxy!Talks
<1>3. CASE Proxy!VerifyMappingFails \/ Proxy!Call \/ Proxy!OpenStream \/ Proxy!NeverRead
           \/ Proxy!EndStream \/ Proxy!FailStream \/ Proxy!BreakStream \/ Proxy!Disconnect
           \/ Proxy!HearError \/ Proxy!HearClose \/ Proxy!TellEnd \/ Proxy!LeaveEnd
  <2>1. UNCHANGED <<s1, s2>> /\ s3' \notin {"log", "send"}
    BY <1>3 DEF Proxy!VerifyMappingFails, Proxy!Call, Proxy!OpenStream, Proxy!NeverRead, Proxy!EndStream,
       Proxy!FailStream, Proxy!BreakStream, Proxy!Disconnect, Proxy!HearError, Proxy!HearClose,
       Proxy!TellEnd, Proxy!LeaveEnd
  <2> QED BY <2>1 DEF KeptInv, Proxy!RequestIsKept
<1>4. CASE Proxy!SendPlain \/ Proxy!HearStart \/ Proxy!HearPiece \/ Proxy!HearFinish \/ Proxy!HearUsage
           \/ Proxy!HearStop
  <2>1. UNCHANGED <<s1, s2, s3>> /\ s3 = "stream"
    BY <1>4 DEF Proxy!SendPlain, Proxy!HearStart, Proxy!HearPiece, Proxy!HearFinish, Proxy!HearUsage,
       Proxy!HearStop, Proxy!Hear, Proxy!Talking
  <2> QED BY <2>1 DEF KeptInv, Proxy!RequestIsKept
<1>5. CASE UNCHANGED Proxy!vars
  <2>1. UNCHANGED <<s1, s2, s3, s4, s5>>
    BY <1>5 DEF Proxy!vars
  <2>2. Proxy!Expected' = Proxy!Expected /\ Proxy!Meant(Proxy!Carried(s5))' = Proxy!Meant(Proxy!Carried(s5))
    BY <2>1 DEF Proxy!Expected, Proxy!Part, Proxy!Meant, Proxy!Carried
  <2> QED BY <2>1, <2>2 DEF KeptInv, Proxy!RequestIsKept, Proxy!Talks
<1> QED BY <1>1, <1>2, <1>3, <1>4, <1>5 DEF Proxy!Next

\* Whatever a client of either protocol says reaches the target of either protocol whole and in
\* its order, and a target of the Anthropic protocol never sees two messages of one role in a
\* row: the conversions to and from the internal form, the filler and _merge_adjacent_roles of
\* protocol_converter.py.
THEOREM RequestIsKeptThm == Spec => []RequestIsKept
<1>1. Init => (focus = "proxy" => KeptInv)
  BY KeptStart DEF Init
<1>2. (focus = "proxy" => KeptInv) /\ [Next]_vars => (focus = "proxy" => KeptInv)'
  <2> SUFFICES ASSUME KeptInv, [Next]_vars, focus = "proxy" PROVE KeptInv'
    BY DEF Next, vars
  <2>1. [Proxy!Next]_Proxy!vars
    BY DEF Next, vars, Proxy!vars
  <2> QED BY <2>1, KeptStep
<1>3. (focus = "proxy" => KeptInv) => RequestIsKept
  BY DEF KeptInv, RequestIsKept
<1> QED BY <1>1, <1>2, <1>3, PTL DEF Spec

=============================================================================
