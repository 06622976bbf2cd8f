------------------------- MODULE AsyncLoggingProofs -------------------------
(***************************************************************************)
(* Proofs about modules AsyncLogging and LogFile: no accepted line is lost *)
(* but by a failed write, the backend's spare buffers suffice, it never    *)
(* sleeps on a full buffer, and files stay within their bounds.            *)
(*                                                                         *)
(* What FlattenSeq and Length compute is proved first, by induction over   *)
(* sets of numbers and of sequences, which needs no predicate as a         *)
(* parameter.                                                              *)
(***************************************************************************)
EXTENDS AsyncLogging, SequenceTheorems, WellFoundedInduction, TLAPS

Line == [id : Nat, len : Lens]

-----------------------------------------------------------------------------
(* Induction. *)

\* A set of numbers that holds 0 and every successor holds all.
LEMMA NatSets ==
    ASSUME NEW G \in SUBSET Nat, 0 \in G, \A n \in G : n + 1 \in G
    PROVE  G = Nat
<1> DEFINE R == OpToRel(<, Nat)
<1> SUFFICES ASSUME Nat \ G # {} PROVE FALSE
    OBVIOUS
<1>1. IsWellFoundedOn(R, Nat)
    BY NatLessThanWellFounded
<1>3. \A m, n \in Nat : m < n => <<m, n>> \in R
    BY DEF OpToRel
<1>2. PICK n \in Nat \ G : \A m \in Nat \ G : ~(<<m, n>> \in R)
  <2> HIDE DEF R
  <2> QED
    BY <1>1, WFMin
<1> HIDE DEF R
<1>4. n # 0 /\ n - 1 \in Nat /\ n - 1 < n
    BY <1>2
<1>5. n - 1 \in G
    BY <1>2, <1>3, <1>4
<1> QED
    BY <1>2, <1>4, <1>5

\* A set of sequences that holds the empty one and every Append holds all.
LEMMA SeqSets ==
    ASSUME NEW S, NEW G \in SUBSET Seq(S), <<>> \in G,
           \A s \in G, x \in S : Append(s, x) \in G
    PROVE  G = Seq(S)
<1> DEFINE H == {n \in Nat : \A s \in Seq(S) : Len(s) = n => s \in G}
<1>1. 0 \in H
    BY EmptySeq
<1>2. ASSUME NEW n \in H PROVE n + 1 \in H
  <2> SUFFICES ASSUME NEW s \in Seq(S), Len(s) = n + 1 PROVE s \in G
    OBVIOUS
  <2>1. s # <<>>
    BY EmptySeq
  <2>2. PICK t \in Seq(S), x \in S : s = Append(t, x)
    BY <2>1, SequenceEmptyOrAppend
  <2>3. Len(t) = n
    BY <2>2, AppendProperties, LenProperties
  <2> QED
    BY <2>2, <2>3
<1>3. H = Nat
  <2>1. H \in SUBSET Nat
    OBVIOUS
  <2> HIDE DEF H
  <2> QED BY <1>1, <1>2, <2>1, NatSets
<1> QED
    BY <1>3, LenProperties

-----------------------------------------------------------------------------
(* FlattenSeq *)

\* f is what FlattenSeq(ss) builds up.
Flattens(f, ss, S) ==
    /\ f \in [1..Len(ss) -> Seq(S)]
    /\ \A i \in 1..Len(ss) : f[i] = IF i = 1 THEN ss[i] ELSE f[i - 1] \o ss[i]

\* The recursion has a solution ...
LEMMA FlattensExists ==
    ASSUME NEW S, NEW ss \in Seq(Seq(S))
    PROVE  \E f : Flattens(f, ss, S)
<1> DEFINE G == {t \in Seq(Seq(S)) : \E f : Flattens(f, t, S)}
<1>1. <<>> \in G
  <2>1. Flattens([i \in 1..0 |-> <<>>], <<>>, S)
    BY DEF Flattens
  <2> QED
    BY <2>1
<1>2. ASSUME NEW t \in G, NEW b \in Seq(S) PROVE Append(t, b) \in G
  <2>1. PICK f : Flattens(f, t, S)
    OBVIOUS
  <2> DEFINE n == Len(t)
             u == Append(t, b)
             g == [i \in 1..(n + 1) |->
                     IF i = n + 1 THEN (IF n = 0 THEN b ELSE f[n] \o b) ELSE f[i]]
  <2>2. n \in Nat /\ t \in Seq(Seq(S))
    BY LenProperties
  <2>3. /\ u \in Seq(Seq(S)) /\ Len(u) = n + 1 /\ u[n + 1] = b
        /\ \A i \in 1..n : u[i] = t[i]
    BY <2>2, AppendProperties
  <2>4. ASSUME NEW i \in 1..n PROVE f[i] \in Seq(S)
    BY <2>1, <2>2 DEF Flattens
  <2>5. n # 0 => f[n] \o b \in Seq(S)
    BY <2>2, <2>4, ConcatProperties
  <2>6. g \in [1..Len(u) -> Seq(S)]
    <3> HIDE DEF u
    <3> QED BY <2>2, <2>3, <2>4, <2>5
  <2>7. ASSUME NEW i \in 1..Len(u)
        PROVE  g[i] = IF i = 1 THEN u[i] ELSE g[i - 1] \o u[i]
    <3> HIDE DEF u
    <3>1. CASE i = n + 1
      BY <2>2, <2>3, <3>1
    <3>2. CASE i # n + 1
      <4>1. i \in 1..n /\ g[i] = f[i] /\ u[i] = t[i] /\ (i # 1 => g[i - 1] = f[i - 1])
        BY <2>2, <2>3, <3>2, SMTT(20)
      <4>2. f[i] = IF i = 1 THEN t[i] ELSE f[i - 1] \o t[i]
        BY <2>1, <4>1 DEF Flattens
      <4> QED
        BY <4>1, <4>2
    <3> QED
      BY <3>1, <3>2
  <2>8. Flattens(g, u, S)
    <3> HIDE DEF u, g
    <3> QED BY <2>6, <2>7 DEF Flattens
  <2> QED
    BY <2>3, <2>8
<1>3. G = Seq(Seq(S))
  <2>1. G \in SUBSET Seq(Seq(S))
    OBVIOUS
  <2> HIDE DEF G
  <2> QED BY <1>1, <1>2, <2>1, SeqSets
<1> QED
    BY <1>3

\* The function behind FlattenSeq(ss)
FlatFcn(ss) == CHOOSE f : f = [i \in 1..Len(ss) |-> IF i = 1 THEN ss[i] ELSE f[i-1] \o ss[i]]

\* ... so that FlattenSeq(ss) is its last value.
LEMMA FlattenDef ==
    ASSUME NEW S, NEW ss \in Seq(Seq(S))
    PROVE  /\ FlattenSeq(ss) = IF Len(ss) = 0 THEN ss ELSE FlatFcn(ss)[Len(ss)]
           /\ DOMAIN FlatFcn(ss) = 1..Len(ss)
           /\ \A i \in 1..Len(ss) :
                FlatFcn(ss)[i] = IF i = 1 THEN ss[i] ELSE FlatFcn(ss)[i - 1] \o ss[i]
<1>1. FlattenSeq(ss) = IF Len(ss) = 0 THEN ss ELSE FlatFcn(ss)[Len(ss)]
  BY DEF FlattenSeq, FlatFcn
<1>2. PICK g : Flattens(g, ss, S)
  BY FlattensExists
<1>3. g = [i \in 1..Len(ss) |-> IF i = 1 THEN ss[i] ELSE g[i-1] \o ss[i]]
  BY <1>2 DEF Flattens
<1>4. FlatFcn(ss) = [i \in 1..Len(ss) |-> IF i = 1 THEN ss[i] ELSE FlatFcn(ss)[i-1] \o ss[i]]
  BY <1>3, Zenon DEF FlatFcn
<1> QED
  BY <1>1, <1>4

\* FlattenSeq from the back
LEMMA FlattenAppend ==
    ASSUME NEW S, NEW ss \in Seq(Seq(S)), NEW b \in Seq(S), FlattenSeq(ss) \in Seq(S)
    PROVE  FlattenSeq(Append(ss, b)) = FlattenSeq(ss) \o b
<1> DEFINE n == Len(ss)
           tt == Append(ss, b)
           f == FlatFcn(ss)
           g == FlatFcn(tt)
<1>1. n \in Nat
  BY LenProperties
<1>2. /\ tt \in Seq(Seq(S)) /\ Len(tt) = n + 1 /\ tt[n + 1] = b
      /\ \A i \in 1..n : tt[i] = ss[i]
  BY AppendProperties
<1>3. /\ FlattenSeq(ss) = IF n = 0 THEN ss ELSE f[n]
      /\ \A i \in 1..n : f[i] = IF i = 1 THEN ss[i] ELSE f[i - 1] \o ss[i]
  BY FlattenDef
<1>4. /\ FlattenSeq(tt) = g[n + 1]
      /\ \A i \in 1..(n + 1) : g[i] = IF i = 1 THEN tt[i] ELSE g[i - 1] \o tt[i]
  <2> HIDE DEF tt
  <2> QED
    BY FlattenDef, <1>2, <1>1
<1> HIDE DEF tt, f, g
<1> DEFINE H == {k \in Nat : k \in 1..n => g[k] = f[k]}
<1>5. H = Nat
  <2>1. H \in SUBSET Nat /\ 0 \in H
    OBVIOUS
  <2>2. ASSUME NEW k \in H PROVE k + 1 \in H
    <3> SUFFICES ASSUME k + 1 \in 1..n PROVE g[k + 1] = f[k + 1]
      OBVIOUS
    <3>1. /\ f[k + 1] = IF k + 1 = 1 THEN ss[k + 1] ELSE f[k] \o ss[k + 1]
          /\ g[k + 1] = IF k + 1 = 1 THEN ss[k + 1] ELSE g[k] \o ss[k + 1]
      <4>1. /\ k + 1 \in 1..(n + 1) /\ (k + 1) - 1 = k /\ k + 1 \in 1..n
        BY <1>1
      <4>2. f[k + 1] = IF k + 1 = 1 THEN ss[k + 1] ELSE f[(k + 1) - 1] \o ss[k + 1]
        BY <1>3, <4>1
      <4>3. g[k + 1] = IF k + 1 = 1 THEN tt[k + 1] ELSE g[(k + 1) - 1] \o tt[k + 1]
        BY <1>4, <4>1
      <4>4. tt[k + 1] = ss[k + 1]
        BY <1>2, <4>1
      <4> QED
        BY <4>1, <4>2, <4>3, <4>4
    <3>2. k + 1 # 1 => g[k] = f[k]
      BY <1>1
    <3> QED
      BY <3>1, <3>2
  <2> HIDE DEF H
  <2> QED BY <2>1, <2>2, NatSets
<1>6. CASE n = 0
  <2>1. FlattenSeq(tt) = b
    BY <1>1, <1>2, <1>4, <1>6
  <2>2. FlattenSeq(ss) = <<>>
    BY <1>3, <1>6, EmptySeq
  <2> QED
    BY <2>1, <2>2, ConcatEmptySeq DEF tt
<1>7. CASE n # 0
  <2>1. n \in Nat /\ n \in H /\ n \in 1..n /\ n + 1 \in 1..(n + 1)
    BY <1>1, <1>5, <1>7
  <2>2. g[n] = f[n]
    BY <2>1
  <2>3. g[n + 1] = IF n + 1 = 1 THEN tt[n + 1] ELSE g[n + 1 - 1] \o tt[n + 1]
    BY <1>4, <2>1
  <2>4. n + 1 # 1 /\ n + 1 - 1 = n
    BY <1>1, <1>7
  <2>5. g[n + 1] = g[n] \o b
    BY <1>2, <2>3, <2>4
  <2> QED
    BY <2>2, <2>5, <1>3, <1>4, <1>7 DEF tt
<1> QED
  BY <1>6, <1>7

\* FlattenSeq of nothing
LEMMA FlattenEmpty == FlattenSeq(<<>>) = <<>>
    BY DEF FlattenSeq

\* FlattenSeq gives a sequence of the elements.
LEMMA FlattenType ==
    ASSUME NEW S, NEW ss \in Seq(Seq(S))
    PROVE  FlattenSeq(ss) \in Seq(S)
<1> DEFINE G == {t \in Seq(Seq(S)) : FlattenSeq(t) \in Seq(S)}
<1>1. <<>> \in G
    BY FlattenEmpty, EmptySeq
<1>2. ASSUME NEW t \in G, NEW b \in Seq(S) PROVE Append(t, b) \in G
  <2>1. FlattenSeq(Append(t, b)) = FlattenSeq(t) \o b
    BY FlattenAppend
  <2>2. FlattenSeq(t) \o b \in Seq(S)
    BY ConcatProperties
  <2>3. Append(t, b) \in Seq(Seq(S))
    BY AppendProperties
  <2> QED
    BY <2>1, <2>2, <2>3
<1>3. G = Seq(Seq(S))
  <2>1. G \in SUBSET Seq(Seq(S))
    OBVIOUS
  <2> HIDE DEF G
  <2> QED BY <1>1, <1>2, <2>1, SeqSets
<1> QED
    BY <1>3

\* FlattenSeq from the front
LEMMA FlattenHead ==
    ASSUME NEW S, NEW ss \in Seq(Seq(S)), ss # <<>>
    PROVE  FlattenSeq(ss) = Head(ss) \o FlattenSeq(Tail(ss))
<1> DEFINE G == {t \in Seq(Seq(S)) :
                    t # <<>> => FlattenSeq(t) = Head(t) \o FlattenSeq(Tail(t))}
<1>1. <<>> \in G
    BY EmptySeq
<1>2. ASSUME NEW t \in G, NEW b \in Seq(S) PROVE Append(t, b) \in G
  <2> DEFINE u == Append(t, b)
  <2>1. FlattenSeq(u) = FlattenSeq(t) \o b
    BY FlattenAppend, FlattenType
  <2>2. u \in Seq(Seq(S))
    BY AppendProperties
  <2>3. /\ Head(u) = IF t = <<>> THEN b ELSE Head(t)
        /\ Tail(u) = IF t = <<>> THEN <<>> ELSE Append(Tail(t), b)
    BY HeadTailAppend
  <2>4. CASE t = <<>>
    BY <2>1, <2>2, <2>3, <2>4, FlattenEmpty, ConcatEmptySeq
  <2>5. CASE t # <<>>
    <3>1. Head(t) \in Seq(S) /\ Tail(t) \in Seq(Seq(S))
      BY <2>5, HeadTailProperties
    <3>2. FlattenSeq(Tail(t)) \in Seq(S)
      BY <3>1, FlattenType
    <3>3. FlattenSeq(Append(Tail(t), b)) = FlattenSeq(Tail(t)) \o b
      BY <3>1, <3>2, FlattenAppend
    <3>4. FlattenSeq(t) = Head(t) \o FlattenSeq(Tail(t))
      BY <2>5
    <3>5. (Head(t) \o FlattenSeq(Tail(t))) \o b = Head(t) \o (FlattenSeq(Tail(t)) \o b)
      <4> DEFINE h == Head(t)
                 r == FlattenSeq(Tail(t))
      <4>1. h \in Seq(S) /\ r \in Seq(S)
        BY <3>1, <3>2
      <4> HIDE DEF h, r, G
      <4>2. (h \o r) \o b = h \o (r \o b)
        BY <4>1, ConcatAssociative, SMTT(30)
      <4> QED
        BY <4>2 DEF h, r
    <3> HIDE DEF u
    <3> QED
      BY <2>1, <2>2, <2>3, <2>5, <3>3, <3>4, <3>5 DEF u
  <2> QED
    BY <2>4, <2>5
<1>3. G = Seq(Seq(S))
  <2>1. G \in SUBSET Seq(Seq(S))
    OBVIOUS
  <2> HIDE DEF G
  <2> QED BY <1>1, <1>2, <2>1, SeqSets
<1> QED
    BY <1>3

-----------------------------------------------------------------------------
(* Lines: records with a length. *)

\* The function behind Length(s)
SumFcn(s) == CHOOSE f : f = [i \in 0..Len(s) |-> IF i = 0 THEN 0 ELSE f[i - 1] + s[i].len]

\* f is what Length(s) builds up.
Sums(f, s) ==
    /\ f \in [0..Len(s) -> Nat]
    /\ \A i \in 0..Len(s) : f[i] = IF i = 0 THEN 0 ELSE f[i - 1] + s[i].len

\* The recursion has a solution ...
LEMMA SumsExists ==
    ASSUME NEW L, \A x \in L : x.len \in Nat, NEW s \in Seq(L)
    PROVE  \E f : Sums(f, s)
<1> DEFINE G == {t \in Seq(L) : \E f : Sums(f, t)}
<1>1. <<>> \in G
  <2>1. Sums([i \in 0..0 |-> 0], <<>>)
    BY DEF Sums
  <2> QED
    BY <2>1, EmptySeq
<1>2. ASSUME NEW t \in G, NEW x \in L PROVE Append(t, x) \in G
  <2>1. PICK f : Sums(f, t)
    OBVIOUS
  <2> DEFINE n == Len(t)
             u == Append(t, x)
             g == [i \in 0..(n + 1) |-> IF i = n + 1 THEN f[n] + x.len ELSE f[i]]
  <2>2. n \in Nat /\ t \in Seq(L) /\ x.len \in Nat
    BY LenProperties
  <2>3. /\ u \in Seq(L) /\ Len(u) = n + 1 /\ u[n + 1] = x
        /\ \A i \in 1..n : u[i] = t[i]
    BY <2>2, AppendProperties
  <2> HIDE DEF u
  <2>4. ASSUME NEW i \in 0..n PROVE f[i] \in Nat
    BY <2>1, <2>2 DEF Sums
  <2>5. g \in [0..Len(u) -> Nat]
    BY <2>2, <2>3, <2>4
  <2>6. ASSUME NEW i \in 0..Len(u)
        PROVE  g[i] = IF i = 0 THEN 0 ELSE g[i - 1] + u[i].len
    <3>1. CASE i = n + 1
      BY <2>2, <2>3, <3>1
    <3>2. CASE i # n + 1
      <4>1. i \in 0..n /\ g[i] = f[i] /\ (i # 0 => g[i - 1] = f[i - 1] /\ u[i] = t[i])
        BY <2>2, <2>3, <3>2
      <4>2. f[i] = IF i = 0 THEN 0 ELSE f[i - 1] + t[i].len
        BY <2>1, <4>1 DEF Sums
      <4> QED
        BY <4>1, <4>2
    <3> QED
      BY <3>1, <3>2
  <2>7. Sums(g, u)
    <3> HIDE DEF g
    <3> QED BY <2>5, <2>6 DEF Sums
  <2> QED
    BY <2>3, <2>7 DEF u
<1>3. G = Seq(L)
  <2>1. G \in SUBSET Seq(L)
    OBVIOUS
  <2> HIDE DEF G
  <2> QED BY <1>1, <1>2, <2>1, SeqSets
<1> QED
    BY <1>3

\* ... so that Length(s) is its last value.
LEMMA LengthDef ==
    ASSUME NEW L, \A x \in L : x.len \in Nat, NEW s \in Seq(L)
    PROVE  Length(s) = SumFcn(s)[Len(s)] /\ Sums(SumFcn(s), s)
<1>1. Length(s) = SumFcn(s)[Len(s)]
  BY DEF Length, SumFcn
<1>2. PICK g : Sums(g, s)
  BY SumsExists
<1>3. g = [i \in 0..Len(s) |-> IF i = 0 THEN 0 ELSE g[i - 1] + s[i].len]
  BY <1>2 DEF Sums
<1>4. SumFcn(s) = [i \in 0..Len(s) |-> IF i = 0 THEN 0 ELSE SumFcn(s)[i - 1] + s[i].len]
  BY <1>3, Zenon DEF SumFcn
<1> DEFINE f == SumFcn(s)
           n == Len(s)
<1>5. n \in Nat
  BY LenProperties
<1>6. DOMAIN f = 0..n /\ \A i \in 0..n : f[i] = IF i = 0 THEN 0 ELSE f[i - 1] + s[i].len
  BY <1>4
<1>7. f = [i \in 0..n |-> f[i]]
  BY <1>4
<1>8. \A i \in 1..n : s[i].len \in Nat
  BY ElementOfSeq
<1> HIDE DEF f
<1> DEFINE H == {k \in Nat : k \in 0..n => f[k] \in Nat}
<1>9. H = Nat
  <2>1. H \in SUBSET Nat /\ 0 \in H
    BY <1>5, <1>6
  <2>2. ASSUME NEW k \in H PROVE k + 1 \in H
    <3> SUFFICES ASSUME k + 1 \in 0..n PROVE f[k + 1] \in Nat
      OBVIOUS
    <3>1. f[k + 1] = f[k] + s[k + 1].len /\ f[k] \in Nat /\ k + 1 \in 1..n
      BY <1>5, <1>6
    <3> QED
      BY <3>1, <1>8
  <2> HIDE DEF H
  <2> QED BY <2>1, <2>2, NatSets
<1>10. f \in [0..n -> Nat]
  <2>1. \A i \in 0..n : f[i] \in Nat
    BY <1>5, <1>9
  <2> QED
    BY <2>1, <1>7
<1> QED
  BY <1>1, <1>6, <1>10 DEF f, Sums

\* A line more is its bytes more.
LEMMA LengthAppend ==
    ASSUME NEW L, \A x \in L : x.len \in Nat, NEW s \in Seq(L), NEW x \in L
    PROVE  Length(Append(s, x)) = Length(s) + x.len
<1> DEFINE n == Len(s)
           t == Append(s, x)
           f == SumFcn(s)
           g == SumFcn(t)
<1>1. n \in Nat
  BY LenProperties
<1>2. /\ t \in Seq(L) /\ Len(t) = n + 1 /\ t[n + 1] = x
      /\ \A i \in 1..n : t[i] = s[i]
  BY AppendProperties
<1>3. Length(s) = f[n] /\ Sums(f, s)
  BY LengthDef
<1>4. Length(t) = g[n + 1] /\ Sums(g, t)
  <2> HIDE DEF t
  <2> QED
    BY LengthDef, <1>2
<1> HIDE DEF t, f, g
<1> DEFINE H == {k \in Nat : k \in 0..n => g[k] = f[k]}
<1>5. H = Nat
  <2>1. H \in SUBSET Nat /\ 0 \in H
    BY <1>1, <1>2, <1>3, <1>4 DEF Sums
  <2>2. ASSUME NEW k \in H PROVE k + 1 \in H
    <3> SUFFICES ASSUME k + 1 \in 0..n PROVE g[k + 1] = f[k + 1]
      OBVIOUS
    <3>1. k + 1 \in 1..n /\ k \in 0..n /\ k + 1 \in 0..(n + 1) /\ k + 1 # 0 /\ k + 1 - 1 = k
      BY <1>1
    <3>2. f[k + 1] = f[k] + s[k + 1].len
      BY <1>3, <3>1 DEF Sums
    <3>3. g[k + 1] = g[k] + t[k + 1].len
      <4>1. k + 1 \in 0..Len(t)
        BY <1>2, <3>1
      <4> QED
        BY <1>4, <3>1, <4>1 DEF Sums
    <3> QED
      BY <1>2, <3>1, <3>2, <3>3
  <2> HIDE DEF H
  <2> QED BY <2>1, <2>2, NatSets
<1>6. g[n] = f[n]
  BY <1>1, <1>5
<1>7. g[n + 1] = g[n] + x.len
  <2>1. n + 1 \in 0..Len(t) /\ n + 1 # 0 /\ n + 1 - 1 = n
    BY <1>1, <1>2
  <2>2. g[n + 1] = IF n + 1 = 0 THEN 0 ELSE g[n + 1 - 1] + t[n + 1].len
    BY <1>4, <2>1 DEF Sums
  <2> QED
    BY <1>2, <2>1, <2>2
<1> QED
  BY <1>3, <1>4, <1>6, <1>7 DEF t

\* No lines, no bytes
LEMMA LengthEmpty == Length(<<>>) = 0
<1>1. <<>> \in Seq({})
  BY EmptySeq
<1>2. Length(<<>>) = SumFcn(<<>>)[Len(<<>>)] /\ Sums(SumFcn(<<>>), <<>>)
  BY <1>1, LengthDef
<1> QED
  BY <1>2 DEF Sums

\* Lengths are natural numbers.
LEMMA LengthType ==
    ASSUME NEW L, \A x \in L : x.len \in Nat, NEW s \in Seq(L)
    PROVE  Length(s) \in Nat
<1>1. Len(s) \in 0..Len(s)
  BY LenProperties
<1> QED
  BY <1>1, LengthDef DEF Sums

\* Length is additive.
LEMMA LengthConcat ==
    ASSUME NEW L, \A x \in L : x.len \in Nat, NEW s \in Seq(L), NEW t \in Seq(L)
    PROVE  Length(s \o t) = Length(s) + Length(t)
<1> DEFINE G == {u \in Seq(L) : Length(s \o u) = Length(s) + Length(u)}
<1>1. <<>> \in G
  <2>1. s \o <<>> = s
    BY ConcatEmptySeq
  <2> QED
    BY <2>1, LengthEmpty, LengthType, EmptySeq
<1>2. ASSUME NEW u \in G, NEW x \in L PROVE Append(u, x) \in G
  <2>1. Append(u, x) \in Seq(L) /\ Append(u, x) = u \o <<x>>
    BY AppendProperties, AppendIsConcat
  <2>2. s \o u \in Seq(L) /\ Append(s \o u, x) = (s \o u) \o <<x>>
    BY ConcatProperties, AppendIsConcat
  <2>3. <<x>> \in Seq(L)
    OBVIOUS
  <2>4. (s \o u) \o <<x>> = s \o (u \o <<x>>)
    BY <2>3, ConcatAssociative
  <2>5. s \o Append(u, x) = Append(s \o u, x)
    BY <2>1, <2>2, <2>4
  <2>6. Length(Append(s \o u, x)) = Length(s \o u) + x.len
    BY <2>2, LengthAppend
  <2>7. Length(Append(u, x)) = Length(u) + x.len
    BY LengthAppend
  <2>8. Length(s) \in Nat /\ Length(u) \in Nat /\ x.len \in Nat
    BY LengthType
  <2>9. Length(s \o u) = Length(s) + Length(u)
    OBVIOUS
  <2>10. Length(s \o Append(u, x)) = Length(s) + Length(Append(u, x))
    BY <2>5, <2>6, <2>7, <2>8, <2>9
  <2> QED
    BY <2>1, <2>10
<1>3. G = Seq(L)
  <2>1. G \in SUBSET Seq(L)
    OBVIOUS
  <2> HIDE DEF G
  <2> QED BY <1>1, <1>2, <2>1, SeqSets
<1> QED
    BY <1>3

\* The lines of a failed write have no more bytes than the buffer.
LEMMA LengthPrefix ==
    ASSUME NEW L, \A x \in L : x.len \in Nat, NEW s \in Seq(L), NEW n \in 0..Len(s)
    PROVE  SubSeq(s, 1, n) \in Seq(L) /\ Length(SubSeq(s, 1, n)) <= Length(s)
<1>1. Len(s) \in Nat /\ \A i \in 1..Len(s) : s[i] \in L
  BY LenProperties, ElementOfSeq
<1>2. SubSeq(s, 1, n) \in Seq(L) /\ SubSeq(s, n + 1, Len(s)) \in Seq(L)
  BY <1>1, SubSeqProperties
<1>3. SubSeq(s, 1, n) \o SubSeq(s, n + 1, Len(s)) = s
  <2>1. SubSeq(s, 1, n) \o SubSeq(s, n + 1, Len(s)) = SubSeq(s, 1, Len(s))
    <3>1. 1 \in 1..(Len(s) + 1) /\ n \in (1 - 1)..Len(s) /\ Len(s) \in n..Len(s)
      BY <1>1
    <3> QED
      BY <3>1, ConcatAdjacentSubSeq
  <2> QED
    BY <2>1, SubSeqFull
<1>4. Length(s) = Length(SubSeq(s, 1, n)) + Length(SubSeq(s, n + 1, Len(s)))
  BY <1>2, <1>3, LengthConcat
<1>5. Length(SubSeq(s, 1, n)) \in Nat /\ Length(SubSeq(s, n + 1, Len(s))) \in Nat
  BY <1>2, LengthType
<1> QED
  BY <1>2, <1>4, <1>5

-----------------------------------------------------------------------------
(* LogFile *)

\* Lines may be grouped as one likes.
LEMMA LinesAssociative ==
    \A s, t, u \in Seq(Line) : (s \o t) \o u = s \o (t \o u)
  BY ConcatAssociative

FileType ==
    [lines : Seq(Line), writtenbytes_ : Nat, flushed : Nat, early : Nat, overdue : Nat]
LogFileType ==
    [archive : Seq(Line), closed : FileType, file_ : FileType, count_ : Nat,
     startOfPeriod_ : Nat, lastRoll_ : Nat, lastFlush_ : Nat]

\* Lines have lengths.
LEMMA LineLen == \A x \in Line : x.len \in Nat
<1>1. Lens \subseteq Nat
  BY BufferAssumption
<1> QED
  BY <1>1 DEF Line

\* Days follow each other as the clock goes on.
LEMMA PeriodMonotone ==
    ASSUME NEW s \in Nat, NEW t \in Nat, s <= t
    PROVE  Period(s) \in Nat /\ Period(t) \in Nat /\ Period(s) <= Period(t)
<1> DEFINE k == kRollPerSeconds_
           a == s \div k
           b == t \div k
<1>1. k \in Nat \ {0}
  BY LogFileAssumption
<1>2. a \in Nat /\ b \in Nat /\ a <= b
  BY <1>1, Z3
<1> HIDE DEF k, a, b
<1>3. a * k \in Nat /\ b * k \in Nat /\ a * k <= b * k
  BY <1>1, <1>2
<1> QED
  BY <1>3 DEF Period, k, a, b

\* count_ stops at checkEveryN_.
LEMMA Capped ==
    ASSUME NEW c \in Nat
    PROVE  Min({c + 1, checkEveryN_}) = IF c + 1 <= checkEveryN_ THEN c + 1 ELSE checkEveryN_
<1>1. checkEveryN_ \in Nat
  BY LogFileAssumption
<1> QED
  BY <1>1 DEF Min

\* flush keeps everything but how much has left the stream.
LEMMA FlushFields ==
    ASSUME NEW lf \in LogFileType
    PROVE  LET r == flush(lf) IN
           /\ r \in LogFileType
           /\ r.archive = lf.archive /\ r.closed = lf.closed /\ r.count_ = lf.count_
           /\ r.startOfPeriod_ = lf.startOfPeriod_ /\ r.lastRoll_ = lf.lastRoll_
           /\ r.file_.lines = lf.file_.lines /\ r.file_.writtenbytes_ = lf.file_.writtenbytes_
           /\ r.file_.early = lf.file_.early /\ r.file_.overdue = lf.file_.overdue
<1> DEFINE f == lf.file_
           m == Len(f.lines)
           g == [f EXCEPT !.flushed = m]
           r == flush(lf)
<1>1. f \in FileType /\ m \in Nat
  BY LenProperties DEF LogFileType, FileType
<1>2. r = [lf EXCEPT !.file_ = g]
  BY DEF flush
<1> HIDE DEF f, m, r
<1>3. /\ g \in FileType /\ g.lines = f.lines /\ g.writtenbytes_ = f.writtenbytes_
      /\ g.early = f.early /\ g.overdue = f.overdue
  BY <1>1 DEF FileType
<1> HIDE DEF g
<1>4. /\ r \in LogFileType /\ r.file_ = g
      /\ r.archive = lf.archive /\ r.closed = lf.closed /\ r.count_ = lf.count_
      /\ r.startOfPeriod_ = lf.startOfPeriod_ /\ r.lastRoll_ = lf.lastRoll_
  BY <1>2, <1>3 DEF LogFileType
<1> QED
  BY <1>3, <1>4 DEF r, f

\* What appendInlock makes of lf: the current file grows to g and is closed if it
\* must (it is too large, or the day is over when it is time to look) and may be.
Appended(lf, b, n, time, later, r, g, c, roll) ==
    /\ g \in FileType
    /\ g.lines = lf.file_.lines \o SubSeq(b, 1, n)
    /\ g.writtenbytes_ = IF n = Len(b) THEN lf.file_.writtenbytes_ + Length(b)
                         ELSE lf.file_.writtenbytes_
    /\ g.early = IF time = lf.lastRoll_ THEN lf.file_.early + Length(b) ELSE lf.file_.early
    /\ g.overdue = IF Period(time) # lf.startOfPeriod_ THEN lf.file_.overdue + 1
                   ELSE lf.file_.overdue
    /\ c = IF lf.count_ + 1 <= checkEveryN_ THEN lf.count_ + 1 ELSE checkEveryN_
    /\ roll <=> /\ \/ g.writtenbytes_ > rollsize_
                   \/ c >= checkEveryN_ /\ Period(time) # lf.startOfPeriod_
                /\ later > lf.lastRoll_
    /\ r \in LogFileType
    /\ r.count_ = IF ~(g.writtenbytes_ > rollsize_) /\ c >= checkEveryN_ THEN 0 ELSE c
    /\ roll =>
        /\ r.archive = lf.archive \o lf.closed.lines
        /\ r.closed.lines = g.lines
        /\ r.closed.early = g.early /\ r.closed.overdue = g.overdue
        /\ r.file_.lines = <<>> /\ r.file_.writtenbytes_ = 0
        /\ r.file_.early = 0 /\ r.file_.overdue = 0
        /\ r.lastRoll_ = later /\ r.startOfPeriod_ = Period(later)
    /\ ~roll =>
        /\ r.archive = lf.archive /\ r.closed = lf.closed
        /\ r.file_.lines = g.lines /\ r.file_.writtenbytes_ = g.writtenbytes_
        /\ r.file_.early = g.early /\ r.file_.overdue = g.overdue
        /\ r.lastRoll_ = lf.lastRoll_ /\ r.startOfPeriod_ = lf.startOfPeriod_

\* appendInlock does that, whatever it does to the stream's buffer.
LEMMA AppendFields ==
    ASSUME NEW lf \in LogFileType, NEW b \in Seq(Line), NEW n \in 0..Len(b),
           NEW time \in Nat, NEW later \in Nat
    PROVE  \E g, c, roll :
             Appended(lf, b, n, time, later, appendInlock(lf, b, n, time, later), g, c, roll)
<1> DEFINE late == Period(time) # lf.startOfPeriod_
           f == lf.file_
           gl == f.lines \o SubSeq(b, 1, n)
           gw == IF n = Len(b) THEN f.writtenbytes_ + Length(b) ELSE f.writtenbytes_
           ge == IF time = lf.lastRoll_ THEN f.early + Length(b) ELSE f.early
           go == IF late THEN f.overdue + 1 ELSE f.overdue
           g == [f EXCEPT !.lines = gl, !.writtenbytes_ = gw, !.early = ge, !.overdue = go]
           large == g.writtenbytes_ > rollsize_
           c == IF lf.count_ + 1 <= checkEveryN_ THEN lf.count_ + 1 ELSE checkEveryN_
           must == large \/ (c >= checkEveryN_ /\ late)
           roll == must /\ later > lf.lastRoll_
           c2 == IF ~large /\ c >= checkEveryN_ THEN 0 ELSE c
           r == appendInlock(lf, b, n, time, later)
           w == WriteLines(lf, b, n, time)
           d == [lf EXCEPT !.file_ = g, !.count_ = c2]
           q == IF must THEN rollFile(d, later) ELSE d
<1>1. lf.count_ \in Nat /\ lf.file_ \in FileType /\ checkEveryN_ \in Nat /\ c \in Nat /\ c2 \in Nat
  BY LogFileAssumption DEF LogFileType
<1>2. /\ g \in FileType
      /\ g.lines = lf.file_.lines \o SubSeq(b, 1, n)
      /\ g.writtenbytes_ = IF n = Len(b) THEN lf.file_.writtenbytes_ + Length(b)
                           ELSE lf.file_.writtenbytes_
      /\ g.early = IF time = lf.lastRoll_ THEN lf.file_.early + Length(b) ELSE lf.file_.early
      /\ g.overdue = IF Period(time) # lf.startOfPeriod_ THEN lf.file_.overdue + 1
                     ELSE lf.file_.overdue
  <2>1. SubSeq(b, 1, n) \in Seq(Line) /\ Length(b) \in Nat
    BY LengthPrefix, LengthType, LineLen
  <2>2. /\ f \in FileType /\ f.lines \in Seq(Line) /\ f.writtenbytes_ \in Nat /\ f.early \in Nat
        /\ f.overdue \in Nat
    BY <1>1 DEF FileType
  <2>3. gl \in Seq(Line) /\ gw \in Nat /\ ge \in Nat /\ go \in Nat
    <3>1. gl \in Seq(Line)
      BY <2>1, <2>2, ConcatProperties
    <3> HIDE DEF f, late
    <3> QED
      BY <2>1, <2>2, <3>1, SMTT(30)
  <2> HIDE DEF f, gl, gw, ge, go
  <2>4. g \in FileType /\ g.lines = gl /\ g.writtenbytes_ = gw /\ g.early = ge /\ g.overdue = go
    BY <2>2, <2>3 DEF FileType
  <2> HIDE DEF g
  <2> QED
    BY <2>4 DEF f, gl, gw, ge, go
<1>3. w = [lf EXCEPT !.file_ = g, !.count_ = c]
  <2>1. w = [lf EXCEPT !.file_ = g, !.count_ = Min({lf.count_ + 1, checkEveryN_})]
    BY DEF WriteLines
  <2>2. Min({lf.count_ + 1, checkEveryN_}) = c
    BY <1>1, Capped
  <2> QED
    BY <2>1, <2>2
<1> HIDE DEF g, c
<1>4. w.file_ = g /\ w.count_ = c /\ w.startOfPeriod_ = lf.startOfPeriod_
  BY <1>3 DEF LogFileType
<1>5. TooLarge(w) = large /\ MustRoll(w, time) = must
  BY <1>4 DEF TooLarge, MustRoll
<1>6. [w EXCEPT !.count_ = IF ~TooLarge(w) /\ @ >= checkEveryN_ THEN 0 ELSE @] = d
  <2> HIDE DEF large
  <2>1. [w EXCEPT !.count_ = IF ~TooLarge(w) /\ @ >= checkEveryN_ THEN 0 ELSE @]
        = [w EXCEPT !.count_ = IF ~large /\ c >= checkEveryN_ THEN 0 ELSE c]
    BY <1>4, <1>5
  <2> HIDE DEF c2
  <2>2. [w EXCEPT !.count_ = c2] = d
    BY <1>3 DEF LogFileType
  <2> QED
    BY <2>1, <2>2 DEF c2
<1>7. r = IF time > q.lastFlush_ + flushInterval_
          THEN [flush(q) EXCEPT !.lastFlush_ = time] ELSE q
  <2> HIDE DEF d, must, large
  <2> QED
    BY <1>5, <1>6 DEF appendInlock
<1> HIDE DEF w, r
<1>8. /\ d \in LogFileType /\ d.file_ = g /\ d.count_ = c2
      /\ d.archive = lf.archive /\ d.closed = lf.closed
      /\ d.lastRoll_ = lf.lastRoll_ /\ d.startOfPeriod_ = lf.startOfPeriod_
  <2> HIDE DEF c2
  <2> QED
    BY <1>1, <1>2 DEF LogFileType
<1> HIDE DEF d, c2, large
\* Behind rollFile:
<1>9. /\ q \in LogFileType /\ q.count_ = c2
      /\ roll => /\ q.archive = lf.archive \o lf.closed.lines
                 /\ q.closed.lines = g.lines
                 /\ q.closed.early = g.early /\ q.closed.overdue = g.overdue
                 /\ q.file_ = NewFile
                 /\ q.lastRoll_ = later /\ q.startOfPeriod_ = Period(later)
      /\ ~roll => q = d
  <2>1. CASE roll
    <3> DEFINE x == flush(d).file_
               a == d.archive \o d.closed.lines
               p == Period(later)
    <3>1. q = [d EXCEPT !.lastRoll_ = later, !.lastFlush_ = later, !.startOfPeriod_ = p,
                        !.archive = a, !.closed = x, !.file_ = NewFile]
      <4>1. q = rollFile(d, later) /\ ~(later <= d.lastRoll_)
        <5>1. later > lf.lastRoll_ /\ lf.lastRoll_ \in Nat /\ must
          BY <2>1 DEF LogFileType
        <5> HIDE DEF must
        <5> QED BY <1>8, <5>1
      <4> QED
        BY <4>1 DEF rollFile
    <3>2. /\ x \in FileType /\ x.lines = g.lines /\ x.early = g.early /\ x.overdue = g.overdue
      <4>1. flush(d) \in LogFileType
        BY <1>8, FlushFields
      <4> QED
        BY <1>8, FlushFields, <4>1 DEF LogFileType
    <3>3. a \in Seq(Line) /\ a = lf.archive \o lf.closed.lines
      BY <1>8, ConcatProperties DEF LogFileType, FileType
    <3>4. p \in Nat
      BY PeriodMonotone
    <3>5. NewFile \in FileType
      BY EmptySeq DEF NewFile, FileType
    <3> HIDE DEF x, a, p, q
    <3>6. /\ q \in LogFileType /\ q.count_ = d.count_ /\ q.archive = a /\ q.closed = x
          /\ q.file_ = NewFile /\ q.lastRoll_ = later /\ q.startOfPeriod_ = p
      BY <1>8, <3>1, <3>2, <3>3, <3>4, <3>5 DEF LogFileType
    <3> HIDE DEF roll
    <3> QED
      BY <1>8, <2>1, <3>2, <3>3, <3>6 DEF p
  <2>2. CASE ~roll
    <3>1. q = d
      <4>1. CASE ~must
        BY <4>1
      <4>2. CASE must
        <5>1. ~(later > lf.lastRoll_) /\ lf.lastRoll_ \in Nat
          BY <2>2, <4>2 DEF LogFileType
        <5>2. later <= d.lastRoll_
          BY <5>1, <1>8
        <5> QED
          BY <4>2, <5>2 DEF rollFile
      <4> QED BY <4>1, <4>2
    <3> HIDE DEF q, roll
    <3> QED
      BY <1>8, <2>2, <3>1
  <2> QED
    BY <2>1, <2>2
<1> HIDE DEF q, roll
<1>10. /\ r \in LogFileType /\ r.count_ = q.count_
       /\ r.archive = q.archive /\ r.closed = q.closed
       /\ r.startOfPeriod_ = q.startOfPeriod_ /\ r.lastRoll_ = q.lastRoll_
       /\ r.file_.lines = q.file_.lines /\ r.file_.writtenbytes_ = q.file_.writtenbytes_
       /\ r.file_.early = q.file_.early /\ r.file_.overdue = q.file_.overdue
  <2>1. CASE r = q
    BY <1>9, <2>1
  <2>2. CASE r = [flush(q) EXCEPT !.lastFlush_ = time]
    <3> DEFINE x == flush(q)
    <3>1. /\ x \in LogFileType
          /\ x.archive = q.archive /\ x.closed = q.closed /\ x.count_ = q.count_
          /\ x.startOfPeriod_ = q.startOfPeriod_ /\ x.lastRoll_ = q.lastRoll_
          /\ x.file_.lines = q.file_.lines /\ x.file_.writtenbytes_ = q.file_.writtenbytes_
          /\ x.file_.early = q.file_.early /\ x.file_.overdue = q.file_.overdue
      BY <1>9, FlushFields
    <3>2. r = [x EXCEPT !.lastFlush_ = time]
      BY <2>2
    <3> HIDE DEF x
    <3>3. /\ r \in LogFileType /\ r.count_ = x.count_
          /\ r.archive = x.archive /\ r.closed = x.closed /\ r.file_ = x.file_
          /\ r.startOfPeriod_ = x.startOfPeriod_ /\ r.lastRoll_ = x.lastRoll_
      BY <3>1, <3>2 DEF LogFileType
    <3> QED
      BY <3>1, <3>3
  <2> QED
    BY <1>7, <2>1, <2>2
<1>11. /\ r \in LogFileType /\ r.count_ = c2
       /\ roll =>
            /\ r.archive = lf.archive \o lf.closed.lines
            /\ r.closed.lines = g.lines
            /\ r.closed.early = g.early /\ r.closed.overdue = g.overdue
            /\ r.file_.lines = <<>> /\ r.file_.writtenbytes_ = 0
            /\ r.file_.early = 0 /\ r.file_.overdue = 0
            /\ r.lastRoll_ = later /\ r.startOfPeriod_ = Period(later)
       /\ ~roll =>
            /\ r.archive = lf.archive /\ r.closed = lf.closed
            /\ r.file_.lines = g.lines /\ r.file_.writtenbytes_ = g.writtenbytes_
            /\ r.file_.early = g.early /\ r.file_.overdue = g.overdue
            /\ r.lastRoll_ = lf.lastRoll_ /\ r.startOfPeriod_ = lf.startOfPeriod_
  <2>1. /\ NewFile.lines = <<>> /\ NewFile.writtenbytes_ = 0
        /\ NewFile.early = 0 /\ NewFile.overdue = 0
    BY DEF NewFile
  <2>2. CASE roll
    BY <1>9, <1>10, <2>1, <2>2
  <2>3. CASE ~roll
    BY <1>8, <1>9, <1>10, <2>3
  <2> QED
    BY <2>2, <2>3
<1>12. /\ c = IF lf.count_ + 1 <= checkEveryN_ THEN lf.count_ + 1 ELSE checkEveryN_
       /\ roll <=> /\ \/ g.writtenbytes_ > rollsize_
                      \/ c >= checkEveryN_ /\ Period(time) # lf.startOfPeriod_
                   /\ later > lf.lastRoll_
       /\ c2 = IF ~(g.writtenbytes_ > rollsize_) /\ c >= checkEveryN_ THEN 0 ELSE c
  BY DEF c, roll, large, c2
<1> HIDE DEF must, late
<1>13. Appended(lf, b, n, time, later, r, g, c, roll)
  <2>1. r.count_ = IF ~(g.writtenbytes_ > rollsize_) /\ c >= checkEveryN_ THEN 0 ELSE c
    BY <1>11, <1>12
  <2> QED
    BY <1>2, <1>11, <1>12, <2>1, Zenon DEF Appended
<1> QED
  BY <1>13 DEF r

-----------------------------------------------------------------------------
(* What is kept of the accepted lines *)

\* k holds the lines of acc in order, each once, but for those in gone.
Complete(k, acc, gone) ==
    /\ \A i, j \in 1..Len(k) : i < j => k[i].id < k[j].id
    /\ {k[i] : i \in 1..Len(k)} = {acc[i] : i \in 1..Len(acc) \ gone}

NumberedSeq(acc) == \A i \in 1..Len(acc) : acc[i].id = i

\* ... spelled out.
LEMMA CompleteMeans ==
    ASSUME NEW k, NEW acc, NEW gone
    PROVE  Complete(k, acc, gone) <=>
             /\ \A i, j \in 1..Len(k) : i < j => k[i].id < k[j].id
             /\ \A i \in 1..Len(k) : \E j \in 1..Len(acc) \ gone : k[i] = acc[j]
             /\ \A j \in 1..Len(acc) \ gone : \E i \in 1..Len(k) : k[i] = acc[j]
<1> DEFINE S == 1..Len(k)
           T == 1..Len(acc) \ gone
<1> HIDE DEF S, T
<1>1. ({k[i] : i \in S} = {acc[i] : i \in T}) <=>
        /\ \A i \in S : \E j \in T : k[i] = acc[j]
        /\ \A j \in T : \E i \in S : k[i] = acc[j]
  <2> DEFINE A == {k[i] : i \in S}
             B == {acc[i] : i \in T}
  <2>1. \A x : x \in A <=> \E i \in S : x = k[i]
    OBVIOUS
  <2>2. \A x : x \in B <=> \E j \in T : x = acc[j]
    OBVIOUS
  <2>3. ASSUME A = B
        PROVE  /\ \A i \in S : \E j \in T : k[i] = acc[j]
               /\ \A j \in T : \E i \in S : k[i] = acc[j]
    BY <2>1, <2>2, <2>3, Zenon
  <2>4. ASSUME \A i \in S : \E j \in T : k[i] = acc[j],
               \A j \in T : \E i \in S : k[i] = acc[j]
        PROVE  A = B
    <3> HIDE DEF A, B
    <3>1. ASSUME NEW x \in A PROVE x \in B
      BY <2>1, <2>2, <2>4, Zenon
    <3>2. ASSUME NEW x \in B PROVE x \in A
      BY <2>1, <2>2, <2>4, SMT
    <3> QED
      BY <3>1, <3>2
  <2> QED
    BY <2>3, <2>4
<1> QED
  BY <1>1 DEF Complete, S, T

\* A line is accepted.
LEMMA CompleteGrows ==
    ASSUME NEW k \in Seq(Line), NEW acc \in Seq(Line), NEW gone,
           gone \subseteq 1..Len(acc), NumberedSeq(acc), Complete(k, acc, gone),
           NEW line \in Line, line.id = Len(acc) + 1
    PROVE  /\ Complete(Append(k, line), Append(acc, line), gone)
           /\ NumberedSeq(Append(acc, line))
           /\ gone \subseteq 1..Len(Append(acc, line))
<1> DEFINE m == Len(k)
           n == Len(acc)
           kk == Append(k, line)
           aa == Append(acc, line)
<1>1. m \in Nat /\ n \in Nat
  BY LenProperties
<1>2. /\ Len(kk) = m + 1 /\ kk[m + 1] = line /\ \A i \in 1..m : kk[i] = k[i]
      /\ Len(aa) = n + 1 /\ aa[n + 1] = line /\ \A i \in 1..n : aa[i] = acc[i]
  BY AppendProperties
<1>3. \A i \in 1..m : \E j \in 1..n : j \notin gone /\ k[i] = acc[j] /\ k[i].id = j
  BY DEF Complete, NumberedSeq
<1>4. \A j \in 1..n : j \notin gone => \E i \in 1..m : k[i] = acc[j]
  BY DEF Complete
<1> HIDE DEF kk, aa, m, n
<1>5. NumberedSeq(aa) /\ gone \subseteq 1..Len(aa)
  BY <1>1, <1>2 DEF NumberedSeq, n
<1>6. ASSUME NEW i \in 1..Len(kk), NEW j \in 1..Len(kk), i < j
      PROVE  kk[i].id < kk[j].id
  <2>1. i \in 1..m /\ kk[i] = k[i]
    BY <1>1, <1>2, <1>6
  <2>2. CASE j = m + 1
    <3>1. kk[j].id = n + 1
      BY <1>2, <2>2 DEF n
    <3>2. k[i].id \in 1..n
      BY <1>3, <2>1
    <3> QED
      BY <1>1, <2>1, <3>1, <3>2
  <2>3. CASE j # m + 1
    <3>1. j \in 1..m /\ kk[j] = k[j]
      BY <1>1, <1>2, <2>3
    <3> QED
      BY <1>6, <2>1, <3>1 DEF Complete, m
  <2> QED
    BY <2>2, <2>3
<1>7. ASSUME NEW i \in 1..Len(kk)
      PROVE  \E j \in 1..Len(aa) \ gone : kk[i] = aa[j]
  <2>1. CASE i = m + 1
    <3>1. n + 1 \in 1..Len(aa) \ gone
      BY <1>1, <1>2 DEF n
    <3> QED
      BY <1>2, <2>1, <3>1
  <2>2. CASE i # m + 1
    <3>1. i \in 1..m /\ kk[i] = k[i]
      BY <1>1, <1>2, <2>2
    <3>2. PICK j \in 1..n : j \notin gone /\ k[i] = acc[j]
      BY <1>3, <3>1
    <3> QED
      BY <1>1, <1>2, <3>1, <3>2
  <2> QED
    BY <2>1, <2>2
<1>8. ASSUME NEW j \in 1..Len(aa) \ gone
      PROVE  \E i \in 1..Len(kk) : kk[i] = aa[j]
  <2>1. CASE j = n + 1
    <3>1. m + 1 \in 1..Len(kk)
      BY <1>1, <1>2
    <3> QED
      BY <1>2, <2>1, <3>1
  <2>2. CASE j # n + 1
    <3>1. j \in 1..n /\ aa[j] = acc[j]
      BY <1>1, <1>2, <2>2
    <3>2. PICK i \in 1..m : k[i] = acc[j]
      BY <1>4, <3>1
    <3> QED
      BY <1>1, <1>2, <3>1, <3>2
  <2> QED
    BY <2>1, <2>2
<1>9. Complete(kk, aa, gone)
  BY <1>6, <1>7, <1>8, CompleteMeans
<1> QED
  BY <1>5, <1>9 DEF kk, aa

\* Leaving out the lines at from + 1 .. to makes them gone.
LEMMA CompleteShrinks ==
    ASSUME NEW k \in Seq(Line), NEW acc \in Seq(Line), NEW gone,
           NumberedSeq(acc), Complete(k, acc, gone),
           NEW to \in 0..Len(k), NEW from \in 0..to,
           NEW kk \in Seq(Line), Len(kk) = Len(k) - (to - from),
           \A i \in 1..from : kk[i] = k[i],
           \A i \in (from + 1)..Len(kk) : kk[i] = k[i + (to - from)],
           NEW gg, gg = gone \cup {k[i].id : i \in (from + 1)..to}
    PROVE  Complete(kk, acc, gg)
<1> DEFINE m == Len(k)
           h == to - from
           At(i) == IF i <= from THEN i ELSE i + h
<1>1. m \in Nat /\ h \in Nat /\ Len(kk) = m - h /\ to \in Nat /\ from \in Nat /\ to <= m
  BY LenProperties
<1>2. \A i \in 1..m : \E j \in 1..Len(acc) : j \notin gone /\ k[i] = acc[j] /\ k[i].id = j
  <2>1. \A i \in 1..m : \E j \in 1..Len(acc) \ gone : k[i] = acc[j]
    BY CompleteMeans
  <2>2. \A j \in 1..Len(acc) : acc[j].id = j
    BY DEF NumberedSeq
  <2>3. ASSUME NEW i \in 1..m
        PROVE  \E j \in 1..Len(acc) : j \notin gone /\ k[i] = acc[j] /\ k[i].id = j
    <3>1. PICK j \in 1..Len(acc) \ gone : k[i] = acc[j]
      BY <2>1
    <3>2. j \in 1..Len(acc) /\ j \notin gone /\ k[i].id = j
      BY <2>2, <3>1
    <3> QED
      BY <3>1, <3>2
  <2> QED
    BY <2>3
<1>3. \A j \in 1..Len(acc) \ gone : \E i \in 1..m : k[i] = acc[j]
  BY CompleteMeans
<1>4. \A i, j \in 1..m : i < j => k[i].id < k[j].id
  BY DEF Complete
<1>5. ASSUME NEW i \in 1..Len(kk)
      PROVE  At(i) \in 1..m /\ At(i) \notin (from + 1)..to /\ kk[i] = k[At(i)]
  <2>1. CASE i <= from
    <3>1. At(i) = i /\ i \in 1..from /\ i \in 1..m /\ i \notin (from + 1)..to
      BY <1>1, <2>1
    <3> QED
      BY <3>1
  <2>2. CASE ~(i <= from)
    <3>1. At(i) = i + (to - from) /\ i \in (from + 1)..Len(kk)
      BY <1>1, <2>2
    <3>2. At(i) \in 1..m /\ At(i) \notin (from + 1)..to
      BY <1>1, <2>2
    <3> QED
      BY <3>1, <3>2
  <2> QED
    BY <2>1, <2>2
<1>6. ASSUME NEW i \in 1..Len(kk), NEW j \in 1..Len(kk), i < j
      PROVE  kk[i].id < kk[j].id
  <2>1. At(i) < At(j)
    BY <1>1, <1>6
  <2>2. k[At(i)].id < k[At(j)].id
    <3> HIDE DEF At
    <3> QED BY <1>4, <1>5, <2>1
  <2> QED
    BY <1>5, <2>2
<1>7. ASSUME NEW i \in 1..Len(kk)
      PROVE  \E j \in 1..Len(acc) \ gg : kk[i] = acc[j]
  <2> DEFINE a == At(i)
  <2>1. a \in 1..m /\ a \notin (from + 1)..to /\ kk[i] = k[a]
    BY <1>5
  <2> HIDE DEF a, At
  <2>2. PICK j \in 1..Len(acc) : j \notin gone /\ k[a] = acc[j] /\ k[a].id = j
    BY <1>2, <2>1
  <2>3. ASSUME NEW x \in (from + 1)..to PROVE k[x].id # j
    <3>1. x \in 1..m /\ x # a
      BY <1>1, <2>1
    <3>2. PICK y \in 1..Len(acc) : k[x].id = y
      BY <1>2, <3>1
    <3>3. a < x \/ x < a
      BY <2>1, <3>1
    <3>4. k[a].id < k[x].id \/ k[x].id < k[a].id
      BY <1>4, <2>1, <3>1, <3>3
    <3> QED
      BY <2>2, <3>2, <3>4
  <2> QED
    BY <2>1, <2>2, <2>3
<1>8. ASSUME NEW j \in 1..Len(acc) \ gg
      PROVE  \E i \in 1..Len(kk) : kk[i] = acc[j]
  <2>1. PICK a \in 1..m : k[a] = acc[j]
    BY <1>3, Zenon
  <2>2. acc[j].id = j
    BY DEF NumberedSeq
  <2>3. a \notin (from + 1)..to
    BY <2>1, <2>2
  <2> DEFINE i == IF a <= from THEN a ELSE a - h
  <2>4. i \in 1..Len(kk) /\ At(i) = a
    BY <1>1, <2>3
  <2>5. kk[i] = k[a]
    <3> HIDE DEF i, At
    <3> QED BY <2>4, <1>5
  <2> HIDE DEF i
  <2> QED
    BY <2>1, <2>4, <2>5
<1> QED
  BY <1>6, <1>7, <1>8, CompleteMeans

-----------------------------------------------------------------------------
(* The invariant. *)

\* The labels of the backend thread.
Labels == {"none", "open", "test", "lock", "waiting", "collect", "write", "ended"}

TypeInv ==
    /\ accepted \in Seq(Line)
    /\ currentBuffer_ \in Seq(Line)
    /\ buffers_ \in Seq(Seq(Line))
    /\ buffersToWrite \in Seq(Seq(Line))
    /\ nextBuffer_ \in BOOLEAN /\ newBuffer1 \in BOOLEAN /\ newBuffer2 \in BOOLEAN
    /\ pc \in Labels
    /\ output \in LogFileType
    /\ now \in Nat /\ fails \in Nat

\* The spare buffer of the threads that log is only gone when a full buffer took
\* its place: whoever must give up newBuffer2 for it takes two buffers at least.
SpareGoneFull == nextBuffer_ \/ buffers_ # <<>>

\* Outside the part of a round that follows the swap the backend has both spares
\* and nothing to write; in it, it misses no more spares than it took buffers.
Spares ==
    /\ pc # "write" => newBuffer1 /\ newBuffer2 /\ buffersToWrite = <<>>
    /\ pc = "write" =>
        (IF newBuffer1 THEN 0 ELSE 1) + (IF newBuffer2 THEN 0 ELSE 1) <= taken

\* The LogFile that the backend's own replaces is empty.
Began == pc \in {"none", "open"} => output = NewLogFile(1)

Kept == WrittenLines(output) \o Pending

\* Lines are numbered as they are accepted, and the kept ones are complete.
KeptInv ==
    /\ NumberedSeq(accepted)
    /\ lost \subseteq 1..Len(accepted)
    /\ Complete(Kept, accepted, lost)

FitsIn(bs) == \A i \in 1..Len(bs) : Length(bs[i]) <= kLargeBuffer

\* No buffer holds more than its size.
Fits == Length(currentBuffer_) <= kLargeBuffer /\ FitsIn(buffers_) /\ FitsIn(buffersToWrite)

\* The size of the current file but for failed writes is what the file counts,
\* which is over the limit only while all of it came in the second the file was
\* opened in.
SizeInv(lf, t, n) ==
    /\ Length(lf.file_.lines) <= lf.file_.writtenbytes_ + n * kLargeBuffer
    /\ lf.file_.writtenbytes_ <= rollsize_ \/ lf.file_.writtenbytes_ <= lf.file_.early
    /\ lf.lastRoll_ = t => lf.file_.writtenbytes_ <= lf.file_.early
    /\ Length(lf.closed.lines) <= lf.closed.early + rollsize_ + (1 + n) * kLargeBuffer

\* Appends after the end of the day are counted by count_ as well, which starts
\* from zero only when there was none.
DayInv(lf, t) ==
    /\ lf.lastRoll_ <= t
    /\ lf.startOfPeriod_ = Period(lf.lastRoll_)
    /\ lf.count_ <= checkEveryN_ /\ lf.file_.overdue <= lf.count_
    /\ lf.file_.overdue > 0 => Period(t) # lf.startOfPeriod_
    /\ lf.count_ = checkEveryN_ => lf.file_.overdue = 0
    /\ lf.closed.overdue <= checkEveryN_

FileInv == SizeInv(output, now, fails) /\ DayInv(output, now)

IInv ==
    /\ TypeInv /\ SpareGoneFull /\ Spares /\ FullBufferNoticed
    /\ Began /\ KeptInv /\ Fits /\ FileInv

-----------------------------------------------------------------------------
(* What the steps do. *)

\* An appended buffer makes the vector non-empty and one longer.
LEMMA AppendGrows ==
    ASSUME NEW S, NEW s \in Seq(S), NEW x \in S
    PROVE  /\ Append(s, x) \in Seq(S)
           /\ Append(s, x) # <<>>
           /\ Len(Append(s, x)) = Len(s) + 1
           /\ Len(s) \in Nat
           /\ s # <<>> => Len(s) >= 1
    BY AppendProperties, EmptySeq, LenProperties

\* A new LogFile has no lines and meets the bounds.
LEMMA NewLogFileOK ==
    ASSUME NEW t \in Nat, NEW n \in Nat
    PROVE  /\ NewLogFile(t) \in LogFileType
           /\ WrittenLines(NewLogFile(t)) = <<>>
           /\ SizeInv(NewLogFile(t), t, n)
           /\ DayInv(NewLogFile(t), t)
<1> DEFINE lf == NewLogFile(t)
<1>1. Period(t) \in Nat
  BY PeriodMonotone
<1>2. NewFile \in FileType
  BY EmptySeq DEF NewFile, FileType
<1>3. /\ lf.archive = <<>> /\ lf.closed = NewFile /\ lf.file_ = NewFile /\ lf.count_ = 0
      /\ lf.startOfPeriod_ = Period(t) /\ lf.lastRoll_ = t
  BY DEF NewLogFile
<1>4. lf \in LogFileType
  BY <1>1, <1>2, EmptySeq DEF NewLogFile, LogFileType
<1> HIDE DEF lf
<1>5. /\ NewFile.lines = <<>> /\ NewFile.writtenbytes_ = 0
      /\ NewFile.early = 0 /\ NewFile.overdue = 0
  BY DEF NewFile
<1>6. WrittenLines(lf) = <<>>
  BY <1>3, <1>5, ConcatEmptySeq, EmptySeq DEF WrittenLines
<1>7. kLargeBuffer \in Nat /\ rollsize_ \in Nat /\ checkEveryN_ \in Nat \ {0}
  BY LogFileAssumption, BufferAssumption
<1>8. n * kLargeBuffer \in Nat /\ (1 + n) * kLargeBuffer \in Nat
  BY <1>7
<1>9. SizeInv(lf, t, n)
  BY <1>3, <1>5, <1>7, <1>8, LengthEmpty DEF SizeInv
<1>10. DayInv(lf, t)
  BY <1>3, <1>5, <1>7 DEF DayInv
<1> QED
  BY <1>4, <1>6, <1>9, <1>10 DEF lf

\* flush keeps all of that.
LEMMA FlushOK ==
    ASSUME NEW lf \in LogFileType
    PROVE  /\ flush(lf) \in LogFileType
           /\ WrittenLines(flush(lf)) = WrittenLines(lf)
           /\ \A t, n : SizeInv(lf, t, n) => SizeInv(flush(lf), t, n)
           /\ \A t : DayInv(lf, t) => DayInv(flush(lf), t)
<1> DEFINE r == flush(lf)
<1>1. /\ r \in LogFileType
      /\ r.archive = lf.archive /\ r.closed = lf.closed /\ r.count_ = lf.count_
      /\ r.startOfPeriod_ = lf.startOfPeriod_ /\ r.lastRoll_ = lf.lastRoll_
      /\ r.file_.lines = lf.file_.lines /\ r.file_.writtenbytes_ = lf.file_.writtenbytes_
      /\ r.file_.early = lf.file_.early /\ r.file_.overdue = lf.file_.overdue
  BY FlushFields
<1> HIDE DEF r
<1>2. WrittenLines(r) = WrittenLines(lf)
  BY <1>1 DEF WrittenLines
<1>3. ASSUME NEW t, NEW n, SizeInv(lf, t, n) PROVE SizeInv(r, t, n)
  BY <1>1, <1>3, Zenon DEF SizeInv
<1>4. ASSUME NEW t, DayInv(lf, t) PROVE DayInv(r, t)
  BY <1>1, <1>4, Zenon DEF DayInv
<1> QED
  BY <1>1, <1>2, <1>3, <1>4 DEF r

\* A step of the loop that writes appends some first lines of the next buffer at
\* some time; lines left out are a failed write.
LEMMA WriteCases ==
    ASSUME TypeInv, WriteBuffer
    PROVE  \E n \in 0..Len(Head(buffersToWrite)), time \in Nat :
             LET b == Head(buffersToWrite) IN
             /\ now <= time /\ time <= now' /\ now' \in Nat
             /\ output' = appendInlock(output, b, n, time, now')
             /\ \/ n = Len(b) /\ lost' = lost /\ fails' = fails
                \/ /\ n # Len(b) /\ fails' = fails + 1
                   /\ lost' = lost \cup {b[i].id : i \in (n + 1)..Len(b)}
<1> DEFINE b == Head(buffersToWrite)
<1>1. b \in Seq(Line)
  BY HeadTailProperties DEF TypeInv, WriteBuffer
<1>2. Len(b) \in Nat
  BY <1>1, LenProperties
<1>3. PICK time \in now..MaxTime, later \in {0, 1} :
         /\ now' = time + later
         /\ \/ /\ output' = appendInlock(output, b, Len(b), time, now')
               /\ UNCHANGED <<lost, fails>>
            \/ /\ fails' = fails + 1
               /\ \E n \in 0..(Len(b) - 1) :
                     /\ output' = appendInlock(output, b, n, time, now')
                     /\ lost' = lost \cup {b[i].id : i \in (n + 1)..Len(b)}
  BY DEF WriteBuffer
<1> HIDE DEF b
<1>4. time \in Nat /\ now <= time /\ time <= now' /\ now' \in Nat
  BY <1>3, BufferAssumption DEF TypeInv
<1>5. CASE output' = appendInlock(output, b, Len(b), time, now') /\ UNCHANGED <<lost, fails>>
  <2>1. Len(b) \in 0..Len(b)
    BY <1>2
  <2> QED
    BY <1>4, <1>5, <2>1 DEF b
<1>6. CASE /\ fails' = fails + 1
           /\ \E n \in 0..(Len(b) - 1) :
                     /\ output' = appendInlock(output, b, n, time, now')
                     /\ lost' = lost \cup {b[i].id : i \in (n + 1)..Len(b)}
  <2>1. PICK n \in 0..(Len(b) - 1) :
                     /\ output' = appendInlock(output, b, n, time, now')
                     /\ lost' = lost \cup {b[i].id : i \in (n + 1)..Len(b)}
    BY <1>6
  <2>2. n \in 0..Len(b) /\ n # Len(b)
    BY <1>2
  <2> QED
    BY <1>4, <1>6, <2>1, <2>2 DEF b
<1> QED
  BY <1>3, <1>5, <1>6

\* appendInlock writes the lines behind those written.
LEMMA AppendWrites ==
    ASSUME NEW lf \in LogFileType, NEW b \in Seq(Line), NEW n \in 0..Len(b),
           NEW time \in Nat, NEW later \in Nat
    PROVE  LET r == appendInlock(lf, b, n, time, later) IN
           r \in LogFileType /\ WrittenLines(r) = WrittenLines(lf) \o SubSeq(b, 1, n)
<1> DEFINE r == appendInlock(lf, b, n, time, later)
           a == lf.archive
           c == lf.closed.lines
           f == lf.file_.lines
           s == SubSeq(b, 1, n)
<1>1. PICK g, k, roll : Appended(lf, b, n, time, later, r, g, k, roll)
  BY AppendFields
<1> HIDE DEF r
<1>2. /\ a \in Seq(Line) /\ c \in Seq(Line) /\ f \in Seq(Line) /\ s \in Seq(Line)
  BY LengthPrefix, LineLen DEF LogFileType, FileType
<1>3. /\ g.lines = f \o s /\ r \in LogFileType
      /\ \/ r.archive = a \o c /\ r.closed.lines = g.lines /\ r.file_.lines = <<>>
         \/ r.archive = a /\ r.closed.lines = c /\ r.file_.lines = g.lines
  BY <1>1, Zenon DEF Appended
<1> HIDE DEF a, c, f, s
<1>4. ((a \o c) \o (f \o s)) \o <<>> = ((a \o c) \o f) \o s
      /\ (a \o c) \o (f \o s) = ((a \o c) \o f) \o s
  <2>1. a \o c \in Seq(Line) /\ f \o s \in Seq(Line)
    BY <1>2, ConcatProperties
  <2> DEFINE ac == a \o c
  <2> HIDE DEF ac
  <2>2. ac \in Seq(Line) /\ f \in Seq(Line) /\ s \in Seq(Line)
    BY <1>2, <2>1 DEF ac
  <2>3. (ac \o f) \o s = ac \o (f \o s)
    BY <2>2, LinesAssociative, SMTT(30)
  <2>4. ac \o (f \o s) \in Seq(Line)
    BY <2>1, <2>2, ConcatProperties
  <2>5. (ac \o (f \o s)) \o <<>> = ac \o (f \o s)
    BY <2>4, ConcatEmptySeq
  <2> QED
    BY <2>3, <2>5 DEF ac
<1>5. WrittenLines(r) = WrittenLines(lf) \o s
  BY <1>3, <1>4 DEF WrittenLines, a, c, f
<1> QED
  BY <1>3, <1>5 DEF r, s

\* ... and keeps the bounds, as the clock goes on from t to time and later and the
\* failed writes from m to mm.
LEMMA AppendSizes ==
    ASSUME NEW lf \in LogFileType, NEW b \in Seq(Line), NEW n \in 0..Len(b),
           NEW t \in Nat, NEW time \in Nat, NEW later \in Nat, t <= time, time <= later,
           NEW m \in Nat, NEW mm \in Nat, mm = IF n = Len(b) THEN m ELSE m + 1,
           Length(b) <= kLargeBuffer, SizeInv(lf, t, m), DayInv(lf, t)
    PROVE  LET r == appendInlock(lf, b, n, time, later) IN
           SizeInv(r, later, mm) /\ DayInv(r, later)
<1> DEFINE r == appendInlock(lf, b, n, time, later)
           f == lf.file_
           s == SubSeq(b, 1, n)
           last == lf.lastRoll_
           day == lf.startOfPeriod_
           N == checkEveryN_
           K == kLargeBuffer
<1>1. PICK g, k, roll : Appended(lf, b, n, time, later, r, g, k, roll)
  BY AppendFields
<1> HIDE DEF r
\* The pieces, by name.
<1>2. /\ f \in FileType /\ lf.closed \in FileType /\ lf.count_ \in Nat /\ last \in Nat
      /\ f.lines \in Seq(Line) /\ f.writtenbytes_ \in Nat /\ f.early \in Nat /\ f.overdue \in Nat
      /\ lf.closed.lines \in Seq(Line) /\ lf.closed.early \in Nat /\ lf.closed.overdue \in Nat
  BY DEF LogFileType, FileType
<1>3. K \in Nat /\ rollsize_ \in Nat /\ N \in Nat /\ N # 0
  BY LogFileAssumption, BufferAssumption
<1>4. /\ g \in FileType /\ g.lines = f.lines \o s
      /\ g.writtenbytes_ = IF n = Len(b) THEN f.writtenbytes_ + Length(b) ELSE f.writtenbytes_
      /\ g.early = IF time = last THEN f.early + Length(b) ELSE f.early
      /\ g.overdue = IF Period(time) # day THEN f.overdue + 1 ELSE f.overdue
      /\ k = IF lf.count_ + 1 <= N THEN lf.count_ + 1 ELSE N
  BY <1>1, Zenon DEF Appended
<1>5. /\ roll <=> /\ g.writtenbytes_ > rollsize_ \/ (k >= N /\ Period(time) # day)
                  /\ later > last
      /\ r.count_ = IF ~(g.writtenbytes_ > rollsize_) /\ k >= N THEN 0 ELSE k
  BY <1>1, Zenon DEF Appended
<1>6. roll =>
        /\ r.closed.lines = g.lines
        /\ r.closed.early = g.early /\ r.closed.overdue = g.overdue
        /\ r.file_.lines = <<>> /\ r.file_.writtenbytes_ = 0
        /\ r.file_.early = 0 /\ r.file_.overdue = 0
        /\ r.lastRoll_ = later /\ r.startOfPeriod_ = Period(later)
  BY <1>1, Zenon DEF Appended
<1>7. ~roll =>
        /\ r.closed = lf.closed
        /\ r.file_.lines = g.lines /\ r.file_.writtenbytes_ = g.writtenbytes_
        /\ r.file_.early = g.early /\ r.file_.overdue = g.overdue
        /\ r.lastRoll_ = last /\ r.startOfPeriod_ = day
  BY <1>1, Zenon DEF Appended
<1>8. s \in Seq(Line) /\ Length(s) \in Nat /\ Length(b) \in Nat /\ Length(s) <= Length(b)
      /\ (n = Len(b) => s = b)
  BY LengthPrefix, LengthType, LineLen, SubSeqFull
<1>9. Length(g.lines) = Length(f.lines) + Length(s) /\ Length(f.lines) \in Nat
      /\ Length(lf.closed.lines) \in Nat
  <2> HIDE DEF s, f
  <2> QED
    BY <1>2, <1>4, <1>8, LengthConcat, LengthType, LineLen
<1>10. /\ Length(f.lines) <= f.writtenbytes_ + m * K
       /\ f.writtenbytes_ <= rollsize_ \/ f.writtenbytes_ <= f.early
       /\ last = t => f.writtenbytes_ <= f.early
       /\ Length(lf.closed.lines) <= lf.closed.early + rollsize_ + (1 + m) * K
  BY DEF SizeInv
<1>11. /\ last <= t /\ day = Period(last)
       /\ lf.count_ <= N /\ f.overdue <= lf.count_
       /\ f.overdue > 0 => Period(t) # day
       /\ lf.count_ = N => f.overdue = 0
       /\ lf.closed.overdue <= N
  BY DEF DayInv
<1> HIDE DEF f, s, last, day, N, K
\* The clock: an append in the first second comes with those before it in it, and
\* a late one can close the file.
<1>12. /\ day \in Nat /\ Period(t) \in Nat /\ Period(time) \in Nat /\ Period(later) \in Nat
       /\ day <= Period(t) /\ Period(t) <= Period(time) /\ Period(time) <= Period(later)
  BY <1>2, <1>11, PeriodMonotone
<1>13. time # last => later # last /\ later > last
  BY <1>2, <1>11
<1>14. Period(time) # day => later > last
  <2>1. Period(time) # day => time # last
    BY <1>11
  <2> QED
    BY <1>13, <2>1
<1>15. Period(time) = day => f.overdue = 0
  BY <1>2, <1>11, <1>12
<1>16. time = last => f.writtenbytes_ <= f.early
  <2>1. time = last => last = t
    BY <1>2, <1>11
  <2> QED
    BY <1>10, <2>1
\* Products with the buffer size.
<1> DEFINE mK == m * K
           mmK == mm * K
<1>17. /\ mK \in Nat /\ mmK \in Nat /\ (1 + m) * K = mK + K /\ (1 + mm) * K = mmK + K
       /\ mmK = IF n = Len(b) THEN mK ELSE mK + K
  <2>1. \A x \in Nat : x * K \in Nat /\ (1 + x) * K = x * K + K /\ (x + 1) * K = x * K + K
    BY <1>3
  <2> QED
    BY <2>1
<1>18. /\ Length(f.lines) <= f.writtenbytes_ + mK
       /\ Length(lf.closed.lines) <= lf.closed.early + rollsize_ + (mK + K)
  BY <1>10, <1>17
<1> HIDE DEF mK, mmK
<1>19. SizeInv(r, later, mm)
  <2>1. Length(b) <= K
    BY DEF K
  <2> DEFINE fw == f.writtenbytes_
             fe == f.early
             gw == g.writtenbytes_
             ge == g.early
             Lf == Length(f.lines)
             Lg == Length(g.lines)
             Ls == Length(s)
             Lb == Length(b)
             Lc == Length(lf.closed.lines)
             ce == lf.closed.early
  <2>2. gw \in Nat /\ ge \in Nat /\ fe <= ge /\ Lg <= gw + mmK /\ Lg <= ge + rollsize_ + (mmK + K)
        /\ Lc <= ce + rollsize_ + (mmK + K)
    <3>1. /\ fw \in Nat /\ fe \in Nat /\ ce \in Nat /\ K \in Nat /\ rollsize_ \in Nat
          /\ Ls \in Nat /\ Lb \in Nat /\ Lf \in Nat /\ Lc \in Nat /\ mK \in Nat
      BY <1>2, <1>3, <1>8, <1>9, <1>17
    <3>2. \/ gw = fw + Lb /\ Ls = Lb /\ mmK = mK
          \/ gw = fw /\ mmK = mK + K
      BY <1>4, <1>8, <1>17
    <3>3. ge = fe + Lb \/ ge = fe
      BY <1>4
    <3>4. /\ Lg = Lf + Ls /\ Ls <= Lb /\ Lb <= K /\ Lf <= fw + mK
          /\ fw <= rollsize_ \/ fw <= fe
          /\ Lc <= ce + rollsize_ + (mK + K)
      BY <1>8, <1>9, <1>10, <1>18, <2>1
    <3> HIDE DEF fw, fe, gw, ge, Lf, Lg, Ls, Lb, Lc, ce
    <3>5. gw \in Nat /\ ge \in Nat /\ fe <= ge
      BY <3>1, <3>2, <3>3
    <3>6. fw <= ge + rollsize_ /\ Lg <= fw + mK + K
      BY <3>1, <3>4, <3>5
    <3>7. CASE gw = fw + Lb /\ Ls = Lb /\ mmK = mK
      BY <3>1, <3>4, <3>5, <3>6, <3>7
    <3>8. CASE gw = fw /\ mmK = mK + K
      BY <3>1, <3>4, <3>5, <3>6, <3>8
    <3> QED
      BY <3>2, <3>7, <3>8
  <2>3. Length(g.lines) <= g.writtenbytes_ + mmK
    BY <2>2
  <2>4. Length(g.lines) <= g.early + rollsize_ + (mmK + K)
    BY <2>2
  <2>5. time = last => g.writtenbytes_ <= g.early
    BY <1>2, <1>4, <1>8, <1>16, SMTT(30)
  <2>6. CASE roll
    <3>1. /\ r.closed.lines = g.lines /\ r.closed.early = g.early
          /\ r.file_.lines = <<>> /\ r.file_.writtenbytes_ = 0 /\ r.file_.early = 0
      BY <1>6, <2>6
    <3>2. Length(r.file_.lines) <= r.file_.writtenbytes_ + mm * K
      BY <1>17, <3>1, LengthEmpty DEF mmK
    <3>3. Length(r.closed.lines) <= r.closed.early + rollsize_ + (1 + mm) * K
      BY <1>17, <2>4, <3>1
    <3> QED
      BY <1>3, <3>1, <3>2, <3>3 DEF SizeInv, K
  <2>7. CASE ~roll
    <3>1. /\ r.closed = lf.closed /\ r.file_.lines = g.lines
          /\ r.file_.writtenbytes_ = g.writtenbytes_
          /\ r.file_.early = g.early /\ r.lastRoll_ = last
      BY <1>7, <2>7
    <3>2. g.writtenbytes_ <= rollsize_ \/ g.writtenbytes_ <= g.early
      <4>1. CASE time = last
        BY <2>5, <4>1
      <4>2. CASE time # last
        <5>1. ~(g.writtenbytes_ > rollsize_)
          BY <1>5, <1>13, <2>7, <4>2
        <5> QED
          BY <1>3, <2>2, <5>1
      <4> QED
        BY <4>1, <4>2
    <3>3. last = later => g.writtenbytes_ <= g.early
      BY <1>13, <2>5
    <3>4. Length(lf.closed.lines) <= lf.closed.early + rollsize_ + (1 + mm) * K
      BY <1>17, <2>2
    <3>5. Length(g.lines) <= g.writtenbytes_ + mm * K
      BY <2>3 DEF mmK
    <3> QED
      BY <3>1, <3>2, <3>3, <3>4, <3>5 DEF SizeInv, K
  <2> QED
    BY <2>6, <2>7
<1>20. DayInv(r, later)
  <2>1. k \in Nat /\ k <= N /\ r.count_ \in Nat /\ r.count_ <= N
    BY <1>2, <1>3, <1>4, <1>5, SMTT(30)
  <2>2. g.overdue \in Nat /\ g.overdue <= N
    <3> DEFINE fo == f.overdue
               go == g.overdue
               c == lf.count_
    <3>1. fo \in Nat /\ c \in Nat /\ N \in Nat /\ N # 0 /\ c <= N /\ fo <= c /\ (c = N => fo = 0)
      BY <1>2, <1>3, <1>11
    <3>2. go = fo + 1 \/ go = fo
      BY <1>4
    <3> HIDE DEF fo, go, c
    <3>3. go \in Nat /\ go <= N
      BY <3>1, <3>2
    <3> QED
      BY <3>3 DEF go
  <2>3. CASE roll
    <3>1. /\ r.closed.overdue = g.overdue /\ r.file_.overdue = 0
          /\ r.lastRoll_ = later /\ r.startOfPeriod_ = Period(later)
      BY <1>6, <2>3
    <3> QED
      BY <2>1, <2>2, <3>1 DEF DayInv, N
  <2>4. CASE ~roll
    <3>1. /\ r.closed = lf.closed /\ r.file_.overdue = g.overdue
          /\ r.lastRoll_ = last /\ r.startOfPeriod_ = day
      BY <1>7, <2>4
    <3>2. last <= later
      BY <1>2, <1>11
    <3>3. CASE Period(time) # day
      <4>1. ~(g.writtenbytes_ > rollsize_) /\ ~(k >= N)
        BY <1>5, <1>14, <2>4, <3>3
      <4>2. r.count_ = k /\ k = lf.count_ + 1 /\ k < N
        BY <1>2, <1>3, <1>4, <1>5, <4>1
      <4>3. g.overdue <= r.count_
        BY <1>2, <1>4, <1>11, <4>2, SMTT(30)
      <4>4. Period(later) # day
        BY <1>12, <3>3
      <4>5. r.count_ # N
        BY <1>3, <2>1, <4>2
      <4> QED
        BY <1>11, <2>1, <3>1, <3>2, <4>3, <4>4, <4>5 DEF DayInv, N
    <3>4. CASE Period(time) = day
      <4>1. g.overdue = 0
        BY <1>4, <1>15, <3>4
      <4> QED
        BY <1>11, <2>1, <3>1, <3>2, <4>1 DEF DayInv, N
    <3> QED
      BY <3>3, <3>4
  <2> QED
    BY <2>3, <2>4
<1> QED
  BY <1>19, <1>20 DEF r

-----------------------------------------------------------------------------
(* The kept lines. *)

\* The lines of a concatenation
LEMMA LinesConcat ==
    \A s, t \in Seq(Line) :
        /\ Len(s \o t) = Len(s) + Len(t)
        /\ \A i \in 1..(Len(s) + Len(t)) :
              (s \o t)[i] = IF i <= Len(s) THEN s[i] ELSE t[i - Len(s)]
  BY ConcatProperties

\* What is kept is a sequence of lines.
LEMMA KeptTypes ==
    ASSUME TypeInv
    PROVE  /\ WrittenLines(output) \in Seq(Line)
           /\ FlattenSeq(buffersToWrite) \in Seq(Line)
           /\ FlattenSeq(buffers_) \in Seq(Line)
           /\ Pending \in Seq(Line) /\ Kept \in Seq(Line)
<1>1. output.archive \in Seq(Line) /\ output.closed.lines \in Seq(Line)
      /\ output.file_.lines \in Seq(Line)
  BY DEF TypeInv, LogFileType, FileType
<1>2. output.archive \o output.closed.lines \in Seq(Line)
  BY <1>1, ConcatProperties
<1>3. WrittenLines(output) \in Seq(Line)
  BY <1>1, <1>2, ConcatProperties DEF WrittenLines
<1>4. FlattenSeq(buffersToWrite) \in Seq(Line) /\ FlattenSeq(buffers_) \in Seq(Line)
  BY FlattenType DEF TypeInv
<1>5. FlattenSeq(buffersToWrite) \o FlattenSeq(buffers_) \in Seq(Line)
  BY <1>4, ConcatProperties
<1>6. Pending \in Seq(Line)
  BY <1>5, ConcatProperties DEF Pending, TypeInv
<1> QED
  BY <1>3, <1>4, <1>6, ConcatProperties DEF Kept

\* append adds its line at the end, whether or not the current buffer is full.
LEMMA AppendKept ==
    ASSUME TypeInv, NEW len \in Lens, append(len)
    PROVE  LET line == [id |-> Len(accepted) + 1, len |-> len] IN
           /\ line \in Line /\ accepted' = Append(accepted, line) /\ lost' = lost
           /\ Kept' = Append(Kept, line)
<1> DEFINE line == [id |-> Len(accepted) + 1, len |-> len]
           W == WrittenLines(output)
           A == FlattenSeq(buffersToWrite)
           B == FlattenSeq(buffers_)
           c == currentBuffer_
<1>1. line \in Line
  BY LenProperties DEF TypeInv, Line
<1>2. accepted' = Append(accepted, line) /\ lost' = lost
      /\ WrittenLines(output)' = W /\ FlattenSeq(buffersToWrite)' = A
  BY DEF append, backVars
<1>3. W \in Seq(Line) /\ A \in Seq(Line) /\ B \in Seq(Line) /\ c \in Seq(Line)
      /\ Kept \in Seq(Line)
  BY KeptTypes DEF TypeInv
<1>4. \/ c' = Append(c, line) /\ buffers_' = buffers_
      \/ c' = <<line>> /\ buffers_' = Append(buffers_, c)
  BY DEF append
<1>5. \/ c' = Append(c, line) /\ FlattenSeq(buffers_)' = B
      \/ c' = <<line>> /\ FlattenSeq(buffers_)' = B \o c
  <2>1. FlattenSeq(Append(buffers_, c)) = B \o c
    BY <1>3, FlattenAppend DEF TypeInv
  <2> QED
    BY <1>4, <2>1
<1>6. Kept = W \o ((A \o B) \o c)
      /\ Kept' = W \o ((A \o FlattenSeq(buffers_)') \o c')
  BY <1>2 DEF Kept, Pending
<1> DEFINE l == <<line>>
<1>7. l \in Seq(Line) /\ Append(c, line) = c \o l /\ Append(Kept, line) = Kept \o l
  BY <1>1, <1>3, AppendIsConcat
<1> HIDE DEF W, A, B, c, l, line
<1> DEFINE AB == A \o B
<1>8. AB \in Seq(Line) /\ (A \o B) \o c = A \o (B \o c)
  <2>1. AB \in Seq(Line)
    BY <1>3, ConcatProperties
  <2>2. (A \o B) \o c = A \o (B \o c)
    BY <1>3, LinesAssociative, SMTT(30)
  <2> QED
    BY <2>1, <2>2
<1>9. AB \o c \in Seq(Line)
  BY <1>3, <1>8, ConcatProperties
<1>10. (W \o (AB \o c)) \o l = W \o ((AB \o c) \o l)
  <2> DEFINE X == AB \o c
  <2> HIDE DEF X, AB
  <2>1. W \in Seq(Line) /\ X \in Seq(Line) /\ l \in Seq(Line)
    BY <1>3, <1>7, <1>9 DEF X
  <2>2. (W \o X) \o l = W \o (X \o l)
    BY <2>1, LinesAssociative, Zenon
  <2> QED
    BY <2>2 DEF X
<1>11. (AB \o c) \o l = AB \o (c \o l)
  <2> HIDE DEF AB
  <2> QED BY <1>3, <1>7, <1>8, LinesAssociative, ZenonT(40)
<1>12. Kept' = Kept \o l
  <2>1. CASE c' = Append(c, line) /\ FlattenSeq(buffers_)' = B
    <3>1. Kept' = W \o (AB \o (c \o l))
      BY <1>6, <1>7, <2>1
    <3> QED
      BY <1>6, <1>10, <1>11, <3>1
  <2>2. CASE c' = <<line>> /\ FlattenSeq(buffers_)' = B \o c
    <3>1. Kept' = W \o ((A \o (B \o c)) \o l)
      BY <1>6, <2>2 DEF l
    <3> QED
      BY <1>6, <1>8, <1>10, <3>1
  <2> QED
    BY <1>5, <2>1, <2>2
<1> QED
  BY <1>1, <1>2, <1>7, <1>12 DEF line

\* The swap only moves the lines.
LEMMA CollectKept ==
    ASSUME TypeInv, Spares, Collect
    PROVE  Kept' = Kept
<1> DEFINE A == FlattenSeq(buffersToWrite)
           B == FlattenSeq(buffers_)
           c == currentBuffer_
<1>1. B \in Seq(Line) /\ c \in Seq(Line) /\ B \o c \in Seq(Line)
  BY KeptTypes, ConcatProperties DEF TypeInv
<1>2. A = <<>>
  BY FlattenEmpty DEF Spares, Collect
<1>3. /\ FlattenSeq(buffersToWrite)' = B \o c
      /\ FlattenSeq(buffers_)' = <<>> /\ currentBuffer_' = <<>>
      /\ WrittenLines(output)' = WrittenLines(output)
  <2>1. FlattenSeq(Append(buffers_, c)) = B \o c
    BY <1>1, FlattenAppend DEF TypeInv
  <2> QED
    BY <2>1, FlattenEmpty DEF Collect, PushCurrent
<1> HIDE DEF A, B, c
<1>4. Pending' = ((B \o c) \o <<>>) \o <<>>
  BY <1>3 DEF Pending
<1>5. Pending = (<<>> \o B) \o c
  BY <1>2 DEF Pending, A, B, c
<1>6. Pending' = Pending
  BY <1>1, <1>4, <1>5, ConcatEmptySeq
<1> QED
  BY <1>3, <1>6 DEF Kept

\* The loop that writes moves the next buffer to the file, or its first lines
\* while the others are lost.
LEMMA WriteKept ==
    ASSUME TypeInv, KeptInv, WriteBuffer
    PROVE  KeptInv'
<1> DEFINE b == Head(buffersToWrite)
           W == WrittenLines(output)
           R == (FlattenSeq(Tail(buffersToWrite)) \o FlattenSeq(buffers_)) \o currentBuffer_
<1>1. PICK n \in 0..Len(b), time \in Nat :
         /\ now' \in Nat
         /\ output' = appendInlock(output, b, n, time, now')
         /\ \/ n = Len(b) /\ lost' = lost
            \/ lost' = lost \cup {b[i].id : i \in (n + 1)..Len(b)}
  BY WriteCases
<1>2. /\ buffersToWrite # <<>> /\ buffersToWrite' = Tail(buffersToWrite)
      /\ UNCHANGED <<buffers_, currentBuffer_, accepted>>
  BY DEF WriteBuffer, frontVars
<1>3. b \in Seq(Line) /\ Tail(buffersToWrite) \in Seq(Seq(Line))
  BY <1>2, HeadTailProperties DEF TypeInv
<1> DEFINE T == FlattenSeq(Tail(buffersToWrite))
           B == FlattenSeq(buffers_)
           c == currentBuffer_
           s == SubSeq(b, 1, n)
<1>4. /\ W \in Seq(Line) /\ T \in Seq(Line) /\ B \in Seq(Line) /\ c \in Seq(Line)
      /\ Kept \in Seq(Line)
  BY <1>3, KeptTypes, FlattenType DEF TypeInv
<1>5. Kept = W \o (((b \o T) \o B) \o c)
  <2>1. FlattenSeq(buffersToWrite) = b \o T
    BY <1>2, FlattenHead DEF TypeInv
  <2> QED
    BY <2>1 DEF Kept, Pending
<1>6. Kept' = (W \o s) \o R
  <2>1. WrittenLines(output') = W \o s
    BY <1>1, <1>3, AppendWrites, ZenonT(40) DEF TypeInv
  <2>2. Pending' = R
    BY <1>2 DEF Pending
  <2> QED
    BY <2>1, <2>2 DEF Kept
<1>7. s \in Seq(Line) /\ Len(s) = n /\ (\A i \in 1..n : s[i] = b[i]) /\ Len(b) \in Nat
  BY <1>3, SubSeqProperties, LenProperties, ElementOfSeq
<1>8. n = Len(b) => s = b
  BY <1>3, SubSeqFull
<1>9. R = (T \o B) \o c
  OBVIOUS
<1> HIDE DEF b, W, R, T, B, c, s
<1>10. R \in Seq(Line) /\ ((b \o T) \o B) \o c = b \o R
  <2>1. T \o B \in Seq(Line) /\ b \o T \in Seq(Line)
    BY <1>3, <1>4, ConcatProperties DEF b
  <2>2. (b \o T) \o B = b \o (T \o B)
    BY <1>3, <1>4, LinesAssociative, ZenonT(40)
  <2> DEFINE X == T \o B
  <2> HIDE DEF X
  <2>3. b \in Seq(Line) /\ X \in Seq(Line) /\ c \in Seq(Line)
    BY <1>3, <1>4, <2>1 DEF X
  <2>4. (b \o X) \o c = b \o (X \o c)
    BY <2>3, LinesAssociative, Zenon
  <2>5. X \o c \in Seq(Line)
    BY <2>3, ConcatProperties
  <2> QED
    BY <1>9, <2>2, <2>4, <2>5 DEF X
<1>11. Kept = W \o (b \o R)
  BY <1>5, <1>10
<1>12. NumberedSeq(accepted') /\ accepted' = accepted
  BY <1>2 DEF KeptInv
<1>13. CASE n = Len(b) /\ lost' = lost
  <2>1. Kept' = Kept
    <3>1. W \in Seq(Line) /\ b \in Seq(Line) /\ R \in Seq(Line)
      BY <1>3, <1>4, <1>10
    <3>2. (W \o b) \o R = W \o (b \o R)
      BY <3>1, LinesAssociative, Zenon
    <3> QED
      BY <1>6, <1>8, <1>11, <1>13, <3>2
  <2> QED
    BY <1>12, <1>13, <2>1 DEF KeptInv
<1>14. CASE lost' = lost \cup {b[i].id : i \in (n + 1)..Len(b)}
  <2> DEFINE k == Kept
             kk == (W \o s) \o R
             p == Len(W)
             q == Len(b)
             from == p + n
             to == p + q
  <2>1. p \in Nat /\ q \in Nat /\ Len(R) \in Nat /\ n \in Nat /\ n <= q
    BY <1>3, <1>4, <1>7, <1>10, LenProperties
  <2>2. /\ Len(b \o R) = q + Len(R) /\ b \o R \in Seq(Line)
        /\ \A i \in 1..(q + Len(R)) : (b \o R)[i] = IF i <= q THEN b[i] ELSE R[i - q]
    BY <1>3, <1>10, ConcatProperties
  <2>3. /\ Len(k) = p + (q + Len(R))
        /\ \A i \in 1..(p + (q + Len(R))) : k[i] = IF i <= p THEN W[i] ELSE (b \o R)[i - p]
    <3> DEFINE X == b \o R
    <3> HIDE DEF X
    <3>1. X \in Seq(Line) /\ Len(X) = q + Len(R)
      BY <2>2 DEF X
    <3>2. W \in Seq(Line)
      BY <1>4
    <3>3. /\ Len(W \o X) = Len(W) + Len(X)
          /\ \A i \in 1..(Len(W) + Len(X)) :
                (W \o X)[i] = IF i <= Len(W) THEN W[i] ELSE X[i - Len(W)]
      BY <3>1, <3>2, LinesConcat, Zenon
    <3> QED
      BY <1>11, <3>1, <3>3 DEF X
  <2>4. /\ W \o s \in Seq(Line) /\ Len(W \o s) = p + n
        /\ \A i \in 1..(p + n) : (W \o s)[i] = IF i <= p THEN W[i] ELSE s[i - p]
    BY <1>4, <1>7, ConcatProperties
  <2>5. /\ kk \in Seq(Line) /\ Len(kk) = (p + n) + Len(R)
        /\ \A i \in 1..((p + n) + Len(R)) :
              kk[i] = IF i <= p + n THEN (W \o s)[i] ELSE R[i - (p + n)]
    <3> DEFINE X == W \o s
    <3> HIDE DEF X
    <3>1. X \in Seq(Line) /\ Len(X) = p + n
      BY <2>4 DEF X
    <3>2. /\ X \o R \in Seq(Line) /\ Len(X \o R) = Len(X) + Len(R)
          /\ \A i \in 1..(Len(X) + Len(R)) :
               (X \o R)[i] = IF i <= Len(X) THEN X[i] ELSE R[i - Len(X)]
      BY <1>10, <3>1, ConcatProperties
    <3> QED
      BY <3>1, <3>2 DEF X
  <2>6. kk = Kept'
    BY <1>6
  <2> HIDE DEF k, kk, p, q
  <2>7. ASSUME NEW i \in 1..from PROVE kk[i] = k[i]
    <3>1. i \in 1..((p + n) + Len(R)) /\ i \in 1..(p + n) /\ i <= p + n
          /\ i \in 1..(p + (q + Len(R)))
      BY <2>1
    <3>2. kk[i] = IF i <= p THEN W[i] ELSE s[i - p]
      BY <2>4, <2>5, <3>1
    <3>3. CASE i <= p
      BY <2>3, <3>1, <3>2, <3>3
    <3>4. CASE ~(i <= p)
      <4>1. i - p \in 1..n /\ i - p \in 1..(q + Len(R)) /\ i - p <= q
        BY <2>1, <3>1, <3>4
      <4>2. s[i - p] = b[i - p] /\ (b \o R)[i - p] = b[i - p]
        BY <1>7, <2>2, <4>1
      <4> QED
        BY <2>3, <3>1, <3>2, <3>4, <4>2
    <3> QED
      BY <3>3, <3>4
  <2>8. ASSUME NEW i \in (from + 1)..Len(kk) PROVE kk[i] = k[i + (to - from)]
    <3> DEFINE j == i + (to - from)
    <3>1. /\ i \in 1..((p + n) + Len(R)) /\ ~(i <= p + n)
          /\ j \in 1..(p + (q + Len(R))) /\ ~(j <= p)
          /\ j - p \in 1..(q + Len(R)) /\ ~(j - p <= q)
          /\ (j - p) - q = i - (p + n)
      BY <2>1, <2>5
    <3> HIDE DEF j
    <3>2. kk[i] = R[i - (p + n)]
      BY <2>5, <3>1
    <3>3. k[j] = (b \o R)[j - p]
      BY <2>3, <3>1
    <3>4. (b \o R)[j - p] = R[(j - p) - q]
      BY <2>2, <3>1
    <3> QED
      BY <3>1, <3>2, <3>3, <3>4 DEF j
  <2>9. ASSUME NEW i \in 1..q PROVE k[i + p] = b[i] /\ i + p \in 1..Len(k)
    <3> DEFINE j == i + p
    <3>1. /\ j \in 1..(p + (q + Len(R))) /\ ~(j <= p) /\ j - p = i
          /\ i \in 1..(q + Len(R)) /\ i <= q
      BY <2>1
    <3> HIDE DEF j
    <3>2. k[j] = (b \o R)[i] /\ j \in 1..Len(k)
      BY <2>3, <3>1
    <3>3. (b \o R)[i] = b[i]
      BY <2>2, <3>1
    <3> QED
      BY <3>2, <3>3 DEF j
  <2>10. lost' = lost \cup {k[i].id : i \in (from + 1)..to}
    <3> DEFINE D == {b[i].id : i \in (n + 1)..q}
               E == {k[i].id : i \in (from + 1)..to}
    <3>1. ASSUME NEW i \in (n + 1)..q PROVE b[i].id \in E
      <4>1. i + p \in (from + 1)..to /\ i \in 1..q
        BY <2>1
      <4> QED
        BY <2>9, <4>1
    <3>2. ASSUME NEW j \in (from + 1)..to PROVE k[j].id \in D
      <4>1. j - p \in (n + 1)..q /\ j - p \in 1..q /\ j - p + p = j
        BY <2>1
      <4>2. k[j] = b[j - p]
        BY <2>9, <4>1
      <4> QED
        BY <4>1, <4>2
    <3>3. D = E
      BY <3>1, <3>2
    <3>4. lost' = lost \cup D
      BY <1>14 DEF q
    <3> QED
      BY <3>3, <3>4
  <2>11. to \in 0..Len(k) /\ from \in 0..to /\ Len(kk) = Len(k) - (to - from)
    BY <2>1, <2>3, <2>5
  <2>12. k \in Seq(Line) /\ accepted \in Seq(Line) /\ NumberedSeq(accepted)
         /\ Complete(k, accepted, lost) /\ lost \subseteq 1..Len(accepted)
    BY <1>4 DEF k, KeptInv, TypeInv
  <2> HIDE DEF from, to
  <2>13. Complete(kk, accepted, lost')
    BY <2>5, <2>7, <2>8, <2>10, <2>11, <2>12, CompleteShrinks
  <2>14. lost' \subseteq 1..Len(accepted)
    <3>1. ASSUME NEW i \in 1..q PROVE b[i].id \in 1..Len(accepted)
      <4>1. PICK j \in 1..Len(accepted) \ lost : k[i + p] = accepted[j]
        BY <2>9, <2>12, CompleteMeans
      <4> QED
        BY <2>9, <2>12, <4>1 DEF NumberedSeq
    <3>2. (n + 1)..Len(b) \subseteq 1..q
      BY <2>1 DEF q
    <3> QED
      BY <1>14, <2>12, <3>1, <3>2
  <2> QED
    BY <1>12, <2>6, <2>13, <2>14 DEF KeptInv
<1> QED
  BY <1>1, <1>13, <1>14

-----------------------------------------------------------------------------
(* The parts of the invariant, each kept by every step. *)

\* Types
LEMMA TypeStep ==
    ASSUME TypeInv, [Next]_vars
    PROVE  TypeInv'
<1> USE DEF TypeInv, Labels, frontVars, backVars
<1>1. ASSUME NEW len \in Lens, append(len) PROVE TypeInv'
  <2> DEFINE line == [id |-> Len(accepted) + 1, len |-> len]
  <2>1. line \in Line /\ accepted' = Append(accepted, line)
    BY <1>1, AppendKept
  <2>2. /\ \/ /\ currentBuffer_' = Append(currentBuffer_, line)
              /\ UNCHANGED <<nextBuffer_, buffers_, pc>>
           \/ /\ currentBuffer_' = <<line>>
              /\ buffers_' = Append(buffers_, currentBuffer_)
              /\ nextBuffer_' = FALSE /\ pc' = Notify
        /\ UNCHANGED <<newBuffer1, newBuffer2, buffersToWrite, output, now, fails>>
    BY <1>1 DEF append
  <2> HIDE DEF line
  <2>3. accepted' \in Seq(Line) /\ currentBuffer_' \in Seq(Line)
    <3>1. Append(accepted, line) \in Seq(Line) /\ Append(currentBuffer_, line) \in Seq(Line)
      BY <2>1
    <3>2. <<line>> \in Seq(Line)
      BY <2>1
    <3> QED
      BY <2>1, <2>2, <3>1, <3>2
  <2>4. buffers_' \in Seq(Seq(Line))
    <3>1. Append(buffers_, currentBuffer_) \in Seq(Seq(Line))
      OBVIOUS
    <3> QED
      BY <2>2, <3>1
  <2>5. nextBuffer_' \in BOOLEAN /\ pc' \in Labels
    BY <2>2 DEF Notify
  <2> QED
    BY <2>2, <2>3, <2>4, <2>5
<1>2. CASE start
  BY <1>2 DEF start
<1>3. CASE stop
  BY <1>3 DEF stop, Notify
<1>4. CASE Open
  <2>1. now' \in Nat
    BY <1>4, BufferAssumption DEF Open
  <2>2. output' \in LogFileType
    BY <1>4, <2>1, NewLogFileOK DEF Open
  <2> QED
    BY <1>4, <2>1, <2>2 DEF Open
<1>5. CASE TestRunning
  <2>1. output' \in LogFileType
    BY <1>5, FlushOK DEF TestRunning
  <2> QED
    BY <1>5, <2>1 DEF TestRunning
<1>6. CASE Lock
  BY <1>6 DEF Lock
<1>7. CASE TimesOut
  BY <1>7 DEF TimesOut
<1>8. CASE Collect
  <2>1. buffersToWrite' \in Seq(Seq(Line)) /\ buffers_' \in Seq(Seq(Line))
        /\ currentBuffer_' \in Seq(Line)
    BY <1>8, AppendProperties, EmptySeq DEF Collect, PushCurrent
  <2>2. newBuffer1' \in BOOLEAN /\ newBuffer2' \in BOOLEAN /\ nextBuffer_' \in BOOLEAN
    BY <1>8, Zenon DEF Collect
  <2> QED
    BY <1>8, <2>1, <2>2 DEF Collect
<1>9. CASE WriteBuffer
  <2> DEFINE b == Head(buffersToWrite)
  <2>1. b \in Seq(Line) /\ buffersToWrite' \in Seq(Seq(Line))
    BY <1>9, HeadTailProperties DEF WriteBuffer
  <2>2. PICK n \in 0..Len(b), time \in Nat :
          /\ now' \in Nat /\ output' = appendInlock(output, b, n, time, now')
          /\ fails' = fails \/ fails' = fails + 1
    BY <1>9, WriteCases
  <2>3. output' \in LogFileType
    BY <2>1, <2>2, AppendWrites
  <2>4. fails' \in Nat
    BY <2>2
  <2> QED
    BY <1>9, <2>1, <2>2, <2>3, <2>4 DEF WriteBuffer
<1>10. CASE Recycle
  <2>1. output' \in LogFileType
    BY <1>10, FlushOK DEF Recycle
  <2> QED
    BY <1>10, <2>1 DEF Recycle
<1>11. CASE UNCHANGED vars
  BY <1>11 DEF vars
<1>12. CASE Ended
  BY <1>12 DEF Ended, vars
<1> QED
  BY <1>1, <1>2, <1>3, <1>4, <1>5, <1>6, <1>7, <1>8, <1>9, <1>10, <1>11, <1>12
  DEF Next, threadFunc

\* The wait and the spares.
WaitInv == SpareGoneFull /\ Spares /\ FullBufferNoticed /\ Began

\* The wait and the spares: a full buffer goes to buffers_ with a notification.
LEMMA WaitStep ==
    ASSUME TypeInv, WaitInv, [Next]_vars
    PROVE  WaitInv'
<1> USE DEF WaitInv, SpareGoneFull, Spares, FullBufferNoticed, Began, frontVars, backVars
<1>1. ASSUME NEW len \in Lens, append(len) PROVE WaitInv'
  <2>1. /\ \/ UNCHANGED <<nextBuffer_, buffers_, pc>>
           \/ /\ buffers_' = Append(buffers_, currentBuffer_)
              /\ nextBuffer_' = FALSE /\ pc' = Notify
        /\ UNCHANGED <<newBuffer1, newBuffer2, buffersToWrite, taken, output>>
    BY <1>1 DEF append
  <2>2. Append(buffers_, currentBuffer_) # <<>>
    BY AppendGrows DEF TypeInv
  <2>3. CASE UNCHANGED <<nextBuffer_, buffers_, pc>>
    BY <2>1, <2>3
  <2>4. CASE buffers_' = Append(buffers_, currentBuffer_) /\ pc' = Notify
    <3>1. pc' # "waiting" /\ (pc' = "write" <=> pc = "write")
          /\ (pc' \in {"none", "open"} => pc = pc')
      BY <2>4 DEF Notify
    <3> QED
      BY <2>1, <2>2, <2>4, <3>1
  <2> QED
    BY <2>1, <2>3, <2>4
<1>2. CASE start
  BY <1>2 DEF start
<1>3. CASE stop
  BY <1>3 DEF stop, Notify
<1>4. CASE Open
  BY <1>4 DEF Open
<1>5. CASE TestRunning
  BY <1>5 DEF TestRunning
<1>6. CASE Lock
  BY <1>6 DEF Lock
<1>7. CASE TimesOut
  BY <1>7 DEF TimesOut
<1>8. CASE Collect
  \* newBuffer1 is there to become the current buffer, and newBuffer2 is given up
  \* only when a full buffer comes along.
  <2>1. newBuffer1 /\ newBuffer2 /\ (nextBuffer_ \/ buffers_ # <<>>)
    BY <1>8 DEF Collect
  <2>2. /\ taken' = Len(Append(buffers_, currentBuffer_))
        /\ buffers_' = <<>> /\ newBuffer1' = FALSE /\ pc' = "write"
        /\ newBuffer2' = (newBuffer2 /\ ~~nextBuffer_)
        /\ nextBuffer_' = (nextBuffer_ \/ newBuffer2)
    BY <1>8 DEF Collect, PushCurrent, NeedsNext
  <2>3. taken' = Len(buffers_) + 1 /\ Len(buffers_) \in Nat
        /\ (buffers_ # <<>> => Len(buffers_) >= 1)
    BY <2>2, AppendGrows DEF TypeInv
  <2>4. nextBuffer_' = TRUE /\ newBuffer2' = nextBuffer_ /\ nextBuffer_ \in BOOLEAN
    BY <2>1, <2>2, Zenon DEF TypeInv
  <2> QED
    BY <2>1, <2>2, <2>3, <2>4
<1>9. CASE WriteBuffer
  BY <1>9 DEF WriteBuffer
<1>10. CASE Recycle
  BY <1>10 DEF Recycle
<1>11. CASE UNCHANGED vars
  BY <1>11 DEF vars
<1>12. CASE Ended
  BY <1>12 DEF Ended, vars
<1> QED
  BY <1>1, <1>2, <1>3, <1>4, <1>5, <1>6, <1>7, <1>8, <1>9, <1>10, <1>11, <1>12
  DEF Next, threadFunc

\* Steps that change none of these keep what is kept.
LEMMA KeptSame ==
    ASSUME UNCHANGED <<output, buffersToWrite, buffers_, currentBuffer_, accepted, lost>>, KeptInv
    PROVE  KeptInv'
  BY DEF KeptInv, Kept, Pending

\* No step loses a line, doubles one or moves it past another.
LEMMA KeptStep ==
    ASSUME TypeInv, WaitInv, KeptInv, [Next]_vars
    PROVE  KeptInv'
<1>1. ASSUME NEW len \in Lens, append(len) PROVE KeptInv'
  <2> DEFINE line == [id |-> Len(accepted) + 1, len |-> len]
  <2>1. /\ line \in Line /\ accepted' = Append(accepted, line) /\ lost' = lost
        /\ Kept' = Append(Kept, line)
    BY <1>1, AppendKept
  <2>2. line.id = Len(accepted) + 1
    OBVIOUS
  <2> HIDE DEF line
  <2>3. /\ Complete(Append(Kept, line), Append(accepted, line), lost)
        /\ NumberedSeq(Append(accepted, line))
        /\ lost \subseteq 1..Len(Append(accepted, line))
    <3>1. Kept \in Seq(Line) /\ accepted \in Seq(Line)
      BY KeptTypes DEF TypeInv
    <3> QED
      BY <2>1, <2>2, <3>1, CompleteGrows DEF KeptInv
  <2> QED
    BY <2>1, <2>3 DEF KeptInv
<1>2. CASE start \/ stop \/ Lock \/ TimesOut \/ UNCHANGED vars \/ Ended
  BY <1>2, KeptSame DEF start, stop, Lock, TimesOut, Ended, vars, frontVars, backVars
<1>3. CASE Open
  <2>1. output = NewLogFile(1) /\ output' = NewLogFile(now') /\ now' \in Nat
    BY <1>3, BufferAssumption DEF WaitInv, Began, Open, TypeInv
  <2>2. WrittenLines(output') = WrittenLines(output)
    BY <2>1, NewLogFileOK
  <2> QED
    BY <1>3, <2>2 DEF Open, frontVars, KeptInv, Kept, Pending
<1>4. CASE TestRunning
  <2>1. WrittenLines(output') = WrittenLines(output)
    BY <1>4, FlushOK DEF TestRunning, TypeInv
  <2> QED
    BY <1>4, <2>1 DEF TestRunning, frontVars, KeptInv, Kept, Pending
<1>5. CASE Collect
  <2>1. Kept' = Kept
    BY <1>5, CollectKept DEF WaitInv
  <2> QED
    BY <1>5, <2>1 DEF Collect, KeptInv
<1>6. CASE WriteBuffer
  BY <1>6, WriteKept
<1>7. CASE Recycle
  <2>1. WrittenLines(output') = WrittenLines(output)
    BY <1>7, FlushOK DEF Recycle, TypeInv
  <2> QED
    BY <1>7, <2>1 DEF Recycle, frontVars, KeptInv, Kept, Pending
<1> QED
  BY <1>1, <1>2, <1>3, <1>4, <1>5, <1>6, <1>7 DEF Next, threadFunc

\* A buffer that fits joins those that do.
LEMMA FitsAppend ==
    ASSUME NEW bs \in Seq(Seq(Line)), NEW b \in Seq(Line), FitsIn(bs), Length(b) <= kLargeBuffer
    PROVE  FitsIn(Append(bs, b))
<1>1. /\ Len(bs) \in Nat /\ Len(Append(bs, b)) = Len(bs) + 1
      /\ \A i \in 1..Len(bs) : Append(bs, b)[i] = bs[i]
      /\ Append(bs, b)[Len(bs) + 1] = b
  BY AppendProperties, LenProperties
<1>2. ASSUME NEW i \in 1..(Len(bs) + 1) PROVE Length(Append(bs, b)[i]) <= kLargeBuffer
  <2>1. i \in 1..Len(bs) \/ i = Len(bs) + 1
    BY <1>1
  <2> QED
    BY <1>1, <2>1 DEF FitsIn
<1> QED
  BY <1>1, <1>2 DEF FitsIn

\* A line goes into a buffer only if it fits.
LEMMA FitsStep ==
    ASSUME TypeInv, Fits, [Next]_vars
    PROVE  Fits'
<1>1. ASSUME NEW len \in Lens, append(len) PROVE Fits'
  <2> DEFINE line == [id |-> Len(accepted) + 1, len |-> len]
  <2>1. line \in Line /\ line.len = len
    BY <1>1, AppendKept
  <2>2. len \in Nat /\ kLargeBuffer \in Nat /\ len <= kLargeBuffer
    BY BufferAssumption
  <2>3. \/ /\ avail(currentBuffer_) > len
           /\ currentBuffer_' = Append(currentBuffer_, line) /\ buffers_' = buffers_
        \/ /\ currentBuffer_' = <<line>>
           /\ buffers_' = Append(buffers_, currentBuffer_)
    BY <1>1 DEF append
  <2>4. buffersToWrite' = buffersToWrite
    BY <1>1 DEF append, backVars
  <2> HIDE DEF line
  <2>5. CASE /\ avail(currentBuffer_) > len
             /\ currentBuffer_' = Append(currentBuffer_, line) /\ buffers_' = buffers_
    <3>1. Length(currentBuffer_) \in Nat
          /\ Length(currentBuffer_') = Length(currentBuffer_) + len
      BY <2>1, <2>5, LengthAppend, LengthType, LineLen DEF TypeInv
    <3>2. Length(currentBuffer_') <= kLargeBuffer
      BY <2>2, <2>5, <3>1 DEF avail
    <3> QED
      BY <2>4, <2>5, <3>2 DEF Fits
  <2>6. CASE currentBuffer_' = <<line>> /\ buffers_' = Append(buffers_, currentBuffer_)
    <3>1. FitsIn(buffers_')
      BY <2>6, FitsAppend DEF Fits, TypeInv
    <3>2. <<line>> = Append(<<>>, line)
      OBVIOUS
    <3>3. Length(Append(<<>>, line)) = Length(<<>>) + len
      BY <2>1, LengthAppend, LineLen, EmptySeq
    <3>4. Length(currentBuffer_') <= kLargeBuffer
      BY <2>2, <2>6, <3>2, <3>3, LengthEmpty
    <3> QED
      BY <2>4, <3>1, <3>4 DEF Fits
  <2> QED
    BY <2>3, <2>5, <2>6
<1>2. CASE start \/ stop \/ Open \/ TestRunning \/ Lock \/ TimesOut \/ Recycle
           \/ UNCHANGED vars \/ Ended
  <2>1. UNCHANGED <<currentBuffer_, buffers_, buffersToWrite>>
    BY <1>2 DEF start, stop, Open, TestRunning, Lock, TimesOut, Recycle, Ended, vars, frontVars,
                backVars
  <2> QED
    BY <2>1 DEF Fits
<1>3. CASE Collect
  <2>1. FitsIn(buffersToWrite')
    BY <1>3, FitsAppend DEF Fits, TypeInv, Collect, PushCurrent
  <2>2. buffers_' = <<>> /\ currentBuffer_' = <<>> /\ kLargeBuffer \in Nat
    BY <1>3, BufferAssumption DEF Collect
  <2>3. FitsIn(<<>>)
    BY EmptySeq DEF FitsIn
  <2> QED
    BY <2>1, <2>2, <2>3, LengthEmpty DEF Fits
<1>4. CASE WriteBuffer
  <2> DEFINE bs == buffersToWrite
  <2>1. bs \in Seq(Seq(Line)) /\ bs # <<>> /\ bs' = Tail(bs)
        /\ UNCHANGED <<currentBuffer_, buffers_>>
    BY <1>4 DEF WriteBuffer, frontVars, TypeInv
  <2>2. /\ Len(bs) \in Nat /\ Len(Tail(bs)) = Len(bs) - 1
        /\ \A i \in 1..Len(Tail(bs)) : Tail(bs)[i] = bs[i + 1]
    BY <2>1, HeadTailProperties, LenProperties
  <2>3. ASSUME NEW i \in 1..Len(Tail(bs)) PROVE Length(Tail(bs)[i]) <= kLargeBuffer
    <3>1. i + 1 \in 1..Len(bs)
      BY <2>2
    <3> QED
      BY <2>2, <3>1 DEF Fits, FitsIn
  <2> QED
    BY <2>1, <2>3 DEF Fits, FitsIn
<1> QED
  BY <1>1, <1>2, <1>3, <1>4 DEF Next, threadFunc

\* Files stay within their bounds.
LEMMA FileStep ==
    ASSUME TypeInv, Fits, FileInv, [Next]_vars
    PROVE  FileInv'
<1>1. CASE UNCHANGED <<output, now, fails>>
  BY <1>1 DEF FileInv
<1>2. ASSUME output' = flush(output), UNCHANGED <<now, fails>> PROVE FileInv'
  BY <1>2, FlushOK DEF FileInv, TypeInv
<1>3. CASE Open
  <2>1. now' \in Nat /\ fails \in Nat /\ fails' = fails /\ output' = NewLogFile(now')
    BY <1>3, BufferAssumption DEF Open, TypeInv
  <2> QED
    BY <2>1, NewLogFileOK DEF FileInv
<1>4. CASE WriteBuffer
  <2> DEFINE b == Head(buffersToWrite)
  <2>1. b \in Seq(Line) /\ Length(b) <= kLargeBuffer
    <3>1. buffersToWrite # <<>> /\ buffersToWrite \in Seq(Seq(Line))
      BY <1>4 DEF WriteBuffer, TypeInv
    <3>2. b = buffersToWrite[1] /\ 1 \in 1..Len(buffersToWrite)
      BY <3>1, EmptySeq
    <3> QED
      BY <3>1, <3>2, ElementOfSeq DEF Fits, FitsIn
  <2>2. PICK n \in 0..Len(b), time \in Nat :
          /\ now <= time /\ time <= now' /\ now' \in Nat
          /\ output' = appendInlock(output, b, n, time, now')
          /\ \/ n = Len(b) /\ fails' = fails
             \/ n # Len(b) /\ fails' = fails + 1
    BY <1>4, WriteCases
  <2> HIDE DEF b
  <2>3. fails \in Nat /\ fails' \in Nat /\ now \in Nat /\ output \in LogFileType
        /\ fails' = IF n = Len(b) THEN fails ELSE fails + 1
    BY <2>2 DEF TypeInv
  <2>4. SizeInv(output', now', fails') /\ DayInv(output', now')
    BY <2>1, <2>2, <2>3, AppendSizes DEF FileInv
  <2> QED
    BY <2>4 DEF FileInv
<1>5. ASSUME NEW len \in Lens, append(len) PROVE FileInv'
  BY <1>1, <1>5 DEF append, backVars
<1>6. CASE start \/ stop \/ Lock \/ TimesOut \/ Collect \/ UNCHANGED vars \/ Ended
  BY <1>1, <1>6 DEF start, stop, Lock, TimesOut, Collect, Ended, vars, backVars
<1>7. CASE TestRunning \/ Recycle
  BY <1>1, <1>2, <1>7 DEF TestRunning, Recycle
<1> QED
  BY <1>3, <1>4, <1>5, <1>6, <1>7 DEF Next, threadFunc

-----------------------------------------------------------------------------
\* The invariant holds in every state of every behaviour.
THEOREM Invariance == Spec => []IInv
<1>1. Init => IInv
  <2> SUFFICES ASSUME Init PROVE IInv
    OBVIOUS
  <2> USE DEF Init
  <2>1. TypeInv
    BY NewLogFileOK, EmptySeq DEF TypeInv, Labels
  <2>2. SpareGoneFull /\ Spares /\ FullBufferNoticed /\ Began
    BY DEF SpareGoneFull, Spares, FullBufferNoticed, Began
  <2>3. KeptInv
    <3>1. FlattenSeq(buffersToWrite) = <<>> /\ FlattenSeq(buffers_) = <<>>
      BY FlattenEmpty
    <3>2. WrittenLines(output) = <<>>
      BY NewLogFileOK
    <3>3. Kept = <<>>
      BY <3>1, <3>2, EmptySeq, ConcatEmptySeq DEF Kept, Pending
    <3>4. Complete(<<>>, <<>>, {}) /\ NumberedSeq(<<>>)
      BY CompleteMeans DEF NumberedSeq
    <3> QED
      BY <3>3, <3>4 DEF KeptInv
  <2>4. Fits
    BY LengthEmpty, BufferAssumption DEF Fits, FitsIn
  <2>5. FileInv
    BY NewLogFileOK DEF FileInv
  <2> QED
    BY <2>1, <2>2, <2>3, <2>4, <2>5 DEF IInv
<1>2. IInv /\ [Next]_vars => IInv'
  <2> SUFFICES ASSUME IInv, [Next]_vars PROVE IInv'
    OBVIOUS
  <2>1. TypeInv /\ WaitInv /\ KeptInv /\ Fits /\ FileInv
    BY DEF IInv, WaitInv
  <2>2. TypeInv' /\ WaitInv' /\ KeptInv' /\ Fits' /\ FileInv'
    BY <2>1, TypeStep, WaitStep, KeptStep, FitsStep, FileStep
  <2> QED
    BY <2>2 DEF IInv, WaitInv
<1> QED
  BY <1>1, <1>2, PTL DEF Spec

\* Whatever the sizes, the order of appends, swaps, writes and failures: file and
\* buffers together hold every accepted line that no failed write lost, once and in
\* order.
THEOREM NoLineLost == Spec => []LogIntact
<1>1. IInv => LogIntact
  BY DEF IInv, KeptInv, Complete, Kept, LogIntact
<1> QED
  BY <1>1, Invariance, PTL

\* back() is never called on an empty vector when the spares are refilled, and both
\* spares are there at the next swap, so that currentBuffer_ is never null.
THEOREM SparesNeverRunOut == Spec => []BuffersSuffice
<1>1. IInv => BuffersSuffice
  BY DEF IInv, Spares, BuffersSuffice
<1> QED
  BY <1>1, Invariance, PTL

\* The backend never sleeps while a full buffer is queued: the notification before
\* the wait is not needed, because the wait is not begun then.
THEOREM NoSleepOnFullBuffer == Spec => []FullBufferNoticed
<1>1. IInv => FullBufferNoticed
  BY DEF IInv
<1> QED
  BY <1>1, Invariance, PTL

\* For every rollsize_, checkEveryN_, flushInterval_ and length of the day, a file
\* is closed with at most one buffer above the limit, but for its first second and
\* failed writes, and with at most checkEveryN_ buffers of the next day.
THEOREM FilesStayBounded == Spec => []FilesBounded
<1>1. IInv => FilesBounded
  <2> SUFFICES ASSUME IInv PROVE FilesBounded
    OBVIOUS
  <2> DEFINE f == output.file_
             c == output.closed
             K == kLargeBuffer
             x == fails * K
  <2>1. /\ f \in FileType /\ c \in FileType /\ f.early \in Nat /\ f.writtenbytes_ \in Nat
        /\ f.lines \in Seq(Line) /\ fails \in Nat /\ output.count_ \in Nat /\ f.overdue \in Nat
    BY DEF IInv, TypeInv, LogFileType, FileType
  <2>2. Length(f.lines) \in Nat
    BY <2>1, LengthType, LineLen
  <2>3. K \in Nat /\ rollsize_ \in Nat /\ checkEveryN_ \in Nat
    BY LogFileAssumption, BufferAssumption
  <2>4. x \in Nat /\ (1 + fails) * K = x + K
    BY <2>1, <2>3
  <2>5. /\ Length(f.lines) <= f.writtenbytes_ + x
        /\ f.writtenbytes_ <= rollsize_ \/ f.writtenbytes_ <= f.early
        /\ Length(c.lines) <= c.early + rollsize_ + (1 + fails) * K
    BY DEF IInv, FileInv, SizeInv
  <2>6. output.count_ <= checkEveryN_ /\ f.overdue <= output.count_ /\ c.overdue <= checkEveryN_
    BY DEF IInv, FileInv, DayInv
  <2> HIDE DEF f, c, K, x
  <2>7. Length(f.lines) <= f.early + rollsize_ + (x + K)
    <3>1. f.writtenbytes_ <= f.early + rollsize_
      BY <2>1, <2>3, <2>5
    <3> QED
      BY <2>1, <2>2, <2>3, <2>4, <2>5, <3>1
  <2>8. f.overdue <= checkEveryN_
    BY <2>1, <2>3, <2>6
  <2> QED
    BY <2>4, <2>5, <2>6, <2>7, <2>8 DEF FilesBounded, f, c, K
<1> QED
  BY <1>1, Invariance, PTL
=============================================================================
