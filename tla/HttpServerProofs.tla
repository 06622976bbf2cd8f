-------------------------- MODULE HttpServerProofs --------------------------
(***************************************************************************)
(* Proofs about HttpServer and the modules it is made of: every answer is  *)
(* in one place and none is lost (UringManager, HttpServer), answers are   *)
(* sent once and in turn, and the input buffer is a queue of bytes         *)
(* (Buffer, HttpContext).                                                  *)
(*                                                                         *)
(* Three inductive invariants carry this.  IInv follows an answer through  *)
(* the queues, the ring and the map of active reads; TurnInv, for a client *)
(* that waits, ties what it has sent to the answers it has; BufferInv says *)
(* which part of the stream the buffer holds.  What the recursive parts of *)
(* the model compute (FlattenSeq, HeaderLoop) is proved as far as these    *)
(* need it, by induction over sets of numbers and of sequences.            *)
(***************************************************************************)
EXTENDS HttpServer, SequenceTheorems, FiniteSetTheorems, WellFoundedInduction, TLAPS

-----------------------------------------------------------------------------
(* Induction. *)

\* A set of numbers that holds 0 and every successor holds all.
LEMMA NatSets ==
    ASSUME NEW G \in SUBSET Nat, 0 \in G, \A n \in G : n + 1 \in G
    PROVE  G = Nat
<1> DEFINE R == OpToRel(<, Nat)
<1> SUFFICES ASSUME Nat \ G # {} PROVE FALSE
    OBVIOUS
<1>1. IsWellFoundedOn(R, Nat)
    BY NatLessThanWellFounded
<1>3. \A m, n \in Nat : m < n => <<m, n>> \in R
    BY DEF OpToRel
<1>2. PICK n \in Nat \ G : \A m \in Nat \ G : ~(<<m, n>> \in R)
  <2> HIDE DEF R
  <2> QED
    BY <1>1, WFMin
<1> HIDE DEF R
<1>4. n # 0 /\ n - 1 \in Nat /\ n - 1 < n
    BY <1>2
<1>5. n - 1 \in G
    BY <1>2, <1>3, <1>4
<1> QED
    BY <1>2, <1>4, <1>5

\* A set of sequences that holds the empty one and every Append holds all.
LEMMA SeqSets ==
    ASSUME NEW S, NEW G \in SUBSET Seq(S), <<>> \in G,
           \A s \in G, x \in S : Append(s, x) \in G
    PROVE  G = Seq(S)
<1> DEFINE H == {n \in Nat : \A s \in Seq(S) : Len(s) = n => s \in G}
<1>1. 0 \in H
    BY EmptySeq
<1>2. ASSUME NEW n \in H PROVE n + 1 \in H
  <2> SUFFICES ASSUME NEW s \in Seq(S), Len(s) = n + 1 PROVE s \in G
    OBVIOUS
  <2>1. s # <<>>
    BY EmptySeq
  <2>2. PICK t \in Seq(S), x \in S : s = Append(t, x)
    BY <2>1, SequenceEmptyOrAppend
  <2>3. Len(t) = n
    BY <2>2, AppendProperties, LenProperties
  <2> QED
    BY <2>2, <2>3
<1>3. H = Nat
  <2>1. H \in SUBSET Nat
    OBVIOUS
  <2> HIDE DEF H
  <2> QED BY <1>1, <1>2, <2>1, NatSets
<1> QED
    BY <1>3, LenProperties

-----------------------------------------------------------------------------
(* FlattenSeq *)

\* f is what FlattenSeq(ss) builds up.
Flattens(f, ss, S) ==
    /\ f \in [1..Len(ss) -> Seq(S)]
    /\ \A i \in 1..Len(ss) : f[i] = IF i = 1 THEN ss[i] ELSE f[i - 1] \o ss[i]

\* The recursion has a solution ...
LEMMA FlattensExists ==
    ASSUME NEW S, NEW ss \in Seq(Seq(S))
    PROVE  \E f : Flattens(f, ss, S)
<1> DEFINE G == {t \in Seq(Seq(S)) : \E f : Flattens(f, t, S)}
<1>1. <<>> \in G
  <2>1. Flattens([i \in 1..0 |-> <<>>], <<>>, S)
    BY DEF Flattens
  <2> QED
    BY <2>1
<1>2. ASSUME NEW t \in G, NEW b \in Seq(S) PROVE Append(t, b) \in G
  <2>1. PICK f : Flattens(f, t, S)
    OBVIOUS
  <2> DEFINE n == Len(t)
             u == Append(t, b)
             g == [i \in 1..(n + 1) |->
                     IF i = n + 1 THEN (IF n = 0 THEN b ELSE f[n] \o b) ELSE f[i]]
  <2>2. n \in Nat /\ t \in Seq(Seq(S))
    BY LenProperties
  <2>3. /\ u \in Seq(Seq(S)) /\ Len(u) = n + 1 /\ u[n + 1] = b
        /\ \A i \in 1..n : u[i] = t[i]
    BY <2>2, AppendProperties
  <2>4. ASSUME NEW i \in 1..n PROVE f[i] \in Seq(S)
    BY <2>1, <2>2 DEF Flattens
  <2>5. n # 0 => f[n] \o b \in Seq(S)
    BY <2>2, <2>4, ConcatProperties
  <2>6. g \in [1..Len(u) -> Seq(S)]
    <3> HIDE DEF u
    <3> QED BY <2>2, <2>3, <2>4, <2>5
  <2>7. ASSUME NEW i \in 1..Len(u)
        PROVE  g[i] = IF i = 1 THEN u[i] ELSE g[i - 1] \o u[i]
    <3> HIDE DEF u
    <3>1. CASE i = n + 1
      BY <2>2, <2>3, <3>1
    <3>2. CASE i # n + 1
      <4>1. i \in 1..n /\ g[i] = f[i] /\ u[i] = t[i] /\ (i # 1 => g[i - 1] = f[i - 1])
        BY <2>2, <2>3, <3>2, SMTT(20)
      <4>2. f[i] = IF i = 1 THEN t[i] ELSE f[i - 1] \o t[i]
        BY <2>1, <4>1 DEF Flattens
      <4> QED
        BY <4>1, <4>2
    <3> QED
      BY <3>1, <3>2
  <2>8. Flattens(g, u, S)
    <3> HIDE DEF u, g
    <3> QED BY <2>6, <2>7 DEF Flattens
  <2> QED
    BY <2>3, <2>8
<1>3. G = Seq(Seq(S))
  <2>1. G \in SUBSET Seq(Seq(S))
    OBVIOUS
  <2> HIDE DEF G
  <2> QED BY <1>1, <1>2, <2>1, SeqSets
<1> QED
    BY <1>3

\* The function behind FlattenSeq(ss)
FlatFcn(ss) == CHOOSE f : f = [i \in 1..Len(ss) |-> IF i = 1 THEN ss[i] ELSE f[i-1] \o ss[i]]

\* ... so that FlattenSeq(ss) is its last value.
LEMMA FlattenDef ==
    ASSUME NEW S, NEW ss \in Seq(Seq(S))
    PROVE  /\ FlattenSeq(ss) = IF Len(ss) = 0 THEN ss ELSE FlatFcn(ss)[Len(ss)]
           /\ DOMAIN FlatFcn(ss) = 1..Len(ss)
           /\ \A i \in 1..Len(ss) :
                FlatFcn(ss)[i] = IF i = 1 THEN ss[i] ELSE FlatFcn(ss)[i - 1] \o ss[i]
<1>1. FlattenSeq(ss) = IF Len(ss) = 0 THEN ss ELSE FlatFcn(ss)[Len(ss)]
  BY DEF FlattenSeq, FlatFcn
<1>2. PICK g : Flattens(g, ss, S)
  BY FlattensExists
<1>3. g = [i \in 1..Len(ss) |-> IF i = 1 THEN ss[i] ELSE g[i-1] \o ss[i]]
  BY <1>2 DEF Flattens
<1>4. FlatFcn(ss) = [i \in 1..Len(ss) |-> IF i = 1 THEN ss[i] ELSE FlatFcn(ss)[i-1] \o ss[i]]
  BY <1>3, Zenon DEF FlatFcn
<1> QED
  BY <1>1, <1>4

\* FlattenSeq from the back
LEMMA FlattenAppend ==
    ASSUME NEW S, NEW ss \in Seq(Seq(S)), NEW b \in Seq(S), FlattenSeq(ss) \in Seq(S)
    PROVE  FlattenSeq(Append(ss, b)) = FlattenSeq(ss) \o b
<1> DEFINE n == Len(ss)
           tt == Append(ss, b)
           f == FlatFcn(ss)
           g == FlatFcn(tt)
<1>1. n \in Nat
  BY LenProperties
<1>2. /\ tt \in Seq(Seq(S)) /\ Len(tt) = n + 1 /\ tt[n + 1] = b
      /\ \A i \in 1..n : tt[i] = ss[i]
  BY AppendProperties
<1>3. /\ FlattenSeq(ss) = IF n = 0 THEN ss ELSE f[n]
      /\ \A i \in 1..n : f[i] = IF i = 1 THEN ss[i] ELSE f[i - 1] \o ss[i]
  BY FlattenDef
<1>4. /\ FlattenSeq(tt) = g[n + 1]
      /\ \A i \in 1..(n + 1) : g[i] = IF i = 1 THEN tt[i] ELSE g[i - 1] \o tt[i]
  <2> HIDE DEF tt
  <2> QED
    BY FlattenDef, <1>2, <1>1
<1> HIDE DEF tt, f, g
<1> DEFINE H == {k \in Nat : k \in 1..n => g[k] = f[k]}
<1>5. H = Nat
  <2>1. H \in SUBSET Nat /\ 0 \in H
    OBVIOUS
  <2>2. ASSUME NEW k \in H PROVE k + 1 \in H
    <3> SUFFICES ASSUME k + 1 \in 1..n PROVE g[k + 1] = f[k + 1]
      OBVIOUS
    <3>1. /\ f[k + 1] = IF k + 1 = 1 THEN ss[k + 1] ELSE f[k] \o ss[k + 1]
          /\ g[k + 1] = IF k + 1 = 1 THEN ss[k + 1] ELSE g[k] \o ss[k + 1]
      <4>1. /\ k + 1 \in 1..(n + 1) /\ (k + 1) - 1 = k /\ k + 1 \in 1..n
        BY <1>1
      <4>2. f[k + 1] = IF k + 1 = 1 THEN ss[k + 1] ELSE f[(k + 1) - 1] \o ss[k + 1]
        BY <1>3, <4>1
      <4>3. g[k + 1] = IF k + 1 = 1 THEN tt[k + 1] ELSE g[(k + 1) - 1] \o tt[k + 1]
        BY <1>4, <4>1
      <4>4. tt[k + 1] = ss[k + 1]
        BY <1>2, <4>1
      <4> QED
        BY <4>1, <4>2, <4>3, <4>4
    <3>2. k + 1 # 1 => g[k] = f[k]
      BY <1>1
    <3> QED
      BY <3>1, <3>2
  <2> HIDE DEF H
  <2> QED BY <2>1, <2>2, NatSets
<1>6. CASE n = 0
  <2>1. FlattenSeq(tt) = b
    BY <1>1, <1>2, <1>4, <1>6
  <2>2. FlattenSeq(ss) = <<>>
    BY <1>3, <1>6, EmptySeq
  <2> QED
    BY <2>1, <2>2, ConcatEmptySeq DEF tt
<1>7. CASE n # 0
  <2>1. n \in Nat /\ n \in H /\ n \in 1..n /\ n + 1 \in 1..(n + 1)
    BY <1>1, <1>5, <1>7
  <2>2. g[n] = f[n]
    BY <2>1
  <2>3. g[n + 1] = IF n + 1 = 1 THEN tt[n + 1] ELSE g[n + 1 - 1] \o tt[n + 1]
    BY <1>4, <2>1
  <2>4. n + 1 # 1 /\ n + 1 - 1 = n
    BY <1>1, <1>7
  <2>5. g[n + 1] = g[n] \o b
    BY <1>2, <2>3, <2>4
  <2> QED
    BY <2>2, <2>5, <1>3, <1>4, <1>7 DEF tt
<1> QED
  BY <1>6, <1>7

\* FlattenSeq of nothing
LEMMA FlattenEmpty == FlattenSeq(<<>>) = <<>>
    BY DEF FlattenSeq

\* FlattenSeq gives a sequence of the elements.
LEMMA FlattenType ==
    ASSUME NEW S, NEW ss \in Seq(Seq(S))
    PROVE  FlattenSeq(ss) \in Seq(S)
<1> DEFINE G == {t \in Seq(Seq(S)) : FlattenSeq(t) \in Seq(S)}
<1>1. <<>> \in G
    BY FlattenEmpty, EmptySeq
<1>2. ASSUME NEW t \in G, NEW b \in Seq(S) PROVE Append(t, b) \in G
  <2>1. FlattenSeq(Append(t, b)) = FlattenSeq(t) \o b
    BY FlattenAppend
  <2>2. FlattenSeq(t) \o b \in Seq(S)
    BY ConcatProperties
  <2>3. Append(t, b) \in Seq(Seq(S))
    BY AppendProperties
  <2> QED
    BY <2>1, <2>2, <2>3
<1>3. G = Seq(Seq(S))
  <2>1. G \in SUBSET Seq(Seq(S))
    OBVIOUS
  <2> HIDE DEF G
  <2> QED BY <1>1, <1>2, <2>1, SeqSets
<1> QED
    BY <1>3

-----------------------------------------------------------------------------
(* Sequences and maps of reads or answers, and the requests they are for *)

\* A sequence, of whatever
IsSeq(s) == s \in Seq(Range(s))

\* The requests that the entries of f are for
Ns(f) == {f[i].n : i \in DOMAIN f}

\* No request has two entries in f.
Inj(f) == \A i, j \in DOMAIN f : f[i].n = f[j].n => i = j

\* What the library says of sequences, without their element type
LEMMA SeqIsSeq ==
    ASSUME NEW S, NEW s \in Seq(S)
    PROVE  /\ IsSeq(s) /\ Len(s) \in Nat /\ DOMAIN s = 1..Len(s)
           /\ \A i \in 1..Len(s) : s[i] \in S
<1>1. Len(s) \in Nat /\ DOMAIN s = 1..Len(s) /\ \A i \in 1..Len(s) : s[i] \in S
  BY LenProperties, ElementOfSeq
<1>2. \A i \in DOMAIN s : s[i] \in Range(s)
  BY DEF Range
<1>3. s \in [1..Len(s) -> Range(s)]
  BY <1>1, <1>2, LenProperties
<1> QED BY <1>1, <1>3, SeqDef DEF IsSeq

\* Append and Tail of such a sequence
LEMMA IsSeqAppend ==
    ASSUME NEW s, IsSeq(s), NEW e
    PROVE  /\ IsSeq(Append(s, e))
           /\ Len(s) \in Nat /\ DOMAIN s = 1..Len(s)
           /\ Len(Append(s, e)) = Len(s) + 1
           /\ DOMAIN Append(s, e) = 1..(Len(s) + 1)
           /\ \A i \in 1..Len(s) : Append(s, e)[i] = s[i]
           /\ Append(s, e)[Len(s) + 1] = e
<1> DEFINE S == Range(s) \cup {e}
<1>1. s \in Seq(S) /\ e \in S
  <2>1. s \in Seq(Range(s)) /\ Range(s) \subseteq S
    BY DEF IsSeq
  <2> HIDE DEF S
  <2>2. s \in Seq(S)
    BY <2>1
  <2> QED BY <2>2 DEF S
<1> HIDE DEF S
<1>2. Append(s, e) \in Seq(S)
  BY <1>1, AppendProperties
<1>3. /\ Len(Append(s, e)) = Len(s) + 1
      /\ \A i \in 1..Len(s) : Append(s, e)[i] = s[i]
      /\ Append(s, e)[Len(s) + 1] = e
  BY <1>1, AppendProperties
<1>4. Len(s) \in Nat /\ DOMAIN s = 1..Len(s)
  BY <1>1, LenProperties
<1>5. IsSeq(Append(s, e)) /\ DOMAIN Append(s, e) = 1..Len(Append(s, e))
  BY <1>2, SeqIsSeq
<1> QED BY <1>3, <1>4, <1>5

\* Without its first entry
LEMMA IsSeqTail ==
    ASSUME NEW s, IsSeq(s), s # <<>>
    PROVE  /\ IsSeq(Tail(s))
           /\ Len(s) \in Nat /\ Len(s) > 0 /\ DOMAIN s = 1..Len(s)
           /\ Len(Tail(s)) = Len(s) - 1
           /\ DOMAIN Tail(s) = 1..(Len(s) - 1)
           /\ \A i \in 1..(Len(s) - 1) : Tail(s)[i] = s[i + 1]
<1>1. s \in Seq(Range(s))
  BY DEF IsSeq
<1> DEFINE S == Range(s)
<1> HIDE DEF S
<1>2. s \in Seq(S)
  BY <1>1 DEF S
<1>3. Tail(s) \in Seq(S) /\ Len(s) > 0
  BY <1>2, HeadTailProperties, EmptySeq
<1> QED BY <1>2, <1>3, HeadTailProperties, LenProperties, SeqIsSeq

\* One more entry, at the end of a sequence or under a new index.
LEMMA NsAppend ==
    ASSUME NEW s, IsSeq(s), NEW e, Inj(s), e.n \notin Ns(s)
    PROVE  Ns(Append(s, e)) = Ns(s) \cup {e.n} /\ Inj(Append(s, e))
<1> DEFINE t == Append(s, e)
           k == Len(s)
<1>1. /\ k \in Nat /\ DOMAIN s = 1..k /\ DOMAIN t = 1..(k + 1)
      /\ (\A i \in 1..k : t[i] = s[i]) /\ t[k + 1] = e
  BY IsSeqAppend
<1> HIDE DEF t, k
<1>2. DOMAIN t = DOMAIN s \cup {k + 1} /\ k + 1 \notin DOMAIN s
      /\ (\A i \in DOMAIN s : t[i] = s[i])
  BY <1>1
<1>3. Ns(t) = Ns(s) \cup {e.n}
  BY <1>1, <1>2 DEF Ns
<1>4. Inj(t)
  BY <1>1, <1>2 DEF Inj, Ns
<1> QED BY <1>3, <1>4 DEF t

\* The same for a map
LEMMA NsEmplace ==
    ASSUME NEW f, NEW k, k \notin DOMAIN f, NEW e, Inj(f), e.n \notin Ns(f)
    PROVE  Ns(Emplace(f, k, e)) = Ns(f) \cup {e.n} /\ Inj(Emplace(f, k, e))
<1> DEFINE g == Emplace(f, k, e)
<1>1. DOMAIN g = DOMAIN f \cup {k} /\ g[k] = e /\ \A i \in DOMAIN f : g[i] = f[i]
  BY DEF Emplace
<1> HIDE DEF g
<1>2. Ns(g) = Ns(f) \cup {e.n}
  BY <1>1 DEF Ns
<1>3. Inj(g)
  BY <1>1 DEF Inj, Ns
<1> QED BY <1>2, <1>3 DEF g

\* One entry less, the first of a sequence or the one of an index.
LEMMA NsTail ==
    ASSUME NEW s, IsSeq(s), s # <<>>, Inj(s)
    PROVE  /\ s[1].n \in Ns(s)
           /\ Ns(Tail(s)) = Ns(s) \ {s[1].n}
           /\ Inj(Tail(s))
<1> DEFINE t == Tail(s)
           k == Len(s)
<1>1. /\ k \in Nat /\ k > 0 /\ DOMAIN s = 1..k /\ DOMAIN t = 1..(k - 1)
      /\ \A i \in 1..(k - 1) : t[i] = s[i + 1]
  BY IsSeqTail
<1> HIDE DEF t, k
<1>2. 1 \in DOMAIN s /\ \A i \in DOMAIN t : i + 1 \in DOMAIN s /\ i + 1 # 1 /\ t[i] = s[i + 1]
  BY <1>1
<1>3. \A i \in DOMAIN s : i # 1 => i - 1 \in DOMAIN t /\ t[i - 1] = s[i]
  BY <1>1
<1>4. ASSUME NEW i \in DOMAIN t, NEW j \in DOMAIN t, t[i].n = t[j].n PROVE i = j
  <2>1. i + 1 = j + 1
    BY <1>2, <1>4 DEF Inj
  <2> QED BY <1>1, <2>1
<1>5. ASSUME NEW x \in Ns(t) PROVE x \in Ns(s) \ {s[1].n}
  <2>1. PICK i \in DOMAIN t : x = t[i].n
    BY DEF Ns
  <2> QED BY <1>2, <2>1 DEF Ns, Inj
<1>6. ASSUME NEW x \in Ns(s), x # s[1].n PROVE x \in Ns(t)
  <2>1. PICK i \in DOMAIN s : x = s[i].n
    BY DEF Ns
  <2>2. i # 1
    BY <1>6, <2>1
  <2> QED BY <1>3, <2>1, <2>2 DEF Ns
<1>7. s[1].n \in Ns(s)
  BY <1>2 DEF Ns
<1>8. Inj(t)
  BY <1>4 DEF Inj
<1> QED BY <1>5, <1>6, <1>7, <1>8 DEF t

\* The same for a map
LEMMA NsErase ==
    ASSUME NEW f, NEW k \in DOMAIN f, Inj(f)
    PROVE  /\ f[k].n \in Ns(f)
           /\ Ns(Erase(f, k)) = Ns(f) \ {f[k].n}
           /\ Inj(Erase(f, k))
<1> DEFINE g == Erase(f, k)
<1>1. DOMAIN g = DOMAIN f \ {k} /\ \A i \in DOMAIN g : g[i] = f[i]
  BY DEF Erase, Restrict
<1> HIDE DEF g
<1>2. Inj(g)
  BY <1>1 DEF Inj
<1>3. f[k].n \in Ns(f)
  BY DEF Ns
<1>4. Ns(g) = Ns(f) \ {f[k].n}
  BY <1>1 DEF Ns, Inj
<1> QED BY <1>2, <1>3, <1>4 DEF g

-----------------------------------------------------------------------------
(* The ring *)

\* The ring and activeIOs_ have the same reads, each in one of three places.
RingInv ==
    /\ currentIdx_ \in Nat
    /\ sq \in Seq(Nat)
    /\ cq \in Seq([idx : Nat, res : {"ok", "error"}])
    /\ DOMAIN activeIOs_ = Range(sq) \cup inflight \cup CqSet
    /\ DOMAIN activeIOs_ \subseteq 0..(currentIdx_ - 1)
    /\ \A i, j \in DOMAIN sq : sq[i] = sq[j] => i = j
    /\ \A i, j \in DOMAIN cq : cq[i].idx = cq[j].idx => i = j
    /\ Range(sq) \cap inflight = {}
    /\ Range(sq) \cap CqSet = {}
    /\ inflight \cap CqSet = {}

\* An empty ring is in order.
LEMMA RingInit == UringInit => RingInv
<1> SUFFICES ASSUME UringInit PROVE RingInv
  OBVIOUS
<1>1. sq = <<>> /\ cq = <<>> /\ inflight = {} /\ activeIOs_ = <<>> /\ currentIdx_ = 0
  BY DEF UringInit
<1>2. Range(sq) = {} /\ CqSet = {} /\ DOMAIN activeIOs_ = {} /\ DOMAIN sq = {} /\ DOMAIN cq = {}
  BY <1>1 DEF Range, CqSet
<1> QED BY <1>1, <1>2 DEF RingInv

\* The functor of appendIOContext, for a map that lacks at most what is completed.
LEMMA RingAppend ==
    ASSUME NEW ctx, NEW active, NEW pending, NEW done,
           currentIdx_ \in Nat, sq \in Seq(Nat),
           DOMAIN active = Range(sq) \cup inflight \cup done,
           DOMAIN active \subseteq 0..(currentIdx_ - 1),
           \A i, j \in DOMAIN sq : sq[i] = sq[j] => i = j,
           Range(sq) \cap inflight = {}, Range(sq) \cap done = {}, inflight \cap done = {},
           appendIOContext(ctx, active, pending)
    PROVE  /\ currentIdx_' \in Nat /\ sq' \in Seq(Nat)
           /\ DOMAIN activeIOs_' = Range(sq') \cup inflight' \cup done
           /\ DOMAIN activeIOs_' \subseteq 0..(currentIdx_' - 1)
           /\ \A i, j \in DOMAIN sq' : sq'[i] = sq'[j] => i = j
           /\ Range(sq') \cap inflight' = {} /\ Range(sq') \cap done = {}
           /\ inflight' \cap done = {}
<1>1. CASE UNCHANGED <<sq, inflight, currentIdx_>> /\ activeIOs_' = active
  BY <1>1
<1>2. CASE currentIdx_' = currentIdx_ + 1 /\ activeIOs_' = Emplace(active, currentIdx_, ctx)
           /\ sq' = <<>> /\ inflight' = inflight \cup Range(sq) \cup {currentIdx_}
  <2>1. DOMAIN activeIOs_' = DOMAIN active \cup {currentIdx_}
    BY <1>2 DEF Emplace
  <2>2. sq' \in Seq(Nat) /\ Range(sq') = {} /\ DOMAIN sq' = {}
    BY <1>2 DEF Range
  <2>3. currentIdx_ \notin DOMAIN active
    OBVIOUS
  <2>4. DOMAIN activeIOs_' \subseteq 0..(currentIdx_' - 1)
    BY <1>2, <2>1
  <2> QED BY <1>2, <2>1, <2>2, <2>3, <2>4
<1>3. CASE currentIdx_' = currentIdx_ + 1 /\ activeIOs_' = Emplace(active, currentIdx_, ctx)
           /\ sq' = Append(sq, currentIdx_) /\ UNCHANGED inflight
  <2>1. DOMAIN activeIOs_' = DOMAIN active \cup {currentIdx_}
    BY <1>3 DEF Emplace
  <2>2. /\ sq' \in Seq(Nat) /\ Len(sq) \in Nat /\ DOMAIN sq = 1..Len(sq)
        /\ DOMAIN sq' = 1..(Len(sq) + 1) /\ sq'[Len(sq) + 1] = currentIdx_
        /\ \A i \in 1..Len(sq) : sq'[i] = sq[i]
    BY <1>3
  <2>3. DOMAIN sq' = DOMAIN sq \cup {Len(sq) + 1}
    BY <2>2
  <2>4. Range(sq') = Range(sq) \cup {currentIdx_}
    <3>1. \A i \in DOMAIN sq : i \in DOMAIN sq' /\ sq'[i] = sq[i]
      BY <2>2, <2>3
    <3>2. Len(sq) + 1 \in DOMAIN sq'
      BY <2>3
    <3>3. Range(sq) \cup {currentIdx_} \subseteq Range(sq')
      BY <2>2, <3>1, <3>2 DEF Range
    <3>4. ASSUME NEW x \in Range(sq') PROVE x \in Range(sq) \cup {currentIdx_}
      <4>1. PICK i \in DOMAIN sq' : x = sq'[i]
        BY DEF Range
      <4>2. i \in DOMAIN sq \/ i = Len(sq) + 1
        BY <2>3
      <4>3. CASE i \in DOMAIN sq
        BY <3>1, <4>1, <4>3 DEF Range
      <4>4. CASE i = Len(sq) + 1
        BY <2>2, <4>1, <4>4
      <4> QED BY <4>2, <4>3, <4>4
    <3> QED BY <3>3, <3>4
  <2>5. currentIdx_ \notin DOMAIN active
    OBVIOUS
  <2>6. currentIdx_ \notin Range(sq)
    BY <2>5
  <2>7. \A i, j \in DOMAIN sq' : sq'[i] = sq'[j] => i = j
    BY <2>2, <2>3, <2>6 DEF Range
  <2>8. DOMAIN activeIOs_' \subseteq 0..(currentIdx_' - 1)
    BY <1>3, <2>1
  <2> QED BY <1>3, <2>1, <2>2, <2>4, <2>5, <2>7, <2>8
<1> QED BY <1>1, <1>2, <1>3 DEF appendIOContext

\* A request is appended to the ring.
LEMMA RingSubmit ==
    ASSUME RingInv, NEW ctx, appendIOContext(ctx, activeIOs_, pendingIOs_), UNCHANGED cq
    PROVE  RingInv'
<1>1. CqSet' = CqSet
  BY DEF CqSet
<1> DEFINE done == CqSet
<1>2. /\ currentIdx_ \in Nat /\ sq \in Seq(Nat)
      /\ DOMAIN activeIOs_ = Range(sq) \cup inflight \cup done
      /\ DOMAIN activeIOs_ \subseteq 0..(currentIdx_ - 1)
      /\ \A i, j \in DOMAIN sq : sq[i] = sq[j] => i = j
      /\ Range(sq) \cap inflight = {} /\ Range(sq) \cap done = {} /\ inflight \cap done = {}
  BY DEF RingInv
<1>3. /\ currentIdx_' \in Nat /\ sq' \in Seq(Nat)
      /\ DOMAIN activeIOs_' = Range(sq') \cup inflight' \cup done
      /\ DOMAIN activeIOs_' \subseteq 0..(currentIdx_' - 1)
      /\ \A i, j \in DOMAIN sq' : sq'[i] = sq'[j] => i = j
      /\ Range(sq') \cap inflight' = {} /\ Range(sq') \cap done = {} /\ inflight' \cap done = {}
  <2> HIDE DEF done
  <2> QED BY <1>2, RingAppend
<1> QED BY <1>1, <1>3 DEF RingInv

\* The kernel finishes a read.
LEMMA RingComplete ==
    ASSUME RingInv, NEW i \in inflight, Complete(i)
    PROVE  RingInv'
<1>1. PICK res \in {"ok", "error"} : cq' = Append(cq, [idx |-> i, res |-> res])
  BY DEF Complete
<1>2. inflight' = inflight \ {i} /\ UNCHANGED <<sq, activeIOs_, currentIdx_>>
  BY DEF Complete
<1> DEFINE C == [idx : Nat, res : {"ok", "error"}]
           e == [idx |-> i, res |-> res]
<1>3. i \in Nat /\ e \in C /\ e.idx = i /\ cq \in Seq(C) /\ i \notin CqSet
  BY DEF RingInv
<1> HIDE DEF C, e
<1>4. /\ cq' \in Seq(C) /\ Len(cq) \in Nat /\ DOMAIN cq = 1..Len(cq)
      /\ DOMAIN cq' = 1..(Len(cq) + 1) /\ cq'[Len(cq) + 1] = e
      /\ \A k \in 1..Len(cq) : cq'[k] = cq[k]
  BY <1>1, <1>3 DEF e
<1>5. DOMAIN cq' = DOMAIN cq \cup {Len(cq) + 1}
  BY <1>4
<1>6. CqSet' = CqSet \cup {i}
  BY <1>3, <1>4, <1>5 DEF CqSet
<1>7. \A k, l \in DOMAIN cq' : cq'[k].idx = cq'[l].idx => k = l
  <2>1. \A k, l \in DOMAIN cq : cq[k].idx = cq[l].idx => k = l
    BY DEF RingInv
  <2>2. \A k \in DOMAIN cq : cq'[k] = cq[k] /\ cq[k].idx # i
    BY <1>3, <1>4 DEF CqSet
  <2>3. cq'[Len(cq) + 1].idx = i
    BY <1>3, <1>4
  <2> QED BY <1>5, <2>1, <2>2, <2>3
<1>8. cq' \in Seq([idx : Nat, res : {"ok", "error"}])
  BY <1>4 DEF C
<1> QED BY <1>2, <1>3, <1>6, <1>7, <1>8 DEF RingInv

\* A completion leaves the ring, and a request that waited may enter it.
LEMMA RingHandle ==
    ASSUME RingInv, handleCQE
    PROVE  RingInv' /\ cq[1].idx \in DOMAIN activeIOs_
<1> DEFINE C == [idx : Nat, res : {"ok", "error"}]
           i == cq[1].idx
           rest == Erase(activeIOs_, i)
           done == CqSet \ {i}
<1>1. cq \in Seq(C) /\ cq # <<>> /\ cq' = Tail(cq)
  BY DEF RingInv, handleCQE
<1> HIDE DEF C
<1>2. /\ cq' \in Seq(C) /\ Len(cq) \in Nat /\ Len(cq) > 0 /\ DOMAIN cq = 1..Len(cq)
      /\ DOMAIN cq' = 1..(Len(cq) - 1)
      /\ \A k \in 1..(Len(cq) - 1) : cq'[k] = cq[k + 1]
  BY <1>1
<1>3. /\ 1 \in DOMAIN cq
      /\ \A k \in DOMAIN cq' : k + 1 \in DOMAIN cq /\ cq'[k] = cq[k + 1] /\ k + 1 # 1
  BY <1>2
<1>4. \A k \in DOMAIN cq : k # 1 => k - 1 \in DOMAIN cq' /\ cq'[k - 1] = cq[k]
  BY <1>2
<1>5. i \in CqSet
  BY <1>3 DEF CqSet
<1>6. CqSet' = done
  <2>1. CqSet' \subseteq done
    BY <1>3 DEF CqSet, RingInv
  <2>2. ASSUME NEW x \in done PROVE x \in CqSet'
    <3>1. PICK k \in DOMAIN cq : x = cq[k].idx
      BY <2>2 DEF CqSet
    <3>2. k # 1
      BY <2>2, <3>1
    <3> QED BY <1>4, <3>1, <3>2 DEF CqSet
  <2> QED BY <2>1, <2>2
<1>7. \A k, l \in DOMAIN cq' : cq'[k].idx = cq'[l].idx => k = l
  <2>1. \A k, l \in DOMAIN cq : cq[k].idx = cq[l].idx => k = l
    BY DEF RingInv
  <2> SUFFICES ASSUME NEW k \in DOMAIN cq', NEW l \in DOMAIN cq', cq'[k].idx = cq'[l].idx
               PROVE  k = l
    OBVIOUS
  <2>2. k + 1 = l + 1
    BY <1>3, <2>1
  <2> QED BY <1>2, <2>2
<1>8. cq' \in Seq([idx : Nat, res : {"ok", "error"}])
  BY <1>2 DEF C
<1>9. DOMAIN rest = DOMAIN activeIOs_ \ {i}
  BY DEF Erase, Restrict
<1>10. /\ currentIdx_ \in Nat /\ sq \in Seq(Nat)
       /\ DOMAIN rest = Range(sq) \cup inflight \cup done
       /\ DOMAIN rest \subseteq 0..(currentIdx_ - 1)
       /\ \A k, l \in DOMAIN sq : sq[k] = sq[l] => k = l
       /\ Range(sq) \cap inflight = {} /\ Range(sq) \cap done = {} /\ inflight \cap done = {}
  <2> HIDE DEF rest, i
  <2> QED BY <1>5, <1>9 DEF RingInv
<1>11. /\ currentIdx_' \in Nat /\ sq' \in Seq(Nat)
       /\ DOMAIN activeIOs_' = Range(sq') \cup inflight' \cup done
       /\ DOMAIN activeIOs_' \subseteq 0..(currentIdx_' - 1)
       /\ \A k, l \in DOMAIN sq' : sq'[k] = sq'[l] => k = l
       /\ Range(sq') \cap inflight' = {} /\ Range(sq') \cap done = {} /\ inflight' \cap done = {}
  <2> HIDE DEF done
  <2>1. CASE activeIOs_' = rest /\ UNCHANGED <<sq, inflight, currentIdx_>>
    BY <1>10, <2>1
  <2>2. CASE appendIOContext(pendingIOs_[1], rest, Tail(pendingIOs_))
    <3> HIDE DEF rest
    <3> QED BY <1>10, <2>2, RingAppend
  <2> QED BY <2>1, <2>2 DEF handleCQE
<1>12. i \in DOMAIN activeIOs_
  BY <1>5 DEF RingInv
<1> HIDE DEF rest, done, i
<1>13. RingInv'
  BY <1>6, <1>7, <1>8, <1>11 DEF RingInv
<1> QED BY <1>12, <1>13 DEF i

-----------------------------------------------------------------------------
(* Where the answers are *)

\* For which of the first L requests the answer is on its way to the ring (B), waits
\* for an entry (P), is being read (A), is on its way back (Q) or sent (R): it is in
\* at most one place and, while the connection is up, in one.
Placed(B, P, A, Q, R, L, up) ==
    /\ B \cup P \cup A \cup Q \subseteq 1..L
    /\ R \subseteq 0..L
    /\ B \cap (P \cup A \cup Q \cup R) = {}
    /\ P \cap (A \cup Q \cup R) = {}
    /\ A \cap (Q \cup R) = {}
    /\ Q \cap R = {}
    /\ up => 0 \notin R /\ 1..L \subseteq B \cup P \cup A \cup Q \cup R

\* A request is new, and its answer takes one of the places.
LEMMA PlacedNew ==
    ASSUME NEW B, NEW P, NEW A, NEW Q, NEW R, NEW L \in Nat, NEW up \in BOOLEAN,
           Placed(B, P, A, Q, R, L, up)
    PROVE  /\ Placed(B \cup {L + 1}, P, A, Q, R, L + 1, up)
           /\ Placed(B, P \cup {L + 1}, A, Q, R, L + 1, up)
           /\ Placed(B, P, A \cup {L + 1}, Q, R, L + 1, up)
           /\ Placed(B, P, A, Q, R \cup {L + 1}, L + 1, up)
           /\ Placed(B, P, A, Q, R, L + 1, FALSE)
<1> DEFINE n == L + 1
<1>1. 1..n = 1..L \cup {n} /\ 0..n = 0..L \cup {n} /\ n \notin 0..L /\ n \notin 1..L /\ n # 0
  OBVIOUS
<1> HIDE DEF n
<1>2. n \notin B /\ n \notin P /\ n \notin A /\ n \notin Q /\ n \notin R
  BY <1>1 DEF Placed
<1>3. Placed(B \cup {n}, P, A, Q, R, n, up)
  BY <1>1, <1>2 DEF Placed
<1>4. Placed(B, P \cup {n}, A, Q, R, n, up)
  BY <1>1, <1>2 DEF Placed
<1>5. Placed(B, P, A \cup {n}, Q, R, n, up)
  BY <1>1, <1>2 DEF Placed
<1>6. Placed(B, P, A, Q, R \cup {n}, n, up)
  <2>1. B \cup P \cup A \cup Q \subseteq 1..n /\ R \cup {n} \subseteq 0..n
    BY <1>1 DEF Placed
  <2>2. up => 0 \notin R \cup {n} /\ 1..n \subseteq B \cup P \cup A \cup Q \cup (R \cup {n})
    BY <1>1 DEF Placed
  <2> QED BY <1>2, <2>1, <2>2 DEF Placed
<1>7. Placed(B, P, A, Q, R, n, FALSE)
  BY <1>1, <1>2 DEF Placed
<1> QED BY <1>3, <1>4, <1>5, <1>6, <1>7 DEF n

\* The connection does not come up again.
LEMMA PlacedDown ==
    ASSUME NEW B, NEW P, NEW A, NEW Q, NEW R, NEW L, NEW up \in BOOLEAN, NEW up2 \in BOOLEAN,
           Placed(B, P, A, Q, R, L, up), up2 => up
    PROVE  Placed(B, P, A, Q, R, L, up2)
BY DEF Placed

\* An answer moves on, or is dropped when the connection is not up any more.
LEMMA PlacedFromBase ==
    ASSUME NEW B, NEW P, NEW A, NEW Q, NEW R, NEW L, NEW up \in BOOLEAN,
           Placed(B, P, A, Q, R, L, up), NEW n \in B
    PROVE  /\ Placed(B \ {n}, P \cup {n}, A, Q, R, L, up)
           /\ Placed(B \ {n}, P, A \cup {n}, Q, R, L, up)
BY DEF Placed

\* From the queue of requests that wait for an entry
LEMMA PlacedFromPending ==
    ASSUME NEW B, NEW P, NEW A, NEW Q, NEW R, NEW L, NEW up \in BOOLEAN,
           Placed(B, P, A, Q, R, L, up), NEW n \in P
    PROVE  /\ Placed(B, (P \ {n}) \cup {n}, A, Q, R, L, up)
           /\ Placed(B, P \ {n}, A \cup {n}, Q, R, L, up)
BY DEF Placed

\* From the ring
LEMMA PlacedFromActive ==
    ASSUME NEW B, NEW P, NEW A, NEW Q, NEW R, NEW L, NEW up \in BOOLEAN,
           Placed(B, P, A, Q, R, L, up), NEW n \in A
    PROVE  /\ Placed(B, P, A \ {n}, Q \cup {n}, R, L, up)
           /\ Placed(B, P, A \ {n}, Q, R \cup {n}, L, up)
           /\ Placed(B, P, A \ {n}, Q, R, L, FALSE)
<1>1. n \in 1..L /\ n # 0 /\ n \in 0..L
  BY DEF Placed
<1> QED BY <1>1 DEF Placed

\* From the queue of the connection's loop
LEMMA PlacedFromQueue ==
    ASSUME NEW B, NEW P, NEW A, NEW Q, NEW R, NEW L, NEW up \in BOOLEAN,
           Placed(B, P, A, Q, R, L, up), NEW n \in Q
    PROVE  /\ Placed(B, P, A, Q \ {n}, R \cup {n}, L, up)
           /\ Placed(B, P, A, Q \ {n}, R, L, FALSE)
<1>1. n \in 1..L /\ n # 0 /\ n \in 0..L
  BY DEF Placed
<1> QED BY <1>1 DEF Placed

\* The connection is up.
Up == state_ = "kConnected"

\* Nothing is sent after an answer that closes the connection.
ClosedInv ==
    \A i \in DOMAIN replies : replies[i].close => i = Len(replies) /\ ~Up

\* Every answer has its place (Placed).
PlacesInv ==
    /\ IsSeq(baseQueue) /\ IsSeq(pendingIOs_) /\ IsSeq(ioQueue) /\ IsSeq(replies) /\ IsSeq(parsed)
    /\ Inj(baseQueue) /\ Inj(pendingIOs_) /\ Inj(activeIOs_) /\ Inj(ioQueue) /\ Inj(replies)
    /\ Placed(Ns(baseQueue), Ns(pendingIOs_), Ns(activeIOs_), Ns(ioQueue), Ns(replies),
              Len(parsed), Up)

\* The inductive invariant
IInv == RingInv /\ PlacesInv /\ ClosedInv

\* A request that is in neither map gets into one of them.
LEMMA PlacesAppend ==
    ASSUME NEW ctx, NEW active, NEW pending, appendIOContext(ctx, active, pending),
           currentIdx_ \notin DOMAIN active, IsSeq(pending), Inj(active), Inj(pending),
           ctx.n \notin Ns(active), ctx.n \notin Ns(pending)
    PROVE  /\ IsSeq(pendingIOs_') /\ Inj(activeIOs_') /\ Inj(pendingIOs_')
           /\ \/ Ns(activeIOs_') = Ns(active) /\ Ns(pendingIOs_') = Ns(pending) \cup {ctx.n}
              \/ Ns(activeIOs_') = Ns(active) \cup {ctx.n} /\ Ns(pendingIOs_') = Ns(pending)
<1>1. CASE pendingIOs_' = Append(pending, ctx) /\ activeIOs_' = active
  <2>1. IsSeq(Append(pending, ctx))
    BY IsSeqAppend
  <2>2. Ns(Append(pending, ctx)) = Ns(pending) \cup {ctx.n} /\ Inj(Append(pending, ctx))
    BY NsAppend
  <2> QED BY <1>1, <2>1, <2>2
<1>2. CASE activeIOs_' = Emplace(active, currentIdx_, ctx) /\ pendingIOs_' = pending
  <2>1. /\ Ns(Emplace(active, currentIdx_, ctx)) = Ns(active) \cup {ctx.n}
        /\ Inj(Emplace(active, currentIdx_, ctx))
    BY NsEmplace
  <2> QED BY <1>2, <2>1
<1> QED BY <1>1, <1>2 DEF appendIOContext

\* An answer that was not sent is sent while the connection is up; a closing one
\* ends that.
LEMMA Sending ==
    ASSUME NEW a, SendAndShutdown(a), IsSeq(replies), Inj(replies), ClosedInv,
           Up => a.n \notin Ns(replies)
    PROVE  /\ IsSeq(replies') /\ Inj(replies') /\ ClosedInv'
           /\ Up' => Up /\ ~a.close
           /\ Up => Ns(replies') = Ns(replies) \cup {a.n}
           /\ ~Up => replies' = replies
<1>1. CASE Up
  <2>1. replies' = Append(replies, a) /\ (Up' <=> ~a.close)
    BY <1>1 DEF Up, SendAndShutdown, shutdown
  <2>2. /\ IsSeq(replies') /\ Len(replies) \in Nat /\ DOMAIN replies = 1..Len(replies)
        /\ Len(replies') = Len(replies) + 1 /\ DOMAIN replies' = 1..(Len(replies) + 1)
        /\ \A i \in 1..Len(replies) : replies'[i] = replies[i]
        /\ replies'[Len(replies) + 1] = a
    BY <2>1, IsSeqAppend
  <2>3. Ns(replies') = Ns(replies) \cup {a.n} /\ Inj(replies')
    BY <1>1, <2>1, NsAppend
  <2>4. ClosedInv'
    BY <1>1, <2>1, <2>2 DEF ClosedInv
  <2> QED BY <1>1, <2>1, <2>2, <2>3, <2>4
<1>2. CASE ~Up
  <2>1. replies' = replies /\ Up' = Up
    BY <1>2 DEF Up, SendAndShutdown, shutdown
  <2> QED BY <1>2, <2>1 DEF ClosedInv
<1> QED BY <1>1, <1>2

\* IInv holds at first ...
LEMMA InitInv == Init => IInv
<1> SUFFICES ASSUME Init PROVE IInv
  OBVIOUS
<1>1. RingInv
  BY RingInit DEF Init
<1>2. /\ baseQueue = <<>> /\ pendingIOs_ = <<>> /\ activeIOs_ = <<>> /\ ioQueue = <<>>
      /\ replies = <<>> /\ parsed = <<>>
  BY DEF Init, UringInit
<1>3. IsSeq(<<>>) /\ Inj(<<>>) /\ Ns(<<>>) = {} /\ Len(<<>>) = 0 /\ DOMAIN <<>> = {}
  BY DEF IsSeq, Inj, Ns
<1>4. Placed({}, {}, {}, {}, {}, 0, Up)
  BY DEF Placed
<1> QED BY <1>1, <1>2, <1>3, <1>4 DEF IInv, PlacesInv, ClosedInv

\* Steps that leave requests and answers where they are.
LEMMA SamePlaces ==
    ASSUME IInv, RingInv', Up' => Up,
           UNCHANGED <<parsed, replies, ioQueue, baseQueue, activeIOs_, pendingIOs_>>
    PROVE  IInv'
<1>1. PlacesInv'
  BY PlacedDown DEF IInv, PlacesInv, Up
<1>2. ClosedInv'
  BY DEF IInv, ClosedInv
<1> QED BY <1>1, <1>2 DEF IInv

\* The next index is new.
LEMMA IndexFresh ==
    ASSUME RingInv
    PROVE  /\ currentIdx_ \notin DOMAIN activeIOs_
           /\ \A i : currentIdx_ \notin DOMAIN Erase(activeIOs_, i)
<1>1. currentIdx_ \notin DOMAIN activeIOs_
  BY DEF RingInv
<1> QED BY <1>1 DEF Erase, Restrict

\* The answer to a new request, or to none, is sent at once.
LEMMA AnswerNow ==
    ASSUME IInv, NEW a, SendAndShutdown(a), UNCHANGED <<baseQueue, uringVars, ioQueue>>,
           NEW req, \/ a.n = 0 /\ a.close /\ UNCHANGED parsed
                    \/ a.n = Len(parsed) + 1 /\ parsed' = Append(parsed, req)
    PROVE  IInv'
<1> DEFINE B == Ns(baseQueue)  P == Ns(pendingIOs_)  A == Ns(activeIOs_)  Q == Ns(ioQueue)
           R == Ns(replies)  L == Len(parsed)
<1>1. /\ Placed(B, P, A, Q, R, L, Up) /\ IsSeq(replies) /\ Inj(replies) /\ IsSeq(parsed)
      /\ ClosedInv
  BY DEF IInv, PlacesInv
<1>2. L \in Nat /\ IsSeq(parsed')
      /\ (parsed' = Append(parsed, req) => Len(parsed') = L + 1)
  <2>1. L \in Nat /\ IsSeq(Append(parsed, req)) /\ Len(Append(parsed, req)) = L + 1
    BY <1>1, IsSeqAppend
  <2> QED BY <1>1, <2>1
<1>3. Up => a.n \notin R
  BY <1>1, <1>2 DEF Placed
<1>4. /\ IsSeq(replies') /\ Inj(replies') /\ ClosedInv'
      /\ Up' => Up /\ ~a.close
      /\ Up => Ns(replies') = R \cup {a.n}
      /\ ~Up => replies' = replies
  BY <1>1, <1>3, Sending
<1>5. RingInv'
  BY DEF IInv, RingInv, uringVars, CqSet
<1>6. Placed(B, P, A, Q, Ns(replies'), Len(parsed'), Up')
  <2> HIDE DEF B, P, A, Q, R, L
  <2>1. CASE a.n = 0 /\ a.close /\ UNCHANGED parsed
    <3>1. (Up' = FALSE) /\ Len(parsed') = L
      BY <1>4, <2>1 DEF L, Up
    <3>2. Ns(replies') \in {R, R \cup {0}}
      BY <1>4, <2>1 DEF R
    <3>3. 0 \notin B \cup P \cup A \cup Q /\ 0 \in 0..L
      BY <1>1, <1>2 DEF Placed
    <3>4. Placed(B, P, A, Q, R, L, FALSE)
      BY <1>1 DEF Placed
    <3>5. Placed(B, P, A, Q, R \cup {0}, L, FALSE)
      BY <3>3, <3>4 DEF Placed
    <3> QED BY <3>1, <3>2, <3>4, <3>5
  <2>2. CASE a.n = L + 1 /\ parsed' = Append(parsed, req)
    <3>3. Placed(B, P, A, Q, R \cup {L + 1}, L + 1, Up)
      BY <1>1, <1>2, PlacedNew DEF Up
    <3>1. Up => Placed(B, P, A, Q, Ns(replies'), L + 1, Up)
      BY <1>4, <2>2, <3>3
    <3>2. ~Up => Placed(B, P, A, Q, Ns(replies'), L + 1, FALSE)
      BY <1>1, <1>2, <1>4, PlacedNew DEF Up, R
    <3> QED BY <1>2, <1>4, <2>2, <3>1, <3>2, PlacedDown DEF Up
  <2> QED BY <2>1, <2>2 DEF L
<1>7. PlacesInv'
  <2>1. UNCHANGED <<activeIOs_, pendingIOs_>>
    BY DEF uringVars
  <2> QED BY <1>2, <1>4, <1>6, <2>1 DEF IInv, PlacesInv
<1> QED BY <1>4, <1>5, <1>7 DEF IInv

\* The read of a file for a new request is queued to the base loop, or appended to
\* the ring.
LEMMA ReadQueued ==
    ASSUME IInv, NEW ctx, ctx.n = Len(parsed) + 1, NEW req, parsed' = Append(parsed, req),
           baseQueue' = Append(baseQueue, ctx), UNCHANGED <<uringVars, ioQueue, replies, state_>>
    PROVE  IInv'
<1> DEFINE B == Ns(baseQueue)  P == Ns(pendingIOs_)  A == Ns(activeIOs_)  Q == Ns(ioQueue)
           R == Ns(replies)  L == Len(parsed)
<1>1. /\ Placed(B, P, A, Q, R, L, Up) /\ IsSeq(baseQueue) /\ Inj(baseQueue) /\ IsSeq(parsed)
  BY DEF IInv, PlacesInv
<1>2. L \in Nat /\ IsSeq(parsed') /\ Len(parsed') = L + 1 /\ IsSeq(baseQueue')
  BY <1>1, IsSeqAppend
<1>3. ctx.n \notin B
  BY <1>1, <1>2 DEF Placed
<1>4. Ns(baseQueue') = B \cup {L + 1} /\ Inj(baseQueue')
  <2>1. Ns(Append(baseQueue, ctx)) = Ns(baseQueue) \cup {ctx.n} /\ Inj(Append(baseQueue, ctx))
    BY <1>1, <1>3, NsAppend
  <2> QED BY <2>1
<1>5. Placed(B \cup {L + 1}, P, A, Q, R, L + 1, Up)
  <2> HIDE DEF B, P, A, Q, R, L
  <2> QED BY <1>1, <1>2, PlacedNew DEF Up
<1>6. UNCHANGED <<activeIOs_, pendingIOs_, ioQueue, replies, Up>>
  BY DEF uringVars, Up
<1>7. PlacesInv'
  BY <1>2, <1>4, <1>5, <1>6 DEF IInv, PlacesInv
<1>8. RingInv' /\ ClosedInv'
  BY <1>6 DEF IInv, RingInv, uringVars, CqSet, ClosedInv
<1> QED BY <1>7, <1>8 DEF IInv

\* The read is appended to the ring at once: the connection is in the base loop.
LEMMA ReadAppended ==
    ASSUME IInv, NEW ctx, ctx.n = Len(parsed) + 1, NEW req, parsed' = Append(parsed, req),
           appendIOContext(ctx, activeIOs_, pendingIOs_),
           UNCHANGED <<baseQueue, cq, ioQueue, replies, state_>>
    PROVE  IInv'
<1> DEFINE B == Ns(baseQueue)  P == Ns(pendingIOs_)  A == Ns(activeIOs_)  Q == Ns(ioQueue)
           R == Ns(replies)  L == Len(parsed)  n == ctx.n
<1>1. /\ Placed(B, P, A, Q, R, L, Up) /\ IsSeq(pendingIOs_) /\ Inj(pendingIOs_) /\ Inj(activeIOs_)
      /\ IsSeq(parsed)
  BY DEF IInv, PlacesInv
<1>2. L \in Nat /\ IsSeq(parsed') /\ Len(parsed') = L + 1
  BY <1>1, IsSeqAppend
<1>3. n \notin P /\ n \notin A
  BY <1>1, <1>2 DEF Placed
<1>4. currentIdx_ \notin DOMAIN activeIOs_
  BY IndexFresh DEF IInv
<1>5. /\ IsSeq(pendingIOs_') /\ Inj(activeIOs_') /\ Inj(pendingIOs_')
      /\ \/ Ns(activeIOs_') = A /\ Ns(pendingIOs_') = P \cup {n}
         \/ Ns(activeIOs_') = A \cup {n} /\ Ns(pendingIOs_') = P
  BY <1>1, <1>3, <1>4, PlacesAppend
<1>6. Placed(B, Ns(pendingIOs_'), Ns(activeIOs_'), Q, R, L + 1, Up)
  <2>1. /\ Placed(B, P \cup {n}, A, Q, R, L + 1, Up)
        /\ Placed(B, P, A \cup {n}, Q, R, L + 1, Up)
    <3> HIDE DEF B, P, A, Q, R
    <3> QED BY <1>1, <1>2, PlacedNew DEF Up
  <2> HIDE DEF B, P, A, Q, R, n
  <2> QED BY <1>5, <2>1
<1>7. PlacesInv'
  <2>1. UNCHANGED <<baseQueue, ioQueue, replies, Up>>
    BY DEF Up
  <2> QED BY <1>2, <1>5, <1>6, <2>1 DEF IInv, PlacesInv
<1>8. RingInv'
  BY RingSubmit DEF IInv
<1>9. ClosedInv'
  BY DEF IInv, ClosedInv, Up
<1> QED BY <1>7, <1>8, <1>9 DEF IInv

\* A turn of the loop of onMessage.
LEMMA onMessageInv ==
    ASSUME IInv, NEW past, onMessage(past)
    PROVE  IInv'
<1> DEFINE n == Len(parsed) + 1
<1>1. UNCHANGED ioQueue
  BY DEF onMessage
<1>2. PICK r : \/ UNCHANGED <<parsed, replies, state_, baseQueue, uringVars>>
               \/ /\ SendAndShutdown([n |-> 0, code |-> 400, close |-> TRUE])
                  /\ UNCHANGED <<parsed, baseQueue, uringVars>>
               \/ onRequest(n, r) /\ parsed' = Append(parsed, r)
  BY DEF onMessage
<1>3. CASE UNCHANGED <<parsed, replies, state_, baseQueue, uringVars>>
  <2>1. RingInv' /\ UNCHANGED <<activeIOs_, pendingIOs_>>
    BY <1>3 DEF IInv, RingInv, uringVars, CqSet
  <2> QED BY <1>1, <1>3, <2>1, SamePlaces DEF Up
<1>4. CASE /\ SendAndShutdown([n |-> 0, code |-> 400, close |-> TRUE])
           /\ UNCHANGED <<parsed, baseQueue, uringVars>>
  <2> DEFINE a == [n |-> 0, code |-> 400, close |-> TRUE]
  <2>1. a.n = 0 /\ a.close /\ SendAndShutdown(a)
    BY <1>4
  <2> HIDE DEF a
  <2> QED BY <1>1, <1>4, <2>1, AnswerNow
<1>5. CASE onRequest(n, r) /\ parsed' = Append(parsed, r)
  <2>1. CASE \E code, close :
               /\ SendAndShutdown([n |-> n, code |-> code, close |-> close])
               /\ UNCHANGED <<baseQueue, uringVars>>
    <3>1. PICK code, close : /\ SendAndShutdown([n |-> n, code |-> code, close |-> close])
                             /\ UNCHANGED <<baseQueue, uringVars>>
      BY <2>1
    <3> DEFINE a == [n |-> n, code |-> code, close |-> close]
    <3>2. a.n = Len(parsed) + 1 /\ SendAndShutdown(a)
      BY <3>1
    <3> HIDE DEF a
    <3> QED BY <1>1, <1>5, <3>1, <3>2, AnswerNow
  <2>2. CASE \E ctx : /\ ctx.n = n
                      /\ UNCHANGED <<replies, state_>>
                      /\ \/ /\ appendIOContext(ctx, activeIOs_, pendingIOs_)
                            /\ UNCHANGED <<baseQueue, cq>>
                         \/ /\ baseQueue' = Append(baseQueue, ctx)
                            /\ UNCHANGED uringVars
    <3>1. PICK ctx : /\ ctx.n = Len(parsed) + 1
                     /\ UNCHANGED <<replies, state_>>
                     /\ \/ /\ appendIOContext(ctx, activeIOs_, pendingIOs_)
                           /\ UNCHANGED <<baseQueue, cq>>
                        \/ /\ baseQueue' = Append(baseQueue, ctx)
                           /\ UNCHANGED uringVars
      BY <2>2
    <3> QED BY <1>1, <1>5, <3>1, ReadAppended, ReadQueued
  <2>3. CASE r.path_ \in ApiPaths
    BY <1>5, <2>1, <2>3 DEF onRequest
  <2>4. CASE r.path_ \notin ApiPaths
    <3>1. handleStaticFile(n, r)
      BY <1>5, <2>4 DEF onRequest
    <3>2. CASE handleError(n, 403) \/ handleError(n, 404)
      <4>1. PICK code : handleError(n, code)
        BY <3>2
      <4>2. /\ SendAndShutdown([n |-> n, code |-> code, close |-> TRUE])
            /\ UNCHANGED <<baseQueue, uringVars>>
        BY <4>1 DEF handleError
      <4> QED BY <2>1, <4>2
    <3>3. CASE /\ UNCHANGED <<replies, state_>>
               /\ LET read == [n |-> n, close |-> Close(r)]
                  IN  IF sameLoop
                      THEN /\ appendIOContext(read, activeIOs_, pendingIOs_)
                           /\ UNCHANGED <<baseQueue, cq, eventfd, draining, readErrs>>
                      ELSE /\ baseQueue' = Append(baseQueue, read)
                           /\ UNCHANGED uringVars
      <4> DEFINE read == [n |-> n, close |-> Close(r)]
      <4>1. read.n = n /\ \/ /\ appendIOContext(read, activeIOs_, pendingIOs_)
                             /\ UNCHANGED <<baseQueue, cq>>
                          \/ /\ baseQueue' = Append(baseQueue, read)
                             /\ UNCHANGED uringVars
        BY <3>3
      <4> HIDE DEF read
      <4> QED BY <2>2, <3>3, <4>1
    <3> QED BY <3>1, <3>2, <3>3 DEF handleStaticFile
  <2> QED BY <2>3, <2>4
<1> QED BY <1>2, <1>3, <1>4, <1>5

\* An answer comes back to the connection's loop.
LEMMA RunIoFunctorInv ==
    ASSUME IInv, RunIoFunctor
    PROVE  IInv'
<1> DEFINE B == Ns(baseQueue)  P == Ns(pendingIOs_)  A == Ns(activeIOs_)  Q == Ns(ioQueue)
           R == Ns(replies)  L == Len(parsed)  a == ioQueue[1]
<1>1. /\ ioQueue # <<>> /\ ioQueue' = Tail(ioQueue) /\ SendAndShutdown(a)
      /\ UNCHANGED <<baseQueue, parsed, uringVars>>
  BY DEF RunIoFunctor
<1>2. /\ Placed(B, P, A, Q, R, L, Up) /\ IsSeq(replies) /\ Inj(replies) /\ ClosedInv
      /\ IsSeq(ioQueue) /\ Inj(ioQueue)
  BY DEF IInv, PlacesInv
<1>3. a.n \in Q /\ Ns(ioQueue') = Q \ {a.n} /\ Inj(ioQueue') /\ IsSeq(ioQueue')
  BY <1>1, <1>2, NsTail, IsSeqTail
<1>4. a.n \notin R
  BY <1>2, <1>3 DEF Placed
<1>5. /\ IsSeq(replies') /\ Inj(replies') /\ ClosedInv'
      /\ Up' => Up
      /\ Up => Ns(replies') = R \cup {a.n}
      /\ ~Up => replies' = replies
  BY <1>1, <1>2, <1>4, Sending
<1>6. Placed(B, P, A, Ns(ioQueue'), Ns(replies'), L, Up')
  <2>1. Placed(B, P, A, Q \ {a.n}, R \cup {a.n}, L, Up) /\ Placed(B, P, A, Q \ {a.n}, R, L, FALSE)
    <3> HIDE DEF B, P, A, Q, R, L, a
    <3> QED BY <1>2, <1>3, PlacedFromQueue DEF Up
  <2>2. CASE Up
    <3>1. Placed(B, P, A, Ns(ioQueue'), Ns(replies'), L, Up)
      <4> HIDE DEF B, P, A, Q, R, L, a
      <4> QED BY <1>3, <1>5, <2>1, <2>2
    <3> HIDE DEF B, P, A, Q, R, L, a
    <3> QED BY <1>5, <3>1, PlacedDown DEF Up
  <2>3. CASE ~Up
    <3>1. (Up' = FALSE) /\ Ns(replies') = R
      BY <1>5, <2>3 DEF Up
    <3> HIDE DEF B, P, A, Q, R, L, a
    <3> QED BY <1>3, <2>1, <3>1
  <2> QED BY <2>2, <2>3
<1>7. RingInv' /\ UNCHANGED <<activeIOs_, pendingIOs_>>
  BY <1>1 DEF IInv, RingInv, uringVars, CqSet
<1>8. PlacesInv'
  BY <1>1, <1>3, <1>5, <1>6, <1>7 DEF IInv, PlacesInv
<1> QED BY <1>5, <1>7, <1>8 DEF IInv

\* The base loop runs a functor of appendIOContext.
LEMMA RunBaseFunctorInv ==
    ASSUME IInv, RunBaseFunctor
    PROVE  IInv'
<1> DEFINE B == Ns(baseQueue)  P == Ns(pendingIOs_)  A == Ns(activeIOs_)  Q == Ns(ioQueue)
           R == Ns(replies)  L == Len(parsed)  c == baseQueue[1]
<1>1. /\ baseQueue # <<>> /\ baseQueue' = Tail(baseQueue)
      /\ appendIOContext(c, activeIOs_, pendingIOs_)
      /\ UNCHANGED <<cq, state_, ioQueue, replies, parsed>>
  BY DEF RunBaseFunctor
<1>2. /\ Placed(B, P, A, Q, R, L, Up) /\ IsSeq(baseQueue) /\ Inj(baseQueue)
      /\ IsSeq(pendingIOs_) /\ Inj(pendingIOs_) /\ Inj(activeIOs_)
  BY DEF IInv, PlacesInv
<1>3. c.n \in B /\ Ns(baseQueue') = B \ {c.n} /\ Inj(baseQueue') /\ IsSeq(baseQueue')
  BY <1>1, <1>2, NsTail, IsSeqTail
<1>4. c.n \notin P /\ c.n \notin A
  BY <1>2, <1>3 DEF Placed
<1>5. currentIdx_ \notin DOMAIN activeIOs_
  BY IndexFresh DEF IInv
<1>6. /\ IsSeq(pendingIOs_') /\ Inj(activeIOs_') /\ Inj(pendingIOs_')
      /\ \/ Ns(activeIOs_') = A /\ Ns(pendingIOs_') = P \cup {c.n}
         \/ Ns(activeIOs_') = A \cup {c.n} /\ Ns(pendingIOs_') = P
  BY <1>1, <1>2, <1>4, <1>5, PlacesAppend
<1>7. Placed(Ns(baseQueue'), Ns(pendingIOs_'), Ns(activeIOs_'), Q, R, L, Up)
  <2> HIDE DEF B, P, A, Q, R, L, c
  <2>1. /\ Placed(B \ {c.n}, P \cup {c.n}, A, Q, R, L, Up)
        /\ Placed(B \ {c.n}, P, A \cup {c.n}, Q, R, L, Up)
    BY <1>2, <1>3, PlacedFromBase DEF Up
  <2> QED BY <1>3, <1>6, <2>1
<1>8. PlacesInv'
  <2>1. UNCHANGED <<ioQueue, replies, parsed, Up>>
    BY <1>1 DEF Up
  <2> QED BY <1>3, <1>6, <1>7, <2>1 DEF IInv, PlacesInv
<1>9. RingInv' /\ ClosedInv'
  BY <1>1, RingSubmit DEF IInv, ClosedInv, Up
<1> QED BY <1>8, <1>9 DEF IInv

\* A read is done: its answer moves on and a request that waited may enter the ring.
LEMMA CompletionInv ==
    ASSUME IInv, Completion
    PROVE  IInv'
<1> DEFINE B == Ns(baseQueue)  P == Ns(pendingIOs_)  A == Ns(activeIOs_)  Q == Ns(ioQueue)
           R == Ns(replies)  L == Len(parsed)
           i == cq[1].idx  c == activeIOs_[i]  rest == Erase(activeIOs_, i)
           A2 == A \ {c.n}
<1>1. /\ handleCQE /\ FileRead(c, cq[1].res)
      /\ UNCHANGED <<sameLoop, baseQueue, parsed>>
  BY DEF Completion
<1>2. /\ Placed(B, P, A, Q, R, L, Up) /\ ClosedInv
      /\ IsSeq(baseQueue) /\ Inj(baseQueue) /\ IsSeq(pendingIOs_) /\ Inj(pendingIOs_)
      /\ Inj(activeIOs_) /\ IsSeq(ioQueue) /\ Inj(ioQueue) /\ IsSeq(replies) /\ Inj(replies)
  BY DEF IInv, PlacesInv
<1>3. RingInv' /\ i \in DOMAIN activeIOs_ /\ currentIdx_ \notin DOMAIN rest
  BY <1>1, RingHandle, IndexFresh DEF IInv
<1>4. c.n \in A /\ Ns(rest) = A2 /\ Inj(rest)
  BY <1>2, <1>3, NsErase
<1>5. c.n \notin R /\ c.n \notin Q
  BY <1>2, <1>4 DEF Placed
<1> HIDE DEF i, c, rest
<1>6. \* what the callback does
      /\ IsSeq(ioQueue') /\ Inj(ioQueue') /\ IsSeq(replies') /\ Inj(replies') /\ ClosedInv'
      /\ Placed(B, P, A2, Ns(ioQueue'), Ns(replies'), L, Up')
  <2>1. /\ Placed(B, P, A2, Q \cup {c.n}, R, L, Up)
        /\ Placed(B, P, A2, Q, R \cup {c.n}, L, Up)
        /\ Placed(B, P, A2, Q, R, L, FALSE)
    <3> HIDE DEF B, P, A, Q, R, L
    <3> QED BY <1>2, <1>4, PlacedFromActive DEF Up
  <2>2. CASE state_' = shutdown(TRUE) /\ UNCHANGED <<replies, ioQueue>>
    <3>1. (Up' = FALSE) /\ Ns(replies') = R /\ Ns(ioQueue') = Q
      BY <2>2 DEF Up, shutdown
    <3>2. ClosedInv'
      BY <1>2, <2>2, <3>1 DEF ClosedInv
    <3>3. Placed(B, P, A2, Ns(ioQueue'), Ns(replies'), L, Up')
      <4> HIDE DEF B, P, A2, Q, R, L
      <4> QED BY <2>1, <3>1
    <3> QED BY <1>2, <2>2, <3>2, <3>3
  <2>3. CASE AnswerFromBase([n |-> c.n, code |-> 200, close |-> c.close])
    <3> DEFINE a == [n |-> c.n, code |-> 200, close |-> c.close]
    <3>1. a.n = c.n /\ AnswerFromBase(a)
      BY <2>3
    <3> HIDE DEF a
    <3>2. CASE SendAndShutdown(a) /\ UNCHANGED ioQueue
      <4>1. /\ IsSeq(replies') /\ Inj(replies') /\ ClosedInv'
            /\ Up' => Up
            /\ Up => Ns(replies') = R \cup {a.n}
            /\ ~Up => replies' = replies
        BY <1>2, <1>5, <3>1, <3>2, Sending
      <4>2. Placed(B, P, A2, Q, Ns(replies'), L, Up')
        <5>1. CASE Up
          <6>1. Placed(B, P, A2, Q, Ns(replies'), L, Up)
            <7> HIDE DEF B, P, A2, Q, R, L
            <7> QED BY <2>1, <3>1, <4>1, <5>1
          <6> HIDE DEF B, P, A2, Q, R, L
          <6> QED BY <4>1, <6>1, PlacedDown DEF Up
        <5>2. CASE ~Up
          <6>1. (Up' = FALSE) /\ Ns(replies') = R
            BY <4>1, <5>2 DEF Up
          <6> HIDE DEF B, P, A2, Q, R, L
          <6> QED BY <2>1, <6>1
        <5> QED BY <5>1, <5>2
      <4> QED BY <1>2, <3>2, <4>1, <4>2
    <3>3. CASE ioQueue' = Append(ioQueue, a) /\ UNCHANGED <<replies, state_>>
      <4>1. IsSeq(ioQueue') /\ Ns(ioQueue') = Q \cup {a.n} /\ Inj(ioQueue')
        <5>1. IsSeq(Append(ioQueue, a))
          BY <1>2, IsSeqAppend
        <5>2. Ns(Append(ioQueue, a)) = Ns(ioQueue) \cup {a.n} /\ Inj(Append(ioQueue, a))
          BY <1>2, <1>5, <3>1, NsAppend
        <5> QED BY <3>3, <5>1, <5>2
      <4>2. (Up' = Up) /\ ClosedInv' /\ Ns(replies') = R
        BY <1>2, <3>3 DEF ClosedInv, Up
      <4>3. Placed(B, P, A2, Ns(ioQueue'), Ns(replies'), L, Up')
        <5> HIDE DEF B, P, A2, Q, R, L
        <5> QED BY <2>1, <3>1, <4>1, <4>2
      <4> QED BY <1>2, <3>3, <4>1, <4>2, <4>3
    <3> QED BY <3>1, <3>2, <3>3 DEF AnswerFromBase
  <2> QED BY <1>1, <2>2, <2>3 DEF FileRead
<1>7. \* what happens to a request that waited
      /\ IsSeq(pendingIOs_') /\ Inj(pendingIOs_') /\ Inj(activeIOs_')
      /\ Placed(B, Ns(pendingIOs_'), Ns(activeIOs_'), Ns(ioQueue'), Ns(replies'), L, Up')
  <2>1. CASE activeIOs_' = rest /\ UNCHANGED pendingIOs_
    <3>1. Ns(activeIOs_') = A2 /\ Ns(pendingIOs_') = P
      BY <1>4, <2>1
    <3>2. Placed(B, Ns(pendingIOs_'), Ns(activeIOs_'), Ns(ioQueue'), Ns(replies'), L, Up')
      <4> HIDE DEF B, P, A2, L
      <4> QED BY <1>6, <3>1
    <3> QED BY <1>2, <1>4, <2>1, <3>2
  <2>2. CASE pendingIOs_ # <<>> /\ appendIOContext(pendingIOs_[1], rest, Tail(pendingIOs_))
    <3> DEFINE d == pendingIOs_[1]
               tl == Tail(pendingIOs_)
    <3>1. d.n \in P /\ Ns(tl) = P \ {d.n} /\ Inj(tl) /\ IsSeq(tl)
      BY <1>2, <2>2, NsTail, IsSeqTail
    <3>2. d.n \notin Ns(rest) /\ d.n \notin Ns(tl)
      BY <1>4, <1>6, <3>1 DEF Placed
    <3>3. /\ IsSeq(pendingIOs_') /\ Inj(activeIOs_') /\ Inj(pendingIOs_')
          /\ \/ Ns(activeIOs_') = Ns(rest) /\ Ns(pendingIOs_') = Ns(tl) \cup {d.n}
             \/ Ns(activeIOs_') = Ns(rest) \cup {d.n} /\ Ns(pendingIOs_') = Ns(tl)
      <4> HIDE DEF tl, d
      <4> QED BY <1>3, <1>4, <2>2, <3>1, <3>2, PlacesAppend DEF tl, d
    <3>4. LET Q2 == Ns(ioQueue')
              R2 == Ns(replies')
          IN  /\ Placed(B, (P \ {d.n}) \cup {d.n}, A2, Q2, R2, L, Up')
              /\ Placed(B, P \ {d.n}, A2 \cup {d.n}, Q2, R2, L, Up')
      <4> HIDE DEF B, P, A2, L, d
      <4> QED BY <1>6, <3>1, PlacedFromPending DEF Up
    <3>5. Placed(B, Ns(pendingIOs_'), Ns(activeIOs_'), Ns(ioQueue'), Ns(replies'), L, Up')
      <4> HIDE DEF B, P, A2, L, d, tl
      <4> QED BY <1>4, <3>1, <3>3, <3>4
    <3> QED BY <3>3, <3>5
  <2> QED BY <1>1, <2>1, <2>2 DEF handleCQE, rest, i
<1>8. PlacesInv'
  BY <1>1, <1>2, <1>6, <1>7 DEF IInv, PlacesInv
<1> QED BY <1>3, <1>6, <1>8 DEF IInv

\* A step that does not touch the ring keeps its invariant.
LEMMA SameRing ==
    ASSUME RingInv, UNCHANGED <<sq, inflight, cq, activeIOs_, currentIdx_>>
    PROVE  RingInv'
BY DEF RingInv, CqSet

\* ... and is kept by every step.
LEMMA NextInv == IInv /\ [Next]_vars => IInv'
<1> SUFFICES ASSUME IInv, [Next]_vars PROVE IInv'
  OBVIOUS
<1>1. CASE \E k \in 1..(Len(Stream) - received) : Read(k)
  <2>1. UNCHANGED <<parsed, replies, ioQueue, baseQueue, state_, uringVars>>
    BY <1>1 DEF Read
  <2> QED BY <2>1, SameRing, SamePlaces DEF IInv, Up, uringVars
<1>2. CASE PeerCloses
  <2>1. UNCHANGED <<parsed, replies, ioQueue, baseQueue, uringVars>> /\ ~Up'
    BY <1>2 DEF PeerCloses, Up
  <2> QED BY <2>1, SameRing, SamePlaces DEF IInv, uringVars
<1>3. CASE MessageEnds
  <2>1. UNCHANGED <<parsed, replies, ioQueue, baseQueue, state_, uringVars>>
    BY <1>3 DEF MessageEnds
  <2> QED BY <2>1, SameRing, SamePlaces DEF IInv, Up, uringVars
<1>4. CASE UringEvent \/ CompletionsEnd
  <2>1. UNCHANGED <<parsed, replies, ioQueue, baseQueue, state_, sq, inflight, cq, activeIOs_,
                    pendingIOs_, currentIdx_>>
    BY <1>4 DEF UringEvent, CompletionsEnd, handEventRead, DrainEnds, serverVars
  <2> QED BY <2>1, SameRing, SamePlaces DEF IInv, Up
<1>5. CASE \E i \in inflight : Kernel(i)
  <2>1. PICK i \in inflight : Complete(i) /\ UNCHANGED serverVars
    BY <1>5 DEF Kernel
  <2>2. RingInv' /\ UNCHANGED <<activeIOs_, pendingIOs_>>
    BY <2>1, RingComplete DEF IInv, Complete
  <2>3. UNCHANGED <<parsed, replies, ioQueue, baseQueue, state_>>
    BY <2>1 DEF serverVars
  <2> QED BY <2>2, <2>3, SamePlaces DEF Up
<1>6. CASE UNCHANGED vars
  <2>1. UNCHANGED <<parsed, replies, ioQueue, baseQueue, state_, uringVars>>
    BY <1>6 DEF vars, serverVars
  <2> QED BY <2>1, SameRing, SamePlaces DEF IInv, Up, uringVars
<1> QED BY <1>1, <1>2, <1>3, <1>4, <1>5, <1>6, onMessageInv, RunIoFunctorInv,
           RunBaseFunctorInv, CompletionInv DEF Next, IoStep, BaseStep

\* The ring, the places of the answers and the end of the answers are as IInv says
\* in every state, for every script, ring size and number of failures.
THEOREM Invariance == Spec => []IInv
BY InitInv, NextInv, PTL DEF Spec

-----------------------------------------------------------------------------
(* What follows *)

\* What a sequence without repetition holds.
LEMMA DistinctSeq ==
    ASSUME NEW T, NEW k \in Nat, NEW g \in [1..k -> T],
           \A t \in T : \E i \in 1..k : g[i] = t,
           \A i, j \in 1..k : g[i] = g[j] => i = j
    PROVE  IsFiniteSet(T) /\ Cardinality(T) = k
<1>1. g \in Bijection(1..k, T)
  BY DEF Bijection, Injection, Surjection, IsInjective
<1>2. ExistsBijection(1..k, T)
  BY <1>1 DEF ExistsBijection
<1>3. IsFiniteSet(1..k) /\ Cardinality(1..k) = k
  BY FS_Interval
<1> HIDE <1>1
<1> QED BY <1>2, <1>3, FS_Bijection

\* The three places of a read are apart, so their sizes add up.
LEMMA RingAdds ==
    ASSUME RingInv
    PROVE  Cardinality(DOMAIN activeIOs_) = Len(sq) + Cardinality(inflight) + Len(cq)
<1> DEFINE D == DOMAIN activeIOs_
           S == Range(sq)
           K == CqSet
<1>1. IsFiniteSet(D)
  <2>1. IsFiniteSet(0..(currentIdx_ - 1)) /\ D \in SUBSET (0..(currentIdx_ - 1))
    BY FS_Interval DEF RingInv
  <2> QED BY <2>1, FS_Subset
<1>2. IsFiniteSet(inflight) /\ Cardinality(inflight) \in Nat
  <2>1. inflight \in SUBSET D
    BY DEF RingInv
  <2> QED BY <1>1, <2>1, FS_Subset, FS_CardinalityType
<1>3. IsFiniteSet(S) /\ Cardinality(S) = Len(sq) /\ Len(sq) \in Nat
  <2>1. Len(sq) \in Nat /\ DOMAIN sq = 1..Len(sq) /\ sq \in [1..Len(sq) -> Nat]
    BY LenProperties DEF RingInv
  <2>2. sq \in [1..Len(sq) -> S] /\ \A t \in S : \E i \in 1..Len(sq) : sq[i] = t
    BY <2>1 DEF Range
  <2>3. \A i, j \in 1..Len(sq) : sq[i] = sq[j] => i = j
    BY <2>1 DEF RingInv
  <2> HIDE DEF S
  <2> QED BY <2>1, <2>2, <2>3, DistinctSeq
<1>4. IsFiniteSet(K) /\ Cardinality(K) = Len(cq) /\ Len(cq) \in Nat
  <2> DEFINE g == [i \in 1..Len(cq) |-> cq[i].idx]
  <2>1. Len(cq) \in Nat /\ DOMAIN cq = 1..Len(cq)
    BY LenProperties DEF RingInv
  <2>2. g \in [1..Len(cq) -> K] /\ \A t \in K : \E i \in 1..Len(cq) : g[i] = t
    BY <2>1 DEF CqSet
  <2>3. \A i, j \in 1..Len(cq) : g[i] = g[j] => i = j
    BY <2>1 DEF RingInv
  <2> HIDE DEF K, g
  <2> QED BY <2>1, <2>2, <2>3, DistinctSeq
<1>5. D = (S \cup inflight) \cup K /\ S \cap inflight = {} /\ (S \cup inflight) \cap K = {}
  BY DEF RingInv
<1> HIDE DEF D, S, K
<1>6. /\ IsFiniteSet(S \cup inflight)
      /\ Cardinality(S \cup inflight) = Len(sq) + Cardinality(inflight) - Cardinality({})
  BY <1>2, <1>3, <1>5, FS_Union
<1>7. Cardinality(D) = Cardinality(S \cup inflight) + Len(cq) - Cardinality({})
  BY <1>4, <1>5, <1>6, FS_Union
<1> QED BY <1>2, <1>3, <1>4, <1>6, <1>7, FS_EmptySet DEF D

\* How many entries of f are for request n.
LEMMA EntriesFor ==
    ASSUME NEW f, Inj(f), NEW n
    PROVE  Cardinality({<<f, i>> : i \in {j \in DOMAIN f : f[j].n = n}})
             = IF n \in Ns(f) THEN 1 ELSE 0
<1> DEFINE At == {<<f, i>> : i \in {j \in DOMAIN f : f[j].n = n}}
<1>1. CASE n \in Ns(f)
  <2>1. PICK i \in DOMAIN f : f[i].n = n
    BY <1>1 DEF Ns
  <2>2. At = {<<f, i>>}
    BY <2>1 DEF Inj
  <2>3. Cardinality({<<f, i>>}) = 1
    BY FS_Singleton
  <2> QED BY <1>1, <2>2, <2>3
<1>2. CASE n \notin Ns(f)
  <2>1. At = {}
    BY <1>2 DEF Ns
  <2> QED BY <1>2, <2>1, FS_EmptySet
<1> QED BY <1>1, <1>2

\* Places counts what Placed says.
LEMMA PlacesCount ==
    ASSUME PlacesInv, NEW n \in DOMAIN parsed
    PROVE  Places(n) <= 1 /\ (state_ = "kConnected" => Places(n) = 1)
<1> DEFINE B == Ns(baseQueue)  P == Ns(pendingIOs_)  A == Ns(activeIOs_)  Q == Ns(ioQueue)
           R == Ns(replies)
           One(S) == IF n \in S THEN 1 ELSE 0
<1>1. Placed(B, P, A, Q, R, Len(parsed), Up) /\ n \in 1..Len(parsed)
  <2>1. DOMAIN parsed = 1..Len(parsed)
    BY LenProperties DEF PlacesInv, IsSeq
  <2> QED BY <2>1 DEF PlacesInv
<1>2. Inj(baseQueue) /\ Inj(pendingIOs_) /\ Inj(activeIOs_) /\ Inj(ioQueue) /\ Inj(replies)
  BY DEF PlacesInv
<1>3. Places(n) = One(B) + One(P) + One(A) + One(Q) + One(R)
  BY <1>2, EntriesFor DEF Places
<1> HIDE DEF B, P, A, Q, R
<1>4. One(B) + One(P) + One(A) + One(Q) + One(R) <= 1
  BY <1>1 DEF Placed
<1>5. Up => One(B) + One(P) + One(A) + One(Q) + One(R) = 1
  BY <1>1 DEF Placed
<1> QED BY <1>3, <1>4, <1>5 DEF Up

\* In every state of every behaviour the ring and activeIOs_ agree on the reads
\* under way (IOuring.cpp: appendIOContext, handleCQE), and the answer to a request
\* is in one place at most and, while the connection is up, in one: none is lost
\* or doubled on its way through the queues, a full ring, failed submits or reads
\* that fail.
THEOREM NoAnswerIsLost == Spec => []ReadsAccounted
<1>1. IInv => ReadsAccounted
  <2> SUFFICES ASSUME IInv PROVE ReadsAccounted
    OBVIOUS
  <2>1. DOMAIN activeIOs_ = Range(sq) \cup inflight \cup CqSet
    BY DEF IInv, RingInv
  <2>2. Cardinality(DOMAIN activeIOs_) = Len(sq) + Cardinality(inflight) + Len(cq)
    BY RingAdds DEF IInv
  <2>3. \A n \in DOMAIN parsed : Places(n) <= 1 /\ (state_ = "kConnected" => Places(n) = 1)
    BY PlacesCount DEF IInv
  <2> QED BY <2>1, <2>2, <2>3 DEF ReadsAccounted
<1> QED BY <1>1, Invariance, PTL

-----------------------------------------------------------------------------
(* The bytes of a script *)

\* Short sequences
LEMMA Tuples ==
    ASSUME NEW S, NEW a \in S, NEW b \in S, NEW c \in S, NEW d \in S
    PROVE  /\ <<a>> \in Seq(S) /\ <<a, b>> \in Seq(S)
           /\ <<a, b, c>> \in Seq(S) /\ Len(<<a, b, c>>) = 3
           /\ <<a, b, c, d>> \in Seq(S)
OBVIOUS

\* What separates words is a symbol.
LEMMA Separators ==
    CR \in Symbol /\ LF \in Symbol /\ SP \in Symbol /\ ":" \in Symbol /\ "?" \in Symbol
BY DEF Symbol

\* Header lines are sequences of symbols ...
LEMMA HeaderLinesType ==
    ASSUME NEW r \in Request, NEW k \in 0..Len(r.headers)
    PROVE  HeaderLines(r, k) \in Seq(Symbol)
<1> DEFINE H == Seq(Symbol) \X Seq(Symbol)
           hs == [i \in 1..k |-> HeaderLine(r.headers[i])]
<1>1. r.headers \in Seq(H)
  BY DEF Request
<1>2. Len(r.headers) \in Nat /\ k \in Nat /\ \A i \in 1..k : r.headers[i] \in H
  <2> HIDE DEF H
  <2> QED BY <1>1, SeqIsSeq
<1>3. ASSUME NEW h \in H PROVE HeaderLine(h) \in Seq(Symbol)
  <2>1. h[1] \in Seq(Symbol) /\ h[2] \in Seq(Symbol)
    OBVIOUS
  <2>2. <<":", SP>> \in Seq(Symbol) /\ <<CR, LF>> \in Seq(Symbol)
    BY Tuples, Separators
  <2>3. h[1] \o <<":", SP>> \in Seq(Symbol)
    BY <2>1, <2>2, ConcatProperties
  <2>4. h[1] \o <<":", SP>> \o h[2] \in Seq(Symbol)
    BY <2>1, <2>3, ConcatProperties
  <2> QED BY <2>2, <2>4, ConcatProperties DEF HeaderLine
<1> HIDE DEF H
<1>4. \A i \in 1..k : HeaderLine(r.headers[i]) \in Seq(Symbol)
  BY <1>2, <1>3
<1>5. hs \in Seq(Seq(Symbol))
  BY <1>2, <1>4
<1> HIDE DEF hs
<1>6. FlattenSeq(hs) \in Seq(Symbol)
  BY <1>5, FlattenType
<1> QED BY <1>6 DEF HeaderLines, hs

\* What is appended does not shorten.
LEMMA LongerAfter ==
    ASSUME NEW S, NEW s \in Seq(S), NEW t \in Seq(S), Len(s) >= 3
    PROVE  s \o t \in Seq(S) /\ Len(s \o t) >= 3
BY ConcatProperties, LenProperties

\* ... and so are requests, of which none is empty.
LEMMA RenderedType ==
    ASSUME NEW r \in Request
    PROVE  Rendered(r) \in Seq(Symbol) /\ Len(Rendered(r)) > 0
<1> DEFINE start == <<r.method, SP, r.path>>
           query == IF r.query = <<>> THEN <<>> ELSE <<"?">> \o r.query
           end == <<SP, r.version, CR, LF>>
           headers == HeaderLines(r, Len(r.headers))
<1>1. start \in Seq(Symbol) /\ end \in Seq(Symbol) /\ Len(start) = 3 /\ <<CR, LF>> \in Seq(Symbol)
  <2>1. r.method \in Symbol /\ r.path \in Symbol /\ r.version \in Symbol
    BY DEF Request
  <2> QED BY <2>1, Tuples, Separators
<1>2. query \in Seq(Symbol)
  <2>1. r.query \in Seq(Symbol)
    BY DEF Request
  <2>2. <<"?">> \in Seq(Symbol)
    BY Tuples, Separators
  <2> QED BY <2>1, <2>2, ConcatProperties, EmptySeq
<1>3. headers \in Seq(Symbol) /\ r.body \in Seq(Symbol)
  <2>1. r.headers \in Seq(Seq(Symbol) \X Seq(Symbol)) /\ r.body \in Seq(Symbol)
    BY DEF Request
  <2>2. Len(r.headers) \in 0..Len(r.headers)
    BY <2>1, LenProperties
  <2> QED BY <2>1, <2>2, HeaderLinesType
<1> HIDE DEF start, query, end, headers
<1>4. start \o query \in Seq(Symbol) /\ Len(start \o query) >= 3
  <2>1. Len(start) >= 3
    BY <1>1
  <2> QED BY <1>1, <1>2, <2>1, LongerAfter
<1>5. start \o query \o end \in Seq(Symbol) /\ Len(start \o query \o end) >= 3
  BY <1>1, <1>4, LongerAfter
<1>6. /\ start \o query \o end \o headers \in Seq(Symbol)
      /\ Len(start \o query \o end \o headers) >= 3
  BY <1>3, <1>5, LongerAfter
<1>7. /\ start \o query \o end \o headers \o <<CR, LF>> \in Seq(Symbol)
      /\ Len(start \o query \o end \o headers \o <<CR, LF>>) >= 3
  BY <1>1, <1>6, LongerAfter
<1>8. /\ start \o query \o end \o headers \o <<CR, LF>> \o r.body \in Seq(Symbol)
      /\ Len(start \o query \o end \o headers \o <<CR, LF>> \o r.body) >= 3
  BY <1>3, <1>7, LongerAfter
<1>9. Rendered(r) = start \o query \o end \o headers \o <<CR, LF>> \o r.body
  BY DEF Rendered, RequestLine, start, query, end, headers
<1>10. Len(Rendered(r)) \in Nat
  BY <1>8, <1>9, LenProperties
<1>11. Rendered(r) \in Seq(Symbol) /\ Len(Rendered(r)) >= 3
  BY <1>8, <1>9, Zenon
<1> QED BY <1>10, <1>11

\* The stream is the requests one after the other.
LEMMA BytesStep ==
    ASSUME NEW s \in Scripts
    PROVE  /\ Len(s.requests) \in Nat
           /\ Bytes[s][0] = <<>>
           /\ \A n \in 0..Len(s.requests) : Bytes[s][n] \in Seq(Symbol)
           /\ \A n \in 0..(Len(s.requests) - 1) :
                Len(Bytes[s][n]) < Len(Bytes[s][n + 1])
<1> DEFINE N == Len(s.requests)
           parts(n) == [i \in 1..n |-> Rendered(s.requests[i])]
<1>1. s.requests \in Seq(Request)
  BY ScriptAssumption
<1>2. N \in Nat /\ \A i \in 1..N : s.requests[i] \in Request
  BY <1>1, SeqIsSeq
<1>3. \A i \in 1..N : Rendered(s.requests[i]) \in Seq(Symbol) /\ Len(Rendered(s.requests[i])) > 0
  BY <1>2, RenderedType
<1>4. \A n \in 0..N : Bytes[s][n] = FlattenSeq(parts(n))
  BY DEF Bytes
<1> HIDE DEF N
<1>5. ASSUME NEW n \in 0..N PROVE parts(n) \in Seq(Seq(Symbol)) /\ Len(parts(n)) = n
  BY <1>2, <1>3
<1>6. ASSUME NEW n \in 0..N PROVE Bytes[s][n] \in Seq(Symbol)
  <2> HIDE DEF parts
  <2> QED BY <1>4, <1>5, FlattenType
<1>7. Bytes[s][0] = <<>>
  <2>1. parts(0) = <<>>
    OBVIOUS
  <2> HIDE DEF parts
  <2> QED BY <1>2, <1>4, <2>1, FlattenEmpty
<1>8. ASSUME NEW n \in 0..(N - 1) PROVE Len(Bytes[s][n]) < Len(Bytes[s][n + 1])
  <2> DEFINE b == Rendered(s.requests[n + 1])
  <2>1. n \in 0..N /\ n + 1 \in 1..N /\ n + 1 \in 0..N /\ n \in Nat
    BY <1>2
  <2>2. b \in Seq(Symbol) /\ Len(b) > 0
    BY <1>3, <2>1
  <2>3. parts(n + 1) = Append(parts(n), b)
    <3>1. /\ parts(n + 1) \in Seq(Seq(Symbol)) /\ Len(parts(n + 1)) = n + 1
          /\ parts(n) \in Seq(Seq(Symbol)) /\ Len(parts(n)) = n
      BY <1>5, <2>1
    <3>2. /\ \A i \in 1..n : parts(n)[i] = Rendered(s.requests[i])
          /\ \A i \in 1..(n + 1) : parts(n + 1)[i] = Rendered(s.requests[i])
      OBVIOUS
    <3> HIDE DEF parts
    <3>3. /\ Append(parts(n), b) \in Seq(Seq(Symbol)) /\ Len(Append(parts(n), b)) = n + 1
          /\ \A i \in 1..n : Append(parts(n), b)[i] = parts(n)[i]
          /\ Append(parts(n), b)[n + 1] = b
      <4> HIDE DEF b
      <4> QED BY <2>2, <3>1, AppendProperties
    <3>4. \A i \in 1..(n + 1) : parts(n + 1)[i] = Append(parts(n), b)[i]
      BY <2>1, <3>2, <3>3
    <3> QED BY <3>1, <3>3, <3>4, SeqEqual
  <2> HIDE DEF parts, b
  <2>4. Bytes[s][n + 1] = Bytes[s][n] \o b
    BY <1>4, <1>5, <1>6, <2>1, <2>2, <2>3, FlattenAppend
  <2> QED BY <1>6, <2>1, <2>2, <2>4, ConcatProperties, LenProperties
<1> QED BY <1>2, <1>6, <1>7, <1>8 DEF N

\* Where a request ends grows with its number.
LEMMA EndGrows ==
    ASSUME script \in Scripts
    PROVE  /\ Len(Requests) \in Nat
           /\ End(0) = 0
           /\ \A n \in 0..Len(Requests) : End(n) \in Nat
           /\ \A m, n \in 0..Len(Requests) : m < n => End(m) < End(n)
<1> DEFINE N == Len(Requests)
<1>1. N \in Nat /\ End(0) = 0 /\ \A n \in 0..N : End(n) \in Nat
  BY BytesStep, LenProperties, EmptySeq DEF End, Requests
<1>2. \A n \in 0..(N - 1) : End(n) < End(n + 1)
  BY BytesStep DEF End, Requests
<1> HIDE DEF N
<1> DEFINE G == {n \in Nat : n \in 0..N => \A m \in 0..N : m < n => End(m) < End(n)}
<1>3. G = Nat
  <2>1. G \in SUBSET Nat /\ 0 \in G
    BY <1>1
  <2>2. ASSUME NEW n \in G PROVE n + 1 \in G
    <3> SUFFICES ASSUME n + 1 \in 0..N, NEW m \in 0..N, m < n + 1 PROVE End(m) < End(n + 1)
      OBVIOUS
    <3>1. n \in 0..(N - 1) /\ n \in 0..N /\ End(n) < End(n + 1)
      BY <1>1, <1>2
    <3>2. CASE m = n
      BY <3>1, <3>2
    <3>3. CASE m < n
      <4>1. End(m) < End(n)
        BY <3>1, <3>3
      <4> QED BY <1>1, <3>1, <4>1
    <3> QED BY <1>1, <3>1, <3>2, <3>3
  <2> HIDE DEF G
  <2> QED BY <2>1, <2>2, NatSets
<1>4. \A m, n \in 0..N : m < n => End(m) < End(n)
  <2> SUFFICES ASSUME NEW m \in 0..N, NEW n \in 0..N, m < n PROVE End(m) < End(n)
    OBVIOUS
  <2>1. n \in G
    BY <1>1, <1>3
  <2> QED BY <2>1
<1> QED BY <1>1, <1>4 DEF N

\* A set of numbers with a bound has a largest one.
LEMMA MaxOfSet ==
    ASSUME NEW b \in Nat, NEW S \in SUBSET (0..b), S # {}
    PROVE  Max(S) \in S /\ \A x \in S : x <= Max(S)
<1> DEFINE G == {n \in Nat : \A T \in SUBSET (0..n) : T # {} => \E x \in T : \A y \in T : x >= y}
<1>1. G = Nat
  <2>1. G \in SUBSET Nat /\ 0 \in G
    <3>1. ASSUME NEW T \in SUBSET (0..0), T # {} PROVE \E x \in T : \A y \in T : x >= y
      <4>1. PICK x \in T : TRUE
        BY <3>1
      <4>2. \A y \in T : x >= y
        OBVIOUS
      <4> QED BY <4>2
    <3> QED BY <3>1
  <2>2. ASSUME NEW n \in G PROVE n + 1 \in G
    <3> SUFFICES ASSUME NEW T \in SUBSET (0..(n + 1)), T # {}
                 PROVE  \E x \in T : \A y \in T : x >= y
      OBVIOUS
    <3>3. n \in Nat /\ \A U \in SUBSET (0..n) : U # {} => \E x \in U : \A y \in U : x >= y
      OBVIOUS
    <3>1. CASE n + 1 \in T
      <4>1. \A y \in T : n + 1 >= y
        OBVIOUS
      <4> QED BY <3>1, <4>1
    <3>2. CASE n + 1 \notin T
      <4>1. T \in SUBSET (0..n)
        BY <3>2
      <4> QED BY <3>3, <4>1
    <3> QED BY <3>1, <3>2
  <2> HIDE DEF G
  <2> QED BY <2>1, <2>2, NatSets
<1>2. b \in G
  BY <1>1
<1>3. \E x \in S : \A y \in S : x >= y
  BY <1>2
<1>4. Max(S) \in S /\ \A y \in S : Max(S) >= y
  BY <1>3 DEF Max
<1> QED BY <1>4

\* Of Whole(p) requests the last byte is among the first p.
LEMMA WholeEnds ==
    ASSUME script \in Scripts, NEW p \in Nat
    PROVE  Whole(p) \in 0..Len(Requests) /\ End(Whole(p)) <= p
<1> DEFINE S == {n \in 0..Len(Requests) : End(n) <= p}
<1>1. Len(Requests) \in Nat /\ 0 \in S /\ S \in SUBSET (0..Len(Requests))
  BY EndGrows
<1>2. Max(S) \in S
  <2> HIDE DEF S
  <2> QED BY <1>1, MaxOfSet
<1> QED BY <1>2 DEF Whole

-----------------------------------------------------------------------------
(* The order of the answers *)

\* What every answer is to: no request, or one that onRequest has been given and
\* that has no answer yet.
LEMMA AnswerStep ==
    ASSUME IInv, [Next]_vars
    PROVE  \/ UNCHANGED replies
           \/ \E a : /\ replies' = Append(replies, a) /\ Up
                     /\ a.n = 0 \/ (a.n \in 1..Len(parsed') /\ a.n \notin Ns(replies))
<1> DEFINE Answers(a) == a.n = 0 \/ (a.n \in 1..Len(parsed') /\ a.n \notin Ns(replies))
           Goal == \/ UNCHANGED replies
                   \/ \E a : replies' = Append(replies, a) /\ Up /\ Answers(a)
<1>1. /\ Placed(Ns(baseQueue), Ns(pendingIOs_), Ns(activeIOs_), Ns(ioQueue), Ns(replies),
                Len(parsed), Up)
      /\ IsSeq(ioQueue) /\ Inj(ioQueue) /\ Inj(activeIOs_) /\ IsSeq(parsed)
  BY DEF IInv, PlacesInv
<1>2. ASSUME NEW a, SendAndShutdown(a), Answers(a) PROVE Goal
  BY <1>2 DEF SendAndShutdown, Up
<1>3. CASE \E past \in PastWriter(inputBuffer_) : onMessage(past)
  <2> DEFINE n == Len(parsed) + 1
  <2>1. PICK r : \/ UNCHANGED replies
                 \/ SendAndShutdown([n |-> 0, code |-> 400, close |-> TRUE])
                 \/ onRequest(n, r) /\ parsed' = Append(parsed, r)
    BY <1>3 DEF onMessage
  <2>2. ASSUME SendAndShutdown([n |-> 0, code |-> 400, close |-> TRUE]) PROVE Goal
    <3> DEFINE a == [n |-> 0, code |-> 400, close |-> TRUE]
    <3>1. a.n = 0 /\ SendAndShutdown(a)
      BY <2>2
    <3> HIDE DEF a, Goal
    <3> QED BY <1>2, <3>1
  <2>3. ASSUME onRequest(n, r), parsed' = Append(parsed, r) PROVE Goal
    <3>1. \/ UNCHANGED replies
          \/ \E code, close : SendAndShutdown([n |-> n, code |-> code, close |-> close])
      <4>1. \/ UNCHANGED replies
            \/ SendAndShutdown([n |-> n, code |-> 200, close |-> Close(r)])
            \/ handleError(n, 403) \/ handleError(n, 404)
        BY <2>3 DEF onRequest, handleStaticFile
      <4>2. \A code : handleError(n, code)
                        => SendAndShutdown([n |-> n, code |-> code, close |-> TRUE])
        BY DEF handleError
      <4>3. CASE handleError(n, 403) \/ handleError(n, 404)
        <5>1. PICK code : handleError(n, code)
          BY <4>3
        <5>2. SendAndShutdown([n |-> n, code |-> code, close |-> TRUE])
          BY <4>2, <5>1
        <5> QED BY <5>2
      <4> QED BY <4>1, <4>3
    <3>2. Len(parsed) \in Nat /\ Len(parsed') = n
      BY <1>1, <2>3, IsSeqAppend
    <3>3. n \in 1..Len(parsed') /\ n \notin Ns(replies)
      BY <1>1, <3>2 DEF Placed
    <3>4. ASSUME NEW code, NEW close,
                 SendAndShutdown([n |-> n, code |-> code, close |-> close])
          PROVE  Goal
      <4> DEFINE a == [n |-> n, code |-> code, close |-> close]
      <4>1. a.n = n /\ SendAndShutdown(a)
        BY <3>4
      <4> HIDE DEF a, n, Goal
      <4> QED BY <1>2, <3>3, <4>1
    <3> QED BY <3>1, <3>4
  <2> QED BY <2>1, <2>2, <2>3
<1>4. CASE RunIoFunctor
  <2>1. SendAndShutdown(ioQueue[1]) /\ ioQueue # <<>> /\ UNCHANGED parsed
    BY <1>4 DEF RunIoFunctor
  <2>2. ioQueue[1].n \in Ns(ioQueue)
    BY <1>1, <2>1, NsTail
  <2>3. Answers(ioQueue[1])
    BY <1>1, <2>1, <2>2 DEF Placed
  <2> QED BY <1>2, <2>1, <2>3
<1>5. CASE Completion
  <2> DEFINE c == activeIOs_[cq[1].idx]
             a == [n |-> c.n, code |-> 200, close |-> c.close]
  <2>1. UNCHANGED replies \/ SendAndShutdown(a)
    BY <1>5 DEF Completion, FileRead, AnswerFromBase
  <2>2. cq[1].idx \in DOMAIN activeIOs_ /\ UNCHANGED parsed
    BY <1>5, RingHandle DEF Completion, IInv
  <2>3. c.n \in Ns(activeIOs_) /\ a.n = c.n
    BY <2>2 DEF Ns
  <2> HIDE DEF a, c
  <2>4. Answers(a)
    BY <1>1, <2>2, <2>3 DEF Placed
  <2>5. CASE SendAndShutdown(a)
    BY <1>2, <2>4, <2>5
  <2> QED BY <2>1, <2>5
<1>6. ASSUME ~(\E past \in PastWriter(inputBuffer_) : onMessage(past)), ~RunIoFunctor, ~Completion
      PROVE  UNCHANGED replies
  BY <1>6 DEF Next, IoStep, BaseStep, Read, PeerCloses, MessageEnds, RunBaseFunctor, UringEvent,
              CompletionsEnd, Kernel, vars, serverVars
<1> QED BY <1>3, <1>4, <1>5, <1>6

\* A client that waits: what it has sent ends with the request after its last
\* answer, and answer i is to request i or to none.
TurnInv ==
    /\ script \in Scripts
    /\ received \in Nat
    /\ pipelined \in BOOLEAN
    /\ ~pipelined => /\ received <= End(Min({Len(replies) + 1, Len(Requests)}))
                     /\ \A i \in DOMAIN replies : replies[i].n \in {0, i}

\* The smaller of two numbers
LEMMA MinOfTwo ==
    ASSUME NEW a \in Nat, NEW b \in Nat
    PROVE  Min({a, b}) = IF a <= b THEN a ELSE b
BY DEF Min

\* TurnInv holds at first ...
LEMMA TurnInit == Init => TurnInv
<1> SUFFICES ASSUME Init PROVE TurnInv
  OBVIOUS
<1>1. script \in Scripts /\ received = 0 /\ pipelined = FALSE /\ replies = <<>>
  BY DEF Init
<1>2. DOMAIN replies = {} /\ Len(replies) = 0
  BY <1>1
<1>3. Len(Requests) \in Nat /\ \A n \in 0..Len(Requests) : End(n) \in Nat
  BY <1>1, EndGrows
<1>4. Min({1, Len(Requests)}) \in 0..Len(Requests)
  BY <1>3, MinOfTwo
<1>5. received <= End(Min({Len(replies) + 1, Len(Requests)}))
  <2>1. Len(replies) + 1 = 1
    BY <1>2
  <2> QED BY <1>1, <1>3, <1>4, <2>1
<1> QED BY <1>1, <1>2, <1>5 DEF TurnInv

\* The answers leave room for one request that the server has in full.
LEMMA OneAtATime ==
    ASSUME TurnInv, ~pipelined, NEW m \in Nat, m <= Whole(received), Len(replies) \in Nat
    PROVE  m <= Len(replies) + 1
<1> DEFINE N == Len(Requests)
           w == Whole(received)
           lim == Min({Len(replies) + 1, N})
<1>1. /\ N \in Nat /\ \A n \in 0..N : End(n) \in Nat
      /\ \A i, n \in 0..N : i < n => End(i) < End(n)
  BY EndGrows DEF TurnInv
<1>2. w \in 0..N /\ End(w) <= received /\ received <= End(lim) /\ received \in Nat
  BY WholeEnds DEF TurnInv
<1>3. lim \in 0..N /\ lim <= Len(replies) + 1
  BY <1>1, MinOfTwo
<1> HIDE DEF w, lim, N
<1>4. ~(lim < w)
  BY <1>1, <1>2, <1>3
<1> QED BY <1>1, <1>2, <1>3, <1>4 DEF w

\* ... and is kept by every step that keeps the parser from getting ahead.
LEMMA TurnNext == TurnInv /\ IInv /\ [Next]_vars /\ NotAhead' => TurnInv'
<1> SUFFICES ASSUME TurnInv, IInv, [Next]_vars, NotAhead' PROVE TurnInv'
  OBVIOUS
<1> DEFINE N == Len(Requests)
           k == Len(replies)
<1>1. /\ N \in Nat /\ \A n \in 0..N : End(n) \in Nat
      /\ \A i, n \in 0..N : i < n => End(i) < End(n)
  BY EndGrows DEF TurnInv
<1>2. IsSeq(replies) /\ k \in Nat /\ DOMAIN replies = 1..k
  <2>1. IsSeq(replies)
    BY DEF IInv, PlacesInv
  <2> QED BY <2>1, IsSeqAppend
<1>3. CASE \E j \in 1..(Len(Stream) - received) : Read(j)
  <2>1. PICK j \in 1..(Len(Stream) - received) : Read(j)
    BY <1>3
  <2>2. /\ received' = received + j /\ UNCHANGED <<script, replies>>
        /\ pipelined' = (pipelined \/ received' > End(Min({k + 1, N})))
    BY <2>1 DEF Read
  <2>3. Len(Stream) \in Nat
    BY <1>1, BytesStep, LenProperties DEF TurnInv, Stream, Requests
  <2>4. received' \in Nat
    BY <2>2, <2>3 DEF TurnInv
  <2>5. End(Min({k + 1, N})) \in Nat
    BY <1>1, <1>2, MinOfTwo
  <2>6. (End(Min({k + 1, N})))' = End(Min({k + 1, N}))
    BY <2>2 DEF End, Requests
  <2>7. ~pipelined' => ~pipelined /\ received' <= End(Min({k + 1, N}))'
    <3>1. ~pipelined' => ~pipelined /\ ~(received' > End(Min({k + 1, N})))
      BY <2>2, Zenon
    <3> QED BY <2>4, <2>5, <2>6, <3>1
  <2>8. pipelined' \in BOOLEAN
    BY <2>2
  <2> QED BY <2>2, <2>4, <2>7, <2>8 DEF TurnInv
<1>4. CASE ~ \E j \in 1..(Len(Stream) - received) : Read(j)
  <2>1. UNCHANGED <<script, received, pipelined>>
    BY <1>4 DEF Next, IoStep, BaseStep, PeerCloses, MessageEnds, onMessage, RunIoFunctor,
                RunBaseFunctor, UringEvent, Completion, CompletionsEnd, Kernel, vars, serverVars
  <2>2. Requests' = Requests /\ \A n : End(n)' = End(n)
    BY <2>1 DEF Requests, End
  <2>3. CASE UNCHANGED replies
    BY <2>1, <2>2, <2>3 DEF TurnInv
  <2>4. ASSUME NEW a, replies' = Append(replies, a), Up,
               a.n = 0 \/ (a.n \in 1..Len(parsed') /\ a.n \notin Ns(replies))
        PROVE  TurnInv'
    <3>1. /\ Len(replies') = k + 1 /\ DOMAIN replies' = 1..(k + 1)
          /\ \A i \in 1..k : replies'[i] = replies[i]
          /\ replies'[k + 1] = a
      BY <1>2, <2>4, IsSeqAppend
    <3>2. ASSUME ~pipelined PROVE received <= End(Min({(k + 1) + 1, N}))
      <4> DEFINE lim == Min({k + 1, N})
                 lim2 == Min({(k + 1) + 1, N})
      <4>1. lim \in 0..N /\ lim2 \in 0..N /\ lim <= lim2
        <5>1. k + 1 \in Nat /\ (k + 1) + 1 \in Nat
          BY <1>2
        <5>2. /\ lim = IF k + 1 <= N THEN k + 1 ELSE N
              /\ lim2 = IF (k + 1) + 1 <= N THEN (k + 1) + 1 ELSE N
          BY <1>1, <5>1, MinOfTwo
        <5> HIDE DEF lim, lim2, k, N
        <5> QED BY <1>1, <5>1, <5>2
      <4>2. received \in Nat /\ received <= End(lim)
        BY <3>2 DEF TurnInv
      <4> HIDE DEF lim, lim2, N
      <4>3. End(lim) <= End(lim2) /\ End(lim) \in Nat /\ End(lim2) \in Nat
        BY <1>1, <4>1
      <4> QED BY <4>2, <4>3 DEF lim2
    <3>3. ASSUME ~pipelined, a.n # 0 PROVE a.n = k + 1
      <4>1. IsSeq(parsed') /\ Len(parsed') \in Nat
        <5>1. IsSeq(parsed')
          BY NextInv DEF IInv, PlacesInv
        <5> QED BY <5>1, IsSeqAppend
      <4>2. Whole(received)' = Whole(received)
        BY <2>1, <2>2 DEF Whole
      <4>3. Len(parsed') <= k + 1
        BY <1>2, <3>3, <4>1, <4>2, OneAtATime DEF NotAhead
      <4>4. 0 \notin Ns(replies)
        BY <2>4 DEF IInv, PlacesInv, Placed
      <4>5. \A i \in 1..k : i \in Ns(replies)
        BY <1>2, <3>3, <4>4 DEF Ns, TurnInv
      <4> QED BY <1>2, <2>4, <3>3, <4>1, <4>3, <4>5
    <3>4. ASSUME ~pipelined, NEW i \in 1..(k + 1) PROVE replies'[i].n \in {0, i}
      BY <1>2, <3>1, <3>3, <3>4 DEF TurnInv
    <3>5. Len(Requests)' = N
      BY <2>2
    <3>6. ASSUME ~pipelined PROVE received' <= End(Min({Len(replies) + 1, Len(Requests)}))'
      BY <2>1, <2>2, <3>1, <3>2, <3>5, <3>6
    <3> QED BY <2>1, <3>1, <3>4, <3>6 DEF TurnInv
  <2> QED BY <2>3, <2>4, AnswerStep
<1> QED BY <1>3, <1>4

\* No request is answered twice and nothing is sent after an answer that closes the
\* connection, whatever the parser makes of the bytes.
AnsweredOnce ==
    /\ \A i, j \in DOMAIN replies : replies[i].n = replies[j].n => i = j
    /\ \A i \in DOMAIN replies : replies[i].close => i = Len(replies)

\* The answers of HttpServer.cpp (onRequest, handleStaticFile, handleError) are to
\* different requests, and a closing one is the last, on every behaviour.
THEOREM NoRequestIsAnsweredTwice == Spec => []AnsweredOnce
<1>1. IInv => AnsweredOnce
  BY DEF IInv, PlacesInv, Inj, ClosedInv, AnsweredOnce
<1> QED BY <1>1, Invariance, PTL

\* A client that waits for each answer gets them in the order of its requests though
\* files are read by another thread, provided that the parser gives onRequest no
\* request before the client has sent it (what ParsedAsSent says of it).
THEOREM AnswersComeInTurn == Spec /\ []NotAhead => []AnswersInTurn
<1>1. TurnInv /\ IInv => AnswersInTurn
  BY DEF IInv, PlacesInv, Inj, ClosedInv, TurnInv, AnswersInTurn
<1> QED BY <1>1, Invariance, TurnInit, TurnNext, PTL DEF Spec

-----------------------------------------------------------------------------
(* The input buffer *)

\* The members of class Buffer
IsRecord(b) ==
    /\ {"data", "size", "readerIndex_", "writerIndex_"} \subseteq DOMAIN b
    /\ b.size \in Nat /\ b.readerIndex_ \in Nat /\ b.writerIndex_ \in Nat

\* The bytes m+1 to n of a stream s are what b holds.
Holds(b, s, m, n) ==
    /\ IsRecord(b) /\ IsBuffer(b)
    /\ m \in Nat /\ n \in Nat /\ m <= n
    /\ b.writerIndex_ - b.readerIndex_ = n - m
    /\ \A i \in 1..(n - m) : b.data[b.readerIndex_ + i - 1] = s[m + i]

\* A new buffer holds nothing.
LEMMA NewHolds == ASSUME NEW s PROVE Holds(NewBuffer, s, 0, 0)
BY BufferSizes DEF Holds, IsRecord, IsBuffer, NewBuffer

\* Whatever is retrieved, the rest is held.
LEMMA RetrieveHolds ==
    ASSUME NEW b, NEW s, NEW m, NEW n, Holds(b, s, m, n), NEW len \in Nat
    PROVE  \E k \in m..n : Holds(retrieve(b, len), s, k, n)
<1> DEFINE c == retrieve(b, len)
<1>1. /\ b.size \in Nat /\ b.readerIndex_ \in Nat /\ b.writerIndex_ \in Nat
      /\ m \in Nat /\ n \in Nat /\ m <= n /\ b.writerIndex_ - b.readerIndex_ = n - m
      /\ kCheapPrepend <= b.readerIndex_ /\ b.readerIndex_ <= b.writerIndex_
      /\ b.writerIndex_ <= b.size /\ kCheapPrepend \in Nat
  BY BufferSizes DEF Holds, IsRecord, IsBuffer
<1>2. CASE len < readableBytes(b)
  <2>1. c = [b EXCEPT !.readerIndex_ = b.readerIndex_ + len] /\ len < n - m
    BY <1>1, <1>2 DEF retrieve, readableBytes
  <2>2. /\ DOMAIN c = DOMAIN b /\ c.readerIndex_ = b.readerIndex_ + len
        /\ c.writerIndex_ = b.writerIndex_ /\ c.size = b.size /\ c.data = b.data
    BY <2>1 DEF Holds, IsRecord
  <2> HIDE DEF c
  <2>3. IsRecord(c) /\ IsBuffer(c)
    BY <1>1, <2>1, <2>2 DEF Holds, IsRecord, IsBuffer
  <2>4. ASSUME NEW i \in 1..(n - (m + len))
        PROVE  c.data[c.readerIndex_ + i - 1] = s[(m + len) + i]
    <3>1. len + i \in 1..(n - m)
      BY <1>1, <2>1
    <3>2. b.data[b.readerIndex_ + (len + i) - 1] = s[m + (len + i)]
      BY <3>1 DEF Holds
    <3>3. /\ c.readerIndex_ + i - 1 = b.readerIndex_ + (len + i) - 1
          /\ (m + len) + i = m + (len + i)
      BY <1>1, <2>2
    <3> QED BY <2>2, <3>2, <3>3
  <2>5. Holds(c, s, m + len, n) /\ m + len \in m..n
    BY <1>1, <2>1, <2>2, <2>3, <2>4 DEF Holds
  <2> QED BY <2>5 DEF c
<1>3. CASE ~(len < readableBytes(b))
  <2>1. c = [b EXCEPT !.readerIndex_ = kCheapPrepend, !.writerIndex_ = kCheapPrepend]
    BY <1>3 DEF retrieve, retrieveAll
  <2>2. /\ DOMAIN c = DOMAIN b /\ c.readerIndex_ = kCheapPrepend
        /\ c.writerIndex_ = kCheapPrepend /\ c.size = b.size /\ c.data = b.data
    BY <2>1 DEF Holds, IsRecord
  <2> HIDE DEF c
  <2>3. IsRecord(c) /\ IsBuffer(c)
    BY <1>1, <2>2 DEF Holds, IsRecord, IsBuffer
  <2>4. Holds(c, s, n, n) /\ n \in m..n
    BY <1>1, <2>2, <2>3 DEF Holds
  <2> QED BY <2>4 DEF c
<1> QED BY <1>2, <1>3

\* Bytes that fit are stored behind the others.
LEMMA PutHolds ==
    ASSUME NEW b, NEW s, NEW m, NEW n, Holds(b, s, m, n), NEW bytes, Len(bytes) \in Nat,
           Len(bytes) <= writableBytes(b), \A i \in 1..Len(bytes) : bytes[i] = s[n + i]
    PROVE  Holds(Put(b, bytes), s, m, n + Len(bytes))
<1> DEFINE c == Put(b, bytes)
           w == b.writerIndex_
           r == b.readerIndex_
           k == Len(bytes)
<1>1. /\ b.size \in Nat /\ r \in Nat /\ w \in Nat /\ k \in Nat
      /\ m \in Nat /\ n \in Nat /\ m <= n /\ w - r = n - m
      /\ kCheapPrepend <= r /\ r <= w /\ w + k <= b.size /\ kCheapPrepend \in Nat
  BY BufferSizes DEF Holds, IsRecord, IsBuffer, writableBytes
<1>2. /\ DOMAIN c = DOMAIN b /\ c.readerIndex_ = r /\ c.writerIndex_ = w + k /\ c.size = b.size
      /\ c.data = [i \in 0..(b.size - 1) |-> IF i \in w..(w + k - 1)
                                               THEN bytes[i - w + 1] ELSE b.data[i]]
  BY DEF Holds, IsRecord, Put
<1> HIDE DEF c
<1>3. IsRecord(c) /\ IsBuffer(c)
  BY <1>1, <1>2 DEF Holds, IsRecord, IsBuffer
<1>4. ASSUME NEW i \in 1..((n + k) - m) PROVE c.data[c.readerIndex_ + i - 1] = s[m + i]
  <2>1. r + i - 1 \in 0..(b.size - 1)
    <3> HIDE DEF w, r, k
    <3> QED BY <1>1
  <2>2. CASE i <= n - m
    <3>1. i \in 1..(n - m) /\ r + i - 1 \notin w..(w + k - 1)
      <4> HIDE DEF w, r, k
      <4> QED BY <1>1, <2>2
    <3>2. b.data[r + i - 1] = s[m + i]
      BY <3>1 DEF Holds
    <3> QED BY <1>2, <2>1, <3>1, <3>2
  <2>3. CASE ~(i <= n - m)
    <3> DEFINE j == (r + i - 1) - w + 1
    <3>1. j \in 1..k /\ n + j = m + i /\ r + i - 1 \in w..(w + k - 1)
      <4> HIDE DEF w, r, k
      <4> QED BY <1>1, <2>3
    <3>2. bytes[j] = s[n + j]
      BY <3>1
    <3> QED BY <1>2, <2>1, <3>1, <3>2
  <2> QED BY <2>2, <2>3
<1>5. n + k \in Nat /\ m <= n + k /\ c.writerIndex_ - c.readerIndex_ = (n + k) - m
  <2> HIDE DEF w, r, k
  <2> QED BY <1>1, <1>2
<1>6. Holds(c, s, m, n + k)
  <2> HIDE DEF k
  <2> QED BY <1>1, <1>3, <1>4, <1>5 DEF Holds
<1> QED BY <1>6 DEF c

\* The vector grows, or the bytes move to its front: the same bytes are held, and
\* there is room for len more.
LEMMA GrowHolds ==
    ASSUME NEW b, NEW s, NEW m, NEW n, Holds(b, s, m, n), NEW len \in Nat, writableBytes(b) < len
    PROVE  Holds(Grow(b, len), s, m, n) /\ len <= writableBytes(Grow(b, len))
<1> DEFINE c == Grow(b, len)
           w == b.writerIndex_
           r == b.readerIndex_
<1>1. /\ b.size \in Nat /\ r \in Nat /\ w \in Nat
      /\ m \in Nat /\ n \in Nat /\ m <= n /\ w - r = n - m
      /\ kCheapPrepend <= r /\ r <= w /\ w <= b.size /\ b.size < w + len /\ kCheapPrepend \in Nat
  BY BufferSizes DEF Holds, IsRecord, IsBuffer, writableBytes
<1>2. /\ DOMAIN c = DOMAIN b /\ c.readerIndex_ = r /\ c.writerIndex_ = w /\ c.size = w + len
      /\ c.data = [i \in 0..(w + len - 1) |-> IF i < b.size THEN b.data[i] ELSE Zero]
  BY DEF Holds, IsRecord, Grow
<1> HIDE DEF c
<1>3. IsRecord(c) /\ IsBuffer(c)
  BY <1>1, <1>2 DEF Holds, IsRecord, IsBuffer
<1>4. ASSUME NEW i \in 1..(n - m) PROVE c.data[c.readerIndex_ + i - 1] = s[m + i]
  <2>1. r + i - 1 \in 0..(w + len - 1) /\ r + i - 1 < b.size
    BY <1>1
  <2>2. b.data[r + i - 1] = s[m + i]
    BY DEF Holds
  <2> QED BY <1>2, <2>1, <2>2
<1>5. Holds(c, s, m, n) /\ len <= writableBytes(c)
  BY <1>1, <1>2, <1>3, <1>4 DEF Holds, writableBytes
<1> QED BY <1>5 DEF c

\* Compact keeps what is held and frees what was in front of it.
LEMMA CompactHolds ==
    ASSUME NEW b, NEW s, NEW m, NEW n, Holds(b, s, m, n)
    PROVE  /\ Holds(Compact(b), s, m, n)
           /\ writableBytes(Compact(b)) = writableBytes(b) + prependableBytes(b) - kCheapPrepend
<1> DEFINE c == Compact(b)
           w == b.writerIndex_
           r == b.readerIndex_
           k == kCheapPrepend
<1>1. /\ b.size \in Nat /\ r \in Nat /\ w \in Nat /\ k \in Nat
      /\ m \in Nat /\ n \in Nat /\ m <= n /\ w - r = n - m
      /\ k <= r /\ r <= w /\ w <= b.size
  BY BufferSizes DEF Holds, IsRecord, IsBuffer
<1>2. /\ DOMAIN c = DOMAIN b /\ c.readerIndex_ = k /\ c.writerIndex_ = k + (w - r)
      /\ c.size = b.size
      /\ c.data = [i \in 0..(b.size - 1) |-> IF i \in k..(k + (w - r) - 1)
                                               THEN b.data[r + (i - k)] ELSE b.data[i]]
  BY DEF Holds, IsRecord, Compact, readableBytes
<1> HIDE DEF c, k
<1>3. IsRecord(c) /\ IsBuffer(c)
  BY <1>1, <1>2 DEF Holds, IsRecord, IsBuffer, k
<1>4. ASSUME NEW i \in 1..(n - m) PROVE c.data[c.readerIndex_ + i - 1] = s[m + i]
  <2>1. /\ k + i - 1 \in 0..(b.size - 1) /\ k + i - 1 \in k..(k + (w - r) - 1)
        /\ r + ((k + i - 1) - k) = r + i - 1
    BY <1>1
  <2>2. b.data[r + i - 1] = s[m + i]
    BY DEF Holds
  <2> QED BY <1>2, <2>1, <2>2
<1>5. Holds(c, s, m, n)
  <2>1. c.writerIndex_ - c.readerIndex_ = n - m
    <3> HIDE DEF w, r
    <3> QED BY <1>1, <1>2
  <2> QED BY <1>1, <1>3, <1>4, <2>1 DEF Holds
<1>6. writableBytes(c) = writableBytes(b) + prependableBytes(b) - k
  <2>1. /\ writableBytes(c) = c.size - c.writerIndex_ /\ writableBytes(b) = b.size - w
        /\ prependableBytes(b) = r
    BY DEF writableBytes, prependableBytes
  <2> HIDE DEF w, r
  <2> QED BY <1>1, <1>2, <2>1
<1> QED BY <1>5, <1>6 DEF c, k

\* After ensureWritableBytes there is room.
LEMMA EnsureHolds ==
    ASSUME NEW b, NEW s, NEW m, NEW n, Holds(b, s, m, n), NEW len \in Nat
    PROVE  /\ Holds(ensureWritableBytes(b, len), s, m, n)
           /\ len <= writableBytes(ensureWritableBytes(b, len))
<1>1. writableBytes(b) \in Int /\ prependableBytes(b) \in Nat /\ kCheapPrepend \in Nat
  BY BufferSizes DEF Holds, IsRecord, writableBytes, prependableBytes
<1>2. CASE ~(writableBytes(b) < len)
  BY <1>1, <1>2 DEF ensureWritableBytes
<1>3. CASE writableBytes(b) < len /\ writableBytes(b) + prependableBytes(b) < len + kCheapPrepend
  <2>1. ensureWritableBytes(b, len) = Grow(b, len)
    BY <1>3 DEF ensureWritableBytes, makeSpace
  <2> QED BY <1>3, <2>1, GrowHolds
<1>4. CASE writableBytes(b) < len /\ ~(writableBytes(b) + prependableBytes(b) < len + kCheapPrepend)
  <2>1. ensureWritableBytes(b, len) = Compact(b)
    BY <1>4 DEF ensureWritableBytes, makeSpace
  <2>2. Holds(Compact(b), s, m, n)
    BY CompactHolds
  <2>3. writableBytes(Compact(b)) = writableBytes(b) + prependableBytes(b) - kCheapPrepend
    BY CompactHolds
  <2>4. len <= writableBytes(Compact(b))
    BY <1>1, <1>4, <2>3
  <2> QED BY <2>1, <2>2, <2>4
<1> QED BY <1>2, <1>3, <1>4

\* append stores bytes behind the others.
LEMMA AppendHolds ==
    ASSUME NEW b, NEW s, NEW m, NEW n, Holds(b, s, m, n), NEW bytes, Len(bytes) \in Nat,
           \A i \in 1..Len(bytes) : bytes[i] = s[n + i]
    PROVE  Holds(append(b, bytes), s, m, n + Len(bytes))
<1> DEFINE c == ensureWritableBytes(b, Len(bytes))
<1>1. Holds(c, s, m, n) /\ Len(bytes) <= writableBytes(c)
  BY EnsureHolds
<1> HIDE DEF c
<1>2. Holds(Put(c, bytes), s, m, n + Len(bytes))
  BY <1>1, PutHolds
<1> QED BY <1>2 DEF c, append

\* A part of a sequence
LEMMA SubSeqOf ==
    ASSUME NEW S, NEW s \in Seq(S), NEW a \in Nat, NEW b \in Nat, a <= b, b <= Len(s)
    PROVE  /\ SubSeq(s, a + 1, b) \in Seq(S)
           /\ Len(SubSeq(s, a + 1, b)) = b - a
           /\ \A i \in 1..(b - a) : SubSeq(s, a + 1, b)[i] = s[a + i]
<1> DEFINE t == SubSeq(s, a + 1, b)
<1>1. a + 1 \in Int /\ b \in Int /\ b - (a + 1) + 1 = b - a /\ (a + 1 <= b <=> b - a # 0)
  OBVIOUS
<1>2. \A i \in (a + 1)..b : s[i] \in S
  BY SeqIsSeq
<1>3. /\ t \in Seq(S)
      /\ Len(t) = IF a + 1 <= b THEN b - (a + 1) + 1 ELSE 0
      /\ \A i \in 1..(b - (a + 1) + 1) : t[i] = s[(a + 1) + i - 1]
  BY <1>1, <1>2, SubSeqProperties
<1> HIDE DEF t
<1>4. Len(t) = b - a
  BY <1>1, <1>3
<1>5. ASSUME NEW i \in 1..(b - a) PROVE t[i] = s[a + i]
  <2>1. (a + 1) + i - 1 = a + i /\ i \in 1..(b - (a + 1) + 1)
    BY <1>1
  <2> QED BY <1>3, <2>1
<1> QED BY <1>3, <1>4, <1>5 DEF t

\* A read that goes past the vector into the stack buffer is held as well.
LEMMA ReadFdHolds ==
    ASSUME NEW b, NEW s, NEW m, NEW n, Holds(b, s, m, n), NEW S, NEW bytes \in Seq(S),
           \A i \in 1..Len(bytes) : bytes[i] = s[n + i]
    PROVE  Holds(readFd(b, bytes), s, m, n + Len(bytes))
<1> DEFINE w == writableBytes(b)
           len == Len(bytes)
<1>1. w \in Nat /\ len \in Nat /\ n \in Nat
  BY LenProperties DEF Holds, IsRecord, IsBuffer, writableBytes
<1>2. CASE len <= w
  <2>1. Holds(Put(b, bytes), s, m, n + len)
    BY <1>1, <1>2, PutHolds
  <2> QED BY <1>2, <2>1 DEF readFd
<1>3. CASE ~(len <= w)
  <2> DEFINE one == SubSeq(bytes, 1, w)
             two == SubSeq(bytes, w + 1, len)
  <2>1. Len(one) = w /\ \A i \in 1..w : one[i] = bytes[i]
    <3>1. one = SubSeq(bytes, 0 + 1, w) /\ w <= len
      BY <1>1, <1>3
    <3>2. Len(one) = w - 0 /\ \A i \in 1..(w - 0) : one[i] = bytes[0 + i]
      <4> HIDE DEF one, w
      <4> QED BY <1>1, <3>1, SubSeqOf
    <3> QED BY <1>1, <3>2
  <2>2. Len(two) = len - w /\ \A i \in 1..(len - w) : two[i] = bytes[w + i]
    <3>1. w <= len
      BY <1>1, <1>3
    <3> HIDE DEF w
    <3> QED BY <1>1, <3>1, SubSeqOf
  <2>3. readFd(b, bytes) = append(Put(b, one), two)
    BY <1>3 DEF readFd
  <2> HIDE DEF one, two
  <2>4. \A i \in 1..Len(one) : one[i] = s[n + i]
    BY <1>1, <1>3, <2>1
  <2>5. ASSUME NEW i \in 1..Len(two) PROVE two[i] = s[(n + Len(one)) + i]
    <3>1. i \in 1..(len - w) /\ w + i \in 1..len /\ n + (w + i) = (n + Len(one)) + i
      BY <1>1, <1>3, <2>1, <2>2
    <3>2. bytes[w + i] = s[n + (w + i)]
      BY <3>1
    <3> QED BY <2>2, <3>1, <3>2
  <2>6. Holds(Put(b, one), s, m, n + Len(one))
    BY <1>1, <2>1, <2>4, PutHolds
  <2>7. Len(two) \in Nat
    BY <1>1, <1>3, <2>2
  <2>8. Holds(append(Put(b, one), two), s, m, (n + Len(one)) + Len(two))
    BY <2>5, <2>6, <2>7, AppendHolds
  <2>9. (n + Len(one)) + Len(two) = n + len
    BY <1>1, <1>3, <2>1, <2>2
  <2> QED BY <2>3, <2>8, <2>9
<1> QED BY <1>2, <1>3

-----------------------------------------------------------------------------
(* The parser only retrieves *)

\* The buffer holds the last bytes of the first n.
HoldsEnd(b, s, n) == \E m \in 0..n : Holds(b, s, m, n)

\* retrieve leaves an end of it.
LEMMA RetrieveHoldsEnd ==
    ASSUME NEW b, NEW s, NEW n, HoldsEnd(b, s, n), NEW len \in Nat
    PROVE  HoldsEnd(retrieve(b, len), s, n)
<1>1. PICK m \in 0..n : Holds(b, s, m, n)
  BY DEF HoldsEnd
<1>2. PICK k \in m..n : Holds(retrieve(b, len), s, k, n)
  BY <1>1, RetrieveHolds
<1>3. k \in 0..n
  BY <1>1, <1>2 DEF Holds
<1> QED BY <1>2, <1>3 DEF HoldsEnd

\* The length of what peek() gives
LEMMA ContentOf ==
    ASSUME NEW b, NEW s, NEW n, HoldsEnd(b, s, n)
    PROVE  /\ readableBytes(b) \in Nat /\ Len(Content(b)) = readableBytes(b)
<1>1. readableBytes(b) \in Nat
  BY DEF HoldsEnd, Holds, IsRecord, IsBuffer, readableBytes
<1> QED BY <1>1 DEF Content

\* A set of numbers has a smallest one.
LEMMA MinOfSet ==
    ASSUME NEW S \in SUBSET Nat, S # {}
    PROVE  Min(S) \in S
<1> DEFINE R == OpToRel(<, Nat)
<1>1. IsWellFoundedOn(R, Nat)
  BY NatLessThanWellFounded
<1>2. \A m, n \in Nat : m < n => <<m, n>> \in R
  BY DEF OpToRel
<1>3. PICK n \in S : \A m \in S : ~(<<m, n>> \in R)
  <2> HIDE DEF R
  <2> QED BY <1>1, WFMin
<1>4. ASSUME NEW m \in S PROVE n <= m
  <2> HIDE DEF R
  <2>1. m \in Nat /\ n \in Nat /\ ~(<<m, n>> \in R)
    BY <1>3
  <2>2. ~(m < n)
    BY <1>2, <2>1
  <2> QED BY <2>1, <2>2
<1> QED BY <1>4 DEF Min

\* std::find gives a position.
LEMMA FindType ==
    ASSUME NEW s, NEW first \in Nat, NEW last \in Nat, NEW ch
    PROVE  Find(s, first, last, ch) \in Nat
<1> DEFINE hits == {i \in first..(last - 1) : s[i] = ch}
<1>1. hits \in SUBSET Nat
  OBVIOUS
<1>2. hits # {} => Min(hits) \in Nat
  <2> HIDE DEF hits
  <2> QED BY <1>1, MinOfSet
<1> QED BY <1>2 DEF Find

\* parseURI retrieves the request line or nothing ...
LEMMA ParseLineBuf ==
    ASSUME NEW s, NEW crlf, NEW b, NEW req, NEW past
    PROVE  ParseLine(s, crlf, b, req, past).buf \in {b, retrieve(b, crlf + 1)}
BY DEF ParseLine

\* ... and leaves an end of the bytes.
LEMMA parseURIBuf ==
    ASSUME NEW b, NEW s, NEW n, HoldsEnd(b, s, n), NEW req, NEW past
    PROVE  HoldsEnd(parseURI(b, req, past).buf, s, n)
<1> DEFINE c == Content(b)
           crlf == Find(c, 1, Len(c) + 1, CR)
<1>1. parseURI(b, req, past) = ParseLine(c, crlf, b, req, past)
  BY DEF parseURI, Apply
<1>2. crlf \in Nat
  BY ContentOf, FindType
<1> HIDE DEF crlf, c
<1>3. parseURI(b, req, past).buf \in {b, retrieve(b, crlf + 1)}
  BY <1>1, ParseLineBuf
<1> QED BY <1>2, <1>3, RetrieveHoldsEnd

\* HeaderStep leaves last alone but where the headers end.
LEMMA HeaderStepLast ==
    ASSUME NEW s, NEW t, NEW i \in Nat, "last" \in DOMAIN t, t.last \in Nat
    PROVE  LET u == HeaderStep(s, t, i) IN "last" \in DOMAIN u /\ u.last \in Nat
BY DEF HeaderStep

\* The turns of the loop of parseHeaders
Step(s, t, i) == Apply(LAMBDA u : HeaderStep(s, u, i), t)
Start(ctx) ==
    [flag |-> "AGAIN", hState_ |-> ctx.hState_, headers_ |-> ctx.request_.headers_,
     key_start |-> nullptr, key_end |-> nullptr,
     val_start |-> nullptr, val_end |-> nullptr, last |-> 0]
Turns(f, s, ctx, k) ==
    f = [i \in 0..k |-> IF i = 0 THEN Start(ctx) ELSE Step(s, f[i - 1], i)]
After(s, ctx, k) == CHOOSE f : Turns(f, s, ctx, k)

\* The recursion of HeaderLoop has a solution ...
LEMMA AfterExists ==
    ASSUME NEW s, NEW ctx, NEW k \in Nat
    PROVE  Turns(After(s, ctx, k), s, ctx, k)
<1> DEFINE G == {n \in Nat : \E f : Turns(f, s, ctx, n)}
<1>1. G = Nat
  <2>1. 0 \in G
    <3>1. Turns([i \in 0..0 |-> Start(ctx)], s, ctx, 0)
      BY DEF Turns
    <3> QED BY <3>1
  <2>2. ASSUME NEW n \in G PROVE n + 1 \in G
    <3>1. PICK f : Turns(f, s, ctx, n)
      OBVIOUS
    <3> DEFINE g == [i \in 0..(n + 1) |-> IF i = n + 1 THEN Step(s, f[n], n + 1) ELSE f[i]]
    <3>2. ASSUME NEW i \in 0..(n + 1)
          PROVE  g[i] = IF i = 0 THEN Start(ctx) ELSE Step(s, g[i - 1], i)
      <4>1. CASE i = n + 1
        BY <4>1
      <4>2. CASE i # n + 1
        <5>1. i \in 0..n /\ g[i] = f[i] /\ (i # 0 => i - 1 \in 0..n /\ g[i - 1] = f[i - 1])
          BY <4>2
        <5>2. f[i] = IF i = 0 THEN Start(ctx) ELSE Step(s, f[i - 1], i)
          BY <3>1, <5>1 DEF Turns
        <5> QED BY <5>1, <5>2
      <4> QED BY <4>1, <4>2
    <3>3. Turns(g, s, ctx, n + 1)
      BY <3>2 DEF Turns
    <3> HIDE DEF g
    <3>4. \E h : Turns(h, s, ctx, n + 1)
      BY <3>3
    <3> QED BY <3>4
  <2>3. G \in SUBSET Nat
    OBVIOUS
  <2> HIDE DEF G
  <2> QED BY <2>1, <2>2, <2>3, NatSets
<1>2. \E f : Turns(f, s, ctx, k)
  BY <1>1
<1> QED BY <1>2 DEF After

\* ... so that last is a number after any number of turns.
LEMMA HeaderLoopLast ==
    ASSUME NEW s, Len(s) \in Nat, NEW ctx
    PROVE  HeaderLoop(s, ctx).last \in Nat
<1> DEFINE k == Len(s)
           f == After(s, ctx, k)
<1>1. HeaderLoop(s, ctx) = f[k]
  BY DEF HeaderLoop, After, Turns, Start, Step
<1>2. f = [i \in 0..k |-> IF i = 0 THEN Start(ctx) ELSE Step(s, f[i - 1], i)]
  BY AfterExists DEF Turns
<1> HIDE DEF f, k
<1> DEFINE G == {i \in Nat : i \in 0..k => "last" \in DOMAIN f[i] /\ f[i].last \in Nat}
<1>3. G = Nat
  <2>1. G \in SUBSET Nat /\ 0 \in G
    BY <1>2 DEF Start
  <2>2. ASSUME NEW i \in G PROVE i + 1 \in G
    <3> SUFFICES ASSUME i + 1 \in 0..k
                 PROVE  "last" \in DOMAIN f[i + 1] /\ f[i + 1].last \in Nat
      OBVIOUS
    <3>1. i \in 0..k /\ "last" \in DOMAIN f[i] /\ f[i].last \in Nat
      BY DEF k
    <3>2. f[i + 1] = Step(s, f[i], i + 1)
      <4>1. f[i + 1] = IF i + 1 = 0 THEN Start(ctx) ELSE Step(s, f[(i + 1) - 1], i + 1)
        BY <1>2, Zenon
      <4>2. i + 1 # 0 /\ (i + 1) - 1 = i
        OBVIOUS
      <4> QED BY <4>1, <4>2
    <3>3. Step(s, f[i], i + 1) = HeaderStep(s, f[i], i + 1)
      BY DEF Step, Apply
    <3> QED BY <3>1, <3>2, <3>3, HeaderStepLast
  <2> HIDE DEF G
  <2> QED BY <2>1, <2>2, NatSets
<1> QED BY <1>1, <1>3 DEF k

\* parseHeaders leaves an end of the bytes.
LEMMA parseHeadersBuf ==
    ASSUME NEW b, NEW s, NEW n, HoldsEnd(b, s, n), NEW ctx
    PROVE  HoldsEnd(parseHeaders(b, ctx).buf, s, n)
<1> DEFINE c == Content(b)
           t == HeaderLoop(c, ctx)
<1>1. t.last \in Nat
  BY ContentOf, HeaderLoopLast
<1>2. parseHeaders(b, ctx).buf = IF t.flag = "SUCCESS" THEN retrieve(b, t.last) ELSE b
  <2> DEFINE r == [flag |-> t.flag,
                   buf  |-> IF t.flag = "SUCCESS" THEN retrieve(b, t.last) ELSE b,
                   ctx  |-> [ctx EXCEPT !.hState_ = t.hState_, !.request_.headers_ = t.headers_]]
  <2>1. parseHeaders(b, ctx) = r
    <3>1. Apply(LAMBDA x : HeaderLoop(x, ctx), Content(b)) = t
      BY DEF Apply
    <3> HIDE DEF t
    <3> QED BY <3>1 DEF parseHeaders, Apply
  <2> QED BY <2>1
<1> HIDE DEF t
<1> QED BY <1>1, <1>2, RetrieveHoldsEnd

\* What a turn of parseRequest has in its buffer.
HoldsIn(p, s, n) == "buf" \in DOMAIN p /\ HoldsEnd(p.buf, s, n)

\* So do the turns of parseRequest ...
LEMMA UriTurnBuf ==
    ASSUME NEW p, NEW s, NEW n, HoldsIn(p, s, n), NEW past
    PROVE  HoldsIn(UriTurn(p, past), s, n)
<1> DEFINE r == parseURI(p.buf, p.ctx.request_, past)
           X == [p EXCEPT !.buf = r.buf, !.ctx.request_ = r.request_,
                          !.ctx.state_ = "STATE_PARSE_HEADERS"]
           Y == [p EXCEPT !.flag = r.flag, !.ctx.request_ = r.request_]
<1>1. HoldsEnd(r.buf, s, n)
  BY parseURIBuf DEF HoldsIn
<1> HIDE DEF r
<1>2. UriTurn(p, past) \in {p, X, Y}
  BY DEF UriTurn, Turn, Apply, r
<1>3. "buf" \in DOMAIN X /\ X.buf = r.buf /\ "buf" \in DOMAIN Y /\ Y.buf = p.buf
  BY DEF HoldsIn
<1> HIDE DEF X, Y
<1> QED BY <1>1, <1>2, <1>3 DEF HoldsIn

\* The headers
LEMMA HeadersTurnBuf ==
    ASSUME NEW p, NEW s, NEW n, HoldsIn(p, s, n)
    PROVE  HoldsIn(HeadersTurn(p), s, n)
<1> DEFINE r == parseHeaders(p.buf, p.ctx)
           next == IF p.ctx.request_.method_ = "POST" THEN "STATE_RECV_BODY" ELSE "STATE_ANALYSIS"
           X == [p EXCEPT !.buf = r.buf, !.ctx = [r.ctx EXCEPT !.state_ = next]]
           Y == [p EXCEPT !.flag = r.flag, !.ctx = r.ctx]
<1>1. HoldsEnd(r.buf, s, n)
  BY parseHeadersBuf DEF HoldsIn
<1> HIDE DEF r, next
<1>2. HeadersTurn(p) \in {p, X, Y}
  BY DEF HeadersTurn, Turn, Apply, r, next
<1>3. "buf" \in DOMAIN X /\ X.buf = r.buf /\ "buf" \in DOMAIN Y /\ Y.buf = p.buf
  BY DEF HoldsIn
<1> HIDE DEF X, Y
<1> QED BY <1>1, <1>2, <1>3 DEF HoldsIn

\* std::stoul gives a number.
LEMMA stoulType ==
    ASSUME NEW text, IsNumber(text)
    PROVE  stoul(text) \in Nat
<1>1. DOMAIN Digits \subseteq Nat \ {0}
  BY DEF Digits
<1>2. PICK d \in DOMAIN Digits : text = <<Digits[d]>>
  BY DEF IsNumber
<1>3. (CHOOSE e \in DOMAIN Digits : text = <<Digits[e]>>) \in DOMAIN Digits
  BY <1>2
<1> QED BY <1>1, <1>3 DEF stoul

\* The body
LEMMA BodyTurnBuf ==
    ASSUME NEW p, NEW s, NEW n, HoldsIn(p, s, n)
    PROVE  HoldsIn(BodyTurn(p), s, n)
<1> DEFINE text == getHeader(p.ctx.request_, <<"Content-Length">>)
           len == stoul(text)
           done == [p EXCEPT !.ctx.state_ = "STATE_ANALYSIS"]
           X == [p EXCEPT !.flag = "CRASH"]
           Y == [p EXCEPT !.flag = "AGAIN"]
           Z == [done EXCEPT !.ctx.request_.body_ = SubSeq(Content(p.buf), 1, len),
                             !.buf = retrieve(@, len)]
<1>1. IsNumber(text) => len \in Nat
  BY stoulType
<1> HIDE DEF text, len
<1>2. BodyTurn(p) \in {p, done, X, Y} \/ (IsNumber(text) /\ BodyTurn(p) = Z)
  BY DEF BodyTurn, Turn, text, len
<1>3. /\ "buf" \in DOMAIN done /\ done.buf = p.buf
      /\ "buf" \in DOMAIN X /\ X.buf = p.buf /\ "buf" \in DOMAIN Y /\ Y.buf = p.buf
  BY DEF HoldsIn
<1>4. "buf" \in DOMAIN Z /\ Z.buf = retrieve(p.buf, len)
  BY DEF HoldsIn
<1> HIDE DEF done, X, Y, Z
<1>5. CASE BodyTurn(p) \in {p, done, X, Y}
  BY <1>3, <1>5 DEF HoldsIn
<1>6. CASE IsNumber(text) /\ BodyTurn(p) = Z
  BY <1>1, <1>4, <1>6, RetrieveHoldsEnd DEF HoldsIn
<1> QED BY <1>2, <1>5, <1>6

\* The last turn leaves the buffer alone.
LEMMA AnalysisTurnBuf ==
    ASSUME NEW p, NEW s, NEW n, HoldsIn(p, s, n)
    PROVE  HoldsIn(AnalysisTurn(p), s, n)
<1> DEFINE X == [p EXCEPT !.flag = "DONE", !.ctx.state_ = "STATE_FINISH"]
<1>1. AnalysisTurn(p) \in {p, X}
  BY DEF AnalysisTurn, Turn
<1>2. "buf" \in DOMAIN X /\ X.buf = p.buf
  BY DEF HoldsIn
<1> HIDE DEF X
<1> QED BY <1>1, <1>2 DEF HoldsIn

\* ... and parseRequest as a whole.
LEMMA parseRequestBuf ==
    ASSUME NEW b, NEW s, NEW n, HoldsEnd(b, s, n), NEW ctx, NEW past
    PROVE  HoldsEnd(parseRequest(b, ctx, past).buf, s, n)
<1> DEFINE p1 == [flag |-> "MORE", buf |-> b, ctx |-> ctx]
           p2 == UriTurn(p1, past)
           p3 == HeadersTurn(p2)
           p4 == BodyTurn(p3)
           p5 == AnalysisTurn(p4)
<1>1. HoldsIn(p1, s, n)
  BY DEF HoldsIn
<1>2. parseRequest(b, ctx, past) = p5
  <2>1. Apply(LAMBDA p : UriTurn(p, past), p1) = p2
    BY DEF Apply
  <2> HIDE DEF p2
  <2>2. Apply(HeadersTurn, p2) = p3
    BY DEF Apply
  <2> HIDE DEF p3
  <2>3. Apply(BodyTurn, p3) = p4
    BY DEF Apply
  <2> HIDE DEF p4
  <2>4. Apply(AnalysisTurn, p4) = p5
    BY DEF Apply
  <2> HIDE DEF p5
  <2> QED BY <2>1, <2>2, <2>3, <2>4 DEF parseRequest
<1> HIDE DEF p1, p2, p3, p4, p5
<1>3. HoldsIn(p2, s, n)
  BY <1>1, UriTurnBuf DEF p2
<1>4. HoldsIn(p3, s, n)
  BY <1>3, HeadersTurnBuf DEF p3
<1>5. HoldsIn(p4, s, n)
  BY <1>4, BodyTurnBuf DEF p4
<1>6. HoldsIn(p5, s, n)
  BY <1>5, AnalysisTurnBuf DEF p5
<1> QED BY <1>2, <1>6 DEF HoldsIn

\* The buffer holds the last bytes received.
BufferInv ==
    /\ script \in Scripts
    /\ received \in 0..Len(Stream)
    /\ HoldsEnd(inputBuffer_, Stream, received)

\* The stream is a sequence of symbols.
LEMMA StreamType ==
    ASSUME script \in Scripts
    PROVE  Stream \in Seq(Symbol) /\ Len(Stream) \in Nat
<1>1. Stream \in Seq(Symbol)
  BY BytesStep DEF Stream, Requests
<1> QED BY <1>1, LenProperties

\* BufferInv holds at first ...
LEMMA BufferInit == Init => BufferInv
<1> SUFFICES ASSUME Init PROVE BufferInv
  OBVIOUS
<1>1. script \in Scripts /\ received = 0 /\ inputBuffer_ = NewBuffer
  BY DEF Init
<1>2. Holds(NewBuffer, Stream, 0, 0)
  BY NewHolds
<1> QED BY <1>1, <1>2, StreamType DEF BufferInv, HoldsEnd

\* ... and is kept by every step.
LEMMA BufferNext == BufferInv /\ [Next]_vars => BufferInv'
<1> SUFFICES ASSUME BufferInv, [Next]_vars PROVE BufferInv'
  OBVIOUS
<1>1. Stream \in Seq(Symbol) /\ Len(Stream) \in Nat
  BY StreamType DEF BufferInv
<1>2. UNCHANGED script
  BY DEF Next, IoStep, BaseStep, Read, PeerCloses, MessageEnds, onMessage, RunIoFunctor,
         RunBaseFunctor, UringEvent, Completion, CompletionsEnd, Kernel, vars, serverVars
<1>3. Stream' = Stream
  BY <1>2 DEF Stream, Requests
<1>4. CASE \E k \in 1..(Len(Stream) - received) : Read(k)
  <2>1. PICK k \in 1..(Len(Stream) - received) : Read(k)
    BY <1>4
  <2> DEFINE bytes == SubSeq(Stream, received + 1, received + k)
  <2>2. received' = received + k /\ inputBuffer_' = readFd(inputBuffer_, bytes)
    BY <2>1 DEF Read
  <2>3. received \in Nat /\ k \in Nat /\ received + k <= Len(Stream) /\ k >= 1
    BY <1>1 DEF BufferInv
  <2>4. /\ bytes \in Seq(Symbol) /\ Len(bytes) = k
        /\ \A i \in 1..k : bytes[i] = Stream[received + i]
    <3>1. received + k \in Nat /\ received <= received + k /\ (received + k) - received = k
      BY <2>3
    <3> QED BY <1>1, <2>3, <3>1, SubSeqOf
  <2> HIDE DEF bytes
  <2>5. PICK m \in 0..received : Holds(inputBuffer_, Stream, m, received)
    BY DEF BufferInv, HoldsEnd
  <2>6. Holds(inputBuffer_', Stream, m, received + k)
    BY <2>2, <2>4, <2>5, ReadFdHolds
  <2>7. m \in 0..(received + k) /\ received + k \in 0..Len(Stream)
    BY <1>1, <2>3
  <2> QED BY <1>2, <1>3, <2>2, <2>6, <2>7 DEF BufferInv, HoldsEnd
<1>5. CASE \E past \in PastWriter(inputBuffer_) : onMessage(past)
  <2>1. PICK past : onMessage(past)
    BY <1>5
  <2>2. inputBuffer_' = parseRequest(inputBuffer_, context, past).buf /\ UNCHANGED received
    BY <2>1 DEF onMessage
  <2>3. HoldsEnd(parseRequest(inputBuffer_, context, past).buf, Stream, received)
    BY parseRequestBuf DEF BufferInv
  <2> QED BY <1>2, <1>3, <2>2, <2>3 DEF BufferInv
<1>6. CASE UNCHANGED <<received, inputBuffer_>>
  BY <1>2, <1>3, <1>6 DEF BufferInv
<1>7. ASSUME ~ \E k \in 1..(Len(Stream) - received) : Read(k),
             ~ \E past \in PastWriter(inputBuffer_) : onMessage(past)
      PROVE  UNCHANGED <<received, inputBuffer_>>
  BY <1>7 DEF Next, IoStep, BaseStep, PeerCloses, MessageEnds, RunIoFunctor,
              RunBaseFunctor, UringEvent, Completion, CompletionsEnd, Kernel, vars, serverVars
<1> QED BY <1>4, <1>5, <1>6, <1>7

\* The input buffer (Buffer.h, Buffer.cpp) is a queue of bytes under every mixture
\* of reads and parser calls, whatever the initial size: none is lost, doubled or
\* moved by growing, compacting or spilling into the stack buffer.
THEOREM NoByteIsLost == Spec => []BufferIsQueue
<1>1. BufferInv => BufferIsQueue
  <2> SUFFICES ASSUME BufferInv PROVE BufferIsQueue
    OBVIOUS
  <2>1. PICK m \in 0..received : Holds(inputBuffer_, Stream, m, received)
    BY DEF BufferInv, HoldsEnd
  <2> DEFINE len == readableBytes(inputBuffer_)
             c == Content(inputBuffer_)
             e == SubSeq(Stream, received - len + 1, received)
  <2>2. Stream \in Seq(Symbol) /\ Len(Stream) \in Nat /\ received \in 0..Len(Stream)
    BY StreamType DEF BufferInv
  <2>3. len = received - m /\ m \in Nat /\ len \in Nat
    BY <2>1, <2>2 DEF Holds, readableBytes
  <2>4. ASSUME NEW i \in 1..len PROVE c[i] = Stream[m + i]
    BY <2>1, <2>3 DEF Holds, Content
  <2>5. c = [i \in 1..len |-> Stream[m + i]]
    BY <2>4 DEF Content
  <2>6. e = [i \in 1..len |-> Stream[m + i]]
    <3>1. received - len + 1 = m + 1
      BY <2>2, <2>3
    <3>2. e = SubSeq(Stream, m + 1, received) /\ m <= received /\ received - m = len
      BY <2>2, <2>3, <3>1
    <3> HIDE DEF e, len
    <3>3. e \in Seq(Symbol)
      BY <2>2, <2>3, <3>2, SubSeqOf
    <3>4. Len(e) = len /\ \A i \in 1..len : e[i] = Stream[m + i]
      BY <2>2, <2>3, <3>2, SubSeqOf
    <3>5. e \in [1..len -> Symbol]
      BY <3>3, <3>4, LenProperties
    <3> QED BY <3>4, <3>5
  <2>7. IsBuffer(inputBuffer_)
    BY <2>1 DEF Holds
  <2> HIDE DEF c, e, len
  <2>8. c = e
    BY <2>5, <2>6
  <2> QED BY <2>7, <2>8 DEF BufferIsQueue, c, e, len
<1> QED BY <1>1, BufferInit, BufferNext, PTL DEF Spec
=============================================================================
