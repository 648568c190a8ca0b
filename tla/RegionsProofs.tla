---------------------------- MODULE RegionsProofs ----------------------------
(***************************************************************************)
(* Proofs about scratch memory for any number of areas, regions and sizes: *)
(* regions, pool and provider agree on every segment, memory is handed out *)
(* once, and the counters of the system's provider are exact.              *)
(***************************************************************************)
EXTENDS Regions, FiniteSetTheorems, SequenceTheorems, NaturalsInduction,
        WellFoundedInduction, TLAPS

-----------------------------------------------------------------------------
(***************************************************************************)
(* Sums of segment sizes                                                   *)
(***************************************************************************)

\* Induction over a set of numbers: a set that contains 0 and with a number
\* the next one has all of them.
LEMMA AllNumbers ==
    ASSUME NEW T, 0 \in T, \A n \in Nat : n \in T => n + 1 \in T
    PROVE  \A n \in Nat : n \in T
  <1> DEFINE M == {n \in Nat : n \notin T}
  <1>1. SUFFICES ASSUME M # {} PROVE FALSE
    OBVIOUS
  <1>2. M \in SUBSET Nat
    OBVIOUS
  <1>3. PICK n \in M : \A k \in M : ~(<< k, n >> \in OpToRel(<, Nat))
    <2> HIDE DEF M
    <2> QED BY <1>1, <1>2, NatLessThanWellFounded, WFMin
  <1>4. \A k \in M : ~(k < n)
    BY <1>2, <1>3 DEF OpToRel
  <1>5. n # 0 /\ n \in Nat /\ n - 1 \in Nat
    OBVIOUS
  <1>6. n - 1 \notin M
    BY <1>4, <1>5
  <1>7. (n - 1) + 1 \in T
    BY <1>5, <1>6
  <1> QED BY <1>5, <1>7

\* The table of sums that MapThenSumSet computes, over the segments of h.
Pick(s) == CHOOSE x \in s : TRUE
SumOf(h, g, s) == IF s = {} THEN 0 ELSE h[Pick(s)].size + g[s \ {Pick(s)}]
IsSums(h, g) == g = [s \in SUBSET DOMAIN h |-> SumOf(h, g, s)]
Bytes(h) == (CHOOSE g : IsSums(h, g))[DOMAIN h]

\* SegmentBytes is such a sum.
LEMMA SegmentBytesAreBytes == SegmentBytes = Bytes(segments)
  BY DEF SegmentBytes, MapThenSumSet, MapThenFoldSet, Bytes, IsSums, SumOf, Pick

\* The same after a step.
LEMMA SegmentBytesAfter == SegmentBytes' = Bytes(segments')
  BY DEF SegmentBytes, MapThenSumSet, MapThenFoldSet, Bytes, IsSums, SumOf, Pick

\* Segments with sizes.
Sized(h) == IsFiniteSet(DOMAIN h) /\ \A a \in DOMAIN h : h[a].size \in Nat

\* Taking one element out of a set of areas.
LEMMA OneLess ==
    ASSUME NEW h, Sized(h), NEW s \in SUBSET DOMAIN h
    PROVE  /\ IsFiniteSet(s) /\ Cardinality(s) \in Nat
           /\ Cardinality(s) = 0 <=> s = {}
           /\ s # {} => Pick(s) \in s
           /\ \A x \in s : /\ s \ {x} \in SUBSET DOMAIN h
                           /\ Cardinality(s \ {x}) = Cardinality(s) - 1
  <1>1. IsFiniteSet(s)
    BY FS_Subset DEF Sized
  <1>2. Cardinality(s) \in Nat /\ (Cardinality(s) = 0 <=> s = {})
    BY <1>1, FS_CardinalityType, FS_EmptySet
  <1>3. \A x \in s : Cardinality(s \ {x}) = Cardinality(s) - 1
    BY <1>1, FS_RemoveElement
  <1>4. s # {} => Pick(s) \in s
    BY DEF Pick
  <1> QED BY <1>1, <1>2, <1>3, <1>4

\* There is a table of sums.
LEMMA SumsExist ==
    ASSUME NEW h, Sized(h)
    PROVE  \E g : IsSums(h, g)
  <1> DEFINE D == DOMAIN h
             UpTo(k, g) == \A s \in SUBSET D : Cardinality(s) =< k => g[s] = SumOf(h, g, s)
             T == {k \in Nat : \E g \in [SUBSET D -> Nat] : UpTo(k, g)}
  <1>1. 0 \in T
    <2> DEFINE g == [s \in SUBSET D |-> 0]
    <2>1. g \in [SUBSET D -> Nat]
      OBVIOUS
    <2>2. \A s \in SUBSET D : Cardinality(s) =< 0 => s = {}
      BY OneLess
    <2>3. UpTo(0, g)
      BY <2>2 DEF SumOf
    <2> QED BY <2>1, <2>3
  <1>2. ASSUME NEW k \in Nat, k \in T PROVE k + 1 \in T
    <2>1. PICK g \in [SUBSET D -> Nat] : UpTo(k, g)
      BY <1>2
    <2> DEFINE f == [s \in SUBSET D |-> IF Cardinality(s) =< k THEN g[s] ELSE SumOf(h, g, s)]
    <2>2. \A s \in SUBSET D : SumOf(h, g, s) \in Nat
      <3> SUFFICES ASSUME NEW s \in SUBSET D PROVE SumOf(h, g, s) \in Nat
        OBVIOUS
      <3>1. CASE s = {}
        BY <3>1 DEF SumOf
      <3>2. CASE s # {}
        <4>1. Pick(s) \in D /\ s \ {Pick(s)} \in SUBSET D
          BY <3>2, OneLess
        <4>2. h[Pick(s)].size \in Nat /\ g[s \ {Pick(s)}] \in Nat
          BY <4>1 DEF Sized
        <4> QED BY <3>2, <4>2 DEF SumOf
      <3> QED BY <3>1, <3>2
    <2>3. f \in [SUBSET D -> Nat]
      BY <2>2
    <2>4. ASSUME NEW s \in SUBSET D, Cardinality(s) =< k + 1
          PROVE  f[s] = SumOf(h, f, s)
      <3>1. f[s] = SumOf(h, g, s)
        BY <2>1
      <3>2. CASE s = {}
        BY <3>1, <3>2 DEF SumOf
      <3>3. CASE s # {}
        <4> DEFINE r == s \ {Pick(s)}
        <4>1. r \in SUBSET D /\ Cardinality(r) = Cardinality(s) - 1 /\ Cardinality(s) \in Nat
          BY <3>3, OneLess
        <4>2. Cardinality(r) =< k
          BY <2>4, <4>1
        <4>3. f[r] = g[r]
          BY <4>1, <4>2
        <4> HIDE DEF f
        <4> QED BY <3>1, <3>3, <4>3 DEF SumOf
      <3> QED BY <3>2, <3>3
    <2>5. UpTo(k + 1, f)
      BY <2>4
    <2> HIDE DEF f, UpTo
    <2> QED BY <2>3, <2>5
  <1>3. Cardinality(D) \in T
    <2>1. Cardinality(D) \in Nat
      BY FS_CardinalityType DEF Sized
    <2> HIDE DEF T
    <2> QED BY <1>1, <1>2, <2>1, AllNumbers
  <1>4. PICK g \in [SUBSET D -> Nat] : UpTo(Cardinality(D), g)
    BY <1>3
  <1>5. \A s \in SUBSET D : Cardinality(s) =< Cardinality(D)
    BY FS_Subset DEF Sized
  <1>6. \A s \in SUBSET D : g[s] = SumOf(h, g, s)
    BY <1>4, <1>5
  <1>7. g = [s \in SUBSET D |-> SumOf(h, g, s)]
    BY <1>4, <1>6
  <1> QED BY <1>7 DEF IsSums

\* Its entries are numbers, whichever element is taken out first.
LEMMA SumsStep ==
    ASSUME NEW h, Sized(h), NEW g, IsSums(h, g)
    PROVE  /\ g[{}] = 0
           /\ \A s \in SUBSET DOMAIN h :
                g[s] \in Nat /\ \A a \in s : g[s] = h[a].size + g[s \ {a}]
  <1> DEFINE D == DOMAIN h
             Right(s) == g[s] \in Nat /\ \A a \in s : g[s] = h[a].size + g[s \ {a}]
             T == {k \in Nat : \A s \in SUBSET D : Cardinality(s) =< k => Right(s)}
  <1>1. \A s \in SUBSET D : g[s] = SumOf(h, g, s)
    BY DEF IsSums
  <1>2. g[{}] = 0
    BY <1>1 DEF SumOf
  <1>3. 0 \in T
    <2>1. \A s \in SUBSET D : Cardinality(s) =< 0 => s = {}
      BY OneLess
    <2>2. Right({})
      BY <1>2
    <2> HIDE DEF Right
    <2> QED BY <2>1, <2>2
  <1>4. ASSUME NEW k \in Nat, k \in T PROVE k + 1 \in T
    <2>1. ASSUME NEW s \in SUBSET D, Cardinality(s) =< k + 1 PROVE Right(s)
      <3>1. CASE s = {}
        BY <1>2, <3>1
      <3>2. CASE s # {}
        <4> DEFINE x == Pick(s)
        <4>1. x \in s /\ s \ {x} \in SUBSET D
          BY <3>2, OneLess
        <4>2. ASSUME NEW a \in s
              PROVE  /\ s \ {a} \in SUBSET D /\ Right(s \ {a}) /\ h[a].size \in Nat
          <5>1. s \ {a} \in SUBSET D /\ Cardinality(s \ {a}) = Cardinality(s) - 1
                /\ Cardinality(s) \in Nat
            BY OneLess
          <5>2. Cardinality(s \ {a}) =< k
            BY <2>1, <5>1
          <5> QED BY <1>4, <5>1, <5>2 DEF Sized
        <4>3. g[s] = h[x].size + g[s \ {x}]
          BY <1>1, <3>2 DEF SumOf
        <4> HIDE DEF x
        <4>4. g[s] \in Nat
          <5>1. g[s \ {x}] \in Nat /\ h[x].size \in Nat
            BY <4>1, <4>2
          <5> QED BY <4>3, <5>1
        <4>5. ASSUME NEW a \in s PROVE g[s] = h[a].size + g[s \ {a}]
          <5>1. CASE a = x
            BY <4>3, <5>1
          <5>2. CASE a # x
            <6> DEFINE r == (s \ {x}) \ {a}
            <6>1. r = (s \ {a}) \ {x} /\ a \in s \ {x} /\ x \in s \ {a}
              BY <4>1, <5>2
            <6>2. g[s \ {x}] = h[a].size + g[r]
              BY <4>1, <4>2, <6>1
            <6>3. g[s \ {a}] = h[x].size + g[(s \ {a}) \ {x}]
              BY <4>2, <6>1
            <6>4. r \in SUBSET D
              OBVIOUS
            <6>5. g[r] \in Nat
              <7>1. Cardinality(r) = Cardinality(s) - 2 /\ Cardinality(s) \in Nat
                <8>1. Cardinality(s \ {x}) = Cardinality(s) - 1 /\ Cardinality(s) \in Nat
                  BY <4>1, OneLess
                <8>2. Cardinality(r) = Cardinality(s \ {x}) - 1
                  BY <4>1, <6>1, OneLess, ZenonT(40)
                <8> QED BY <8>1, <8>2
              <7>2. Cardinality(r) =< k
                BY <2>1, <7>1
              <7> QED BY <1>4, <6>4, <7>2
            <6>6. h[a].size \in Nat /\ h[x].size \in Nat
              BY <4>1, <4>2
            <6> QED BY <4>3, <6>1, <6>2, <6>3, <6>5, <6>6
          <5> QED BY <5>1, <5>2
        <4> QED BY <4>4, <4>5
      <3> QED BY <3>1, <3>2
    <2> HIDE DEF Right
    <2> QED BY <2>1
  <1>5. ASSUME NEW s \in SUBSET D PROVE Right(s)
    <2>1. Cardinality(s) \in Nat
      BY OneLess
    <2>2. Cardinality(s) \in T
      <3> HIDE DEF T
      <3> QED BY <1>3, <1>4, <2>1, AllNumbers
    <2> HIDE DEF Right
    <2> QED BY <2>1, <2>2
  <1> QED BY <1>2, <1>5

\* The same for one set and one element.
LEMMA SumsTake ==
    ASSUME NEW h, Sized(h), NEW g, IsSums(h, g), NEW s \in SUBSET DOMAIN h, NEW a \in s
    PROVE  g[s] = h[a].size + g[s \ {a}]
  BY SumsStep

\* Tables of sums over the same sizes agree.
LEMMA SumsAgree ==
    ASSUME NEW h, Sized(h), NEW g, IsSums(h, g),
           NEW k, Sized(k), NEW f, IsSums(k, f),
           DOMAIN h \subseteq DOMAIN k, \A a \in DOMAIN h : h[a].size = k[a].size
    PROVE  \A s \in SUBSET DOMAIN h : g[s] = f[s]
  <1> DEFINE D == DOMAIN h
             T == {n \in Nat : \A s \in SUBSET D : Cardinality(s) =< n => g[s] = f[s]}
  <1>1. 0 \in T
    <2>1. \A s \in SUBSET D : Cardinality(s) =< 0 => s = {}
      BY OneLess
    <2>2. g[{}] = 0 /\ f[{}] = 0
      BY SumsStep
    <2> QED BY <2>1, <2>2
  <1>2. ASSUME NEW n \in Nat, n \in T PROVE n + 1 \in T
    <2>1. ASSUME NEW s \in SUBSET D, Cardinality(s) =< n + 1 PROVE g[s] = f[s]
      <3>1. CASE s = {}
        BY <3>1, SumsStep
      <3>2. CASE s # {}
        <4> DEFINE x == Pick(s)
                   r == s \ {x}
        <4>1. /\ x \in s /\ r \in SUBSET D
              /\ Cardinality(r) = Cardinality(s) - 1 /\ Cardinality(s) \in Nat
          BY <3>2, OneLess
        <4>2. g[r] = f[r]
          <5>1. Cardinality(r) =< n
            BY <2>1, <4>1
          <5> QED BY <1>2, <4>1, <5>1
        <4>3. g[s] = h[x].size + g[r]
          BY <4>1, SumsStep
        <4>4. s \in SUBSET DOMAIN k
          OBVIOUS
        <4>5. f[s] = k[x].size + f[r]
          BY <4>1, <4>4, SumsTake
        <4>6. h[x].size = k[x].size
          BY <4>1
        <4> HIDE DEF x, r
        <4> QED BY <4>2, <4>3, <4>5, <4>6
      <3> QED BY <3>1, <3>2
    <2> QED BY <2>1
  <1>3. ASSUME NEW s \in SUBSET D PROVE g[s] = f[s]
    <2>1. Cardinality(s) \in Nat
      BY OneLess
    <2>2. Cardinality(s) \in T
      <3> HIDE DEF T
      <3> QED BY <1>1, <1>2, <2>1, AllNumbers
    <2> QED BY <2>1, <2>2
  <1> QED BY <1>3

\* The table that Bytes chooses is one.
LEMMA BytesTable ==
    ASSUME NEW h, Sized(h)
    PROVE  \E g : IsSums(h, g) /\ Bytes(h) = g[DOMAIN h]
  <1>1. \E g : IsSums(h, g)
    BY SumsExist
  <1>2. IsSums(h, CHOOSE g : IsSums(h, g))
    <2> HIDE DEF IsSums
    <2> QED BY <1>1
  <1> QED BY <1>2 DEF Bytes

\* No segments have no bytes.
LEMMA BytesEmpty ==
    ASSUME NEW h, DOMAIN h = {}
    PROVE  Sized(h) /\ Bytes(h) = 0
  <1>1. Sized(h)
    BY FS_EmptySet DEF Sized
  <1>2. PICK g : IsSums(h, g) /\ Bytes(h) = g[DOMAIN h]
    BY <1>1, BytesTable
  <1> QED BY <1>1, <1>2, SumsStep

\* A change that keeps all sizes keeps their sum.
LEMMA BytesSame ==
    ASSUME NEW h, Sized(h), NEW k, DOMAIN k = DOMAIN h,
           \A a \in DOMAIN h : k[a].size = h[a].size
    PROVE  Sized(k) /\ Bytes(k) = Bytes(h) /\ Bytes(h) \in Nat
  <1>1. Sized(k)
    BY DEF Sized
  <1>2. PICK g : IsSums(h, g) /\ Bytes(h) = g[DOMAIN h]
    BY BytesTable
  <1>3. PICK f : IsSums(k, f) /\ Bytes(k) = f[DOMAIN k]
    BY <1>1, BytesTable
  <1>4. g[DOMAIN h] = f[DOMAIN h]
    BY <1>1, <1>2, <1>3, SumsAgree
  <1>5. g[DOMAIN h] \in Nat
    BY <1>2, SumsStep
  <1> QED BY <1>1, <1>2, <1>3, <1>4, <1>5

\* One more segment adds its size.
LEMMA BytesAdd ==
    ASSUME NEW h, Sized(h), NEW a, a \notin DOMAIN h,
           NEW k, DOMAIN k = DOMAIN h \cup {a}, k[a].size \in Nat,
           \A b \in DOMAIN h : k[b].size = h[b].size
    PROVE  /\ Sized(k) /\ Bytes(h) \in Nat /\ Bytes(k) \in Nat
           /\ Bytes(k) = Bytes(h) + k[a].size
  <1>1. Sized(k)
    BY FS_AddElement DEF Sized
  <1>2. PICK g : IsSums(h, g) /\ Bytes(h) = g[DOMAIN h]
    BY BytesTable
  <1>3. PICK f : IsSums(k, f) /\ Bytes(k) = f[DOMAIN k]
    BY <1>1, BytesTable
  <1>4. g[DOMAIN h] = f[DOMAIN h]
    BY <1>1, <1>2, <1>3, SumsAgree
  <1>5. g[DOMAIN h] \in Nat
    BY <1>2, SumsStep
  <1>6. DOMAIN k \ {a} = DOMAIN h /\ a \in DOMAIN k
    OBVIOUS
  <1>7. f[DOMAIN k] = k[a].size + f[DOMAIN k \ {a}]
    <2>1. DOMAIN k \in SUBSET DOMAIN k
      OBVIOUS
    <2> QED BY <1>1, <1>3, <1>6, <2>1, SumsTake
  <1> QED BY <1>1, <1>2, <1>3, <1>4, <1>5, <1>6, <1>7

-----------------------------------------------------------------------------
(***************************************************************************)
(* Lists without repetition, and who holds what                            *)
(***************************************************************************)

NoRepeat(s) == \A i, j \in 1 .. Len(s) : s[i] = s[j] => i = j

\* Appending a new element.
LEMMA Appended ==
    ASSUME NEW E, NEW s \in Seq(E), NEW a \in E, a \notin Elements(s), NoRepeat(s)
    PROVE  /\ Append(s, a) \in Seq(E) /\ NoRepeat(Append(s, a))
           /\ Elements(Append(s, a)) = Elements(s) \cup {a}
           /\ Len(Append(s, a)) = Len(s) + 1
  <1>1. /\ Append(s, a) \in Seq(E) /\ Len(s) \in Nat /\ Len(Append(s, a)) = Len(s) + 1
        /\ \A i \in 1 .. Len(s) : Append(s, a)[i] = s[i]
        /\ Append(s, a)[Len(s) + 1] = a
    BY AppendProperties, LenProperties
  <1> DEFINE t == Append(s, a)
  <1>2. \A i \in 1 .. Len(t) : i \in 1 .. Len(s) \/ i = Len(s) + 1
    BY <1>1
  <1>3. \A i \in 1 .. Len(s) : s[i] # a
    BY DEF Elements
  <1> HIDE DEF t
  <1>4. t = Append(s, a)
    BY DEF t
  <1>5. NoRepeat(t)
    BY <1>1, <1>2, <1>3, <1>4 DEF NoRepeat
  <1>6. Elements(t) = Elements(s) \cup {a}
    BY <1>1, <1>2, <1>4 DEF Elements
  <1> QED BY <1>1, <1>4, <1>5, <1>6

\* Putting a new element in front.
LEMMA Prefixed ==
    ASSUME NEW E, NEW s \in Seq(E), NEW a \in E, a \notin Elements(s), NoRepeat(s)
    PROVE  /\ << a >> \o s \in Seq(E) /\ NoRepeat(<< a >> \o s)
           /\ Elements(<< a >> \o s) = Elements(s) \cup {a}
           /\ << a >> \o s # << >> /\ Head(<< a >> \o s) = a
  <1> DEFINE t == << a >> \o s
  <1>1. /\ t \in Seq(E) /\ Len(s) \in Nat /\ Len(t) = Len(s) + 1
        /\ t[1] = a /\ \A i \in 1 .. Len(s) : t[i + 1] = s[i]
    <2>1. << a >> \in Seq(E) /\ Len(<< a >>) = 1 /\ << a >>[1] = a /\ Len(s) \in Nat
      BY LenProperties
    <2> QED BY <2>1, ConcatProperties
  <1>2. \A i \in 1 .. Len(t) : i = 1 \/ (i - 1 \in 1 .. Len(s) /\ t[i] = s[i - 1])
    <2> SUFFICES ASSUME NEW i \in 1 .. Len(t), i # 1
                 PROVE  i - 1 \in 1 .. Len(s) /\ t[i] = s[i - 1]
      OBVIOUS
    <2>1. i - 1 \in 1 .. Len(s) /\ (i - 1) + 1 = i
      BY <1>1
    <2> HIDE DEF t
    <2> QED BY <1>1, <2>1
  <1>3. \A i \in 1 .. Len(s) : s[i] # a
    BY DEF Elements
  <1>4. t # << >> /\ Head(t) = a
    BY <1>1
  <1> HIDE DEF t
  <1>5. NoRepeat(t)
    <2> SUFFICES ASSUME NEW i \in 1 .. Len(t), NEW j \in 1 .. Len(t), t[i] = t[j] PROVE i = j
      BY DEF NoRepeat
    <2>1. CASE i = 1 \/ j = 1
      BY <1>1, <1>2, <1>3, <2>1
    <2>2. CASE i # 1 /\ j # 1
      <3>1. i - 1 = j - 1
        BY <1>2, <2>2 DEF NoRepeat
      <3> QED BY <3>1
    <2> QED BY <2>1, <2>2
  <1>6. \A i \in 1 .. Len(s) : i + 1 \in 1 .. Len(t)
    BY <1>1
  <1>7. 1 \in 1 .. Len(t)
    BY <1>1
  <1>8. Elements(t) = Elements(s) \cup {a}
    <2>1. ASSUME NEW x \in Elements(t) PROVE x \in Elements(s) \cup {a}
      <3>1. PICK i \in 1 .. Len(t) : x = t[i]
        BY DEF Elements
      <3> QED BY <1>1, <1>2, <3>1 DEF Elements
    <2>2. ASSUME NEW x \in Elements(s) PROVE x \in Elements(t)
      <3>1. PICK i \in 1 .. Len(s) : x = s[i]
        BY DEF Elements
      <3>2. x = t[i + 1]
        BY <1>1, <3>1
      <3> QED BY <1>6, <3>2 DEF Elements
    <2>3. a \in Elements(t)
      BY <1>1, <1>7 DEF Elements
    <2> QED BY <2>1, <2>2, <2>3
  <1> QED BY <1>1, <1>4, <1>5, <1>8 DEF t

\* Taking the last element off.
LEMMA Popped ==
    ASSUME NEW E, NEW s \in Seq(E), s # << >>, NoRepeat(s)
    PROVE  /\ Pop(s) \in Seq(E) /\ NoRepeat(Pop(s)) /\ Len(Pop(s)) = Len(s) - 1
           /\ Top(s) \in E /\ Top(s) \in Elements(s)
           /\ Elements(Pop(s)) = Elements(s) \ {Top(s)}
  <1>1. Len(s) \in Nat /\ Len(s) # 0
    BY LenProperties, EmptySeq
  <1>2. /\ Pop(s) \in Seq(E) /\ Len(Pop(s)) = Len(s) - 1
        /\ \A i \in 1 .. Len(s) - 1 : Pop(s)[i] = s[i]
    BY <1>1, SubSeqProperties, SMTT(20) DEF Pop
  <1>3. Len(s) \in 1 .. Len(s) /\ Top(s) = s[Len(s)]
    BY <1>1 DEF Top
  <1>4. Top(s) \in E /\ Top(s) \in Elements(s)
    BY <1>3, ElementOfSeq DEF Elements
  <1> DEFINE t == Pop(s)
  <1>5. \A i \in 1 .. Len(s) : i = Len(s) \/ i \in 1 .. Len(s) - 1
    BY <1>1
  <1>6. \A i \in 1 .. Len(s) - 1 : i \in 1 .. Len(s) /\ i # Len(s)
    BY <1>1
  <1> HIDE DEF t
  <1>7. Len(t) = Len(s) - 1 /\ \A i \in 1 .. Len(s) - 1 : t[i] = s[i]
    BY <1>2 DEF t
  <1>8. NoRepeat(t)
    BY <1>6, <1>7 DEF NoRepeat
  <1>9. Elements(t) = Elements(s) \ {Top(s)}
    BY <1>3, <1>5, <1>6, <1>7 DEF Elements, NoRepeat
  <1> QED BY <1>2, <1>4, <1>8, <1>9 DEF t

\* Taking the first element off.
LEMMA Unlinked ==
    ASSUME NEW E, NEW s \in Seq(E), s # << >>, NoRepeat(s)
    PROVE  /\ Tail(s) \in Seq(E) /\ NoRepeat(Tail(s))
           /\ Head(s) \in E /\ Head(s) \in Elements(s)
           /\ Elements(Tail(s)) = Elements(s) \ {Head(s)}
  <1>1. Len(s) \in Nat /\ Len(s) # 0
    BY LenProperties, EmptySeq
  <1> DEFINE t == Tail(s)
  <1>2. /\ t \in Seq(E) /\ Len(t) = Len(s) - 1
        /\ \A i \in 1 .. Len(t) : t[i] = s[i + 1]
    BY HeadTailProperties
  <1>3. 1 \in 1 .. Len(s) /\ Head(s) = s[1]
    BY <1>1
  <1>4. Head(s) \in E /\ Head(s) \in Elements(s)
    BY <1>3, ElementOfSeq DEF Elements
  <1> HIDE DEF t
  <1>5. \A i \in 1 .. Len(t) : i + 1 \in 1 .. Len(s) /\ i + 1 # 1
    BY <1>1, <1>2
  <1>6. \A i \in 1 .. Len(s) : i = 1 \/ (i - 1 \in 1 .. Len(t) /\ t[i - 1] = s[i])
    <2> SUFFICES ASSUME NEW i \in 1 .. Len(s), i # 1
                 PROVE  i - 1 \in 1 .. Len(t) /\ t[i - 1] = s[i]
      OBVIOUS
    <2>1. i - 1 \in 1 .. Len(t) /\ (i - 1) + 1 = i
      BY <1>1, <1>2
    <2> QED BY <1>2, <2>1
  <1>7. NoRepeat(t)
    <2> SUFFICES ASSUME NEW i \in 1 .. Len(t), NEW j \in 1 .. Len(t), t[i] = t[j] PROVE i = j
      BY DEF NoRepeat
    <2>1. s[i + 1] = s[j + 1]
      BY <1>2
    <2>2. i + 1 = j + 1
      BY <1>5, <2>1 DEF NoRepeat
    <2> QED BY <2>2
  <1>8. Elements(t) = Elements(s) \ {Head(s)}
    <2>1. ASSUME NEW x \in Elements(t) PROVE x \in Elements(s) \ {Head(s)}
      <3>1. PICK i \in 1 .. Len(t) : x = t[i]
        BY DEF Elements
      <3>2. x = s[i + 1] /\ i + 1 \in 1 .. Len(s) /\ i + 1 # 1
        BY <1>2, <1>5, <3>1
      <3>3. x # s[1]
        BY <1>3, <3>2 DEF NoRepeat
      <3> QED BY <1>3, <3>2, <3>3 DEF Elements
    <2>2. ASSUME NEW x \in Elements(s) \ {Head(s)} PROVE x \in Elements(t)
      <3>1. PICK i \in 1 .. Len(s) : x = s[i]
        BY DEF Elements
      <3>2. i # 1
        BY <1>3, <3>1
      <3> QED BY <1>6, <3>1, <3>2 DEF Elements
    <2> QED BY <2>1, <2>2
  <1> QED BY <1>2, <1>4, <1>7, <1>8 DEF t

\* The holders X hold the elements of U in their lists C, each element once.
HeldOnce(C, X, U) ==
  /\ \A x \in X : NoRepeat(C[x])
  /\ \A x, y \in X : x # y => Elements(C[x]) \cap Elements(C[y]) = {}
  /\ UNION {Elements(C[x]) : x \in X} = U

\* One more element, with one of the holders.
LEMMA HoldMore ==
    ASSUME NEW C, NEW X, NEW U, HeldOnce(C, X, U), NEW x \in X, NEW a, a \notin U,
           NEW D, \A y \in X : y # x => D[y] = C[y],
           NoRepeat(D[x]), Elements(D[x]) = Elements(C[x]) \cup {a}
    PROVE  HeldOnce(D, X, U \cup {a})
  <1>1. \A y \in X : a \notin Elements(C[y])
    BY DEF HeldOnce
  <1>2. \A y \in X : NoRepeat(D[y])
    BY DEF HeldOnce
  <1>3. \A y, z \in X : y # z => Elements(D[y]) \cap Elements(D[z]) = {}
    <2> SUFFICES ASSUME NEW y \in X, NEW z \in X, y # z
                 PROVE  Elements(D[y]) \cap Elements(D[z]) = {}
      OBVIOUS
    <2>1. Elements(C[y]) \cap Elements(C[z]) = {}
      BY DEF HeldOnce
    <2>2. Elements(D[y]) = Elements(C[y]) \/ y = x
      OBVIOUS
    <2>3. Elements(D[z]) = Elements(C[z]) \/ z = x
      OBVIOUS
    <2> QED BY <1>1, <2>1, <2>2, <2>3
  <1>4. UNION {Elements(D[y]) : y \in X} = U \cup {a}
    <2>1. \A b \in U : \E y \in X : b \in Elements(C[y])
      BY DEF HeldOnce
    <2>2. \A y \in X : Elements(C[y]) \subseteq U
      BY DEF HeldOnce
    <2>3. \A y \in X : Elements(C[y]) \subseteq Elements(D[y])
                       /\ Elements(D[y]) \subseteq Elements(C[y]) \cup {a}
      OBVIOUS
    <2>4. a \in Elements(D[x])
      OBVIOUS
    <2>5. ASSUME NEW b \in U \cup {a} PROVE \E y \in X : b \in Elements(D[y])
      BY <2>1, <2>3, <2>4
    <2>6. \A y \in X : Elements(D[y]) \subseteq U \cup {a}
      BY <2>2, <2>3
    <2> QED BY ONLY <2>5, <2>6
  <1> QED BY <1>2, <1>3, <1>4 DEF HeldOnce

\* One element less.
LEMMA HoldLess ==
    ASSUME NEW C, NEW X, NEW U, HeldOnce(C, X, U), NEW x \in X, NEW a \in Elements(C[x]),
           NEW D, \A y \in X : y # x => D[y] = C[y],
           NoRepeat(D[x]), Elements(D[x]) = Elements(C[x]) \ {a}
    PROVE  HeldOnce(D, X, U \ {a})
  <1>1. \A y \in X : y # x => a \notin Elements(C[y])
    BY DEF HeldOnce
  <1>2. \A y \in X : NoRepeat(D[y])
    BY DEF HeldOnce
  <1>3. \A y \in X : Elements(D[y]) = Elements(C[y]) \ {a}
    <2> SUFFICES ASSUME NEW y \in X PROVE Elements(D[y]) = Elements(C[y]) \ {a}
      OBVIOUS
    <2>1. CASE y = x
      BY <2>1
    <2>2. CASE y # x
      BY <1>1, <2>2
    <2> QED BY <2>1, <2>2
  <1>4. \A y, z \in X : y # z => Elements(D[y]) \cap Elements(D[z]) = {}
    <2> SUFFICES ASSUME NEW y \in X, NEW z \in X, y # z
                 PROVE  Elements(D[y]) \cap Elements(D[z]) = {}
      OBVIOUS
    <2>1. Elements(C[y]) \cap Elements(C[z]) = {}
      BY DEF HeldOnce
    <2> QED BY <1>3, <2>1
  <1>5. UNION {Elements(D[y]) : y \in X} = U \ {a}
    <2>1. \A b \in U : \E y \in X : b \in Elements(C[y])
      BY DEF HeldOnce
    <2>2. \A y \in X : Elements(C[y]) \subseteq U
      BY DEF HeldOnce
    <2> QED BY ONLY <1>3, <2>1, <2>2
  <1> QED BY <1>2, <1>4, <1>5 DEF HeldOnce

\* An element goes from one holder to another.
LEMMA HoldMove ==
    ASSUME NEW C, NEW X, NEW U, HeldOnce(C, X, U), NEW x \in X, NEW z \in X, x # z,
           NEW a \in Elements(C[x]),
           NEW D, \A y \in X : y # x /\ y # z => D[y] = C[y],
           NoRepeat(D[x]), Elements(D[x]) = Elements(C[x]) \ {a},
           NoRepeat(D[z]), Elements(D[z]) = Elements(C[z]) \cup {a}
    PROVE  HeldOnce(D, X, U)
  <1> DEFINE B == [y \in X |-> IF y = x THEN D[x] ELSE C[y]]
  <1>1. B[x] = D[x] /\ \A y \in X : y # x => B[y] = C[y]
    OBVIOUS
  <1> HIDE DEF B
  <1>2. HeldOnce(B, X, U \ {a})
    BY <1>1, HoldLess
  <1>3. B[z] = C[z] /\ \A y \in X : y # z => D[y] = B[y]
    BY <1>1
  <1>4. HeldOnce(D, X, (U \ {a}) \cup {a})
    BY <1>2, <1>3, HoldMore
  <1>5. a \in U
    BY DEF HeldOnce
  <1>6. (U \ {a}) \cup {a} = U
    BY <1>5
  <1> QED BY <1>4, <1>6

\* A new holder with nothing.
LEMMA HoldNew ==
    ASSUME NEW C, NEW X, NEW U, HeldOnce(C, X, U), NEW z, z \notin X,
           NEW D, \A y \in X : D[y] = C[y], D[z] = << >>
    PROVE  HeldOnce(D, X \cup {z}, U)
  <1>1. NoRepeat(D[z]) /\ Elements(D[z]) = {}
    BY DEF NoRepeat, Elements
  <1>2. \A y \in X \cup {z} : NoRepeat(D[y])
    BY <1>1 DEF HeldOnce
  <1>3. \A y, w \in X \cup {z} : y # w => Elements(D[y]) \cap Elements(D[w]) = {}
    BY <1>1 DEF HeldOnce
  <1>4. UNION {Elements(D[y]) : y \in X \cup {z}} = UNION {Elements(C[y]) : y \in X}
    BY <1>1
  <1> QED BY <1>2, <1>3, <1>4 DEF HeldOnce

\* Nothing changes.
LEMMA HoldSame ==
    ASSUME NEW C, NEW X, NEW U, HeldOnce(C, X, U), NEW D, \A y \in X : D[y] = C[y]
    PROVE  HeldOnce(D, X, U)
  <1>1. UNION {Elements(D[y]) : y \in X} = UNION {Elements(C[y]) : y \in X}
    OBVIOUS
  <1> QED BY <1>1 DEF HeldOnce

-----------------------------------------------------------------------------
(***************************************************************************)
(* The inductive invariant                                                 *)
(***************************************************************************)

SegmentRecord == [size : Nat, allocated : Nat]
RegionRecord == [live : BOOLEAN, chain : Seq(Areas), initial : 0 .. InitialSize,
                 bytesAllocated : Nat, objects : Seq(Nat)]
GrantRecord == [region : Nat, area : Areas \cup {Initial}, from : Nat, to : Nat]

\* Types of the provider's and the pool's variables.
ProviderTypes ==
  /\ segments \in [DOMAIN segments -> SegmentRecord]
  /\ DOMAIN segments \subseteq Areas /\ noAccess \subseteq DOMAIN segments
  /\ \A a \in DOMAIN segments : segments[a].allocated =< segments[a].size
  /\ debug \in BOOLEAN /\ segmentPoolSize \in Nat
  /\ currentBytes \in Nat /\ highWaterMark \in Nat
  /\ segmentStack \in Seq(Areas) /\ storedSegments = Len(segmentStack)
  /\ storedSegments =< segmentPoolSize

\* Types of the regions' variables.
RegionTypes ==
  /\ regions \in Seq(RegionRecord)
  /\ stackRegions \in Seq(Nat) /\ dying \in Seq(Nat) /\ closing \in BOOLEAN
  /\ granted \subseteq GrantRecord

\* The provider for debugging has no pool in front, and only it closes pages.
ProviderKinds == (debug => segmentPoolSize = 0) /\ (noAccess # {} => debug)

\* The pool keeps segments of the default size.
PoolSized == \A a \in Elements(segmentStack) : segments[a].size = DefaultSize

\* Every segment in use is in one list, once: the chain of a region or the pool.
SegmentsHeld == HeldOnce(Chains, 0 .. Len(regions), InUse)

\* Every live region is in one list, once: it is on the stack, being destroyed
\* (list -1), or an object of another region; a dead one has no objects.
Keepers == [x \in -1 .. Len(regions) |->
              IF x = -1 THEN dying ELSE IF x = 0 THEN stackRegions ELSE regions[x].objects]
RegionsHeld ==
  /\ HeldOnce(Keepers, -1 .. Len(regions), Live)
  /\ \A r \in 1 .. Len(regions) : ~regions[r].live => regions[r].objects = << >>

\* Memory handed out lies in what is allocated, of the region or its segment.
Inside(g, regs, segs) ==
  /\ g.region \in 1 .. Len(regs) /\ g.from =< g.to
  /\ IF g.area = Initial THEN g.to =< regs[g.region].initial
     ELSE /\ g.area \in Elements(regs[g.region].chain)
          /\ g.to =< segs[g.area].allocated
GrantsInside == \A g \in granted : Inside(g, regions, segments)

\* Memory is handed out once.
GrantsApart ==
  \A g, h \in granted :
    g # h /\ g.area = h.area /\ (g.area = Initial => g.region = h.region)
      => g.to =< h.from \/ h.to =< g.from

Inv ==
  /\ ProviderTypes
  /\ RegionTypes
  /\ ProviderKinds
  /\ PoolSized
  /\ SegmentsHeld
  /\ RegionsHeld
  /\ GrantsInside
  /\ GrantsApart
  /\ BytesExact

-----------------------------------------------------------------------------
(***************************************************************************)
(* What an allocation does                                                 *)
(***************************************************************************)

\* The rounded sizes are numbers, and a new segment has room for the request.
LEMMA Rounds ==
    /\ \A n \in Sizes : Rounded(n) \in Nat
    /\ Rounded(RegionSize) \in Nat
    /\ \A n \in Nat : ToDefault(n) \in Nat /\ n =< ToDefault(n)
  <1>1. ASSUME NEW n \in Nat, NEW d \in Nat \ {0}
        PROVE  /\ ((n + d - 1) \div d) * d \in Nat
               /\ n =< ((n + d - 1) \div d) * d
    <2> DEFINE q == (n + d - 1) \div d
    <2>1. n + d - 1 \in Nat
      OBVIOUS
    <2>2. /\ q \in Int /\ (n + d - 1) % d \in 0 .. d - 1
          /\ n + d - 1 = d * q + ((n + d - 1) % d)
      BY <2>1
    <2>3. d * q >= n /\ d * q = q * d
      BY <2>2
    <2> HIDE DEF q
    <2>4. q * d \in Int
      BY <2>2
    <2>5. q * d \in Nat /\ n =< q * d
      BY <2>3, <2>4
    <2> QED BY <2>5 DEF q
  <1>2. Round \in Nat \ {0} /\ DefaultSize \in Nat \ {0} /\ RegionSize \in Nat /\ Sizes \subseteq Nat
    BY SizesAssumption
  <1> QED BY <1>1, <1>2 DEF Rounded, ToDefault

NewGrant(r, a, from, n) == [region |-> r, area |-> a, from |-> from, to |-> from + n]

\* The segments of the provider after a change of what is allocated in one.
AllocatedIn(a, n) ==
  /\ DOMAIN segments' = DOMAIN segments /\ segments' \in [DOMAIN segments -> SegmentRecord]
  /\ segments'[a] = [size |-> segments[a].size, allocated |-> n]
  /\ \A b \in DOMAIN segments : b # a => segments'[b] = segments[b]

\* The four ways to allocate n bytes for region r: in its initial segment,
\* in the segment at the head of its chain, in one from the pool, in a new one.
InInitial(r, n) ==
  /\ regions[r].chain = << >>
  /\ regions[r].initial + n =< InitialSize
  /\ UNCHANGED << segments, noAccess, currentBytes, highWaterMark, segmentStack, storedSegments >>
  /\ granted' = granted \cup {NewGrant(r, Initial, regions[r].initial, n)}
  /\ regions'[r].chain = regions[r].chain
  /\ regions'[r].initial = regions[r].initial + n

InHead(r, n) ==
  LET a == Head(regions[r].chain)
  IN  /\ regions[r].chain # << >>
      /\ segments[a].allocated + n =< segments[a].size
      /\ AllocatedIn(a, segments[a].allocated + n)
      /\ UNCHANGED << noAccess, currentBytes, highWaterMark, segmentStack, storedSegments >>
      /\ granted' = granted \cup {NewGrant(r, a, segments[a].allocated, n)}
      /\ regions'[r].chain = regions[r].chain
      /\ regions'[r].initial = regions[r].initial

InRecycled(r, n, a) ==
  /\ segmentStack # << >> /\ a = Top(segmentStack) /\ n =< DefaultSize
  /\ AllocatedIn(a, n)
  /\ segmentStack' = Pop(segmentStack) /\ storedSegments' = storedSegments - 1
  /\ UNCHANGED << noAccess, currentBytes, highWaterMark >>
  /\ granted' = granted \cup {NewGrant(r, a, 0, n)}
  /\ regions'[r].chain = << a >> \o regions[r].chain
  /\ regions'[r].initial = regions[r].initial

InNew(r, n, a) ==
  /\ a \in Areas \ DOMAIN segments
  /\ DOMAIN segments' = DOMAIN segments \cup {a}
  /\ segments'[a] = [size |-> ToDefault(n), allocated |-> n]
  /\ \A b \in DOMAIN segments : segments'[b] = segments[b]
  /\ segments' \in [DOMAIN segments' -> SegmentRecord]
  /\ currentBytes' = currentBytes + ToDefault(n)
  /\ highWaterMark' = IF debug THEN highWaterMark ELSE Max2(currentBytes', highWaterMark)
  /\ UNCHANGED << noAccess, segmentStack, storedSegments >>
  /\ granted' = granted \cup {NewGrant(r, a, 0, n)}
  /\ regions'[r].chain = << a >> \o regions[r].chain
  /\ regions'[r].initial = regions[r].initial

\* Region r alone changes, and there may be a new region behind the others.
RegionChanges(r) ==
  /\ regions' \in Seq(RegionRecord)
  /\ \A s \in 1 .. Len(regions) : s # r => regions'[s] = regions[s]
  /\ regions'[r].live = regions[r].live
  /\ \/ /\ Len(regions') = Len(regions)
        /\ regions'[r].objects = regions[r].objects
     \/ /\ Len(regions') = Len(regions) + 1
        /\ regions'[Len(regions) + 1] = NewRegion
        /\ regions'[r].objects = Append(regions[r].objects, Len(regions) + 1)

\* An allocation of n bytes for region r.
Allocation(r, n) ==
  /\ RegionChanges(r)
  /\ \/ InInitial(r, n) \/ InHead(r, n)
     \/ \E a \in Areas : InRecycled(r, n, a) \/ InNew(r, n, a)

\* The regions are records of the types.
LEMMA RegionTyped ==
    ASSUME Inv, NEW r \in 1 .. Len(regions)
    PROVE  /\ regions[r] \in RegionRecord /\ Len(regions) \in Nat
           /\ regions[r].chain \in Seq(Areas) /\ regions[r].objects \in Seq(Nat)
           /\ regions[r].initial \in Nat /\ regions[r].initial =< InitialSize
           /\ regions[r].bytesAllocated \in Nat /\ regions[r].live \in BOOLEAN
  <1>1. regions[r] \in RegionRecord /\ Len(regions) \in Nat
    BY ElementOfSeq, LenProperties DEF Inv, RegionTypes
  <1>2. InitialSize \in Nat
    BY SizesAssumption
  <1> QED BY <1>1, <1>2 DEF RegionRecord

\* The record of a region after an allocation.
LEMMA RegionAfter ==
    ASSUME Inv, NEW r \in 1 .. Len(regions), NEW n \in Nat, NEW a \in Areas \cup {Initial},
           NEW object \in Seq(Nat),
           a = Initial /\ regions[r].chain = << >> => regions[r].initial + n =< InitialSize
    PROVE  LET q == Region(r, n, a, object)
           IN  /\ q \in RegionRecord
               /\ q.live = regions[r].live
               /\ q.objects = regions[r].objects \o object
               /\ q.chain = IF a = Initial THEN regions[r].chain ELSE << a >> \o regions[r].chain
               /\ q.initial = IF regions[r].chain = << >> /\ a = Initial
                              THEN regions[r].initial + n ELSE regions[r].initial
  <1> DEFINE p == regions[r]
             q == Region(r, n, a, object)
  <1>1. /\ p \in RegionRecord /\ p.chain \in Seq(Areas) /\ p.objects \in Seq(Nat)
        /\ p.initial \in Nat /\ p.initial =< InitialSize /\ InitialSize \in Nat
        /\ p.bytesAllocated \in Nat /\ p.live \in BOOLEAN
    BY RegionTyped, SizesAssumption
  <1> HIDE DEF p
  <1>2. q = [p EXCEPT !.bytesAllocated = @ + n,
               !.initial = IF p.chain = << >> /\ a = Initial THEN @ + n ELSE @,
               !.chain = IF a = Initial THEN @ ELSE << a >> \o @,
               !.objects = @ \o object]
    BY DEF Region, p
  <1>3. p = [live |-> p.live, chain |-> p.chain, initial |-> p.initial,
             bytesAllocated |-> p.bytesAllocated, objects |-> p.objects]
    BY <1>1 DEF RegionRecord
  <1> DEFINE i == IF p.chain = << >> /\ a = Initial THEN p.initial + n ELSE p.initial
             c == IF a = Initial THEN p.chain ELSE << a >> \o p.chain
             o == p.objects \o object
  <1>4. q = [live |-> p.live, chain |-> c, initial |-> i,
             bytesAllocated |-> p.bytesAllocated + n, objects |-> o]
    BY <1>2, <1>3
  <1>5. c \in Seq(Areas)
    <2>1. CASE a = Initial
      BY <1>1, <2>1
    <2>2. CASE a # Initial
      <3>1. << a >> \in Seq(Areas)
        BY <2>2
      <3>2. << a >> \o p.chain \in Seq(Areas)
        BY <1>1, <3>1, ConcatProperties
      <3> QED BY <2>2, <3>2
    <2> QED BY <2>1, <2>2
  <1>6. i \in 0 .. InitialSize
    BY <1>1 DEF p
  <1>7. o \in Seq(Nat) /\ p.bytesAllocated + n \in Nat
    BY <1>1, ConcatProperties
  <1> HIDE DEF i, c, o
  <1>8. q \in RegionRecord
    BY <1>1, <1>4, <1>5, <1>6, <1>7 DEF RegionRecord
  <1>9. q.live = p.live /\ q.chain = c /\ q.initial = i /\ q.objects = o
    BY <1>4
  <1> HIDE DEF q
  <1>10. /\ q \in RegionRecord /\ q.live = p.live /\ q.objects = p.objects \o object
         /\ q.chain = IF a = Initial THEN p.chain ELSE << a >> \o p.chain
         /\ q.initial = IF p.chain = << >> /\ a = Initial THEN p.initial + n ELSE p.initial
    BY <1>8, <1>9 DEF i, c, o
  <1> QED BY <1>10 DEF p, q

\* Writing the record of one region, perhaps with a new region behind.
LEMMA RegionsWritten ==
    ASSUME Inv, NEW r \in 1 .. Len(regions), NEW q \in RegionRecord, q.live = regions[r].live,
           \/ /\ regions' = [regions EXCEPT ![r] = q]
              /\ q.objects = regions[r].objects
           \/ /\ regions' = Append([regions EXCEPT ![r] = q], NewRegion)
              /\ q.objects = Append(regions[r].objects, Len(regions) + 1)
    PROVE  RegionChanges(r) /\ regions'[r] = q
  <1> DEFINE s == [regions EXCEPT ![r] = q]
  <1>1. regions \in Seq(RegionRecord) /\ Len(regions) \in Nat
    BY LenProperties DEF Inv, RegionTypes
  <1>2. /\ s \in Seq(RegionRecord) /\ Len(s) = Len(regions) /\ s[r] = q
        /\ \A i \in 1 .. Len(regions) : i # r => s[i] = regions[i]
    BY <1>1, ExceptSeq
  <1> HIDE DEF s
  <1>3. CASE regions' = s /\ q.objects = regions[r].objects
    BY <1>2, <1>3 DEF RegionChanges
  <1>4. CASE /\ regions' = Append(s, NewRegion)
             /\ q.objects = Append(regions[r].objects, Len(regions) + 1)
    <2>1. NewRegion \in RegionRecord
      BY SizesAssumption DEF NewRegion, RegionRecord
    <2>2. /\ regions' \in Seq(RegionRecord) /\ Len(regions') = Len(regions) + 1
          /\ regions'[Len(regions) + 1] = NewRegion
          /\ \A i \in 1 .. Len(regions) : regions'[i] = s[i]
      BY <1>2, <1>4, <2>1, AppendProperties
    <2> QED BY <1>2, <1>4, <2>2 DEF RegionChanges
  <1> QED BY <1>3, <1>4 DEF s

\* Writing what is allocated of a segment changes nothing else.
LEMMA AllocatedWritten ==
    ASSUME Inv, NEW a \in DOMAIN segments, NEW m \in Nat,
           segments' = [segments EXCEPT ![a].allocated = m]
    PROVE  AllocatedIn(a, m)
  <1>1. segments \in [DOMAIN segments -> SegmentRecord]
    BY DEF Inv, ProviderTypes
  <1> DEFINE q == [segments[a] EXCEPT !.allocated = m]
  <1>2. q \in SegmentRecord /\ q = [size |-> segments[a].size, allocated |-> m]
    BY <1>1 DEF SegmentRecord
  <1>3. segments' = [segments EXCEPT ![a] = q]
    OBVIOUS
  <1> HIDE DEF q
  <1>4. /\ DOMAIN segments' = DOMAIN segments /\ segments' \in [DOMAIN segments -> SegmentRecord]
        /\ segments'[a] = q /\ \A b \in DOMAIN segments : b # a => segments'[b] = segments[b]
    BY <1>1, <1>2, <1>3
  <1> QED BY <1>2, <1>4 DEF AllocatedIn

\* Allocation in the current segment is one of two ways.
LEMMA CurrentEffect ==
    ASSUME Inv, NEW r \in 1 .. Len(regions), NEW n \in Nat, AllocateCurrent(r, n),
           regions'[r].chain = regions[r].chain,
           regions'[r].initial = IF regions[r].chain = << >>
                                 THEN regions[r].initial + n ELSE regions[r].initial
    PROVE  InInitial(r, n) \/ InHead(r, n)
  <1>1. /\ regions[r].chain \in Seq(Areas) /\ regions[r].initial \in Nat /\ InitialSize \in Nat
    BY RegionTyped, SizesAssumption
  <1>2. CASE regions[r].chain = << >>
    <2>1. regions[r].initial + n =< InitialSize
      BY <1>1, <1>2 DEF AllocateCurrent, HasRoom
    <2> QED BY <1>2, <2>1 DEF AllocateCurrent, InInitial, Grant, NewGrant, segmentPool
  <1>3. CASE regions[r].chain # << >>
    <2> DEFINE a == Head(regions[r].chain)
    <2>1. a \in Elements(regions[r].chain)
      <3>1. 1 \in 1 .. Len(regions[r].chain) /\ a = regions[r].chain[1]
        BY <1>1, <1>3, LenProperties, EmptySeq
      <3> QED BY <3>1 DEF Elements
    <2>2. a \in DOMAIN segments
      <3>1. r \in 0 .. Len(regions) /\ Chains[r] = regions[r].chain
        BY RegionTyped DEF Chains
      <3> QED BY <2>1, <3>1 DEF Inv, SegmentsHeld, HeldOnce, InUse
    <2>3. segments \in [DOMAIN segments -> SegmentRecord]
      BY DEF Inv, ProviderTypes
    <2>4. segments[a].size \in Nat /\ segments[a].allocated \in Nat
          /\ segments[a] = [size |-> segments[a].size, allocated |-> segments[a].allocated]
      BY <2>2, <2>3 DEF SegmentRecord
    <2>5. /\ segments[a].size - segments[a].allocated >= n
          /\ granted' = granted \cup {NewGrant(r, a, segments[a].allocated, n)}
          /\ segments' = [segments EXCEPT ![a].allocated = @ + n]
          /\ UNCHANGED << noAccess, currentBytes, highWaterMark, segmentStack, storedSegments >>
      BY <1>3 DEF AllocateCurrent, HasRoom, Grant, NewGrant, segmentPool
    <2> HIDE DEF a
    <2>6. AllocatedIn(a, segments[a].allocated + n)
      <3>1. segments[a].allocated + n \in Nat
        BY <2>4
      <3>2. segments' = [segments EXCEPT ![a].allocated = segments[a].allocated + n]
        BY <2>5
      <3> QED BY <2>2, <3>1, <3>2, AllocatedWritten
    <2>7. segments[a].allocated + n =< segments[a].size
      BY <2>4, <2>5
    <2> QED BY <1>3, <2>5, <2>6, <2>7 DEF InHead, a
  <1> QED BY <1>2, <1>3

\* The segment on top of the pool is one of the provider's.
LEMMA PoolTop ==
    ASSUME Inv, segmentStack # << >>
    PROVE  /\ Top(segmentStack) \in InUse /\ Top(segmentStack) \in Elements(segmentStack)
           /\ NoRepeat(segmentStack) /\ segmentStack \in Seq(Areas)
           /\ Top(segmentStack) \in DOMAIN segments
  <1>1. 0 \in 0 .. Len(regions) /\ Chains[0] = segmentStack
    <2>1. Len(regions) \in Nat
      BY LenProperties DEF Inv, RegionTypes
    <2> QED BY <2>1 DEF Chains
  <1>2. NoRepeat(segmentStack) /\ Elements(segmentStack) \subseteq InUse
    BY <1>1 DEF Inv, SegmentsHeld, HeldOnce
  <1>3. segmentStack \in Seq(Areas)
    BY DEF Inv, ProviderTypes
  <1>4. Top(segmentStack) \in Elements(segmentStack)
    BY <1>2, <1>3, Popped
  <1> QED BY <1>2, <1>3, <1>4 DEF InUse

\* Allocation in a new segment is one of two ways.
LEMMA NewEffect ==
    ASSUME Inv, NEW r \in 1 .. Len(regions), NEW n \in Nat, NEW a \in Areas,
           AllocateNew(r, n, a),
           regions'[r].chain = << a >> \o regions[r].chain,
           regions'[r].initial = regions[r].initial
    PROVE  InRecycled(r, n, a) \/ InNew(r, n, a)
  <1>1. segments \in [DOMAIN segments -> SegmentRecord]
    BY DEF Inv, ProviderTypes
  <1>2. granted' = granted \cup {NewGrant(r, a, 0, n)}
    BY DEF AllocateNew, Grant, NewGrant
  <1>3. CASE FromPool(n)
    <2>1. n =< DefaultSize /\ segmentStack # << >>
      BY <1>3 DEF FromPool
    <2>2. /\ a = Top(segmentStack)
          /\ segments' = [segments EXCEPT ![a].allocated = n]
          /\ segmentStack' = Pop(segmentStack) /\ storedSegments' = storedSegments - 1
          /\ UNCHANGED << noAccess, currentBytes, highWaterMark >>
      BY <1>3 DEF AllocateNew, Recycle
    <2>3. a \in DOMAIN segments
      BY <2>1, <2>2, PoolTop
    <2>5. AllocatedIn(a, n)
      BY <2>2, <2>3, AllocatedWritten
    <2> QED BY <1>2, <2>1, <2>2, <2>5 DEF InRecycled
  <1>4. CASE ~FromPool(n)
    <2>1. /\ a \in Areas \ DOMAIN segments
          /\ segments' = [b \in DOMAIN segments \cup {a} |->
               IF b = a THEN [size |-> ToDefault(n), allocated |-> n] ELSE segments[b]]
          /\ currentBytes' = currentBytes + ToDefault(n)
          /\ highWaterMark' = IF debug THEN highWaterMark ELSE Max2(currentBytes', highWaterMark)
          /\ UNCHANGED << noAccess, segmentStack, storedSegments >>
      BY <1>4 DEF AllocateNew, ProviderRequest, SystemRequest, DebugRequest, NewSegment,
                  FreeAreas, segmentPool
    <2>2. /\ DOMAIN segments' = DOMAIN segments \cup {a}
          /\ segments'[a] = [size |-> ToDefault(n), allocated |-> n]
          /\ \A b \in DOMAIN segments : segments'[b] = segments[b]
      BY <2>1
    <2>3. [size |-> ToDefault(n), allocated |-> n] \in SegmentRecord
      BY Rounds DEF SegmentRecord
    <2>4. segments' \in [DOMAIN segments' -> SegmentRecord]
      BY <1>1, <2>1, <2>2, <2>3
    <2> HIDE DEF SegmentRecord
    <2> QED BY <1>2, <2>1, <2>2, <2>4 DEF InNew
  <1> QED BY <1>3, <1>4

\* allocate, and create of a region, are allocations.
LEMMA AllocationSteps ==
    ASSUME Inv, NEW r \in Live,
           (\E size \in Sizes : Allocate(r, size)) \/ CreateRegion(r)
    PROVE  \E n \in Nat : Allocation(r, n)
  <1>1. r \in 1 .. Len(regions) /\ Len(regions) \in Nat
    BY LenProperties DEF Live, Inv, RegionTypes
  <1>2. ASSUME NEW n \in Nat, NEW object \in Seq(Nat), NEW a \in Areas \cup {Initial},
               IF a = Initial THEN AllocateCurrent(r, n) ELSE AllocateNew(r, n, a),
               \/ /\ regions' = [regions EXCEPT ![r] = Region(r, n, a, object)]
                  /\ regions[r].objects \o object = regions[r].objects
               \/ /\ regions' = Append([regions EXCEPT ![r] = Region(r, n, a, object)], NewRegion)
                  /\ regions[r].objects \o object = Append(regions[r].objects, Len(regions) + 1)
        PROVE  Allocation(r, n)
    <2> DEFINE q == Region(r, n, a, object)
    <2>1. /\ regions[r].initial \in Nat /\ InitialSize \in Nat
      BY <1>1, RegionTyped, SizesAssumption
    <2>2. a = Initial /\ regions[r].chain = << >> => regions[r].initial + n =< InitialSize
      BY <1>2, <2>1 DEF AllocateCurrent, HasRoom
    <2>3. /\ q \in RegionRecord
          /\ q.live = regions[r].live
          /\ q.objects = regions[r].objects \o object
          /\ q.chain = IF a = Initial THEN regions[r].chain ELSE << a >> \o regions[r].chain
          /\ q.initial = IF regions[r].chain = << >> /\ a = Initial
                         THEN regions[r].initial + n ELSE regions[r].initial
      BY <1>1, <2>2, RegionAfter
    <2>4. \/ regions' = [regions EXCEPT ![r] = q] /\ q.objects = regions[r].objects
          \/ /\ regions' = Append([regions EXCEPT ![r] = q], NewRegion)
             /\ q.objects = Append(regions[r].objects, Len(regions) + 1)
      BY <1>2, <2>3
    <2> HIDE DEF q
    <2>5. RegionChanges(r) /\ regions'[r] = q
      BY <1>1, <2>3, <2>4, RegionsWritten
    <2>6. CASE a = Initial
      BY <1>1, <1>2, <2>3, <2>5, <2>6, CurrentEffect DEF Allocation
    <2>7. CASE a # Initial
      BY <1>1, <1>2, <2>3, <2>5, <2>7, NewEffect DEF Allocation
    <2> QED BY <2>6, <2>7
  <1>3. Initial \notin Areas
    BY AreasAssumption DEF Initial
  <1>4. regions[r].objects \in Seq(Nat)
    BY <1>1, RegionTyped
  <1>5. ASSUME NEW size \in Sizes, Allocate(r, size)
        PROVE  Allocation(r, Rounded(size))
    <2>1. Rounded(size) \in Nat /\ << >> \in Seq(Nat)
          /\ regions[r].objects \o << >> = regions[r].objects
      BY <1>4, Rounds, ConcatEmptySeq
    <2>2. \E a \in Areas \cup {Initial} :
            /\ IF a = Initial THEN AllocateCurrent(r, Rounded(size))
                              ELSE AllocateNew(r, Rounded(size), a)
            /\ regions' = [regions EXCEPT ![r] = Region(r, Rounded(size), a, << >>)]
      BY <1>3, <1>5 DEF Allocate
    <2> QED BY <1>2, <2>1, <2>2
  <1>6. ASSUME CreateRegion(r)
        PROVE  Allocation(r, Rounded(RegionSize))
    <2> DEFINE object == << Len(regions) + 1 >>
               n == Rounded(RegionSize)
    <2>1. n \in Nat /\ object \in Seq(Nat)
      BY <1>1, Rounds
    <2>2. regions[r].objects \o object = Append(regions[r].objects, Len(regions) + 1)
      BY <1>1, <1>4, AppendIsConcat
    <2>3. \E a \in Areas \cup {Initial} :
            /\ IF a = Initial THEN AllocateCurrent(r, n) ELSE AllocateNew(r, n, a)
            /\ regions' = Append([regions EXCEPT ![r] = Region(r, n, a, object)], NewRegion)
      BY <1>3, <1>6 DEF CreateRegion
    <2> HIDE DEF object, n
    <2>4. Allocation(r, n)
      BY <1>2, <2>1, <2>2, <2>3
    <2> QED BY <2>4 DEF n
  <1> QED BY <1>5, <1>6, Rounds

-----------------------------------------------------------------------------
(***************************************************************************)
(* Allocations keep the invariant                                          *)
(***************************************************************************)

\* A segment in a region's chain is one of the provider's, in use.
LEMMA ChainTyped ==
    ASSUME Inv, NEW r \in 1 .. Len(regions)
    PROVE  /\ regions[r].chain \in Seq(Areas) /\ NoRepeat(regions[r].chain)
           /\ Elements(regions[r].chain) \subseteq InUse
           /\ Elements(regions[r].chain) \subseteq DOMAIN segments
           /\ Elements(regions[r].chain) \cap Elements(segmentStack) = {}
           /\ \A s \in 1 .. Len(regions) :
                s # r => Elements(regions[r].chain) \cap Elements(regions[s].chain) = {}
  <1>1. Len(regions) \in Nat
    BY RegionTyped
  <1>2. /\ 0 \in 0 .. Len(regions) /\ Chains[0] = segmentStack
        /\ \A s \in 1 .. Len(regions) : s \in 0 .. Len(regions) /\ s # 0
                                        /\ Chains[s] = regions[s].chain
    BY <1>1 DEF Chains
  <1>3. HeldOnce(Chains, 0 .. Len(regions), InUse)
    BY DEF Inv, SegmentsHeld
  <1>4. NoRepeat(regions[r].chain)
    BY <1>2, <1>3 DEF HeldOnce
  <1>5. Elements(regions[r].chain) \subseteq InUse
    BY <1>2, <1>3 DEF HeldOnce
  <1>6. Elements(regions[r].chain) \cap Elements(segmentStack) = {}
    BY <1>2, <1>3 DEF HeldOnce
  <1>7. ASSUME NEW s \in 1 .. Len(regions), s # r
        PROVE  Elements(regions[r].chain) \cap Elements(regions[s].chain) = {}
    BY <1>2, <1>3, <1>7 DEF HeldOnce
  <1> QED BY <1>4, <1>5, <1>6, <1>7, RegionTyped DEF InUse

\* The head of a chain is in it.
LEMMA HeadInChain ==
    ASSUME Inv, NEW r \in 1 .. Len(regions), regions[r].chain # << >>
    PROVE  /\ Head(regions[r].chain) \in Elements(regions[r].chain)
           /\ Head(regions[r].chain) \in DOMAIN segments /\ Head(regions[r].chain) \in InUse
           /\ Head(regions[r].chain) \in Areas
  BY ChainTyped, Unlinked

\* The provider's segments are records of numbers.
LEMMA SegmentTyped ==
    ASSUME Inv, NEW a \in DOMAIN segments
    PROVE  /\ segments[a].size \in Nat /\ segments[a].allocated \in Nat
           /\ segments[a].allocated =< segments[a].size
  BY DEF Inv, ProviderTypes, SegmentRecord

\* Types of provider and pool.
LEMMA AllocationProviderTypes ==
    ASSUME Inv, NEW r \in 1 .. Len(regions), NEW n \in Nat, Allocation(r, n),
           UNCHANGED << debug, segmentPoolSize >>
    PROVE  ProviderTypes' /\ ProviderKinds'
  <1>1. /\ ProviderTypes /\ ProviderKinds
    BY DEF Inv
  <1>2. CASE InInitial(r, n)
    BY <1>1, <1>2 DEF InInitial, ProviderTypes, ProviderKinds
  <1>3. CASE InHead(r, n)
    <2> DEFINE a == Head(regions[r].chain)
    <2>1. a \in DOMAIN segments
      BY <1>3, HeadInChain DEF InHead
    <2>2. /\ segments[a].allocated + n =< segments[a].size
          /\ AllocatedIn(a, segments[a].allocated + n)
          /\ UNCHANGED << noAccess, currentBytes, highWaterMark, segmentStack, storedSegments >>
      BY <1>3 DEF InHead
    <2> HIDE DEF a
    <2>3. \A b \in DOMAIN segments : segments'[b].allocated =< segments'[b].size
      BY <1>1, <2>1, <2>2 DEF AllocatedIn, ProviderTypes
    <2> QED BY <1>1, <2>2, <2>3 DEF AllocatedIn, ProviderTypes, ProviderKinds
  <1>4. ASSUME NEW a \in Areas, InRecycled(r, n, a) PROVE ProviderTypes' /\ ProviderKinds'
    <2>1. /\ segmentStack # << >> /\ a = Top(segmentStack) /\ n =< DefaultSize
          /\ AllocatedIn(a, n)
          /\ segmentStack' = Pop(segmentStack) /\ storedSegments' = storedSegments - 1
          /\ UNCHANGED << noAccess, currentBytes, highWaterMark >>
      BY <1>4 DEF InRecycled
    <2>2. /\ a \in DOMAIN segments /\ a \in Elements(segmentStack)
          /\ NoRepeat(segmentStack) /\ segmentStack \in Seq(Areas)
      BY <2>1, PoolTop
    <2>3. Pop(segmentStack) \in Seq(Areas) /\ Len(Pop(segmentStack)) = Len(segmentStack) - 1
      BY <2>1, <2>2, Popped
    <2>4. segments[a].size = DefaultSize
      BY <2>2 DEF Inv, PoolSized
    <2>5. \A b \in DOMAIN segments : segments'[b].allocated =< segments'[b].size
      BY <1>1, <2>1, <2>4 DEF AllocatedIn, ProviderTypes
    <2>6. storedSegments' = Len(segmentStack') /\ storedSegments' =< segmentPoolSize'
      <3>1. Len(segmentStack) \in Nat /\ segmentPoolSize \in Nat /\ storedSegments = Len(segmentStack)
            /\ storedSegments =< segmentPoolSize
        BY <1>1, <2>2, LenProperties DEF ProviderTypes
      <3> QED BY <2>1, <2>3, <3>1
    <2> QED BY <1>1, <2>1, <2>3, <2>5, <2>6 DEF AllocatedIn, ProviderTypes, ProviderKinds
  <1>5. ASSUME NEW a \in Areas, InNew(r, n, a) PROVE ProviderTypes' /\ ProviderKinds'
    <2>1. /\ DOMAIN segments' = DOMAIN segments \cup {a}
          /\ segments'[a] = [size |-> ToDefault(n), allocated |-> n]
          /\ \A b \in DOMAIN segments : segments'[b] = segments[b]
          /\ segments' \in [DOMAIN segments' -> SegmentRecord]
          /\ UNCHANGED << noAccess, segmentStack, storedSegments >>
      BY <1>5 DEF InNew
    <2>2. ToDefault(n) \in Nat /\ n =< ToDefault(n)
      BY Rounds
    <2>3. \A b \in DOMAIN segments' : segments'[b].allocated =< segments'[b].size
      BY <1>1, <2>1, <2>2 DEF ProviderTypes
    <2>4. currentBytes' \in Nat
      BY <1>1, <1>5, <2>2 DEF InNew, ProviderTypes
    <2>5. highWaterMark' \in Nat
      BY <1>1, <1>5, <2>4 DEF InNew, Max2, ProviderTypes
    <2> QED BY <1>1, <2>1, <2>3, <2>4, <2>5 DEF ProviderTypes, ProviderKinds
  <1> QED BY <1>2, <1>3, <1>4, <1>5 DEF Allocation

\* The pool's segments keep the default size, and the sum of sizes is counted.
LEMMA AllocationBytes ==
    ASSUME Inv, NEW r \in 1 .. Len(regions), NEW n \in Nat, Allocation(r, n),
           UNCHANGED << debug, segmentPoolSize >>
    PROVE  PoolSized' /\ BytesExact'
  <1>1. PoolSized /\ ProviderTypes
    BY DEF Inv
  <1>2. Sized(segments)
    <2>1. IsFiniteSet(DOMAIN segments)
      BY <1>1, AreasAssumption, FS_Subset DEF ProviderTypes
    <2> QED BY <2>1, SegmentTyped DEF Sized
  <1>3. ~debug => currentBytes = Bytes(segments) /\ highWaterMark >= currentBytes
    BY SegmentBytesAreBytes DEF Inv, BytesExact
  <1>4. SegmentBytes' = Bytes(segments')
    BY SegmentBytesAfter
  <1>5. Bytes(segments) \in Nat
    BY <1>2, BytesSame
  <1>6. ASSUME NEW a \in DOMAIN segments, NEW m, AllocatedIn(a, m),
               UNCHANGED << currentBytes, highWaterMark >>,
               Elements(segmentStack') \subseteq Elements(segmentStack)
        PROVE  PoolSized' /\ BytesExact'
    <2>1. DOMAIN segments' = DOMAIN segments
          /\ \A b \in DOMAIN segments : segments'[b].size = segments[b].size
      BY <1>6 DEF AllocatedIn
    <2>2. Bytes(segments') = Bytes(segments)
      BY <1>2, <2>1, BytesSame
    <2>3. Elements(segmentStack) \subseteq DOMAIN segments
      <3>1. CASE segmentStack = << >>
        BY <3>1 DEF Elements
      <3>2. CASE segmentStack # << >>
        <4>1. Len(regions) \in Nat
          BY RegionTyped
        <4>2. 0 \in 0 .. Len(regions) /\ Chains[0] = segmentStack
          BY <4>1 DEF Chains
        <4> QED BY <4>2 DEF Inv, SegmentsHeld, HeldOnce, InUse
      <3> QED BY <3>1, <3>2
    <2>4. PoolSized'
      BY <1>1, <1>6, <2>1, <2>3 DEF PoolSized
    <2> QED BY <1>3, <1>4, <1>6, <2>2, <2>4 DEF BytesExact
  <1>7. CASE InInitial(r, n)
    <2>1. UNCHANGED << segments, currentBytes, highWaterMark, segmentStack >>
      BY <1>7 DEF InInitial
    <2> QED BY <1>1, <1>3, <1>4, <2>1 DEF PoolSized, BytesExact
  <1>8. CASE InHead(r, n)
    <2>1. Head(regions[r].chain) \in DOMAIN segments
      BY <1>8, HeadInChain DEF InHead
    <2> QED BY <1>6, <1>8, <2>1 DEF InHead
  <1>9. ASSUME NEW a \in Areas, InRecycled(r, n, a) PROVE PoolSized' /\ BytesExact'
    <2>1. /\ segmentStack # << >> /\ a = Top(segmentStack) /\ AllocatedIn(a, n)
          /\ segmentStack' = Pop(segmentStack)
          /\ UNCHANGED << currentBytes, highWaterMark >>
      BY <1>9 DEF InRecycled
    <2>2. a \in DOMAIN segments /\ NoRepeat(segmentStack) /\ segmentStack \in Seq(Areas)
      BY <2>1, PoolTop
    <2>3. Elements(segmentStack') \subseteq Elements(segmentStack)
      BY <2>1, <2>2, Popped
    <2> QED BY <1>6, <2>1, <2>2, <2>3
  <1>10. ASSUME NEW a \in Areas, InNew(r, n, a) PROVE PoolSized' /\ BytesExact'
    <2>1. /\ a \notin DOMAIN segments
          /\ DOMAIN segments' = DOMAIN segments \cup {a}
          /\ segments'[a].size = ToDefault(n)
          /\ \A b \in DOMAIN segments : segments'[b] = segments[b]
          /\ currentBytes' = currentBytes + ToDefault(n)
          /\ highWaterMark' = IF debug THEN highWaterMark ELSE Max2(currentBytes', highWaterMark)
          /\ UNCHANGED segmentStack
      BY <1>10 DEF InNew
    <2>2. ToDefault(n) \in Nat
      BY Rounds
    <2>3. Bytes(segments') = Bytes(segments) + ToDefault(n)
      BY <1>2, <2>1, <2>2, BytesAdd
    <2>4. currentBytes \in Nat /\ highWaterMark \in Nat
      BY <1>1 DEF ProviderTypes
    <2>5. Elements(segmentStack) \subseteq DOMAIN segments
      <3>1. Len(regions) \in Nat
        BY RegionTyped
      <3>2. 0 \in 0 .. Len(regions) /\ Chains[0] = segmentStack
        BY <3>1 DEF Chains
      <3> QED BY <3>2 DEF Inv, SegmentsHeld, HeldOnce, InUse
    <2>6. PoolSized'
      BY <1>1, <2>1, <2>5 DEF PoolSized
    <2>7. CASE debug
      BY <2>6, <2>7 DEF BytesExact
    <2>8. CASE ~debug
      <3>1. currentBytes' = Bytes(segments') /\ currentBytes' \in Nat
        BY <1>3, <1>5, <2>1, <2>2, <2>3, <2>8
      <3>2. highWaterMark' >= currentBytes'
        BY <2>1, <2>4, <2>8, <3>1 DEF Max2
      <3> QED BY <1>4, <2>6, <2>8, <3>1, <3>2 DEF BytesExact
    <2> QED BY <2>7, <2>8
  <1> QED BY <1>7, <1>8, <1>9, <1>10 DEF Allocation

\* The lists of segments after a step that may add a region at the end.
LEMMA ChainsAfter ==
    ASSUME Inv, regions' \in Seq(RegionRecord),
           \/ Len(regions') = Len(regions)
           \/ /\ Len(regions') = Len(regions) + 1 /\ regions'[Len(regions) + 1].chain = << >>,
           NEW U, HeldOnce(Chains', 0 .. Len(regions), U)
    PROVE  HeldOnce(Chains', 0 .. Len(regions'), U)
  <1>1. Len(regions) \in Nat
    BY LenProperties DEF Inv, RegionTypes
  <1>2. CASE Len(regions') = Len(regions)
    BY <1>2
  <1>3. CASE Len(regions') = Len(regions) + 1 /\ regions'[Len(regions) + 1].chain = << >>
    <2> DEFINE z == Len(regions) + 1
    <2>1. 0 .. Len(regions') = (0 .. Len(regions)) \cup {z} /\ z \notin 0 .. Len(regions)
      BY <1>1, <1>3
    <2>2. Chains'[z] = << >>
      BY <1>1, <1>3 DEF Chains
    <2> HIDE DEF z
    <2>3. HeldOnce(Chains', (0 .. Len(regions)) \cup {z}, U)
      BY <2>1, <2>2, HoldNew
    <2> QED BY <2>1, <2>3
  <1> QED BY <1>2, <1>3

\* An allocation gives the region at most one segment, from the pool or new.
LEMMA AllocationHolds ==
    ASSUME Inv, NEW r \in 1 .. Len(regions), NEW n \in Nat, Allocation(r, n)
    PROVE  SegmentsHeld'
  <1> DEFINE X == 0 .. Len(regions)
  <1>1. /\ Len(regions) \in Nat /\ Len(regions') \in Nat /\ Len(regions') >= Len(regions)
        /\ RegionChanges(r)
    BY RegionTyped, LenProperties DEF Allocation, RegionChanges
  <1>2. HeldOnce(Chains, X, InUse)
    BY DEF Inv, SegmentsHeld
  <1>3. /\ 0 \in X /\ r \in X /\ r # 0
        /\ Chains[0] = segmentStack /\ Chains[r] = regions[r].chain
    BY <1>1 DEF Chains
  <1>4. Chains'[0] = segmentStack' /\ Chains'[r] = regions'[r].chain
    BY <1>1 DEF Chains
  <1>5. \A s \in X : s # 0 /\ s # r => Chains'[s] = Chains[s]
    BY <1>1 DEF Chains, RegionChanges
  <1>6. ASSUME segmentStack' = segmentStack, regions'[r].chain = regions[r].chain,
               DOMAIN segments' = DOMAIN segments, noAccess' = noAccess
        PROVE  HeldOnce(Chains', X, InUse')
    <2>1. \A s \in X : Chains'[s] = Chains[s]
      BY <1>3, <1>4, <1>5, <1>6
    <2>2. InUse' = InUse
      BY <1>6 DEF InUse
    <2>3. HeldOnce(Chains', X, InUse)
      BY <1>2, <2>1, HoldSame
    <2> QED BY <2>2, <2>3
  <1>7. ASSUME InInitial(r, n) PROVE HeldOnce(Chains', X, InUse')
    BY <1>6, <1>7 DEF InInitial
  <1>8. ASSUME InHead(r, n) PROVE HeldOnce(Chains', X, InUse')
    BY <1>6, <1>8 DEF InHead, AllocatedIn
  <1>9. ASSUME NEW a \in Areas, InRecycled(r, n, a) PROVE HeldOnce(Chains', X, InUse')
    <2>1. /\ segmentStack # << >> /\ a = Top(segmentStack)
          /\ segmentStack' = Pop(segmentStack)
          /\ regions'[r].chain = << a >> \o regions[r].chain
          /\ DOMAIN segments' = DOMAIN segments /\ noAccess' = noAccess
      BY <1>9 DEF InRecycled, AllocatedIn
    <2>2. a \in Elements(segmentStack) /\ NoRepeat(segmentStack) /\ segmentStack \in Seq(Areas)
      BY <2>1, PoolTop
    <2>3. NoRepeat(Pop(segmentStack)) /\ Elements(Pop(segmentStack)) = Elements(segmentStack) \ {a}
      BY <2>1, <2>2, Popped
    <2>4. a \notin Elements(regions[r].chain)
      BY <2>2, ChainTyped
    <2>5. /\ NoRepeat(<< a >> \o regions[r].chain)
          /\ Elements(<< a >> \o regions[r].chain) = Elements(regions[r].chain) \cup {a}
      BY <2>4, ChainTyped, Prefixed
    <2>6. /\ NoRepeat(Chains'[0]) /\ Elements(Chains'[0]) = Elements(Chains[0]) \ {a}
          /\ NoRepeat(Chains'[r]) /\ Elements(Chains'[r]) = Elements(Chains[r]) \cup {a}
          /\ a \in Elements(Chains[0])
      BY <1>3, <1>4, <2>1, <2>2, <2>3, <2>5
    <2> DEFINE z == 0
    <2>7. HeldOnce(Chains', X, InUse)
      <3>1. z \in X /\ r \in X /\ z # r
        BY <1>3
      <3>2. \A s \in X : s # z /\ s # r => Chains'[s] = Chains[s]
        BY <1>5
      <3>3. /\ NoRepeat(Chains'[z]) /\ Elements(Chains'[z]) = Elements(Chains[z]) \ {a}
            /\ NoRepeat(Chains'[r]) /\ Elements(Chains'[r]) = Elements(Chains[r]) \cup {a}
            /\ a \in Elements(Chains[z])
        BY <2>6
      <3> HIDE DEF X, z
      <3> QED BY ONLY <1>2, <3>1, <3>2, <3>3, HoldMove
    <2> HIDE DEF X
    <2>8. InUse' = InUse
      BY <2>1 DEF InUse
    <2> QED BY <2>7, <2>8
  <1>10. ASSUME NEW a \in Areas, InNew(r, n, a) PROVE HeldOnce(Chains', X, InUse')
    <2>1. /\ a \notin DOMAIN segments /\ DOMAIN segments' = DOMAIN segments \cup {a}
          /\ noAccess' = noAccess /\ segmentStack' = segmentStack
          /\ regions'[r].chain = << a >> \o regions[r].chain
      BY <1>10 DEF InNew
    <2>2. a \notin InUse
      BY <2>1 DEF InUse
    <2>3. a \notin Elements(regions[r].chain)
      BY <2>2, ChainTyped
    <2>4. /\ NoRepeat(<< a >> \o regions[r].chain)
          /\ Elements(<< a >> \o regions[r].chain) = Elements(regions[r].chain) \cup {a}
      BY <2>3, ChainTyped, Prefixed
    <2>5. /\ NoRepeat(Chains'[r]) /\ Elements(Chains'[r]) = Elements(Chains[r]) \cup {a}
          /\ \A s \in X : s # r => Chains'[s] = Chains[s]
      BY <1>3, <1>4, <1>5, <2>1, <2>4
    <2> HIDE DEF X
    <2>6. HeldOnce(Chains', X, InUse \cup {a})
      BY <1>2, <1>3, <2>2, <2>5, HoldMore
    <2>7. InUse' = InUse \cup {a}
      BY <2>1 DEF InUse, Inv, ProviderTypes
    <2> QED BY <2>6, <2>7
  <1>11. HeldOnce(Chains', X, InUse')
    BY <1>7, <1>6, <1>8, <1>9, <1>10 DEF Allocation
  <1>12. \/ Len(regions') = Len(regions)
         \/ Len(regions') = Len(regions) + 1 /\ regions'[Len(regions) + 1].chain = << >>
    BY <1>1 DEF RegionChanges, NewRegion
  <1>13. regions' \in Seq(RegionRecord)
    BY <1>1 DEF RegionChanges
  <1> QED BY <1>11, <1>12, <1>13, ChainsAfter DEF SegmentsHeld

\* A region created inside another is an object of it.
LEMMA AllocationRegions ==
    ASSUME Inv, NEW r \in Live, RegionChanges(r), UNCHANGED << stackRegions, dying >>
    PROVE  RegionsHeld'
  <1> DEFINE X == -1 .. Len(regions)
             z == Len(regions) + 1
  <1>1. /\ r \in 1 .. Len(regions) /\ Len(regions) \in Nat /\ Len(regions') \in Nat
        /\ Len(regions') >= Len(regions)
    BY LenProperties DEF Live, Inv, RegionTypes, RegionChanges
  <1>2. HeldOnce(Keepers, X, Live)
    BY DEF Inv, RegionsHeld
  <1>3. r \in X /\ r # 0 /\ r # -1 /\ Keepers[r] = regions[r].objects
    BY <1>1 DEF Keepers
  <1>4. Keepers'[r] = regions'[r].objects /\ \A s \in X : s # r => Keepers'[s] = Keepers[s]
    BY <1>1 DEF Keepers, RegionChanges
  <1>5. \A s \in 1 .. Len(regions) : regions'[s].live = regions[s].live
    BY DEF RegionChanges
  <1>6. regions[r].live
    BY DEF Live
  <1>7. CASE Len(regions') = Len(regions) /\ regions'[r].objects = regions[r].objects
    <2>1. \A s \in X : Keepers'[s] = Keepers[s]
      BY <1>3, <1>4, <1>7
    <2>2. HeldOnce(Keepers', X, Live)
      BY <1>2, <2>1, HoldSame
    <2>3. Live' = Live
      BY <1>5, <1>7 DEF Live
    <2>4. \A s \in 1 .. Len(regions) : ~regions'[s].live => regions'[s].objects = << >>
      BY <1>5, <1>6 DEF RegionChanges, Inv, RegionsHeld
    <2> QED BY <1>7, <2>2, <2>3, <2>4 DEF RegionsHeld
  <1>8. CASE /\ Len(regions') = z /\ regions'[z] = NewRegion
             /\ regions'[r].objects = Append(regions[r].objects, z)
    <2>1. z \notin Live /\ z \notin X /\ z \in Nat
      BY <1>1 DEF Live
    <2>2. z \notin Elements(regions[r].objects) /\ NoRepeat(regions[r].objects)
      BY <1>2, <1>3, <2>1 DEF HeldOnce
    <2>3. regions[r].objects \in Seq(Nat)
      BY <1>1, RegionTyped
    <2>4. /\ NoRepeat(Keepers'[r]) /\ Elements(Keepers'[r]) = Elements(Keepers[r]) \cup {z}
      BY <1>3, <1>4, <1>8, <2>1, <2>2, <2>3, Appended
    <2>5. Keepers'[z] = << >> /\ NewRegion.live
      BY <1>1, <1>8 DEF Keepers, NewRegion
    <2>6. -1 .. Len(regions') = X \cup {z}
      BY <1>1, <1>8
    <2>7. Live' = Live \cup {z}
      <3>1. 1 .. Len(regions') = (1 .. Len(regions)) \cup {z} /\ z \notin 1 .. Len(regions)
        BY <1>1, <1>8
      <3>2. regions'[z].live
        BY <1>8, <2>5
      <3> HIDE DEF z
      <3> QED BY <1>5, <3>1, <3>2 DEF Live
    <2>8. ASSUME NEW s \in 1 .. Len(regions'), ~regions'[s].live PROVE regions'[s].objects = << >>
      <3>1. s \in 1 .. Len(regions) /\ s # r
        <4>1. s # z
          BY <1>8, <2>5, <2>8
        <4>2. s \in 1 .. Len(regions)
          BY <1>1, <1>8, <2>8, <4>1
        <4> QED BY <1>5, <1>6, <2>8, <4>2
      <3> QED BY <1>5, <2>8, <3>1 DEF RegionChanges, Inv, RegionsHeld
    <2> HIDE DEF X, z
    <2>9. HeldOnce(Keepers', X, Live \cup {z})
      BY <1>2, <1>3, <1>4, <2>1, <2>4, HoldMore
    <2>10. HeldOnce(Keepers', X \cup {z}, Live \cup {z})
      BY <2>1, <2>5, <2>9, HoldNew
    <2> QED BY <2>6, <2>7, <2>8, <2>10 DEF RegionsHeld
  <1> QED BY <1>7, <1>8 DEF RegionChanges

\* Memory handed out by an allocation.
LEMMA GrantTyped ==
    ASSUME NEW r \in Nat, NEW a \in Areas \cup {Initial}, NEW from \in Nat, NEW n \in Nat
    PROVE  LET g == NewGrant(r, a, from, n)
           IN  /\ g \in GrantRecord /\ g.region = r /\ g.area = a
               /\ g.from = from /\ g.to = from + n /\ g.from =< g.to
  BY DEF NewGrant, GrantRecord

\* One more grant, behind the others of its place.
LEMMA OneGrantMore ==
    ASSUME Inv, NEW new \in GrantRecord, granted' = granted \cup {new},
           \A g \in granted : Inside(g, regions', segments'), Inside(new, regions', segments'),
           \A g \in granted :
             g.area = new.area /\ (g.area = Initial => g.region = new.region)
               => g.to =< new.from
    PROVE  GrantsInside' /\ GrantsApart' /\ granted' \subseteq GrantRecord
  <1>1. GrantsInside'
    BY DEF GrantsInside
  <1>2. GrantsApart'
    BY DEF Inv, GrantsApart
  <1>3. granted' \subseteq GrantRecord
    BY DEF Inv, RegionTypes
  <1> QED BY <1>1, <1>2, <1>3

\* The grants there are stay inside if what they lie in does not shrink.
LEMMA OldGrants ==
    ASSUME Inv, Len(regions') \in Nat, Len(regions') >= Len(regions),
           \A s \in 1 .. Len(regions) :
             /\ regions[s].initial =< regions'[s].initial /\ regions'[s].initial \in Nat
             /\ Elements(regions[s].chain) \subseteq Elements(regions'[s].chain)
             /\ \A b \in Elements(regions[s].chain) :
                  /\ segments[b].allocated =< segments'[b].allocated
                  /\ segments'[b].allocated \in Nat
    PROVE  \A g \in granted : Inside(g, regions', segments')
  <1> SUFFICES ASSUME NEW g \in granted PROVE Inside(g, regions', segments')
    OBVIOUS
  <1>1. g \in GrantRecord /\ Inside(g, regions, segments)
    BY DEF Inv, RegionTypes, GrantsInside
  <1> DEFINE s == g.region
  <1>2. s \in 1 .. Len(regions) /\ g.from =< g.to /\ g.from \in Nat /\ g.to \in Nat
    BY <1>1 DEF Inside, GrantRecord
  <1>3. Len(regions) \in Nat /\ regions[s].initial \in Nat
    BY <1>2, RegionTyped
  <1>4. s \in 1 .. Len(regions')
    BY <1>2, <1>3
  <1>5. CASE g.area = Initial
    <2>1. g.to =< regions[s].initial
      BY <1>1, <1>5 DEF Inside
    <2>2. regions[s].initial =< regions'[s].initial /\ regions'[s].initial \in Nat
      BY <1>2
    <2>3. g.to =< regions'[s].initial
      BY <1>2, <1>3, <2>1, <2>2
    <2> QED BY <1>2, <1>4, <1>5, <2>3 DEF Inside
  <1>6. CASE g.area # Initial
    <2>1. g.area \in Elements(regions[s].chain) /\ g.to =< segments[g.area].allocated
      BY <1>1, <1>6 DEF Inside
    <2>2. segments[g.area].allocated \in Nat
      BY <1>2, <2>1, ChainTyped, SegmentTyped
    <2>3. /\ segments[g.area].allocated =< segments'[g.area].allocated
          /\ segments'[g.area].allocated \in Nat /\ g.area \in Elements(regions'[s].chain)
      BY <1>2, <2>1
    <2>4. g.to =< segments'[g.area].allocated
      BY <1>2, <2>1, <2>2, <2>3
    <2> QED BY <1>2, <1>4, <1>6, <2>3, <2>4 DEF Inside
  <1> QED BY <1>5, <1>6

\* An allocation hands out memory that nobody has.
LEMMA AllocationGrants ==
    ASSUME Inv, NEW r \in 1 .. Len(regions), NEW n \in Nat, Allocation(r, n)
    PROVE  GrantsInside' /\ GrantsApart' /\ granted' \subseteq GrantRecord
  <1>1. /\ Len(regions) \in Nat /\ Len(regions') \in Nat /\ Len(regions') >= Len(regions)
        /\ r \in Nat /\ r \in 1 .. Len(regions') /\ RegionChanges(r)
    BY RegionTyped, LenProperties DEF Allocation, RegionChanges
  <1>2. \A s \in 1 .. Len(regions) :
          /\ regions[s].initial \in Nat
          /\ s # r => regions'[s] = regions[s]
    BY <1>1, RegionTyped DEF RegionChanges
  <1>3. /\ \A g \in granted : g \in GrantRecord /\ Inside(g, regions, segments)
    BY DEF Inv, RegionTypes, GrantsInside
  <1>4. Initial \notin Areas
    BY AreasAssumption DEF Initial
  <1>5. \A b \in DOMAIN segments : segments[b].allocated \in Nat
    BY SegmentTyped
  <1>6. \A s \in 1 .. Len(regions) : Elements(regions[s].chain) \subseteq DOMAIN segments
    BY ChainTyped
  <1>7. CASE InInitial(r, n)
    <2> DEFINE new == NewGrant(r, Initial, regions[r].initial, n)
    <2>1. /\ new \in GrantRecord /\ new.region = r /\ new.area = Initial
          /\ new.from = regions[r].initial /\ new.to = regions[r].initial + n
          /\ new.from =< new.to
      BY <1>1, <1>2, GrantTyped
    <2>2. /\ granted' = granted \cup {new} /\ segments' = segments
          /\ regions'[r].chain = regions[r].chain
          /\ regions'[r].initial = regions[r].initial + n
      BY <1>7 DEF InInitial
    <2> HIDE DEF new
    <2>3. \A g \in granted : Inside(g, regions', segments')
      <3>1. \A s \in 1 .. Len(regions) :
             /\ regions[s].initial =< regions'[s].initial /\ regions'[s].initial \in Nat
             /\ Elements(regions[s].chain) \subseteq Elements(regions'[s].chain)
        BY <1>2, <2>2
      <3>2. \A b \in DOMAIN segments : /\ segments[b].allocated =< segments'[b].allocated
                                       /\ segments'[b].allocated \in Nat
        BY <1>5, <2>2
      <3> QED BY <1>1, <1>6, <3>1, <3>2, OldGrants
    <2>4. Inside(new, regions', segments')
      BY <1>1, <1>2, <2>1, <2>2 DEF Inside
    <2>5. ASSUME NEW g \in granted, g.area = new.area, g.area = Initial => g.region = new.region
          PROVE  g.to =< new.from
      BY <1>3, <2>1, <2>5 DEF Inside
    <2> QED BY <2>1, <2>2, <2>3, <2>4, <2>5, OneGrantMore
  <1>8. CASE InHead(r, n)
    <2> DEFINE a == Head(regions[r].chain)
               new == NewGrant(r, a, segments[a].allocated, n)
    <2>1. a \in Elements(regions[r].chain) /\ a \in DOMAIN segments /\ a \in Areas
      BY <1>8, HeadInChain DEF InHead
    <2>2. /\ new \in GrantRecord /\ new.region = r /\ new.area = a
          /\ new.from = segments[a].allocated /\ new.to = segments[a].allocated + n
          /\ new.from =< new.to
      BY <1>1, <1>5, <2>1, GrantTyped
    <2>3. /\ granted' = granted \cup {new} /\ AllocatedIn(a, segments[a].allocated + n)
          /\ regions'[r].chain = regions[r].chain
          /\ regions'[r].initial = regions[r].initial
      BY <1>8 DEF InHead
    <2> HIDE DEF new, a
    <2>4. /\ segments'[a].allocated = segments[a].allocated + n
          /\ \A b \in DOMAIN segments : b # a => segments'[b] = segments[b]
      BY <2>3 DEF AllocatedIn
    <2>5. \A g \in granted : Inside(g, regions', segments')
      <3>1. \A s \in 1 .. Len(regions) :
             /\ regions[s].initial =< regions'[s].initial /\ regions'[s].initial \in Nat
             /\ Elements(regions[s].chain) \subseteq Elements(regions'[s].chain)
        BY <1>2, <2>3
      <3>2. \A b \in DOMAIN segments : /\ segments[b].allocated =< segments'[b].allocated
                                       /\ segments'[b].allocated \in Nat
        BY <1>5, <2>1, <2>4
      <3> QED BY <1>1, <1>6, <3>1, <3>2, OldGrants
    <2>6. Inside(new, regions', segments')
      BY <1>1, <1>4, <1>5, <2>1, <2>2, <2>3, <2>4 DEF Inside
    <2>7. ASSUME NEW g \in granted, g.area = new.area PROVE g.to =< new.from
      BY <1>3, <1>4, <2>1, <2>2, <2>7 DEF Inside
    <2> QED BY <2>2, <2>3, <2>5, <2>6, <2>7, OneGrantMore
  <1>9. ASSUME NEW a \in Areas,
               granted' = granted \cup {NewGrant(r, a, 0, n)},
               segments'[a].allocated = n,
               \A b \in DOMAIN segments : b # a => segments'[b] = segments[b],
               \A s \in 1 .. Len(regions) : a \notin Elements(regions[s].chain),
               regions'[r].chain = << a >> \o regions[r].chain,
               regions'[r].initial = regions[r].initial
        PROVE  GrantsInside' /\ GrantsApart' /\ granted' \subseteq GrantRecord
    <2> DEFINE new == NewGrant(r, a, 0, n)
    <2>1. /\ new \in GrantRecord /\ new.region = r /\ new.area = a
          /\ new.from = 0 /\ new.to = n /\ new.from =< new.to
      <3>1. /\ new \in GrantRecord /\ new.region = r /\ new.area = a
            /\ new.from = 0 /\ new.to = 0 + n /\ new.from =< new.to
        BY <1>1, GrantTyped
      <3> HIDE DEF new
      <3> QED BY <3>1
    <2>2. granted' = granted \cup {new}
      BY <1>9
    <2> HIDE DEF new
    <2>0. regions'[r].initial = regions[r].initial /\ segments'[a].allocated = n
      BY <1>9
    <2>3. Elements(regions'[r].chain) = Elements(regions[r].chain) \cup {a}
      BY <1>9, ChainTyped, Prefixed
    <2>4. \A g \in granted : Inside(g, regions', segments')
      <3>1. \A s \in 1 .. Len(regions) :
             /\ regions[s].initial =< regions'[s].initial /\ regions'[s].initial \in Nat
             /\ Elements(regions[s].chain) \subseteq Elements(regions'[s].chain)
        <4> SUFFICES ASSUME NEW s \in 1 .. Len(regions)
                     PROVE  /\ regions[s].initial =< regions'[s].initial
                            /\ regions'[s].initial \in Nat
                            /\ Elements(regions[s].chain) \subseteq Elements(regions'[s].chain)
          OBVIOUS
        <4>1. CASE s = r
          <5>1. regions[r].initial =< regions'[r].initial /\ regions'[r].initial \in Nat
            BY ONLY <1>2, <2>0, r \in 1 .. Len(regions)
          <5>2. Elements(regions[r].chain) \subseteq Elements(regions'[r].chain)
            BY ONLY <2>3
          <5> QED BY ONLY <4>1, <5>1, <5>2
        <4>2. CASE s # r
          BY <1>2, <4>2
        <4> QED BY <4>1, <4>2
      <3>2. \A s \in 1 .. Len(regions) : \A b \in Elements(regions[s].chain) :
              /\ segments[b].allocated =< segments'[b].allocated
              /\ segments'[b].allocated \in Nat
        BY <1>5, <1>6, <1>9
      <3> QED BY <1>1, <3>1, <3>2, OldGrants
    <2>5. Inside(new, regions', segments')
      BY ONLY <1>1, <1>4, <2>0, <2>1, <2>3, a \in Areas, n \in Nat DEF Inside
    <2>6. \A g \in granted : g.area # new.area
      BY <1>3, <1>4, <1>9, <2>1 DEF Inside
    <2> QED BY <2>1, <2>2, <2>4, <2>5, <2>6, OneGrantMore
  <1>10. ASSUME NEW a \in Areas, InRecycled(r, n, a)
         PROVE  GrantsInside' /\ GrantsApart' /\ granted' \subseteq GrantRecord
    <2>1. segmentStack # << >> /\ a = Top(segmentStack) /\ AllocatedIn(a, n)
      BY <1>10 DEF InRecycled
    <2>2. a \in Elements(segmentStack)
      BY <2>1, PoolTop
    <2>3. \A s \in 1 .. Len(regions) : a \notin Elements(regions[s].chain)
      BY <2>2, ChainTyped
    <2> QED BY <1>9, <1>10, <2>1, <2>3 DEF InRecycled, AllocatedIn
  <1>11. ASSUME NEW a \in Areas, InNew(r, n, a)
         PROVE  GrantsInside' /\ GrantsApart' /\ granted' \subseteq GrantRecord
    <2>1. a \notin DOMAIN segments
      BY <1>11 DEF InNew
    <2>2. \A s \in 1 .. Len(regions) : a \notin Elements(regions[s].chain)
      BY <1>6, <2>1
    <2> QED BY <1>9, <1>11, <2>2 DEF InNew
  <1> QED BY <1>7, <1>8, <1>10, <1>11 DEF Allocation

\* Allocations keep the whole invariant.
LEMMA AllocationKeeps ==
    ASSUME Inv, NEW r \in Live,
           (\E size \in Sizes : Allocate(r, size)) \/ CreateRegion(r),
           UNCHANGED options
    PROVE  Inv'
  <1>1. PICK n \in Nat : Allocation(r, n)
    BY AllocationSteps
  <1>2. UNCHANGED << debug, segmentPoolSize, stackRegions, dying, closing >>
    BY DEF options, Allocate, CreateRegion
  <1>3. r \in 1 .. Len(regions)
    BY DEF Live
  <1>4. RegionTypes'
    <2>1. granted' \subseteq GrantRecord
      BY <1>1, <1>3, AllocationGrants
    <2>2. regions' \in Seq(RegionRecord)
      BY <1>1 DEF Allocation, RegionChanges
    <2> QED BY <1>2, <2>1, <2>2 DEF Inv, RegionTypes
  <1>5. ProviderTypes' /\ ProviderKinds'
    BY <1>1, <1>2, <1>3, AllocationProviderTypes
  <1>6. PoolSized' /\ BytesExact'
    BY <1>1, <1>2, <1>3, AllocationBytes
  <1>7. SegmentsHeld'
    BY <1>1, <1>3, AllocationHolds
  <1>8. RegionsHeld'
    BY <1>1, <1>2, AllocationRegions DEF Allocation
  <1>9. GrantsInside' /\ GrantsApart'
    BY <1>1, <1>3, AllocationGrants
  <1> QED BY <1>4, <1>5, <1>6, <1>7, <1>8, <1>9 DEF Inv

-----------------------------------------------------------------------------
(***************************************************************************)
(* Stack regions and destructors keep the invariant                        *)
(***************************************************************************)

\* A step that leaves provider and pool alone.
LEMMA QuietProvider ==
    ASSUME Inv, UNCHANGED << options, provider, segmentPool >>
    PROVE  /\ ProviderTypes' /\ ProviderKinds' /\ PoolSized' /\ BytesExact'
           /\ InUse' = InUse
  <1>1. /\ UNCHANGED << debug, segmentPoolSize, segments, noAccess, currentBytes, highWaterMark >>
        /\ UNCHANGED << segmentStack, storedSegments >>
    BY DEF options, provider, segmentPool
  <1>2. SegmentBytes' = SegmentBytes
    BY <1>1, SegmentBytesAreBytes, SegmentBytesAfter
  <1>3. ProviderTypes' /\ ProviderKinds' /\ PoolSized'
    BY <1>1 DEF Inv, ProviderTypes, ProviderKinds, PoolSized
  <1> QED BY <1>1, <1>2, <1>3 DEF Inv, BytesExact, InUse

\* The region being destroyed is live.
LEMMA DyingTop ==
    ASSUME Inv, dying # << >>
    PROVE  /\ Top(dying) \in Live /\ Top(dying) \in 1 .. Len(regions)
           /\ regions[Top(dying)].live
           /\ dying \in Seq(Nat) /\ NoRepeat(dying)
           /\ Top(dying) \in Elements(dying)
  <1>1. -1 \in -1 .. Len(regions) /\ Keepers[-1] = dying
    <2>1. Len(regions) \in Nat
      BY LenProperties DEF Inv, RegionTypes
    <2> QED BY <2>1 DEF Keepers
  <1>2. NoRepeat(dying) /\ Elements(dying) \subseteq Live
    BY <1>1 DEF Inv, RegionsHeld, HeldOnce
  <1>3. dying \in Seq(Nat)
    BY DEF Inv, RegionTypes
  <1>4. Top(dying) \in Elements(dying)
    BY <1>2, <1>3, Popped
  <1> QED BY <1>2, <1>3, <1>4 DEF Live

\* Writing one record of the regions.
LEMMA RecordWritten ==
    ASSUME Inv, NEW r \in 1 .. Len(regions), NEW q \in RegionRecord,
           regions' = [regions EXCEPT ![r] = q]
    PROVE  /\ regions' \in Seq(RegionRecord) /\ Len(regions') = Len(regions)
           /\ Len(regions) \in Nat
           /\ regions'[r] = q /\ \A s \in 1 .. Len(regions) : s # r => regions'[s] = regions[s]
  <1>1. regions \in Seq(RegionRecord) /\ Len(regions) \in Nat
    BY LenProperties DEF Inv, RegionTypes
  <1> QED BY <1>1, ExceptSeq

\* If chains and segments stay, so do the grants.
LEMMA QuietGrants ==
    ASSUME Inv, Len(regions') \in Nat, Len(regions') >= Len(regions),
           \A s \in 1 .. Len(regions) : /\ regions'[s].chain = regions[s].chain
                                        /\ regions'[s].initial = regions[s].initial,
           UNCHANGED << segments, granted >>
    PROVE  GrantsInside' /\ GrantsApart'
  <1>1. \A s \in 1 .. Len(regions) : regions[s].initial \in Nat
    BY RegionTyped
  <1>2. \A s \in 1 .. Len(regions) : \A b \in Elements(regions[s].chain) :
          segments[b].allocated \in Nat
    BY ChainTyped, SegmentTyped
  <1>3. \A g \in granted : Inside(g, regions', segments')
    BY <1>1, <1>2, OldGrants
  <1> QED BY <1>3 DEF GrantsInside, GrantsApart, Inv

\* The constructor of a stack region.
LEMMA EnterKeeps ==
    ASSUME Inv, EnterStackRegion, UNCHANGED options
    PROVE  Inv'
  <1> DEFINE z == Len(regions) + 1
             X == -1 .. Len(regions)
  <1>1. /\ regions' = Append(regions, NewRegion) /\ stackRegions' = Append(stackRegions, z)
        /\ UNCHANGED << options, provider, segmentPool, dying, closing, granted >>
        /\ UNCHANGED << segments, segmentStack >>
    BY DEF EnterStackRegion, provider, segmentPool
  <1>2. regions \in Seq(RegionRecord) /\ Len(regions) \in Nat /\ stackRegions \in Seq(Nat)
    BY LenProperties DEF Inv, RegionTypes
  <1>3. NewRegion \in RegionRecord /\ NewRegion.chain = << >> /\ NewRegion.live
        /\ NewRegion.objects = << >>
    BY SizesAssumption DEF NewRegion, RegionRecord
  <1>4. /\ regions' \in Seq(RegionRecord) /\ Len(regions') = z
        /\ regions'[z] = NewRegion
        /\ \A i \in 1 .. Len(regions) : regions'[i] = regions[i]
    BY <1>1, <1>2, <1>3, AppendProperties
  <1>5. ProviderTypes' /\ ProviderKinds' /\ PoolSized' /\ BytesExact' /\ InUse' = InUse
    BY <1>1, QuietProvider
  <1>6. GrantsInside' /\ GrantsApart'
    BY <1>1, <1>2, <1>4, QuietGrants
  <1>7. SegmentsHeld'
    <2>1. \A s \in 0 .. Len(regions) : Chains'[s] = Chains[s]
      BY <1>1, <1>2, <1>4 DEF Chains
    <2>2. HeldOnce(Chains', 0 .. Len(regions), InUse')
      BY <1>5, <2>1, HoldSame DEF Inv, SegmentsHeld
    <2> QED BY <1>3, <1>4, <2>2, ChainsAfter DEF SegmentsHeld
  <1>8. RegionsHeld' /\ stackRegions' \in Seq(Nat)
    <2>1. HeldOnce(Keepers, X, Live)
      BY DEF Inv, RegionsHeld
    <2>2. z \notin Live /\ z \notin X /\ z \in Nat /\ 0 \in X
      BY <1>2 DEF Live
    <2>3. Keepers[0] = stackRegions /\ Keepers'[0] = stackRegions'
          /\ \A s \in X : s # 0 => Keepers'[s] = Keepers[s]
      BY <1>1, <1>2, <1>4 DEF Keepers
    <2>4. z \notin Elements(stackRegions) /\ NoRepeat(stackRegions)
      BY <2>1, <2>2, <2>3 DEF HeldOnce
    <2>5. /\ NoRepeat(stackRegions') /\ Elements(stackRegions') = Elements(stackRegions) \cup {z}
          /\ stackRegions' \in Seq(Nat)
      BY <1>1, <1>2, <2>2, <2>4, Appended
    <2>6. Keepers'[z] = << >>
      BY <1>2, <1>3, <1>4 DEF Keepers
    <2>7. -1 .. Len(regions') = X \cup {z}
      BY <1>2, <1>4
    <2>8. Live' = Live \cup {z}
      <3>1. 1 .. Len(regions') = (1 .. Len(regions)) \cup {z} /\ z \notin 1 .. Len(regions)
        BY <1>2, <1>4
      <3>2. regions'[z].live
        BY <1>3, <1>4
      <3> HIDE DEF z
      <3> QED BY <1>4, <3>1, <3>2 DEF Live
    <2>9. ASSUME NEW s \in 1 .. Len(regions'), ~regions'[s].live PROVE regions'[s].objects = << >>
      <3>1. s # z
        BY <1>3, <1>4, <2>9
      <3>2. s \in 1 .. Len(regions)
        BY <1>2, <1>4, <3>1
      <3> QED BY <1>4, <2>9, <3>2 DEF Inv, RegionsHeld
    <2>10. NoRepeat(Keepers'[0]) /\ Elements(Keepers'[0]) = Elements(Keepers[0]) \cup {z}
      BY <2>3, <2>5
    <2> HIDE DEF X, z
    <2>11. HeldOnce(Keepers', X, Live \cup {z})
      BY ONLY <2>1, <2>2, <2>3, <2>10, HoldMore
    <2>12. HeldOnce(Keepers', X \cup {z}, Live \cup {z})
      BY ONLY <2>2, <2>6, <2>11, HoldNew
    <2> QED BY <2>5, <2>7, <2>8, <2>9, <2>12 DEF RegionsHeld
  <1>9. RegionTypes'
    BY <1>1, <1>4, <1>8 DEF Inv, RegionTypes
  <1> QED BY <1>5, <1>6, <1>7, <1>8, <1>9 DEF Inv

\* The beginning of its destructor.
LEMMA LeaveKeeps ==
    ASSUME Inv, LeaveStackRegion, UNCHANGED options
    PROVE  Inv'
  <1> DEFINE X == -1 .. Len(regions)
             a == Top(stackRegions)
  <1>1. /\ dying = << >> /\ stackRegions # << >>
        /\ dying' = << a >> /\ stackRegions' = Pop(stackRegions)
        /\ UNCHANGED << options, provider, segmentPool, regions, closing, granted >>
        /\ UNCHANGED << segments, segmentStack >>
    BY DEF LeaveStackRegion, Busy, provider, segmentPool
  <1>2. Len(regions) \in Nat /\ stackRegions \in Seq(Nat)
    BY LenProperties DEF Inv, RegionTypes
  <1>3. ProviderTypes' /\ ProviderKinds' /\ PoolSized' /\ BytesExact' /\ InUse' = InUse
    BY <1>1, QuietProvider
  <1>4. GrantsInside' /\ GrantsApart'
    BY <1>1, <1>2, QuietGrants
  <1>5. SegmentsHeld'
    <2>1. \A s \in 0 .. Len(regions) : Chains'[s] = Chains[s]
      BY <1>1, <1>2 DEF Chains
    <2> QED BY <1>1, <1>3, <2>1, HoldSame DEF Inv, SegmentsHeld
  <1>6. HeldOnce(Keepers, X, Live)
    BY DEF Inv, RegionsHeld
  <1>7. /\ 0 \in X /\ -1 \in X /\ 0 # -1
        /\ Keepers[0] = stackRegions /\ Keepers'[0] = stackRegions'
        /\ Keepers[-1] = dying /\ Keepers'[-1] = dying'
        /\ \A s \in X : s # 0 /\ s # -1 => Keepers'[s] = Keepers[s]
    BY <1>1, <1>2 DEF Keepers
  <1>8. NoRepeat(stackRegions)
    BY <1>6, <1>7 DEF HeldOnce
  <1>9. /\ Pop(stackRegions) \in Seq(Nat) /\ NoRepeat(Pop(stackRegions))
        /\ a \in Nat /\ a \in Elements(stackRegions)
        /\ Elements(Pop(stackRegions)) = Elements(stackRegions) \ {a}
    BY <1>1, <1>2, <1>8, Popped
  <1> HIDE DEF a
  <1>10. /\ NoRepeat(dying') /\ Elements(dying') = Elements(dying) \cup {a}
         /\ dying' \in Seq(Nat)
    <2>1. /\ Len(<< a >>) = 1 /\ << a >>[1] = a /\ 1 .. 1 = {1} /\ << a >> \in Seq(Nat)
      BY <1>9
    <2>2. Elements(dying) = {}
      BY <1>1 DEF Elements
    <2>3. Elements(dying') = {a} /\ NoRepeat(dying')
      BY <1>1, <2>1 DEF Elements, NoRepeat
    <2> QED BY <1>1, <2>1, <2>2, <2>3
  <1>11. /\ NoRepeat(Keepers'[0]) /\ Elements(Keepers'[0]) = Elements(Keepers[0]) \ {a}
         /\ NoRepeat(Keepers'[-1]) /\ Elements(Keepers'[-1]) = Elements(Keepers[-1]) \cup {a}
         /\ a \in Elements(Keepers[0])
    BY <1>1, <1>7, <1>9, <1>10
  <1> HIDE DEF X
  <1>12. HeldOnce(Keepers', X, Live)
    BY ONLY <1>6, <1>7, <1>11, HoldMove
  <1>13. Live' = Live
    BY <1>1 DEF Live
  <1>14. RegionsHeld'
    BY <1>1, <1>12, <1>13 DEF RegionsHeld, Inv, X
  <1>15. RegionTypes'
    BY <1>1, <1>9, <1>10 DEF Inv, RegionTypes
  <1> QED BY <1>3, <1>4, <1>5, <1>14, <1>15 DEF Inv

\* The destructor of an object of a region.
LEMMA DestroyKeeps ==
    ASSUME Inv, DestroyObject, UNCHANGED options
    PROVE  Inv'
  <1> DEFINE X == -1 .. Len(regions)
             r == Top(dying)
             objects == regions[r].objects
             a == Top(objects)
             q == [regions[r] EXCEPT !.objects = Pop(objects)]
  <1>1. /\ dying # << >> /\ objects # << >>
        /\ regions' = [regions EXCEPT ![r] = q] /\ dying' = Append(dying, a)
        /\ UNCHANGED << options, provider, segmentPool, stackRegions, closing, granted >>
        /\ UNCHANGED << segments, segmentStack >>
    BY DEF DestroyObject, provider, segmentPool
  <1>2. /\ r \in 1 .. Len(regions) /\ regions[r].live /\ r \in Nat
        /\ dying \in Seq(Nat) /\ NoRepeat(dying)
    BY <1>1, DyingTop
  <1>3. /\ Len(regions) \in Nat /\ objects \in Seq(Nat) /\ regions[r] \in RegionRecord
    BY <1>2, RegionTyped
  <1>4. HeldOnce(Keepers, X, Live)
    BY DEF Inv, RegionsHeld
  <1>5. /\ r \in X /\ -1 \in X /\ r # -1 /\ r # 0
        /\ Keepers[r] = objects /\ Keepers[-1] = dying
    BY <1>2, <1>3 DEF Keepers
  <1>6. NoRepeat(objects)
    BY <1>4, <1>5 DEF HeldOnce
  <1>7. /\ Pop(objects) \in Seq(Nat) /\ NoRepeat(Pop(objects))
        /\ a \in Nat /\ a \in Elements(objects)
        /\ Elements(Pop(objects)) = Elements(objects) \ {a}
    BY <1>1, <1>3, <1>6, Popped
  <1>8. a \notin Elements(dying)
    BY <1>4, <1>5, <1>7 DEF HeldOnce
  <1>9. /\ dying' \in Seq(Nat) /\ NoRepeat(dying') /\ Elements(dying') = Elements(dying) \cup {a}
    BY <1>1, <1>2, <1>7, <1>8, Appended
  <1>10. /\ q \in RegionRecord /\ q.objects = Pop(objects) /\ q.chain = regions[r].chain
         /\ q.initial = regions[r].initial /\ q.live = regions[r].live
    BY <1>3, <1>7 DEF RegionRecord
  <1> HIDE DEF q, r, objects, a
  <1>11. /\ regions' \in Seq(RegionRecord) /\ Len(regions') = Len(regions)
         /\ regions'[r] = q /\ \A s \in 1 .. Len(regions) : s # r => regions'[s] = regions[s]
    BY <1>1, <1>2, <1>10, RecordWritten
  <1>12. \A s \in 1 .. Len(regions) : /\ regions'[s].chain = regions[s].chain
                                      /\ regions'[s].initial = regions[s].initial
                                      /\ regions'[s].live = regions[s].live
    BY <1>10, <1>11
  <1>13. ProviderTypes' /\ ProviderKinds' /\ PoolSized' /\ BytesExact' /\ InUse' = InUse
    BY <1>1, QuietProvider
  <1>14. GrantsInside' /\ GrantsApart'
    BY <1>1, <1>3, <1>11, <1>12, QuietGrants
  <1>15. SegmentsHeld'
    <2>1. \A s \in 0 .. Len(regions) : Chains'[s] = Chains[s]
      BY <1>1, <1>3, <1>11, <1>12 DEF Chains
    <2> QED BY <1>11, <1>13, <2>1, HoldSame DEF Inv, SegmentsHeld
  <1>16. /\ Keepers'[r] = Pop(objects) /\ Keepers'[-1] = dying'
         /\ \A s \in X : s # r /\ s # -1 => Keepers'[s] = Keepers[s]
    BY <1>1, <1>3, <1>5, <1>10, <1>11 DEF Keepers
  <1>17. /\ NoRepeat(Keepers'[r]) /\ Elements(Keepers'[r]) = Elements(Keepers[r]) \ {a}
         /\ NoRepeat(Keepers'[-1]) /\ Elements(Keepers'[-1]) = Elements(Keepers[-1]) \cup {a}
         /\ a \in Elements(Keepers[r])
    BY <1>5, <1>7, <1>9, <1>16
  <1> HIDE DEF X
  <1>18. HeldOnce(Keepers', X, Live)
    BY ONLY <1>4, <1>5, <1>16, <1>17, HoldMove
  <1>19. Live' = Live
    BY <1>11, <1>12 DEF Live
  <1>20. \A s \in 1 .. Len(regions) : ~regions'[s].live => regions'[s].objects = << >>
    BY <1>2, <1>10, <1>11 DEF Inv, RegionsHeld
  <1>21. RegionsHeld'
    BY <1>11, <1>18, <1>19, <1>20 DEF RegionsHeld, X
  <1>22. RegionTypes'
    BY <1>1, <1>9, <1>11 DEF Inv, RegionTypes
  <1> QED BY <1>13, <1>14, <1>15, <1>21, <1>22 DEF Inv

-----------------------------------------------------------------------------
(***************************************************************************)
(* Releases keep the invariant                                             *)
(***************************************************************************)

\* The segments of the pool are the provider's.
LEMMA PoolTyped ==
    ASSUME Inv
    PROVE  /\ segmentStack \in Seq(Areas) /\ NoRepeat(segmentStack)
           /\ Elements(segmentStack) \subseteq InUse
           /\ Elements(segmentStack) \subseteq DOMAIN segments
           /\ Len(segmentStack) \in Nat /\ storedSegments = Len(segmentStack)
           /\ segmentPoolSize \in Nat /\ storedSegments =< segmentPoolSize
  <1>1. 0 \in 0 .. Len(regions) /\ Chains[0] = segmentStack
    BY LenProperties DEF Inv, RegionTypes, Chains
  <1>2. NoRepeat(segmentStack) /\ Elements(segmentStack) \subseteq InUse
    BY <1>1 DEF Inv, SegmentsHeld, HeldOnce
  <1>3. segmentStack \in Seq(Areas) /\ Len(segmentStack) \in Nat
    BY LenProperties DEF Inv, ProviderTypes
  <1> QED BY <1>2, <1>3 DEF Inv, ProviderTypes, InUse

\* A segment that is given back to the provider is no longer in use, the
\* others keep what they have, and the counters follow.
LEMMA ReleaseEffect ==
    ASSUME Inv, UNCHANGED options, NEW a \in InUse, ProviderRelease(a),
           segmentStack' \in Seq(Areas), storedSegments' = Len(segmentStack'),
           Len(segmentStack') =< segmentPoolSize,
           Elements(segmentStack') \subseteq Elements(segmentStack) \ {a}
    PROVE  /\ ProviderTypes' /\ ProviderKinds' /\ PoolSized' /\ BytesExact'
           /\ InUse' = InUse \ {a}
           /\ \A b \in DOMAIN segments : b # a => segments'[b] = segments[b]
  <1>1. UNCHANGED << debug, segmentPoolSize >> /\ ProviderTypes /\ ProviderKinds /\ PoolSized
    BY DEF options, Inv
  <1>2. a \in DOMAIN segments /\ a \notin noAccess /\ segments[a].size \in Nat
    BY SegmentTyped DEF InUse
  <1>3. ~debug => currentBytes = Bytes(segments) /\ highWaterMark >= currentBytes
    BY SegmentBytesAreBytes DEF Inv, BytesExact
  <1>4. SegmentBytes' = Bytes(segments')
    BY SegmentBytesAfter
  <1>5. Elements(segmentStack) \subseteq DOMAIN segments
    BY PoolTyped
  <1>6. CASE debug
    <2>1. /\ noAccess' = noAccess \cup {a}
          /\ UNCHANGED << segments, currentBytes, highWaterMark >>
      BY <1>6 DEF ProviderRelease, DebugRelease
    <2>2. ProviderTypes'
      BY <1>1, <1>2, <2>1 DEF ProviderTypes
    <2>3. ProviderKinds' /\ PoolSized'
      BY <1>1, <1>5, <1>6, <2>1 DEF ProviderKinds, PoolSized
    <2>4. BytesExact'
      BY <1>1, <1>3, <1>4, <2>1 DEF BytesExact
    <2>5. InUse' = InUse \ {a}
      BY <2>1 DEF InUse
    <2> QED BY <2>1, <2>2, <2>3, <2>4, <2>5
  <1>7. CASE ~debug
    <2>1. /\ segments' = [b \in DOMAIN segments \ {a} |-> segments[b]]
          /\ currentBytes' = currentBytes - segments[a].size
          /\ UNCHANGED << noAccess, highWaterMark >>
      BY <1>7 DEF ProviderRelease, SystemRelease
    <2>2. DOMAIN segments' = DOMAIN segments \ {a}
          /\ \A b \in DOMAIN segments' : segments'[b] = segments[b]
      BY <2>1
    <2>3. noAccess = {}
      BY <1>1, <1>7 DEF ProviderKinds
    <2>4. Sized(segments')
      <3>1. IsFiniteSet(DOMAIN segments')
        BY <1>1, <2>2, AreasAssumption, FS_Subset DEF ProviderTypes
      <3>2. \A b \in DOMAIN segments' : segments'[b].size \in Nat
        BY <2>2, SegmentTyped
      <3> QED BY <3>1, <3>2 DEF Sized
    <2>5. Bytes(segments') \in Nat /\ Bytes(segments) = Bytes(segments') + segments[a].size
      <3>1. /\ a \notin DOMAIN segments' /\ DOMAIN segments = DOMAIN segments' \cup {a}
            /\ \A b \in DOMAIN segments' : segments[b].size = segments'[b].size
        BY <1>2, <2>2
      <3> QED BY <1>2, <2>4, <3>1, BytesAdd
    <2>6. currentBytes' = Bytes(segments') /\ currentBytes' \in Nat
      BY <1>2, <1>3, <1>7, <2>1, <2>5
    <2>7. highWaterMark' >= currentBytes'
      <3>1. highWaterMark \in Nat /\ currentBytes \in Nat /\ highWaterMark >= currentBytes
        BY <1>1, <1>3, <1>7 DEF ProviderTypes
      <3> QED BY <1>2, <2>1, <3>1
    <2>8. BytesExact'
      BY <1>1, <1>4, <1>7, <2>6, <2>7 DEF BytesExact
    <2>9. segments' \in [DOMAIN segments' -> SegmentRecord]
      BY <1>1, <2>1, <2>2 DEF ProviderTypes
    <2>10. \A b \in DOMAIN segments' : segments'[b].allocated =< segments'[b].size
      BY <1>1, <2>2 DEF ProviderTypes
    <2>11. ProviderTypes'
      BY <1>1, <2>1, <2>2, <2>3, <2>6, <2>9, <2>10 DEF ProviderTypes
    <2>12. ProviderKinds'
      BY <1>1, <2>1, <2>3 DEF ProviderKinds
    <2>13. PoolSized'
      BY <1>1, <1>5, <2>2 DEF PoolSized
    <2>14. InUse' = InUse \ {a}
      BY <2>1, <2>2, <2>3 DEF InUse
    <2> QED BY <2>2, <2>8, <2>11, <2>12, <2>13, <2>14
  <1> QED BY <1>6, <1>7

\* A step that leaves the regions' lists of regions alone.
LEMMA QuietRegions ==
    ASSUME Inv, Len(regions') = Len(regions),
           \A s \in 1 .. Len(regions) : /\ regions'[s].objects = regions[s].objects
                                        /\ regions'[s].live = regions[s].live,
           UNCHANGED << stackRegions, dying >>
    PROVE  RegionsHeld'
  <1>1. Len(regions) \in Nat
    BY LenProperties DEF Inv, RegionTypes
  <1>2. \A s \in -1 .. Len(regions) : Keepers'[s] = Keepers[s]
    BY <1>1 DEF Keepers
  <1>3. Live' = Live
    BY DEF Live
  <1>4. HeldOnce(Keepers', -1 .. Len(regions), Live)
    BY <1>2, HoldSame DEF Inv, RegionsHeld
  <1> QED BY <1>3, <1>4 DEF Inv, RegionsHeld

\* The end of the compilation, one segment of the pool at a time.
LEMMA CloseKeeps ==
    ASSUME Inv, ClosePool, UNCHANGED options
    PROVE  Inv'
  <1>1. /\ closing' = TRUE
        /\ UNCHANGED << regions, stackRegions, dying, granted >>
    BY DEF ClosePool
  <1>2. RegionTypes'
    BY <1>1 DEF Inv, RegionTypes
  <1>3. RegionsHeld'
    BY <1>1, QuietRegions
  <1>4. Len(regions) \in Nat
    BY LenProperties DEF Inv, RegionTypes
  <1>5. CASE segmentStack = << >>
    <2>1. UNCHANGED << provider, segmentPool, segments, segmentStack >>
      BY <1>5 DEF ClosePool, provider, segmentPool
    <2>2. ProviderTypes' /\ ProviderKinds' /\ PoolSized' /\ BytesExact' /\ InUse' = InUse
      BY <2>1, QuietProvider
    <2>3. GrantsInside' /\ GrantsApart'
      BY <1>1, <1>4, <2>1, QuietGrants
    <2>4. SegmentsHeld'
      <3>1. \A s \in 0 .. Len(regions) : Chains'[s] = Chains[s]
        BY <1>1, <1>4, <2>1 DEF Chains
      <3> QED BY <1>1, <2>2, <3>1, HoldSame DEF Inv, SegmentsHeld
    <2> QED BY <1>2, <1>3, <2>2, <2>3, <2>4 DEF Inv
  <1>6. CASE segmentStack # << >>
    <2> DEFINE a == Top(segmentStack)
               X == 0 .. Len(regions)
    <2>1. /\ ProviderRelease(a) /\ segmentStack' = Pop(segmentStack)
          /\ storedSegments' = storedSegments - 1
      BY <1>6 DEF ClosePool
    <2>2. /\ a \in InUse /\ a \in Elements(segmentStack)
          /\ segmentStack' \in Seq(Areas) /\ NoRepeat(segmentStack')
          /\ Len(segmentStack') = Len(segmentStack) - 1
          /\ Elements(segmentStack') = Elements(segmentStack) \ {a}
      BY <1>6, <2>1, PoolTyped, Popped
    <2>3. storedSegments' = Len(segmentStack') /\ Len(segmentStack') =< segmentPoolSize
      BY <2>1, <2>2, PoolTyped
    <2> HIDE DEF a
    <2>4. /\ ProviderTypes' /\ ProviderKinds' /\ PoolSized' /\ BytesExact'
          /\ InUse' = InUse \ {a}
          /\ \A b \in DOMAIN segments : b # a => segments'[b] = segments[b]
      BY <2>1, <2>2, <2>3, ReleaseEffect
    <2>5. SegmentsHeld'
      <3>1. HeldOnce(Chains, X, InUse)
        BY DEF Inv, SegmentsHeld
      <3>2. /\ 0 \in X /\ a \in Elements(Chains[0])
            /\ NoRepeat(Chains'[0]) /\ Elements(Chains'[0]) = Elements(Chains[0]) \ {a}
            /\ \A s \in X : s # 0 => Chains'[s] = Chains[s]
        BY <1>1, <1>4, <2>2 DEF Chains
      <3> HIDE DEF X
      <3>3. HeldOnce(Chains', X, InUse \ {a})
        BY ONLY <3>1, <3>2, HoldLess
      <3> QED BY <1>1, <2>4, <3>3 DEF SegmentsHeld, X
    <2>6. \A s \in 1 .. Len(regions) : \A b \in Elements(regions[s].chain) :
            segments'[b] = segments[b] /\ segments[b].allocated \in Nat
      BY <2>2, <2>4, ChainTyped, SegmentTyped
    <2>7. \A g \in granted : Inside(g, regions', segments')
      <3>1. \A s \in 1 .. Len(regions) : regions[s].initial \in Nat
        BY RegionTyped
      <3> QED BY <1>1, <1>4, <2>6, <3>1, OldGrants
    <2>8. GrantsInside' /\ GrantsApart'
      BY <1>1, <2>7 DEF GrantsInside, GrantsApart, Inv
    <2> QED BY <1>2, <1>3, <2>4, <2>5, <2>8 DEF Inv
  <1> QED BY <1>5, <1>6

\* The destructor of a region unlinks a segment and gives it to the pool or to
\* the provider.
LEMMA ReleaseKeeps ==
    ASSUME Inv, ReleaseSegment, UNCHANGED options
    PROVE  Inv'
  <1> DEFINE r == Top(dying)
             chain == regions[r].chain
             a == Head(chain)
             X == 0 .. Len(regions)
             q == [regions[r] EXCEPT !.chain = Tail(chain)]
  <1>1. /\ dying # << >> /\ chain # << >>
        /\ regions' = [regions EXCEPT ![r] = q]
        /\ PoolRelease(a)
        /\ granted' = {g \in granted : g.region # r \/ g.area # a}
        /\ UNCHANGED << stackRegions, dying, closing >>
    BY DEF ReleaseSegment
  <1>2. r \in 1 .. Len(regions)
    BY <1>1, DyingTop
  <1>3. /\ Len(regions) \in Nat /\ regions[r] \in RegionRecord
        /\ chain \in Seq(Areas) /\ NoRepeat(chain)
        /\ Elements(chain) \cap Elements(segmentStack) = {}
    BY <1>2, RegionTyped, ChainTyped
  <1>4. a \in InUse /\ a \in DOMAIN segments /\ a \in Areas /\ a \in Elements(chain)
    BY <1>1, <1>2, HeadInChain
  <1>5. /\ Tail(chain) \in Seq(Areas) /\ NoRepeat(Tail(chain))
        /\ Elements(Tail(chain)) = Elements(chain) \ {a}
    BY <1>1, <1>3, Unlinked
  <1>6. /\ q \in RegionRecord /\ q.chain = Tail(chain) /\ q.objects = regions[r].objects
        /\ q.initial = regions[r].initial /\ q.live = regions[r].live
    BY <1>3, <1>5 DEF RegionRecord
  <1> HIDE DEF q
  <1>7. /\ regions' \in Seq(RegionRecord) /\ Len(regions') = Len(regions)
        /\ regions'[r] = q /\ \A s \in 1 .. Len(regions) : s # r => regions'[s] = regions[s]
    BY <1>1, <1>2, <1>6, RecordWritten
  <1>8. RegionTypes'
    BY <1>1, <1>7 DEF Inv, RegionTypes
  <1>9. RegionsHeld'
    <2>1. \A s \in 1 .. Len(regions) : /\ regions'[s].objects = regions[s].objects
                                       /\ regions'[s].live = regions[s].live
      BY <1>6, <1>7
    <2> QED BY <1>1, <1>7, <2>1, QuietRegions
  <1>10. /\ HeldOnce(Chains, X, InUse)
         /\ 0 \in X /\ r \in X /\ r # 0
         /\ Chains[0] = segmentStack /\ Chains'[0] = segmentStack'
         /\ a \in Elements(Chains[r])
         /\ NoRepeat(Chains'[r]) /\ Elements(Chains'[r]) = Elements(Chains[r]) \ {a}
         /\ \A s \in X : s # r /\ s # 0 => Chains'[s] = Chains[s]
    <2>1. HeldOnce(Chains, X, InUse)
      BY DEF Inv, SegmentsHeld
    <2>2. /\ 0 \in X /\ r \in X /\ r # 0
          /\ Chains[0] = segmentStack /\ Chains'[0] = segmentStack'
          /\ Chains[r] = chain /\ Chains'[r] = Tail(chain)
      BY <1>2, <1>3, <1>6, <1>7 DEF Chains
    <2>3. \A s \in X : s # r /\ s # 0 => Chains'[s] = Chains[s]
      BY <1>2, <1>3, <1>7 DEF Chains
    <2> QED BY <1>4, <1>5, <2>1, <2>2, <2>3
  <1> DEFINE Kept == /\ ProviderTypes' /\ ProviderKinds' /\ PoolSized' /\ BytesExact'
                     /\ SegmentsHeld'
                     /\ \A b \in DOMAIN segments : b # a => segments'[b] = segments[b]
  <1>11. Kept
    <2>1. ASSUME /\ PoolKeeps(a) /\ segmentStack' = Append(segmentStack, a)
                 /\ storedSegments' = storedSegments + 1 /\ UNCHANGED provider
          PROVE  Kept
      <3>1. UNCHANGED << debug, segmentPoolSize, segments, noAccess, currentBytes, highWaterMark >>
        BY <2>1 DEF options, provider
      <3>2. /\ segmentStack \in Seq(Areas) /\ NoRepeat(segmentStack)
            /\ Len(segmentStack) \in Nat /\ storedSegments = Len(segmentStack)
            /\ segmentPoolSize \in Nat
        BY PoolTyped
      <3>3. segments[a].size = DefaultSize /\ storedSegments < segmentPoolSize
        BY <2>1 DEF PoolKeeps
      <3>4. a \notin Elements(segmentStack)
        BY <1>3, <1>4
      <3>5. /\ segmentStack' \in Seq(Areas) /\ NoRepeat(segmentStack')
            /\ Elements(segmentStack') = Elements(segmentStack) \cup {a}
        BY <1>4, <2>1, <3>2, <3>4, Appended
      <3>6. Len(segmentStack') = Len(segmentStack) + 1
        BY <1>4, <2>1, <3>2, AppendProperties
      <3>7. ProviderTypes'
        BY <2>1, <3>1, <3>2, <3>3, <3>5, <3>6 DEF Inv, ProviderTypes
      <3>8. ProviderKinds' /\ PoolSized'
        BY <3>1, <3>3, <3>5 DEF Inv, ProviderKinds, PoolSized
      <3>9. BytesExact'
        BY <3>1, SegmentBytesAreBytes, SegmentBytesAfter DEF Inv, BytesExact
      <3>10. NoRepeat(Chains'[0]) /\ Elements(Chains'[0]) = Elements(Chains[0]) \cup {a}
        BY <1>10, <3>5
      <3> HIDE DEF X, r, a
      <3>11. HeldOnce(Chains', X, InUse)
        BY ONLY <1>10, <3>10, HoldMove
      <3>12. InUse' = InUse
        BY <3>1 DEF InUse
      <3>13. SegmentsHeld'
        BY <1>7, <3>11, <3>12 DEF SegmentsHeld, X
      <3> QED BY <3>1, <3>7, <3>8, <3>9, <3>13
    <2>2. ASSUME ProviderRelease(a), UNCHANGED segmentPool
          PROVE  Kept
      <3>1. UNCHANGED << segmentStack, storedSegments >>
        BY <2>2 DEF segmentPool
      <3>2. Elements(segmentStack') \subseteq Elements(segmentStack) \ {a}
        BY <1>3, <1>4, <3>1
      <3>3. /\ segmentStack' \in Seq(Areas) /\ storedSegments' = Len(segmentStack')
            /\ Len(segmentStack') =< segmentPoolSize
        BY <3>1, PoolTyped
      <3> HIDE DEF X, r, a
      <3>4. /\ ProviderTypes' /\ ProviderKinds' /\ PoolSized' /\ BytesExact'
            /\ InUse' = InUse \ {a}
            /\ \A b \in DOMAIN segments : b # a => segments'[b] = segments[b]
        BY <1>4, <2>2, <3>2, <3>3, ReleaseEffect
      <3>5. \A s \in X : s # r => Chains'[s] = Chains[s]
        BY <1>10, <3>1
      <3>6. HeldOnce(Chains', X, InUse \ {a})
        BY ONLY <1>10, <3>5, HoldLess
      <3>7. SegmentsHeld'
        BY <1>7, <3>4, <3>6 DEF SegmentsHeld, X
      <3> QED BY <3>4, <3>7
    <2> QED BY <1>1, <2>1, <2>2 DEF PoolRelease
  <1>12. GrantsInside'
    <2> SUFFICES ASSUME NEW g \in granted' PROVE Inside(g, regions', segments')
      BY DEF GrantsInside
    <2>1. g \in granted /\ Inside(g, regions, segments) /\ (g.region # r \/ g.area # a)
      BY <1>1 DEF Inv, GrantsInside
    <2>2. g.region \in 1 .. Len(regions) /\ g.from =< g.to
      BY <2>1 DEF Inside
    <2>3. CASE g.area = Initial
      <3>1. regions'[g.region].initial = regions[g.region].initial
        BY <1>6, <1>7, <2>2
      <3> QED BY <1>7, <2>1, <2>2, <2>3, <3>1 DEF Inside
    <2>4. CASE g.area # Initial
      <3>1. g.area \in Elements(regions[g.region].chain) /\ g.to =< segments[g.area].allocated
        BY <2>1, <2>4 DEF Inside
      <3>2. g.area \in Elements(regions'[g.region].chain) /\ g.area # a
        <4>1. CASE g.region = r
          BY <1>5, <1>6, <1>7, <2>1, <3>1, <4>1
        <4>2. CASE g.region # r
          BY <1>2, <1>4, <1>7, <2>2, <3>1, <4>2, ChainTyped
        <4> QED BY <4>1, <4>2
      <3>3. segments'[g.area] = segments[g.area]
        BY <1>11, <2>2, <3>1, <3>2, ChainTyped
      <3> QED BY <1>7, <2>2, <2>4, <3>1, <3>2, <3>3 DEF Inside
    <2> QED BY <2>3, <2>4
  <1>13. GrantsApart'
    BY <1>1 DEF GrantsApart, Inv
  <1> QED BY <1>8, <1>9, <1>11, <1>12, <1>13 DEF Inv

\* The destructor of a region has returned.
LEMMA EndKeeps ==
    ASSUME Inv, EndDestroy, UNCHANGED options
    PROVE  Inv'
  <1> DEFINE r == Top(dying)
             X == -1 .. Len(regions)
             q == [NewRegion EXCEPT !.live = FALSE]
  <1>1. /\ dying # << >> /\ regions[r].objects = << >> /\ regions[r].chain = << >>
        /\ regions' = [regions EXCEPT ![r] = q]
        /\ dying' = Pop(dying)
        /\ granted' = {g \in granted : g.region # r}
        /\ UNCHANGED << options, provider, segmentPool, stackRegions, closing >>
        /\ UNCHANGED << segments, segmentStack >>
    BY DEF EndDestroy, provider, segmentPool
  <1>2. /\ r \in 1 .. Len(regions) /\ dying \in Seq(Nat) /\ NoRepeat(dying)
        /\ r \in Elements(dying) /\ Len(regions) \in Nat
    BY <1>1, DyingTop, RegionTyped
  <1>3. /\ dying' \in Seq(Nat) /\ NoRepeat(dying')
        /\ Elements(dying') = Elements(dying) \ {r}
    BY <1>1, <1>2, Popped
  <1>4. /\ q \in RegionRecord /\ q.chain = << >> /\ q.objects = << >> /\ q.live = FALSE
    <2>1. NewRegion \in RegionRecord /\ NewRegion.chain = << >> /\ NewRegion.objects = << >>
      BY SizesAssumption DEF NewRegion, RegionRecord
    <2> QED BY <2>1 DEF RegionRecord
  <1> HIDE DEF q, r
  <1>5. /\ regions' \in Seq(RegionRecord) /\ Len(regions') = Len(regions)
        /\ regions'[r] = q /\ \A s \in 1 .. Len(regions) : s # r => regions'[s] = regions[s]
    BY <1>1, <1>2, <1>4, RecordWritten
  <1>6. RegionTypes'
    BY <1>1, <1>3, <1>5 DEF Inv, RegionTypes
  <1>7. ProviderTypes' /\ ProviderKinds' /\ PoolSized' /\ BytesExact' /\ InUse' = InUse
    BY <1>1, QuietProvider
  <1>8. SegmentsHeld'
    <2>1. \A s \in 0 .. Len(regions) : Chains'[s] = Chains[s]
      BY <1>1, <1>2, <1>4, <1>5 DEF Chains
    <2> QED BY <1>5, <1>7, <2>1, HoldSame DEF Inv, SegmentsHeld
  <1>9. RegionsHeld'
    <2>1. HeldOnce(Keepers, X, Live)
      BY DEF Inv, RegionsHeld
    <2>2. /\ -1 \in X /\ Keepers[-1] = dying /\ Keepers'[-1] = dying'
          /\ \A s \in X : s # -1 => Keepers'[s] = Keepers[s]
      BY <1>1, <1>2, <1>4, <1>5 DEF Keepers
    <2>3. /\ r \in Elements(Keepers[-1]) /\ NoRepeat(Keepers'[-1])
          /\ Elements(Keepers'[-1]) = Elements(Keepers[-1]) \ {r}
      BY <1>2, <1>3, <2>2
    <2> HIDE DEF X
    <2>4. HeldOnce(Keepers', X, Live \ {r})
      BY ONLY <2>1, <2>2, <2>3, HoldLess
    <2>5. Live' = Live \ {r}
      BY <1>2, <1>4, <1>5 DEF Live
    <2>6. \A s \in 1 .. Len(regions) : ~regions'[s].live => regions'[s].objects = << >>
      BY <1>4, <1>5 DEF Inv, RegionsHeld
    <2> QED BY <1>5, <2>4, <2>5, <2>6 DEF RegionsHeld, X
  <1>10. GrantsInside'
    <2> SUFFICES ASSUME NEW g \in granted' PROVE Inside(g, regions', segments')
      BY DEF GrantsInside
    <2>1. g \in granted /\ Inside(g, regions, segments) /\ g.region # r
      BY <1>1 DEF Inv, GrantsInside
    <2>2. g.region \in 1 .. Len(regions)
      BY <2>1 DEF Inside
    <2>3. regions'[g.region] = regions[g.region]
      BY <1>5, <2>1, <2>2
    <2> QED BY <1>1, <1>5, <2>1, <2>3 DEF Inside
  <1>11. GrantsApart'
    BY <1>1 DEF GrantsApart, Inv
  <1> QED BY <1>6, <1>7, <1>8, <1>9, <1>10, <1>11 DEF Inv

-----------------------------------------------------------------------------
(***************************************************************************)
(* The invariant is inductive                                              *)
(***************************************************************************)

\* A compilation starts with one stack region and no segments.
LEMMA InitInv ==
    ASSUME Init PROVE Inv
  <1>1. /\ segments = << >> /\ noAccess = {} /\ segmentStack = << >> /\ storedSegments = 0
        /\ regions = << NewRegion >> /\ stackRegions = << 1 >> /\ dying = << >>
        /\ closing = FALSE /\ granted = {} /\ highWaterMark = 0
        /\ debug \in BOOLEAN /\ segmentPoolSize \in (IF debug THEN {0} ELSE PoolSizes)
        /\ currentBytes \in (IF debug THEN Garbage ELSE {0})
    BY DEF Init
  <1>2. DOMAIN segments = {} /\ segments \in [DOMAIN segments -> SegmentRecord]
    BY <1>1
  <1>3. segmentPoolSize \in Nat /\ currentBytes \in Nat /\ (debug => segmentPoolSize = 0)
    BY <1>1, SizesAssumption, GarbageAssumption
  <1>4. ProviderTypes
    BY <1>1, <1>2, <1>3 DEF ProviderTypes
  <1>5. NewRegion \in RegionRecord /\ NewRegion.live /\ NewRegion.chain = << >>
        /\ NewRegion.objects = << >>
    BY SizesAssumption DEF NewRegion, RegionRecord
  <1>6. /\ Len(regions) = 1 /\ 1 .. 1 = {1} /\ regions[1] = NewRegion
        /\ regions \in Seq(RegionRecord)
    <2> HIDE DEF NewRegion
    <2> QED BY <1>1, <1>5
  <1>7. RegionTypes
    <2>1. << 1 >> \in Seq(Nat) /\ << >> \in Seq(Nat)
      OBVIOUS
    <2>2. stackRegions \in Seq(Nat) /\ dying \in Seq(Nat)
      BY <1>1, <2>1, Zenon
    <2>3. closing \in BOOLEAN /\ granted \subseteq GrantRecord
      BY <1>1, Zenon
    <2> QED BY <1>6, <2>2, <2>3 DEF RegionTypes
  <1>8. Elements(<< >>) = {} /\ NoRepeat(<< >>)
    BY DEF Elements, NoRepeat
  <1>9. Elements(<< 1 >>) = {1} /\ NoRepeat(<< 1 >>)
    <2>1. Len(<< 1 >>) = 1 /\ << 1 >>[1] = 1 /\ 1 .. 1 = {1}
      OBVIOUS
    <2> QED BY <2>1 DEF Elements, NoRepeat
  <1>10. ProviderKinds /\ PoolSized
    BY <1>1, <1>3, <1>8 DEF ProviderKinds, PoolSized
  <1>11. SegmentsHeld
    <2>1. \A x \in 0 .. Len(regions) : Chains[x] = << >>
      BY <1>1, <1>5, <1>6 DEF Chains
    <2>2. InUse = {}
      BY <1>1, <1>2 DEF InUse
    <2> QED BY <1>8, <2>1, <2>2 DEF SegmentsHeld, HeldOnce
  <1>12. RegionsHeld
    <2>1. /\ -1 .. Len(regions) = {-1, 0, 1}
          /\ Keepers[-1] = << >> /\ Keepers[0] = << 1 >> /\ Keepers[1] = << >>
      BY <1>1, <1>5, <1>6 DEF Keepers
    <2>2. Live = {1}
      BY <1>5, <1>6 DEF Live
    <2>3. \A x \in {-1, 0, 1} : NoRepeat(Keepers[x])
      BY <1>8, <1>9, <2>1
    <2>4. /\ Elements(Keepers[-1]) = {} /\ Elements(Keepers[0]) = {1}
          /\ Elements(Keepers[1]) = {}
      BY <1>8, <1>9, <2>1
    <2>5. \A x, y \in {-1, 0, 1} : x # y => Elements(Keepers[x]) \cap Elements(Keepers[y]) = {}
      BY <2>4
    <2>6. UNION {Elements(Keepers[x]) : x \in {-1, 0, 1}} = {1}
      BY <2>4
    <2>7. HeldOnce(Keepers, -1 .. Len(regions), Live)
      BY <2>1, <2>2, <2>3, <2>5, <2>6 DEF HeldOnce
    <2> QED BY <1>5, <1>6, <2>7 DEF RegionsHeld
  <1>13. GrantsInside /\ GrantsApart
    BY <1>1 DEF GrantsInside, GrantsApart
  <1>14. BytesExact
    <2>1. SegmentBytes = 0
      BY <1>2, BytesEmpty, SegmentBytesAreBytes
    <2> QED BY <1>1, <1>3, <2>1 DEF BytesExact
  <1> QED BY <1>4, <1>7, <1>10, <1>11, <1>12, <1>13, <1>14 DEF Inv

\* A step that changes nothing.
LEMMA StutterKeeps ==
    ASSUME Inv, UNCHANGED vars PROVE Inv'
  <1>1. /\ UNCHANGED << options, provider, segmentPool >>
        /\ UNCHANGED << regions, stackRegions, dying, closing, granted >>
        /\ UNCHANGED << segments, segmentStack >>
    BY DEF vars, provider, segmentPool
  <1>2. Len(regions) \in Nat
    BY LenProperties DEF Inv, RegionTypes
  <1>3. ProviderTypes' /\ ProviderKinds' /\ PoolSized' /\ BytesExact' /\ InUse' = InUse
    BY <1>1, QuietProvider
  <1>4. GrantsInside' /\ GrantsApart'
    BY <1>1, <1>2, QuietGrants
  <1>5. RegionsHeld'
    BY <1>1, QuietRegions
  <1>6. SegmentsHeld'
    <2>1. \A s \in 0 .. Len(regions) : Chains'[s] = Chains[s]
      BY <1>1, <1>2 DEF Chains
    <2> QED BY <1>1, <1>3, <2>1, HoldSame DEF Inv, SegmentsHeld
  <1>7. RegionTypes'
    BY <1>1 DEF Inv, RegionTypes
  <1> QED BY <1>3, <1>4, <1>5, <1>6, <1>7 DEF Inv

-----------------------------------------------------------------------------
(***************************************************************************)
(* The end of the provider for debugging                                   *)
(***************************************************************************)

\* A dead region has no segments, a region is younger than the one it is an
\* object of, and the providers' scope ends after that of the regions.
EndInv ==
  /\ \A r \in 1 .. Len(regions) : ~regions[r].live => regions[r].chain = << >>
  /\ \A r \in 1 .. Len(regions) : \A o \in Elements(regions[r].objects) : o > r
  /\ closing => dying = << >> /\ stackRegions = << >>

\* At that time no region is left.
LEMMA NoneLive ==
    ASSUME Inv, EndInv, closing
    PROVE  Live = {}
  <1> SUFFICES ASSUME Live # {} PROVE FALSE
    OBVIOUS
  <1>1. Len(regions) \in Nat
    BY LenProperties DEF Inv, RegionTypes
  <1>2. Live \in SUBSET Nat
    BY <1>1 DEF Live
  <1>3. PICK r \in Live : \A s \in Live : ~(<< s, r >> \in OpToRel(<, Nat))
    BY <1>2, NatLessThanWellFounded, WFMin
  <1>4. \A s \in Live : ~(s < r)
    BY <1>2, <1>3 DEF OpToRel
  <1>5. PICK x \in -1 .. Len(regions) : r \in Elements(Keepers[x])
    BY DEF Inv, RegionsHeld, HeldOnce
  <1>6. Elements(<< >>) = {}
    BY DEF Elements
  <1>7. x \in 1 .. Len(regions) /\ Keepers[x] = regions[x].objects
    BY <1>1, <1>5, <1>6 DEF Keepers, EndInv
  <1>8. x \in Live
    BY <1>5, <1>6, <1>7 DEF Inv, RegionsHeld, Live
  <1>9. r > x
    BY <1>5, <1>7 DEF EndInv
  <1> QED BY <1>2, <1>4, <1>8, <1>9

\* Nor any segment in use of the provider for debugging.
LEMMA NoneInUse ==
    ASSUME Inv, EndInv, closing, debug
    PROVE  /\ \A x \in 0 .. Len(regions) : Chains[x] = << >>
           /\ InUse = {}
  <1>1. Len(regions) \in Nat
    BY LenProperties DEF Inv, RegionTypes
  <1>2. segmentStack = << >>
    <2>1. Len(segmentStack) = 0 /\ segmentStack \in Seq(Areas)
      BY PoolTyped DEF Inv, ProviderKinds
    <2> QED BY <2>1, EmptySeq
  <1>3. \A r \in 1 .. Len(regions) : regions[r].chain = << >>
    BY NoneLive DEF Live, EndInv
  <1>4. \A x \in 0 .. Len(regions) : Chains[x] = << >>
    BY <1>1, <1>2, <1>3 DEF Chains
  <1>5. Elements(<< >>) = {}
    BY DEF Elements
  <1>6. InUse = UNION {Elements(Chains[x]) : x \in 0 .. Len(regions)}
    BY DEF Inv, SegmentsHeld, HeldOnce
  <1> QED BY <1>4, <1>5, <1>6

\* So its destructor unmaps closed segments only.
LEMMA UnmapKeeps ==
    ASSUME Inv, EndInv, UnmapSegment, UNCHANGED options
    PROVE  Inv'
  <1>1. PICK a \in DOMAIN segments :
          /\ segments' = [b \in DOMAIN segments \ {a} |-> segments[b]]
          /\ noAccess' = noAccess \ {a}
    BY DEF UnmapSegment
  <1>2. /\ debug /\ closing
        /\ UNCHANGED << debug, segmentPoolSize, currentBytes, highWaterMark, segmentStack,
                        storedSegments, regions, stackRegions, dying, closing, granted >>
    BY DEF UnmapSegment, options, segmentPool
  <1>3. Len(regions) \in Nat
    BY LenProperties DEF Inv, RegionTypes
  <1>4. /\ \A x \in 0 .. Len(regions) : Chains[x] = << >>
        /\ InUse = {}
    BY <1>2, NoneInUse
  <1>5. /\ DOMAIN segments' = DOMAIN segments \ {a}
        /\ \A b \in DOMAIN segments' : segments'[b] = segments[b]
    BY <1>1
  <1>6. ProviderTypes'
    <2>1. segments' \in [DOMAIN segments' -> SegmentRecord]
      BY <1>1, <1>5 DEF Inv, ProviderTypes
    <2> QED BY <1>1, <1>2, <1>5, <2>1 DEF Inv, ProviderTypes
  <1>7. ProviderKinds' /\ BytesExact'
    BY <1>1, <1>2 DEF Inv, ProviderKinds, BytesExact
  <1>8. /\ segmentStack = << >>
        /\ \A r \in 1 .. Len(regions) : regions[r].chain = << >>
    BY <1>3, <1>4 DEF Chains
  <1>9. Elements(<< >>) = {}
    BY DEF Elements
  <1>10. PoolSized'
    BY <1>2, <1>8, <1>9 DEF PoolSized
  <1>11. SegmentsHeld'
    <2>1. \A x \in 0 .. Len(regions) : Chains'[x] = Chains[x]
      BY <1>2, <1>3 DEF Chains
    <2>2. InUse' = InUse
      BY <1>1, <1>4, <1>5 DEF InUse
    <2> QED BY <1>2, <2>1, <2>2, HoldSame DEF Inv, SegmentsHeld
  <1>12. RegionsHeld' /\ RegionTypes'
    BY <1>2, QuietRegions DEF Inv, RegionTypes
  <1>13. GrantsInside' /\ GrantsApart'
    <2>1. \A g \in granted : Inside(g, regions', segments')
      BY <1>2, <1>8, <1>9 DEF Inv, GrantsInside, Inside
    <2> QED BY <1>2, <2>1 DEF GrantsInside, GrantsApart, Inv
  <1> QED BY <1>6, <1>7, <1>10, <1>11, <1>12, <1>13 DEF Inv

\* Regions alone that keep their objects, or lose some, and their segments.
LEMMA EndQuiet ==
    ASSUME Inv, EndInv, Len(regions') = Len(regions), closing' = closing,
           closing => dying' = << >> /\ stackRegions' = << >>,
           \A r \in 1 .. Len(regions) :
             /\ Elements(regions'[r].objects) \subseteq Elements(regions[r].objects)
             /\ ~regions'[r].live => regions'[r].chain = << >>
    PROVE  EndInv'
  <1>1. \A r \in 1 .. Len(regions) : \A o \in Elements(regions'[r].objects) : o > r
    BY DEF EndInv
  <1> QED BY <1>1 DEF EndInv

\* Every step keeps the order of ends.
LEMMA EndKept ==
    ASSUME Inv, Inv', EndInv, [Next]_vars
    PROVE  EndInv'
  <1>1. Len(regions) \in Nat /\ closing \in BOOLEAN
    BY LenProperties DEF Inv, RegionTypes
  <1>2. ASSUME UNCHANGED << regions, stackRegions, dying, closing >> PROVE EndInv'
    BY <1>2 DEF EndInv
  <1>3. ASSUME NEW r \in Live, (\E n \in Sizes : Allocate(r, n)) \/ CreateRegion(r)
        PROVE  EndInv'
    <2>1. PICK n \in Nat : Allocation(r, n)
      BY <1>3, AllocationSteps
    <2>2. UNCHANGED << stackRegions, dying, closing >>
      BY <1>3 DEF Allocate, CreateRegion
    <2>3. r \in 1 .. Len(regions) /\ regions[r].live /\ regions[r].objects \in Seq(Nat)
      BY RegionTyped DEF Live
    <2>4. /\ \A s \in 1 .. Len(regions) : s # r => regions'[s] = regions[s]
          /\ regions'[r].live = regions[r].live
      BY <2>1 DEF Allocation, RegionChanges
    <2>5. CASE Len(regions') = Len(regions) /\ regions'[r].objects = regions[r].objects
      BY <2>2, <2>3, <2>4, <2>5 DEF EndInv
    <2>6. CASE /\ Len(regions') = Len(regions) + 1
               /\ regions'[Len(regions) + 1] = NewRegion
               /\ regions'[r].objects = Append(regions[r].objects, Len(regions) + 1)
      <3>1. /\ NewRegion.live = TRUE /\ NewRegion.objects = << >> /\ Elements(<< >>) = {}
        BY DEF NewRegion, Elements
      <3>2. \A o \in Elements(regions'[r].objects) :
              o \in Elements(regions[r].objects) \/ o = Len(regions) + 1
        BY <2>3, <2>6, AppendProperties DEF Elements
      <3>3. \A o \in Elements(regions'[r].objects) : o > r
        BY <1>1, <2>3, <3>2 DEF EndInv
      <3>4. \A s \in 1 .. Len(regions') : s \in 1 .. Len(regions) \/ s = Len(regions) + 1
        BY <1>1, <2>6
      <3>5. \A s \in 1 .. Len(regions') : ~regions'[s].live => regions'[s].chain = << >>
        BY <2>3, <2>4, <2>6, <3>1, <3>4 DEF EndInv
      <3>6. \A s \in 1 .. Len(regions') : \A o \in Elements(regions'[s].objects) : o > s
        BY <2>4, <2>6, <3>1, <3>3, <3>4 DEF EndInv
      <3> QED BY <2>2, <3>5, <3>6 DEF EndInv
    <2> QED BY <2>1, <2>5, <2>6 DEF Allocation, RegionChanges
  <1>4. CASE EnterStackRegion
    <2>1. ~closing /\ regions' = Append(regions, NewRegion) /\ UNCHANGED closing
      BY <1>4 DEF EnterStackRegion, Busy
    <2>2. /\ Len(regions') = Len(regions) + 1 /\ regions'[Len(regions) + 1] = NewRegion
          /\ \A s \in 1 .. Len(regions) : regions'[s] = regions[s]
      BY <2>1, AppendProperties DEF Inv, RegionTypes
    <2>3. NewRegion.live = TRUE /\ NewRegion.objects = << >> /\ Elements(<< >>) = {}
      BY DEF NewRegion, Elements
    <2>4. \A s \in 1 .. Len(regions') : s \in 1 .. Len(regions) \/ s = Len(regions) + 1
      BY <1>1, <2>2
    <2> QED BY <2>1, <2>2, <2>3, <2>4 DEF EndInv
  <1>5. CASE LeaveStackRegion
    <2>1. ~closing /\ UNCHANGED << regions, closing >>
      BY <1>5 DEF LeaveStackRegion, Busy
    <2> QED BY <2>1 DEF EndInv
  <1>6. CASE DestroyObject \/ ReleaseSegment \/ EndDestroy
    <2> DEFINE r == Top(dying)
    <2>1. dying # << >> /\ UNCHANGED << closing >>
      BY <1>6 DEF DestroyObject, ReleaseSegment, EndDestroy
    <2>2. ~closing
      BY <2>1 DEF EndInv
    <2>3. r \in 1 .. Len(regions) /\ regions[r] \in RegionRecord /\ regions[r].objects \in Seq(Nat)
          /\ regions[r].live
      BY <2>1, DyingTop, RegionTyped DEF Inv, RegionsHeld, HeldOnce, Live, Keepers
    <2>4. ASSUME NEW q, regions' = [regions EXCEPT ![r] = q],
                 Elements(q.objects) \subseteq Elements(regions[r].objects),
                 ~q.live => q.chain = << >>
          PROVE  EndInv'
      <3>1. regions \in Seq(RegionRecord)
        BY DEF Inv, RegionTypes
      <3>2. Len(regions') = Len(regions) /\ regions'[r] = q
            /\ \A s \in 1 .. Len(regions) : s # r => regions'[s] = regions[s]
        <4>1. DOMAIN regions = 1 .. Len(regions) /\ DOMAIN regions' = 1 .. Len(regions)
          BY <2>4, <3>1, LenProperties
        <4>2. regions' \in Seq(RegionRecord) /\ Len(regions') \in Nat
              /\ DOMAIN regions' = 1 .. Len(regions')
          BY LenProperties DEF Inv, RegionTypes
        <4> QED BY <1>1, <2>3, <2>4, <4>1, <4>2
      <3>3. \A s \in 1 .. Len(regions) :
              /\ Elements(regions'[s].objects) \subseteq Elements(regions[s].objects)
              /\ ~regions'[s].live => regions'[s].chain = << >>
        BY <2>4, <3>2 DEF EndInv
      <3> QED BY <2>1, <2>2, <3>2, <3>3, EndQuiet
    <2>5. CASE DestroyObject
      <3> DEFINE q == [regions[r] EXCEPT !.objects = Pop(regions[r].objects)]
      <3>1. regions' = [regions EXCEPT ![r] = q] /\ regions[r].objects # << >>
        BY <2>5 DEF DestroyObject
      <3>2. q.objects = Pop(regions[r].objects) /\ q.live
        BY <2>3 DEF RegionRecord
      <3>3. Elements(Pop(regions[r].objects)) \subseteq Elements(regions[r].objects)
        <4>1. NoRepeat(regions[r].objects)
          BY <1>1, <2>3 DEF Inv, RegionsHeld, HeldOnce, Keepers
        <4> QED BY <2>3, <3>1, <4>1, Popped
      <3> HIDE DEF q
      <3> QED BY <2>4, <3>1, <3>2, <3>3
    <2>6. CASE ReleaseSegment
      <3> DEFINE q == [regions[r] EXCEPT !.chain = Tail(regions[r].chain)]
      <3>1. regions' = [regions EXCEPT ![r] = q]
        BY <2>6 DEF ReleaseSegment
      <3>2. q.objects = regions[r].objects /\ q.live
        BY <2>3 DEF RegionRecord
      <3> HIDE DEF q
      <3> QED BY <2>4, <3>1, <3>2
    <2>7. CASE EndDestroy
      <3> DEFINE q == [NewRegion EXCEPT !.live = FALSE]
      <3>1. regions' = [regions EXCEPT ![r] = q]
        BY <2>7 DEF EndDestroy
      <3>2. q.objects = << >> /\ q.chain = << >> /\ Elements(<< >>) = {}
        BY DEF NewRegion, Elements
      <3> HIDE DEF q
      <3> QED BY <2>4, <3>1, <3>2
    <2> QED BY <1>6, <2>5, <2>6, <2>7
  <1>7. CASE ClosePool
    <2>1. dying = << >> /\ stackRegions = << >> /\ UNCHANGED << regions, stackRegions, dying >>
      BY <1>7 DEF ClosePool
    <2> QED BY <2>1 DEF EndInv
  <1>8. CASE UnmapSegment
    BY <1>2, <1>8 DEF UnmapSegment
  <1>9. CASE UNCHANGED vars
    BY <1>2, <1>9 DEF vars
  <1> QED BY <1>3, <1>4, <1>5, <1>6, <1>7, <1>8, <1>9 DEF Next

\* A compilation starts with the scope of a region.
LEMMA InitEnd ==
    ASSUME Init PROVE EndInv
  <1>1. /\ regions = << NewRegion >> /\ Len(regions) = 1 /\ regions[1] = NewRegion
        /\ ~closing
    BY DEF Init
  <1>2. NewRegion.live = TRUE /\ NewRegion.objects = << >> /\ Elements(<< >>) = {}
    BY DEF NewRegion, Elements
  <1>3. 1 .. Len(regions) = {1}
    BY <1>1
  <1> QED BY <1>1, <1>2, <1>3 DEF EndInv

\* Every step of a compilation keeps the invariant.
LEMMA NextKeeps ==
    ASSUME Inv, EndInv, Next PROVE Inv'
  <1>1. UNCHANGED options
    BY DEF Next
  <1>2. ASSUME NEW r \in Live, NEW n \in Sizes, Allocate(r, n) PROVE Inv'
    BY <1>1, <1>2, AllocationKeeps
  <1>3. ASSUME NEW r \in Live, CreateRegion(r) PROVE Inv'
    BY <1>1, <1>3, AllocationKeeps
  <1>4. CASE EnterStackRegion
    BY <1>1, <1>4, EnterKeeps
  <1>5. CASE LeaveStackRegion
    BY <1>1, <1>5, LeaveKeeps
  <1>6. CASE DestroyObject
    BY <1>1, <1>6, DestroyKeeps
  <1>7. CASE ReleaseSegment
    BY <1>1, <1>7, ReleaseKeeps
  <1>8. CASE EndDestroy
    BY <1>1, <1>8, EndKeeps
  <1>9. CASE ClosePool
    BY <1>1, <1>9, CloseKeeps
  <1>10. CASE UnmapSegment
    BY <1>1, <1>10, UnmapKeeps
  <1> QED BY <1>2, <1>3, <1>4, <1>5, <1>6, <1>7, <1>8, <1>9, <1>10 DEF Next

\* So the invariant holds in every state of a compilation.
LEMMA InvAlways == Spec => []Inv
  <1>1. Init => Inv /\ EndInv
    BY InitInv, InitEnd
  <1>2. Inv /\ EndInv /\ [Next]_vars => (Inv /\ EndInv)'
    BY NextKeeps, StutterKeeps, EndKept
  <1> QED BY <1>1, <1>2, PTL DEF Spec

-----------------------------------------------------------------------------
(***************************************************************************)
(* The theorems                                                            *)
(***************************************************************************)

\* A list without repetition is as long as its set of elements is large.
LEMMA ElementsCounted ==
    ASSUME NEW E, NEW s \in Seq(E), NoRepeat(s)
    PROVE  Cardinality(Elements(s)) = Len(s)
  <1>1. Len(s) \in Nat /\ DOMAIN s = 1 .. Len(s) /\ s \in [1 .. Len(s) -> E]
    BY LenProperties
  <1>2. s \in [1 .. Len(s) -> Elements(s)]
    BY <1>1 DEF Elements
  <1>3. \A x \in Elements(s) : \E i \in 1 .. Len(s) : s[i] = x
    BY DEF Elements
  <1>4. s \in Bijection(1 .. Len(s), Elements(s))
    BY <1>2, <1>3 DEF NoRepeat, Bijection, Injection, IsInjective, Surjection
  <1> QED BY <1>1, <1>4, FS_CountingElements DEF ExistsBijection

\* Regions, pool and provider agree on every segment: one that the provider
\* (SystemSegmentProvider::request, DebugSegmentProvider::request) has handed
\* out is in the chain of exactly one region or in the pool, none that was
\* released is in a chain, and every live region is a stack region, is being
\* destroyed or is an object of a live region, for any number of regions nested
\* in any way and any sizes.
THEOREM SegmentsNeverLeak == Spec => []SegmentsSound
  <1>1. Inv => SegmentsSound
    <2> SUFFICES ASSUME Inv PROVE SegmentsSound
      OBVIOUS
    <2>1. Len(regions) \in Nat
      BY LenProperties DEF Inv, RegionTypes
    <2>2. HeldOnce(Chains, 0 .. Len(regions), InUse) /\ DOMAIN Chains = 0 .. Len(regions)
      BY DEF Inv, SegmentsHeld, Chains
    <2>3. \A x \in 0 .. Len(regions) : Chains[x] \in Seq(Areas)
      BY <2>1, RegionTyped, PoolTyped DEF Chains
    <2>4. \A x \in 0 .. Len(regions) : Cardinality(Elements(Chains[x])) = Len(Chains[x])
      BY <2>2, <2>3, ElementsCounted DEF HeldOnce
    <2>5. HeldOnce(Keepers, -1 .. Len(regions), Live)
          /\ \A r \in 1 .. Len(regions) : ~regions[r].live => regions[r].objects = << >>
      BY DEF Inv, RegionsHeld
    <2>6. /\ -1 \in -1 .. Len(regions) /\ Keepers[-1] = dying
          /\ 0 \in -1 .. Len(regions) /\ Keepers[0] = stackRegions
          /\ \A x \in -1 .. Len(regions) :
               x = -1 \/ x = 0 \/ (x \in 1 .. Len(regions) /\ Keepers[x] = regions[x].objects)
      BY <2>1 DEF Keepers
    <2>7. ASSUME NEW r \in Live
          PROVE  \/ r \in Elements(stackRegions) \cup Elements(dying)
                 \/ \E s \in Live : r \in Elements(regions[s].objects)
      <3>1. PICK x \in -1 .. Len(regions) : r \in Elements(Keepers[x])
        BY <2>5 DEF HeldOnce
      <3>2. CASE x = -1 \/ x = 0
        BY <2>6, <3>1, <3>2
      <3>3. CASE x \in 1 .. Len(regions) /\ Keepers[x] = regions[x].objects
        <4>1. Elements(<< >>) = {}
          BY DEF Elements
        <4>2. regions[x].live
          BY <2>5, <3>1, <3>3, <4>1
        <4> QED BY <3>1, <3>3, <4>2 DEF Live
      <3> QED BY <2>6, <3>2, <3>3
    <2>8. SegmentsHeldOnce
      BY <2>2, <2>4, <2>7 DEF HeldOnce, SegmentsHeldOnce
    <2>9. Elements(stackRegions) \cup Elements(dying) \subseteq Live
      BY <2>5, <2>6 DEF HeldOnce
    <2>10. \A a \in DOMAIN segments : segments[a].allocated \in 0 .. segments[a].size
      BY SegmentTyped
    <2>11. \A r \in 1 .. Len(regions) : /\ regions[r].initial \in 0 .. InitialSize
                                        /\ regions[r].chain \in Seq(Areas)
                                        /\ regions[r].bytesAllocated \in Nat
      BY RegionTyped, SizesAssumption
    <2>12. TypeOK
      BY <2>9, <2>10, <2>11 DEF Inv, ProviderTypes, TypeOK
    <2> QED BY <2>8, <2>12 DEF SegmentsSound
  <1> QED BY <1>1, InvAlways, PTL

\* Region::allocate hands out every byte once while it is in use, inside what
\* is allocated of a segment that the region holds: no two allocations overlap,
\* whether they come from the segment in the region object, from its latest
\* segment, from a segment recycled by the pool or from a new one.
THEOREM MemoryNeverShared == Spec => []MemoryUnshared
  <1>1. Inv => MemoryUnshared
    <2> SUFFICES ASSUME Inv PROVE MemoryUnshared
      OBVIOUS
    <2>1. ASSUME NEW g \in granted
          PROVE  IF g.area = Initial THEN g.to =< InitialSize
                 ELSE /\ g.area \in Elements(regions[g.region].chain)
                      /\ g.to =< segments[g.area].allocated
      <3>1. Inside(g, regions, segments) /\ g.to \in Nat
        BY DEF Inv, GrantsInside, RegionTypes, GrantRecord
      <3>2. regions[g.region].initial \in Nat /\ regions[g.region].initial =< InitialSize
        BY <3>1, RegionTyped DEF Inside
      <3> QED BY <3>1, <3>2, SizesAssumption DEF Inside
    <2> QED BY <2>1 DEF Inv, GrantsApart, MemoryUnshared
  <1> QED BY <1>1, InvAlways, PTL

\* The bytes that the system provider reports (_currentBytesAllocated) are the
\* sizes of its segments, through every order of requests and releases, and
\* the high water mark is not below them.
THEOREM BytesAlwaysExact == Spec => []BytesExact
  <1>1. Inv => BytesExact
    BY DEF Inv
  <1> QED BY <1>1, InvAlways, PTL
=============================================================================
