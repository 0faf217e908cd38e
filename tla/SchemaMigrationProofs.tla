------------------------ MODULE SchemaMigrationProofs ------------------------
EXTENDS SchemaMigration, SequenceTheorems, FiniteSetTheorems, WellFoundedInduction, TLAPS

(***************************************************************************)
(* Proofs about SchemaMigration, for any models and any number of          *)
(* processes.  A catalog is well formed (CatalogOK) and stays so through   *)
(* every statement; a command holds a list (CommandOK) whose statements    *)
(* make only what some model has (Proper), touch only the scope of the     *)
(* model (Local) and lose no data (Harmless) unless they are marked        *)
(* destructive.  None of it depends on the catalog the list was made from, *)
(* so it is still true when the list runs, after what others did since.    *)
(***************************************************************************)

-----------------------------------------------------------------------------
(* Lists: what the operators that build lists of statements make of them   *)

IsList(s) == s \in Seq(Range(s))

(* A list is a function on 1..Len(s).                                      *)
LEMMA ListShape ==
    ASSUME NEW s, IsList(s)
    PROVE  /\ Len(s) \in Nat /\ DOMAIN s = 1..Len(s)
           /\ s = [i \in 1..Len(s) |-> s[i]]
           /\ \A i \in 1..Len(s) : s[i] \in Range(s)
  BY DEF IsList

(* A function on 1..n is a list.                                           *)
LEMMA ListOf ==
    ASSUME NEW n \in Nat, NEW f, f = [i \in 1..n |-> f[i]]
    PROVE  IsList(f) /\ Len(f) = n
<1>1. DOMAIN f = 1..n
  OBVIOUS
<1>2. \A i \in 1..n : f[i] \in Range(f)
  BY <1>1 DEF Range
<1>3. f \in [1..n -> Range(f)]
  BY <1>2
<1>4. f \in Seq(Range(f))
  BY <1>3
<1> QED BY <1>1, <1>4, LenProperties DEF IsList

(* A sequence over any set is a list.                                      *)
LEMMA ListIn ==
    ASSUME NEW T, NEW s \in Seq(T)
    PROVE  IsList(s)
<1>1. Len(s) \in Nat /\ s = [i \in 1..Len(s) |-> s[i]]
  OBVIOUS
<1> QED BY <1>1, ListOf

(* Concatenation keeps the members of both lists and adds none.            *)
LEMMA ListConcat ==
    ASSUME NEW a, NEW b, IsList(a), IsList(b)
    PROVE  IsList(a \o b) /\ Range(a \o b) = Range(a) \cup Range(b)
<1> DEFINE T == Range(a) \cup Range(b)
<1>1. a \in Seq(T) /\ b \in Seq(T)
  <2>1. a \in Seq(Range(a)) /\ b \in Seq(Range(b))
    BY DEF IsList
  <2>2. Range(a) \subseteq T /\ Range(b) \subseteq T
    OBVIOUS
  <2> HIDE DEF T
  <2> QED BY <2>1, <2>2
<1> HIDE DEF T
<1>2. IsList(a \o b)
  <2>1. a \o b \in Seq(T)
    BY <1>1
  <2> QED BY <2>1, ListIn
<1>3. /\ Len(a) \in Nat /\ Len(b) \in Nat /\ DOMAIN a = 1..Len(a) /\ DOMAIN b = 1..Len(b)
      /\ DOMAIN (a \o b) = 1..(Len(a) + Len(b))
      /\ \A i \in 1..(Len(a) + Len(b)) : (a \o b)[i] = IF i <= Len(a) THEN a[i] ELSE b[i - Len(a)]
  BY <1>1
<1>4. ASSUME NEW x \in Range(a \o b) PROVE x \in Range(a) \cup Range(b)
  <2>1. PICK i \in 1..(Len(a) + Len(b)) : x = (a \o b)[i]
    BY <1>3 DEF Range
  <2>2. CASE i <= Len(a)
    BY <1>3, <2>1, <2>2 DEF Range
  <2>3. CASE ~(i <= Len(a))
    <3>1. i - Len(a) \in 1..Len(b) /\ x = b[i - Len(a)]
      BY <1>3, <2>1, <2>3
    <3> QED BY <1>3, <3>1 DEF Range
  <2> QED BY <2>2, <2>3
<1>5. ASSUME NEW x \in Range(a) PROVE x \in Range(a \o b)
  <2>1. PICK i \in 1..Len(a) : x = a[i]
    BY <1>3 DEF Range
  <2>2. i \in 1..(Len(a) + Len(b)) /\ (a \o b)[i] = x
    BY <1>3, <2>1
  <2> QED BY <1>3, <2>2 DEF Range
<1>6. ASSUME NEW x \in Range(b) PROVE x \in Range(a \o b)
  <2>1. PICK i \in 1..Len(b) : x = b[i]
    BY <1>3 DEF Range
  <2>2. i + Len(a) \in 1..(Len(a) + Len(b)) /\ (a \o b)[i + Len(a)] = x
    BY <1>3, <2>1
  <2> QED BY <1>3, <2>2 DEF Range
<1> QED BY <1>2, <1>4, <1>5, <1>6

(* The empty list has no member.                                           *)
LEMMA ListEmpty == IsList(<<>>) /\ Range(<<>>) = {}
<1>1. Range(<<>>) = {}
  BY DEF Range
<1>2. <<>> \in Seq({})
  OBVIOUS
<1> QED BY <1>1, <1>2, Zenon DEF IsList

(* The one member of a list of one.                                        *)
LEMMA ListOne ==
    ASSUME NEW x
    PROVE  IsList(<<x>>) /\ Range(<<x>>) = {x}
<1>1. Range(<<x>>) = {x}
  BY DEF Range
<1>2. <<x>> \in Seq({x})
  OBVIOUS
<1> QED BY <1>1, <1>2, Zenon DEF IsList

(* The members of a list of two.                                           *)
LEMMA ListTwo ==
    ASSUME NEW x, NEW y
    PROVE  IsList(<<x, y>>) /\ Range(<<x, y>>) = {x, y}
<1>1. Range(<<x, y>>) = {x, y}
  BY DEF Range
<1>2. <<x, y>> \in Seq({x, y})
  OBVIOUS
<1> QED BY <1>1, <1>2, Zenon DEF IsList

(* Induction, with a set in place of the predicate.                        *)
LEMMA LeastNatural ==
    ASSUME NEW T, T \subseteq Nat, T # {}
    PROVE  \E x \in T : \A y \in T : x <= y
<1>1. PICK x \in T : \A y \in T : ~(<<y, x>> \in OpToRel(<, Nat))
  BY NatLessThanWellFounded, WFMin
<1>2. ASSUME NEW y \in T PROVE x <= y
  <2>1. ~(y < x)
    BY <1>1 DEF OpToRel
  <2> QED BY <2>1
<1> QED BY <1>2

(* Induction up to N, over a set of numbers.                               *)
LEMMA UpTo ==
    ASSUME NEW N \in Nat, NEW Good, 0 \in Good,
           \A n \in 1..N : n - 1 \in Good => n \in Good
    PROVE  0..N \subseteq Good
<1> SUFFICES ASSUME (0..N) \ Good # {} PROVE FALSE
  OBVIOUS
<1>1. PICK x \in (0..N) \ Good : \A y \in (0..N) \ Good : x <= y
  <2>1. (0..N) \ Good \subseteq Nat
    OBVIOUS
  <2> QED BY <2>1, LeastNatural
<1>2. x \in 1..N
  BY <1>1
<1>3. x - 1 \in Good
  BY <1>1, <1>2
<1> QED BY <1>1, <1>2, <1>3

(* FlattenSeq                                                              *)
FlatAt(seqs, f, i) == IF i = 1 THEN seqs[i] ELSE f[i - 1] \o seqs[i]
SolvesFlat(seqs, f, N) == f = [n \in 1..N |-> FlatAt(seqs, f, n)]

(* The recursive function inside FlattenSeq exists.                        *)
LEMMA FlatExists ==
    ASSUME NEW seqs, NEW N \in Nat
    PROVE  \E f : SolvesFlat(seqs, f, N)
<1> DEFINE Good == {k \in Nat : \E f : f = [n \in 1..k |-> FlatAt(seqs, f, n)]}
<1>1. 0 \in Good
  <2> DEFINE f == [n \in 1..0 |-> 0]
  <2>1. f = [n \in 1..0 |-> FlatAt(seqs, f, n)]
    OBVIOUS
  <2> QED BY <2>1
<1>2. ASSUME NEW k \in 1..N, k - 1 \in Good
      PROVE  k \in Good
  <2>1. PICK f : f = [n \in 1..(k - 1) |-> FlatAt(seqs, f, n)]
    BY <1>2
  <2> DEFINE g == [n \in 1..k |-> IF n = k THEN FlatAt(seqs, f, k) ELSE f[n]]
  <2>2. ASSUME NEW n \in 1..k
        PROVE  g[n] = FlatAt(seqs, g, n)
    <3>1. n # 1 => g[n - 1] = f[n - 1]
      OBVIOUS
    <3>2. FlatAt(seqs, g, n) = FlatAt(seqs, f, n)
      <4> HIDE DEF g
      <4> QED BY <3>1, Zenon DEF FlatAt
    <3>3. CASE n = k
      BY <3>2, <3>3
    <3>4. CASE n # k
      <4>1. g[n] = f[n] /\ n \in 1..(k - 1)
        BY <3>4
      <4>2. f[n] = FlatAt(seqs, f, n)
        <5> HIDE DEF g
        <5> QED BY <2>1, <4>1
      <4> QED BY <3>2, <4>1, <4>2
    <3> QED BY <3>3, <3>4
  <2>3. g = [n \in 1..k |-> FlatAt(seqs, g, n)]
    <3>1. g = [n \in 1..k |-> g[n]]
      OBVIOUS
    <3> HIDE DEF g
    <3> QED BY <2>2, <3>1
  <2> HIDE DEF g
  <2> QED BY <2>3
<1> HIDE DEF Good
<1>3. N \in Good
  <2>1. 0..N \subseteq Good
    BY <1>1, <1>2, UpTo
  <2> QED BY <2>1
<1> QED BY <1>3 DEF Good, SolvesFlat

(* Flattening a list of lists keeps their members and adds none.           *)
LEMMA ListFlatten ==
    ASSUME NEW seqs, IsList(seqs), \A i \in DOMAIN seqs : IsList(seqs[i])
    PROVE  /\ IsList(FlattenSeq(seqs))
           /\ Range(FlattenSeq(seqs)) = UNION {Range(seqs[i]) : i \in DOMAIN seqs}
<1> DEFINE N == Len(seqs)
<1>1. N \in Nat /\ DOMAIN seqs = 1..N
  BY ListShape
<1>2. CASE N = 0
  <2>1. FlattenSeq(seqs) = seqs
    BY <1>2 DEF FlattenSeq
  <2>2. DOMAIN seqs = {}
    BY <1>1, <1>2
  <2>3. Range(seqs) = {} /\ UNION {Range(seqs[i]) : i \in DOMAIN seqs} = {}
    BY <2>2 DEF Range
  <2> QED BY <2>1, <2>3
<1>3. CASE N # 0
  <2> DEFINE flat == CHOOSE f : f = [i \in 1..N |-> FlatAt(seqs, f, i)]
             upto(n) == UNION {Range(seqs[i]) : i \in 1..n}
             Right(n) == IsList(flat[n]) /\ Range(flat[n]) = upto(n)
             Good == {n \in 0..N : n # 0 => Right(n)}
  <2>1. flat = [i \in 1..N |-> FlatAt(seqs, flat, i)]
    <3> HIDE DEF N
    <3>1. \E f : SolvesFlat(seqs, f, N)
      BY <1>1, FlatExists
    <3> QED BY <3>1, Zenon DEF SolvesFlat
  <2>2. FlattenSeq(seqs) = flat[N]
    BY <1>3, Zenon DEF FlattenSeq, FlatAt
  <2> HIDE DEF flat, N
  <2>3. \A i \in 1..N : flat[i] = FlatAt(seqs, flat, i)
    BY <2>1
  <2>4. 0 \in Good
    <3>1. 0 \in 0..N
      BY <1>1
    <3> HIDE DEF Right
    <3> QED BY <3>1
  <2>5. ASSUME NEW n \in 1..N, n - 1 \in Good
        PROVE  n \in Good
    <3>1. IsList(seqs[n])
      BY <1>1
    <3>2. CASE n = 1
      <4>1. flat[n] = seqs[n]
        BY <1>1, <2>3, <3>2 DEF FlatAt
      <4>2. 1..n = {n}
        BY <3>2
      <4>3. upto(n) = Range(seqs[n])
        BY <4>2
      <4>4. Right(n)
        <5> HIDE DEF upto
        <5> QED BY <3>1, <4>1, <4>3
      <4> HIDE DEF Right
      <4> QED BY <1>1, <4>4
    <3>3. CASE n # 1
      <4>1. flat[n] = flat[n - 1] \o seqs[n]
        BY <1>1, <2>3, <3>3 DEF FlatAt
      <4>2. Right(n - 1)
        <5>1. n - 1 # 0
          BY <1>1, <3>3
        <5> HIDE DEF Right
        <5> QED BY <2>5, <5>1
      <4>3. 1..n = (1..(n - 1)) \cup {n}
        BY <1>1
      <4>4. upto(n) = upto(n - 1) \cup Range(seqs[n])
        BY <4>3
      <4>5. Right(n)
        <5> HIDE DEF upto
        <5>1. IsList(flat[n - 1] \o seqs[n])
          BY <3>1, <4>2, ListConcat
        <5>2. Range(flat[n - 1] \o seqs[n]) = Range(flat[n - 1]) \cup Range(seqs[n])
          BY <3>1, <4>2, ListConcat
        <5> QED BY <4>1, <4>2, <4>4, <5>1, <5>2, Zenon
      <4> HIDE DEF Right
      <4> QED BY <1>1, <4>5
    <3> QED BY <3>2, <3>3
  <2>6. Right(N)
    <3> HIDE DEF Right
    <3>1. 0..N \subseteq Good
      <4> HIDE DEF Good
      <4> QED BY <1>1, <2>4, <2>5, UpTo
    <3> QED BY <1>1, <1>3, <3>1
  <2>7. upto(N) = UNION {Range(seqs[i]) : i \in DOMAIN seqs}
    BY <1>1
  <2> HIDE DEF upto
  <2> QED BY <2>2, <2>6, <2>7
<1> QED BY <1>2, <1>3

(* A finite set, listed in some order, has the members it had.             *)
LEMMA ListOrdered ==
    ASSUME NEW S, IsFiniteSet(S)
    PROVE  IsList(Ordered(S)) /\ Range(Ordered(S)) = S
<1> DEFINE n == Cardinality(S)
           f == SetToSeq(S)
<1>1. n \in Nat /\ ExistsBijection(1..n, S)
  BY FS_CardinalityType
<1>2. PICK g \in [1..n -> S] : IsInjective(g)
  BY <1>1 DEF ExistsBijection, Bijection, Injection
<1>3. f \in [1..n -> S] /\ IsInjective(f)
  <2> HIDE DEF n
  <2>1. \E h \in [1..n -> S] : IsInjective(h)
    BY <1>2
  <2> QED BY <2>1, Zenon DEF SetToSeq, n
<1> HIDE DEF f, n
<1>4. IsList(f)
  <2>1. f = [i \in 1..n |-> f[i]]
    BY <1>3
  <2> QED BY <1>1, <2>1, ListOf
<1>5. f \in Surjection(1..n, S)
  <2>1. f \in Injection(1..n, S)
    BY <1>3 DEF Injection
  <2>2. Cardinality(1..n) = n
    BY <1>1, FS_Interval
  <2> QED BY <2>1, <2>2, FS_Injection DEF n
<1>6. Range(f) = S
  BY <1>3, <1>5 DEF Surjection, Range
<1> QED BY <1>4, <1>6 DEF f, Ordered

(* A map of lists, listed key by key, has the members of all of them.      *)
LEMMA ListEach ==
    ASSUME NEW f, IsFiniteSet(DOMAIN f), \A x \in DOMAIN f : IsList(f[x])
    PROVE  IsList(Each(f)) /\ Range(Each(f)) = UNION {Range(f[x]) : x \in DOMAIN f}
<1> DEFINE K == {x \in DOMAIN f : f[x] # <<>>}
           s == Ordered(K)
           seqs == [i \in DOMAIN s |-> f[s[i]]]
<1>1. IsList(s) /\ Range(s) = K
  BY FS_Subset, ListOrdered
<1>2. Each(f) = FlattenSeq(seqs)
  BY DEF Each
<1> HIDE DEF s
<1>3. DOMAIN seqs = DOMAIN s /\ Len(s) \in Nat /\ DOMAIN s = 1..Len(s)
  BY <1>1, ListShape
<1>4. IsList(seqs)
  <2>1. seqs = [i \in 1..Len(s) |-> seqs[i]]
    BY <1>3
  <2> HIDE DEF seqs
  <2> QED BY <1>3, <2>1, ListOf
<1>5. \A i \in DOMAIN s : seqs[i] = f[s[i]] /\ s[i] \in DOMAIN f
  BY <1>1 DEF Range
<1>6. \A x \in DOMAIN f : f[x] = <<>> \/ \E i \in DOMAIN s : x = s[i]
  BY <1>1 DEF Range
<1> HIDE DEF seqs
<1>7. \A i \in DOMAIN seqs : IsList(seqs[i])
  BY <1>3, <1>5
<1>8. IsList(FlattenSeq(seqs))
  BY <1>4, <1>7, ListFlatten
<1>9. Range(FlattenSeq(seqs)) = UNION {Range(seqs[i]) : i \in DOMAIN seqs}
  BY <1>4, <1>7, ListFlatten
<1>10. UNION {Range(seqs[i]) : i \in DOMAIN seqs} = UNION {Range(f[x]) : x \in DOMAIN f}
  <2>1. Range(<<>>) = {}
    BY DEF Range
  <2>2. \A x \in DOMAIN f : \A o \in Range(f[x]) : \E i \in DOMAIN s : x = s[i]
    BY <1>6, <2>1
  <2>3. \A x \in DOMAIN f : \A o \in Range(f[x]) : \E i \in DOMAIN seqs : o \in Range(seqs[i])
    BY <1>3, <1>5, <2>2
  <2>4. \A i \in DOMAIN seqs : \A o \in Range(seqs[i]) : \E x \in DOMAIN f : o \in Range(f[x])
    BY <1>3, <1>5
  <2> QED BY <2>3, <2>4
<1> QED BY <1>2, <1>8, <1>9, <1>10

(* What the statements of an Each are, one by one.                         *)
LEMMA EachMember ==
    ASSUME NEW f, IsFiniteSet(DOMAIN f), \A x \in DOMAIN f : IsList(f[x]),
           NEW o \in Range(Each(f))
    PROVE  \E x \in DOMAIN f : o \in Range(f[x])
  BY ListEach

(* What the list of one key has, the whole has.                            *)
LEMMA EachHas ==
    ASSUME NEW f, IsFiniteSet(DOMAIN f), \A x \in DOMAIN f : IsList(f[x]),
           NEW x \in DOMAIN f, NEW o \in Range(f[x])
    PROVE  o \in Range(Each(f))
  BY ListEach

(* A function on a finite set takes finitely many values.                  *)
LEMMA FiniteRange ==
    ASSUME NEW f, IsFiniteSet(DOMAIN f)
    PROVE  IsFiniteSet(Range(f))
<1>1. [x \in DOMAIN f |-> f[x]] \in Surjection(DOMAIN f, Range(f))
  BY DEF Surjection, Range
<1> QED BY <1>1, FS_Surjection

(* The sort at the end of diff                                             *)
LEMMA ListInsert ==
    ASSUME NEW s, IsList(s), NEW op
    PROVE  /\ IsList(insert_change(s, op))
           /\ Range(insert_change(s, op)) = Range(s) \cup {op}
<1> DEFINE stop == CHOOSE i \in 0..Len(s) :
                     /\ \A j \in (i + 1)..Len(s) : s[j].op = "CreateTrigger"
                     /\ i = 0 \/ s[i].op # "CreateTrigger"
           Before(i) == i = 0 \/ s[i].op # "CreateTrigger"
<1>1. Len(s) \in Nat /\ DOMAIN s = 1..Len(s) /\ s \in Seq(Range(s))
  BY ListShape DEF IsList
<1>2. IsList(<<op>>) /\ Range(<<op>>) = {op}
  BY ListOne
<1>3. CASE op.op # "CreateFunction"
  <2>1. insert_change(s, op) = Append(s, op)
    BY <1>3 DEF insert_change
  <2>2. Append(s, op) = s \o <<op>>
    <3>1. s \in Seq(Range(s) \cup {op}) /\ op \in Range(s) \cup {op}
      BY <1>1
    <3> QED BY <3>1, AppendIsConcat
  <2>3. IsList(s \o <<op>>) /\ Range(s \o <<op>>) = Range(s) \cup Range(<<op>>)
    BY <1>2, ListConcat
  <2> QED BY <1>2, <2>1, <2>2, <2>3
<1>4. CASE op.op = "CreateFunction"
  <2>1. stop \in 0..Len(s)
    <3> DEFINE last == {i \in 1..Len(s) : s[i].op # "CreateTrigger"}
    <3>1. \E i \in 0..Len(s) :
            /\ \A j \in (i + 1)..Len(s) : s[j].op = "CreateTrigger"
            /\ i = 0 \/ s[i].op # "CreateTrigger"
      <4>1. CASE last = {}
        <5>1. \A j \in (0 + 1)..Len(s) : s[j].op = "CreateTrigger"
          BY <1>1, <4>1
        <5> QED BY <1>1, <5>1
      <4>2. CASE last # {}
        <5> DEFINE T == {Len(s) - i : i \in last}
        <5>1. T \subseteq Nat /\ T # {}
          BY <1>1, <4>2
        <5>2. PICK x \in T : \A y \in T : x <= y
          <6> HIDE DEF T
          <6> QED BY <5>1, LeastNatural
        <5>3. PICK i \in last : x = Len(s) - i
          BY <5>2
        <5>4. ASSUME NEW j \in (i + 1)..Len(s) PROVE s[j].op = "CreateTrigger"
          <6> SUFFICES ASSUME s[j].op # "CreateTrigger" PROVE FALSE
            OBVIOUS
          <6>1. j \in last
            BY <1>1
          <6>2. Len(s) - i <= Len(s) - j
            BY <5>2, <5>3, <6>1
          <6> QED BY <1>1, <6>2
        <5>5. i \in 0..Len(s) /\ s[i].op # "CreateTrigger"
          BY <1>1
        <5> QED BY <5>4, <5>5
      <4> QED BY <4>1, <4>2
    <3> QED BY <3>1, Zenon
  <2>2. insert_change(s, op) = (SubSeq(s, 1, stop) \o <<op>>) \o SubSeq(s, stop + 1, Len(s))
    BY <1>4 DEF insert_change
  <2> HIDE DEF stop
  <2> DEFINE a == SubSeq(s, 1, stop)
             b == SubSeq(s, stop + 1, Len(s))
  <2>3. IsList(a) /\ IsList(b)
    <3>1. a \in Seq(Range(s)) /\ b \in Seq(Range(s))
      BY <1>1, <2>1, SubSeqProperties
    <3> QED BY <3>1, ListIn
  <2>4. Range(a) \cup Range(b) = Range(s)
    <3>1. /\ DOMAIN a = 1..stop /\ \A i \in 1..stop : a[i] = s[i]
          /\ DOMAIN b = 1..(Len(s) - stop)
          /\ \A i \in 1..(Len(s) - stop) : b[i] = s[stop + i]
      <4>1. a = [i \in 1..stop |-> s[i]]
        BY <1>1, <2>1 
      <4>2. b = [i \in 1..(Len(s) - stop) |-> s[stop + i]]
        BY <1>1, <2>1
      <4> QED BY <4>1, <4>2
    <3>2. \A x \in Range(a) \cup Range(b) : x \in Range(s)
      <4>1. \A i \in 1..stop : i \in 1..Len(s)
        BY <1>1, <2>1
      <4>2. \A i \in 1..(Len(s) - stop) : stop + i \in 1..Len(s)
        BY <1>1, <2>1
      <4> HIDE DEF a, b
      <4> QED BY <1>1, <3>1, <4>1, <4>2 DEF Range
    <3>3. ASSUME NEW x \in Range(s) PROVE x \in Range(a) \cup Range(b)
      <4>1. PICK i \in 1..Len(s) : x = s[i]
        BY <1>1 DEF Range
      <4>2. CASE i <= stop
        <5>1. i \in 1..stop
          BY <1>1, <2>1, <4>2
        <5> HIDE DEF a, b
        <5> QED BY <3>1, <4>1, <5>1 DEF Range
      <4>3. CASE ~(i <= stop)
        <5>1. i - stop \in 1..(Len(s) - stop) /\ stop + (i - stop) = i
          BY <1>1, <2>1, <4>3
        <5>2. b[i - stop] = x
          <6> HIDE DEF a, b
          <6> QED BY <3>1, <4>1, <5>1
        <5> HIDE DEF a, b
        <5> QED BY <3>1, <5>1, <5>2 DEF Range
      <4> QED BY <4>2, <4>3
    <3> HIDE DEF a, b
    <3> QED BY <3>2, <3>3
  <2> HIDE DEF a, b
  <2>5. IsList(a \o <<op>>) /\ Range(a \o <<op>>) = Range(a) \cup {op}
    BY <1>2, <2>3, ListConcat
  <2>6. /\ IsList((a \o <<op>>) \o b)
        /\ Range((a \o <<op>>) \o b) = Range(a \o <<op>>) \cup Range(b)
    BY <2>3, <2>5, ListConcat
  <2>7. insert_change(s, op) = (a \o <<op>>) \o b
    BY <2>2 DEF a, b
  <2> QED BY <2>4, <2>5, <2>6, <2>7
<1> QED BY <1>3, <1>4

SortedAt(changes, f, n) == IF n = 0 THEN <<>> ELSE insert_change(f[n - 1], changes[n])
SolvesSorted(changes, f, N) == f = [n \in 0..N |-> SortedAt(changes, f, n)]

(* The recursive function inside sort_changes exists.                      *)
LEMMA SortedExists ==
    ASSUME NEW changes, NEW N \in Nat
    PROVE  \E f : SolvesSorted(changes, f, N)
<1> DEFINE Good == {k \in Nat : \E f : f = [n \in 0..k |-> SortedAt(changes, f, n)]}
<1>1. 0 \in Good
  <2> DEFINE f == [n \in 0..0 |-> SortedAt(changes, <<>>, 0)]
  <2>1. f = [n \in 0..0 |-> SortedAt(changes, f, n)]
    BY DEF SortedAt
  <2> QED BY <2>1
<1>2. ASSUME NEW k \in 1..N, k - 1 \in Good
      PROVE  k \in Good
  <2>1. PICK f : f = [n \in 0..(k - 1) |-> SortedAt(changes, f, n)]
    BY <1>2
  <2> DEFINE g == [n \in 0..k |-> IF n = k THEN SortedAt(changes, f, k) ELSE f[n]]
  <2>2. ASSUME NEW n \in 0..k
        PROVE  g[n] = SortedAt(changes, g, n)
    <3>1. n # 0 => g[n - 1] = f[n - 1]
      OBVIOUS
    <3>2. SortedAt(changes, g, n) = SortedAt(changes, f, n)
      <4> HIDE DEF g
      <4> QED BY <3>1, Zenon DEF SortedAt
    <3>3. CASE n = k
      BY <3>2, <3>3
    <3>4. CASE n # k
      <4>1. g[n] = f[n] /\ n \in 0..(k - 1)
        BY <3>4
      <4>2. f[n] = SortedAt(changes, f, n)
        <5> HIDE DEF g
        <5> QED BY <2>1, <4>1
      <4> QED BY <3>2, <4>1, <4>2
    <3> QED BY <3>3, <3>4
  <2>3. g = [n \in 0..k |-> SortedAt(changes, g, n)]
    <3>1. g = [n \in 0..k |-> g[n]]
      OBVIOUS
    <3> HIDE DEF g
    <3> QED BY <2>2, <3>1
  <2> HIDE DEF g
  <2> QED BY <2>3
<1> HIDE DEF Good
<1>3. N \in Good
  <2>1. 0..N \subseteq Good
    BY <1>1, <1>2, UpTo
  <2> QED BY <2>1
<1> QED BY <1>3 DEF Good, SolvesSorted

(* Sorting the changes (Migration::from_diffs) loses none and makes none   *)
(* up.                                                                     *)
LEMMA ListSort ==
    ASSUME NEW s, IsList(s)
    PROVE  IsList(sort_changes(s)) /\ Range(sort_changes(s)) = Range(s)
<1> DEFINE N == Len(s)
           sorted == CHOOSE f : f = [n \in 0..N |-> SortedAt(s, f, n)]
           upto(n) == {s[i] : i \in 1..n}
           Right(n) == IsList(sorted[n]) /\ Range(sorted[n]) = upto(n)
           Good == {n \in 0..N : Right(n)}
<1>1. N \in Nat /\ DOMAIN s = 1..N
  BY ListShape
<1>2. sorted = [n \in 0..N |-> SortedAt(s, sorted, n)]
  <2> HIDE DEF N
  <2>1. \E f : SolvesSorted(s, f, N)
    BY <1>1, SortedExists
  <2> QED BY <2>1, Zenon DEF SolvesSorted
<1>3. sort_changes(s) = sorted[N]
  BY Zenon DEF sort_changes, SortedAt
<1> HIDE DEF sorted, N
<1>4. \A n \in 0..N : sorted[n] = SortedAt(s, sorted, n)
  BY <1>2
<1>5. 0 \in Good
  <2>1. sorted[0] = <<>> /\ 0 \in 0..N
    BY <1>1, <1>4 DEF SortedAt
  <2>2. upto(0) = {}
    OBVIOUS
  <2>3. Right(0)
    <3> HIDE DEF upto
    <3> QED BY <2>1, <2>2, ListEmpty
  <2> HIDE DEF Right
  <2> QED BY <2>1, <2>3
<1>6. ASSUME NEW n \in 1..N, n - 1 \in Good
      PROVE  n \in Good
  <2>1. sorted[n] = insert_change(sorted[n - 1], s[n])
    BY <1>1, <1>4 DEF SortedAt
  <2>2. Right(n - 1)
    <3> HIDE DEF Right
    <3> QED BY <1>6
  <2>3. 1..n = (1..(n - 1)) \cup {n}
    BY <1>1
  <2>4. upto(n) = upto(n - 1) \cup {s[n]}
    BY <2>3
  <2>5. Right(n)
    <3> HIDE DEF upto
    <3>1. IsList(insert_change(sorted[n - 1], s[n]))
      BY <2>2, ListInsert
    <3>2. Range(insert_change(sorted[n - 1], s[n])) = Range(sorted[n - 1]) \cup {s[n]}
      BY <2>2, ListInsert
    <3> QED BY <2>1, <2>2, <2>4, <3>1, <3>2, Zenon
  <2> HIDE DEF Right
  <2> QED BY <1>1, <2>5
<1>7. Right(N)
  <2> HIDE DEF Right
  <2>1. 0..N \subseteq Good
    <3> HIDE DEF Good
    <3> QED BY <1>1, <1>5, <1>6, UpTo
  <2> QED BY <1>1, <2>1
<1>8. upto(N) = Range(s)
  BY <1>1 DEF Range
<1> HIDE DEF upto
<1> QED BY <1>3, <1>7, <1>8

-----------------------------------------------------------------------------
(* The catalog: what each statement that is not refused leaves of it       *)

IsTable(table) ==
    /\ DOMAIN table = {"managed", "cols", "indices", "triggers"}
    /\ IsFiniteSet(DOMAIN table.cols) /\ IsFiniteSet(DOMAIN table.indices)
    /\ IsFiniteSet(table.triggers)
    /\ \A c \in DOMAIN table.cols : IsColumn(table.cols[c])

(* A type or a table that a table of this schema may depend on.            *)
MayUse(schema, name) == SelfContained => Linked(schema, name[1])

(* What a table of a schema is like when the tables of D exist.            *)
Within(schema, table, D) ==
    /\ IsTable(table)
    /\ \A c \in DOMAIN table.cols :
          /\ MayUse(schema, table.cols[c].typ)
          /\ \A r \in table.cols[c].refs : r.table \in D /\ MayUse(schema, r.table)
    /\ \A n \in DOMAIN table.indices : IsModelIndex(n, table.indices[n])
    /\ \A n \in table.triggers : n[1] = schema

(* The data of a are still in b.                                           *)
KeepsData(a, b) ==
    \A c \in DOMAIN a.cols : c \in DOMAIN b.cols /\ b.cols[c].born = a.cols[c].born

NewColumn(schema, c) == IsColumn(c) /\ MayUse(schema, c.typ)

(* A table as some model has it.                                           *)
NewTable(schema, table) ==
    /\ IsTable(table)
    /\ \A c \in DOMAIN table.cols :
          /\ NewColumn(schema, table.cols[c])
          /\ \A r \in table.cols[c].refs : MayUse(schema, r.table)
    /\ \A n \in DOMAIN table.indices : IsModelIndex(n, table.indices[n])
    /\ \A n \in table.triggers : n[1] = schema

Statements ==
    TableStatements \cup
    {"CreateExtension", "RemoveExtension", "CreateSchema", "DeleteSchema", "CreateSequence",
     "DeleteSequence", "RenameSequence", "CreateEnum", "DeleteEnum", "CreateTable", "DeleteTable",
     "RenameTable", "DeleteIndex", "CreateFunction", "CreateOrReplaceFunction", "DeleteFunction"}

(* A statement makes only what some model has.                             *)
Proper(s) ==
    /\ s.op \in Statements
    /\ s.op = "CreateTable" => s.t \in ModelNames /\ NewTable(s.t[1], s.v)
    /\ s.op = "DeleteTable" => IsTable(s.v)
    /\ s.op = "CreateColumn" => NewColumn(s.t[1], s.v)
    /\ s.op = "CreateIndex" => IsModelIndex(s.n, s.v)
    /\ s.op = "CreateForeignKeyReference" => MayUse(s.t[1], s.v.table)
    /\ s.op = "CreateTrigger" => s.n[1] = s.t[1]
    /\ s.op = "RenameTable" => s.n \in ModelNames

(* Other columns, of which the table keeps the types and the data.         *)
LEMMA NewColumns ==
    ASSUME NEW schema, NEW table, NEW D, Within(schema, table, D),
           NEW cols, DOMAIN cols = DOMAIN table.cols,
           \A c \in DOMAIN cols :
               /\ IsColumn(cols[c]) /\ cols[c].typ = table.cols[c].typ
               /\ cols[c].born = table.cols[c].born
               /\ \A r \in cols[c].refs : r.table \in D /\ MayUse(schema, r.table)
    PROVE  LET after == [table EXCEPT !.cols = cols] IN
           Within(schema, after, D) /\ KeepsData(table, after)
<1> DEFINE after == [table EXCEPT !.cols = cols]
<1>1. /\ DOMAIN table = {"managed", "cols", "indices", "triggers"}
      /\ IsFiniteSet(DOMAIN table.cols) /\ IsFiniteSet(DOMAIN table.indices)
      /\ IsFiniteSet(table.triggers)
  BY DEF Within, IsTable
<1>2. /\ DOMAIN after = DOMAIN table /\ after.cols = cols /\ after.indices = table.indices
      /\ after.triggers = table.triggers
  BY <1>1
<1> HIDE DEF after
<1>3. IsTable(after)
  BY <1>1, <1>2 DEF IsTable
<1>4. Within(schema, after, D)
  BY <1>2, <1>3 DEF Within
<1>5. KeepsData(table, after)
  BY <1>2 DEF KeepsData
<1> QED BY <1>4, <1>5 DEF after

(* A column just added has its type, no reference and fresh data.          *)
LEMMA BareColumn ==
    ASSUME NEW schema, NEW col, NewColumn(schema, col), NEW born
    PROVE  /\ IsColumn(Bare(col, born)) /\ Bare(col, born).typ = col.typ
           /\ Bare(col, born).refs = {} /\ Bare(col, born).born = born
<1>1. DOMAIN col = {"typ", "pk", "nullable", "default", "uniques", "refs", "born"}
  BY DEF NewColumn, IsColumn
<1>2. /\ DOMAIN Bare(col, born) = DOMAIN col /\ Bare(col, born).typ = col.typ
      /\ Bare(col, born).refs = {} /\ Bare(col, born).born = born
      /\ Bare(col, born).uniques = {}
  BY <1>1 DEF Bare
<1> QED BY <1>1, <1>2, FS_EmptySet DEF IsColumn

(* ADD COLUMN keeps the table well formed and every column's data.         *)
LEMMA CreateColumnWithin ==
    ASSUME NEW table, NEW s, NEW D, NEW tick_, s.op = "CreateColumn",
           Within(s.t[1], table, D), Proper(s), s.n \notin DOMAIN table.cols
    PROVE  LET after == Altered(table, s, tick_) IN
           Within(s.t[1], after, D) /\ KeepsData(table, after)
<1> DEFINE after == Altered(table, s, tick_)
           new == Bare(s.v, <<tick_, s.t, s.n>>)
           cols == With(table.cols, s.n, new)
<1>1. NewColumn(s.t[1], s.v)
  BY DEF Proper
<1>2. IsColumn(new) /\ new.typ = s.v.typ /\ new.refs = {}
  BY <1>1, BareColumn
<1>3. after = [table EXCEPT !.cols = cols]
  BY DEF Altered
<1> HIDE DEF new
<1>4. /\ DOMAIN cols = DOMAIN table.cols \cup {s.n} /\ cols[s.n] = new
      /\ \A c \in DOMAIN table.cols : cols[c] = table.cols[c]
  BY DEF With
<1>5. /\ DOMAIN table = {"managed", "cols", "indices", "triggers"}
      /\ IsFiniteSet(DOMAIN table.cols) /\ IsFiniteSet(DOMAIN table.indices)
      /\ IsFiniteSet(table.triggers)
  BY DEF Within, IsTable
<1> HIDE DEF cols
<1>6. /\ DOMAIN after = DOMAIN table /\ after.cols = cols /\ after.indices = table.indices
      /\ after.triggers = table.triggers
  BY <1>3, <1>5
<1> HIDE DEF after
<1>7. IsFiniteSet(DOMAIN cols)
  BY <1>4, <1>5, FS_AddElement
<1>8. IsTable(after)
  BY <1>2, <1>4, <1>5, <1>6, <1>7 DEF IsTable, Within
<1>9. Within(s.t[1], after, D)
  BY <1>1, <1>2, <1>4, <1>6, <1>8 DEF Within, NewColumn
<1>10. KeepsData(table, after)
  BY <1>4, <1>6 DEF KeepsData
<1> QED BY <1>9, <1>10 DEF after

(* A table that loses columns, with the keys and the indices over them,    *)
(* stays well formed.                                                      *)
LEMMA LoseColumnsWithin ==
    ASSUME NEW schema, NEW table, NEW D, Within(schema, table, D), NEW S
    PROVE  Within(schema, LoseColumns(table, S), D)
<1>0. CASE S = {}
  BY <1>0, Zenon DEF LoseColumns
<1> SUFFICES ASSUME S # {} PROVE Within(schema, LoseColumns(table, S), D)
  BY <1>0
<1> DEFINE lost  == Keep(table.cols, S)
           names == UNION {c.uniques : c \in Range(lost)}
           keys  == {r.group : r \in UNION {c.refs : c \in Range(lost)}}
           nopk  == \E c \in Range(lost) : c.pk
           column(c) == [table.cols[c] EXCEPT !.uniques = @ \ names,
                                              !.refs = {r \in @ : r.group \notin keys},
                                              !.pk = @ /\ ~nopk]
           cols == [c \in DOMAIN table.cols \ S |-> column(c)]
           indices == Keep(table.indices, {i \in DOMAIN table.indices : table.indices[i] \cap S = {}})
           after == LoseColumns(table, S)
<1>1. /\ DOMAIN table = {"managed", "cols", "indices", "triggers"}
      /\ IsFiniteSet(DOMAIN table.cols) /\ IsFiniteSet(DOMAIN table.indices)
      /\ IsFiniteSet(table.triggers)
  BY DEF Within, IsTable
<1>2. after = [table EXCEPT !.cols = cols, !.indices = indices]
  BY DEF LoseColumns
<1>3. ASSUME NEW c \in DOMAIN table.cols
      PROVE  /\ IsColumn(column(c)) /\ column(c).typ = table.cols[c].typ
             /\ column(c).refs \subseteq table.cols[c].refs
  <2>1. IsColumn(table.cols[c])
    BY DEF Within, IsTable
  <2> DEFINE col == table.cols[c]
  <2>2. /\ DOMAIN col = {"typ", "pk", "nullable", "default", "uniques", "refs", "born"}
        /\ IsFiniteSet(col.uniques) /\ IsFiniteSet(col.refs)
        /\ \A r \in col.refs : DOMAIN r = {"group", "table"}
    BY <2>1 DEF IsColumn
  <2> HIDE DEF col, names, keys, nopk
  <2> DEFINE new == [col EXCEPT !.uniques = @ \ names,
                                !.refs = {r \in @ : r.group \notin keys},
                                !.pk = @ /\ ~nopk]
  <2>3. /\ DOMAIN new = DOMAIN col /\ new.typ = col.typ /\ new.uniques = col.uniques \ names
        /\ new.refs = {r \in col.refs : r.group \notin keys}
    BY <2>2
  <2>4. column(c) = new
    BY DEF col
  <2> HIDE DEF new
  <2>5. new.uniques \subseteq col.uniques /\ new.refs \subseteq col.refs
    BY <2>3
  <2>6. IsFiniteSet(new.uniques) /\ IsFiniteSet(new.refs)
    BY <2>2, <2>5, FS_Subset
  <2>7. IsColumn(new)
    BY <2>2, <2>3, <2>5, <2>6 DEF IsColumn
  <2> HIDE DEF column
  <2> QED BY <2>3, <2>4, <2>5, <2>7 DEF col
<1>4. /\ DOMAIN after = DOMAIN table /\ after.cols = cols /\ after.indices = indices
      /\ after.triggers = table.triggers
  <2> HIDE DEF cols, indices, after
  <2> QED BY <1>1, <1>2
<1>5. /\ DOMAIN cols \subseteq DOMAIN table.cols
      /\ \A c \in DOMAIN cols : cols[c] = column(c)
      /\ DOMAIN indices \subseteq DOMAIN table.indices
      /\ \A n \in DOMAIN indices : indices[n] = table.indices[n]
  <2> HIDE DEF column
  <2> QED BY DEF Keep
<1> HIDE DEF column, cols, indices, after
<1>6. IsFiniteSet(DOMAIN cols) /\ IsFiniteSet(DOMAIN indices)
  BY <1>1, <1>5, FS_Subset
<1>7. IsTable(after)
  BY <1>1, <1>3, <1>4, <1>5, <1>6 DEF IsTable
<1>8. Within(schema, after, D)
  BY <1>3, <1>4, <1>5, <1>7 DEF Within
<1> QED BY <1>8 DEF after

(* One column or all of them change, but for their types and their data.   *)
LEMMA ColumnWithin ==
    ASSUME NEW table, NEW s, NEW D, NEW time,
           s.op \in {"SetColumnDefaultValue", "UnsetColumnDefaultValue", "SetNotNull", "UnsetNotNull"},
           Within(s.t[1], table, D), s.n \in DOMAIN table.cols
    PROVE  Within(s.t[1], Altered(table, s, time), D) /\ KeepsData(table, Altered(table, s, time))
<1> DEFINE col == table.cols[s.n]
           new == CASE s.op = "SetColumnDefaultValue"   -> [col EXCEPT !.default = s.v.default]
                    [] s.op = "UnsetColumnDefaultValue" -> [col EXCEPT !.default = "none"]
                    [] s.op = "SetNotNull"              -> [col EXCEPT !.nullable = FALSE]
                    [] s.op = "UnsetNotNull"            -> [col EXCEPT !.nullable = TRUE]
           cols == [table.cols EXCEPT ![s.n] = new]
<1>1. Altered(table, s, time) = [table EXCEPT !.cols = cols]
  BY DEF Altered
<1>2. IsColumn(col)
  BY DEF Within, IsTable
<1>3. IsColumn(new) /\ new.typ = col.typ /\ new.born = col.born /\ new.refs = col.refs
  <2>1. DOMAIN col = {"typ", "pk", "nullable", "default", "uniques", "refs", "born"}
    BY <1>2 DEF IsColumn
  <2>2. /\ DOMAIN new = DOMAIN col /\ new.typ = col.typ /\ new.born = col.born
        /\ new.refs = col.refs /\ new.uniques = col.uniques
    <3> HIDE DEF col
    <3> QED BY <2>1
  <2> HIDE DEF new, col
  <2> QED BY <1>2, <2>1, <2>2 DEF IsColumn
<1> HIDE DEF new
<1>4. /\ DOMAIN cols = DOMAIN table.cols /\ cols[s.n] = new
      /\ \A c \in DOMAIN cols : c # s.n => cols[c] = table.cols[c]
  OBVIOUS
<1> HIDE DEF cols
<1>5. \A c \in DOMAIN cols :
        /\ IsColumn(cols[c]) /\ cols[c].typ = table.cols[c].typ
        /\ cols[c].born = table.cols[c].born
        /\ \A r \in cols[c].refs : r.table \in D /\ MayUse(s.t[1], r.table)
  <2>1. \A c \in DOMAIN table.cols :
          IsColumn(table.cols[c]) /\ \A r \in table.cols[c].refs : r.table \in D /\ MayUse(s.t[1], r.table)
    BY DEF Within, IsTable
  <2> QED BY <1>3, <1>4, <2>1
<1> QED BY <1>1, <1>4, <1>5, NewColumns

(* ADD or DROP CONSTRAINT ... UNIQUE keeps the table well formed, with its *)
(* data.                                                                   *)
LEMMA UniqueWithin ==
    ASSUME NEW schema, NEW table, NEW D, NEW n, NEW S, Within(schema, table, D)
    PROVE  Within(schema, Unique(table, n, S), D) /\ KeepsData(table, Unique(table, n, S))
<1> DEFINE column(c) == [table.cols[c] EXCEPT !.uniques = IF c \in S THEN @ \cup {n} ELSE @ \ {n}]
           cols == [c \in DOMAIN table.cols |-> column(c)]
<1>1. Unique(table, n, S) = [table EXCEPT !.cols = cols]
  BY DEF Unique
<1>2. ASSUME NEW c \in DOMAIN table.cols
      PROVE  /\ IsColumn(column(c)) /\ column(c).typ = table.cols[c].typ
             /\ column(c).born = table.cols[c].born
             /\ column(c).refs = table.cols[c].refs
  <2> DEFINE col == table.cols[c]
             names == IF c \in S THEN col.uniques \cup {n} ELSE col.uniques \ {n}
             new == [col EXCEPT !.uniques = names]
  <2>1. IsColumn(col)
    BY DEF Within, IsTable
  <2>2. column(c) = new
    OBVIOUS
  <2>3. IsFiniteSet(names)
    BY <2>1, FS_AddElement, FS_RemoveElement DEF IsColumn
  <2>4. DOMAIN col = {"typ", "pk", "nullable", "default", "uniques", "refs", "born"}
    BY <2>1 DEF IsColumn
  <2> HIDE DEF names, col
  <2>5. /\ DOMAIN new = DOMAIN col /\ new.typ = col.typ /\ new.born = col.born
        /\ new.refs = col.refs /\ new.uniques = names
    BY <2>4
  <2> HIDE DEF new
  <2>6. IsColumn(new)
    BY <2>1, <2>3, <2>5 DEF IsColumn
  <2> HIDE DEF column
  <2> QED BY <2>2, <2>5, <2>6 DEF col
<1>3. DOMAIN cols = DOMAIN table.cols /\ \A c \in DOMAIN cols : cols[c] = column(c)
  <2> HIDE DEF column
  <2> QED OBVIOUS
<1> HIDE DEF column, cols
<1>4. \A c \in DOMAIN cols :
        /\ IsColumn(cols[c]) /\ cols[c].typ = table.cols[c].typ
        /\ cols[c].born = table.cols[c].born
        /\ \A r \in cols[c].refs : r.table \in D /\ MayUse(schema, r.table)
  <2>1. \A c \in DOMAIN table.cols :
          \A r \in table.cols[c].refs : r.table \in D /\ MayUse(schema, r.table)
    BY DEF Within
  <2> QED BY <1>2, <1>3, <2>1
<1> QED BY <1>1, <1>3, <1>4, NewColumns

(* The columns of a table get other references.                            *)
Referring(table, refs) == [c \in DOMAIN table.cols |-> [table.cols[c] EXCEPT !.refs = refs[c]]]

(* Columns that are given other references keep their types and data.      *)
LEMMA References ==
    ASSUME NEW table, IsTable(table), NEW refs, DOMAIN refs = DOMAIN table.cols,
           \A c \in DOMAIN refs :
               IsFiniteSet(refs[c]) /\ \A r \in refs[c] : DOMAIN r = {"group", "table"}
    PROVE  LET cols == Referring(table, refs) IN
           /\ DOMAIN cols = DOMAIN table.cols
           /\ \A c \in DOMAIN cols :
                 /\ IsColumn(cols[c]) /\ cols[c].typ = table.cols[c].typ
                 /\ cols[c].born = table.cols[c].born /\ cols[c].refs = refs[c]
<1> DEFINE column(c) == [table.cols[c] EXCEPT !.refs = refs[c]]
           cols == [c \in DOMAIN table.cols |-> column(c)]
<1>1. ASSUME NEW c \in DOMAIN table.cols
      PROVE  /\ IsColumn(column(c)) /\ column(c).typ = table.cols[c].typ
             /\ column(c).born = table.cols[c].born /\ column(c).refs = refs[c]
  <2> DEFINE col == table.cols[c]
             to == refs[c]
             new == [col EXCEPT !.refs = to]
  <2>1. IsColumn(col)
    BY DEF IsTable
  <2>2. column(c) = new
    OBVIOUS
  <2>3. IsFiniteSet(to) /\ \A r \in to : DOMAIN r = {"group", "table"}
    OBVIOUS
  <2>4. DOMAIN col = {"typ", "pk", "nullable", "default", "uniques", "refs", "born"}
    BY <2>1 DEF IsColumn
  <2> HIDE DEF to, col
  <2>5. /\ DOMAIN new = DOMAIN col /\ new.typ = col.typ /\ new.born = col.born
        /\ new.refs = to /\ new.uniques = col.uniques
    BY <2>4
  <2> HIDE DEF new
  <2>6. IsColumn(new)
    BY <2>1, <2>3, <2>5 DEF IsColumn
  <2> HIDE DEF column
  <2> QED BY <2>2, <2>5, <2>6 DEF col, to
<1>2. DOMAIN cols = DOMAIN table.cols /\ \A c \in DOMAIN cols : cols[c] = column(c)
  <2> HIDE DEF column
  <2> QED OBVIOUS
<1>3. cols = Referring(table, refs)
  BY DEF Referring
<1> HIDE DEF column, cols
<1>4. \A c \in DOMAIN cols :
        /\ IsColumn(cols[c]) /\ cols[c].typ = table.cols[c].typ
        /\ cols[c].born = table.cols[c].born /\ cols[c].refs = refs[c]
  BY <1>1, <1>2
<1> QED BY <1>2, <1>3, <1>4

(* A foreign key to a table that is there keeps the table well formed,     *)
(* with its data.                                                          *)
LEMMA ReferenceWithin ==
    ASSUME NEW table, NEW s, NEW D, NEW time, s.op = "CreateForeignKeyReference",
           Within(s.t[1], table, D), Proper(s), s.v.table \in D
    PROVE  Within(s.t[1], Altered(table, s, time), D) /\ KeepsData(table, Altered(table, s, time))
<1> DEFINE new == [group |-> <<s.t, s.n[2]>>, table |-> s.v.table]
           cols == [c \in DOMAIN table.cols |->
                      IF c \in s.v.cols THEN [table.cols[c] EXCEPT !.refs = @ \cup {new}]
                      ELSE table.cols[c]]
           refs == [c \in DOMAIN table.cols |-> table.cols[c].refs \cup {new}]
           all == Referring(table, refs)
<1>1. Altered(table, s, time) = [table EXCEPT !.cols = cols]
  BY DEF Altered
<1>2. DOMAIN new = {"group", "table"} /\ new.table = s.v.table /\ MayUse(s.t[1], s.v.table)
  BY DEF Proper
<1> HIDE DEF new
<1>3. \A c \in DOMAIN table.cols :
        /\ IsColumn(table.cols[c])
        /\ \A r \in table.cols[c].refs : r.table \in D /\ MayUse(s.t[1], r.table)
  BY DEF Within, IsTable
<1>4. \A c \in DOMAIN refs :
        IsFiniteSet(refs[c]) /\ \A r \in refs[c] : DOMAIN r = {"group", "table"}
  BY <1>2, <1>3, FS_AddElement DEF IsColumn
<1>5. DOMAIN refs = DOMAIN table.cols /\ IsTable(table)
  BY DEF Within
<1>6. /\ DOMAIN all = DOMAIN table.cols
      /\ \A c \in DOMAIN all :
            /\ IsColumn(all[c]) /\ all[c].typ = table.cols[c].typ
            /\ all[c].born = table.cols[c].born /\ all[c].refs = refs[c]
  <2> HIDE DEF refs
  <2> QED BY <1>4, <1>5, References
<1>7. \A c \in DOMAIN table.cols :
        /\ refs[c] = table.cols[c].refs \cup {new}
        /\ cols[c] = IF c \in s.v.cols THEN all[c] ELSE table.cols[c]
  BY DEF Referring
<1>8. DOMAIN cols = DOMAIN table.cols
  OBVIOUS
<1> HIDE DEF cols, refs, all
<1>9. \A c \in DOMAIN cols :
        /\ IsColumn(cols[c]) /\ cols[c].typ = table.cols[c].typ
        /\ cols[c].born = table.cols[c].born
        /\ \A r \in cols[c].refs : r.table \in D /\ MayUse(s.t[1], r.table)
  BY <1>2, <1>3, <1>6, <1>7, <1>8
<1> QED BY <1>1, <1>8, <1>9, NewColumns

(* A table after a statement that alters it.                               *)
Alterable(table, s, D) ==
    /\ s.op = "CreateColumn" => s.n \notin DOMAIN table.cols
    /\ s.op \in {"SetColumnDefaultValue", "UnsetColumnDefaultValue", "SetNotNull", "UnsetNotNull"}
          => s.n \in DOMAIN table.cols
    /\ s.op = "CreateForeignKeyReference" => s.v.table \in D

(* Indices and triggers do not touch the columns.                          *)
LEMMA RestWithin ==
    ASSUME NEW table, NEW s, NEW D, NEW time, Within(s.t[1], table, D), Proper(s),
           s.op \in {"CreateIndex", "CreateTrigger", "DeleteTrigger"}
    PROVE  Within(s.t[1], Altered(table, s, time), D) /\ KeepsData(table, Altered(table, s, time))
<1> DEFINE after == Altered(table, s, time)
<1>1. /\ DOMAIN table = {"managed", "cols", "indices", "triggers"}
      /\ IsFiniteSet(DOMAIN table.cols) /\ IsFiniteSet(DOMAIN table.indices)
      /\ IsFiniteSet(table.triggers)
  BY DEF Within, IsTable
<1>2. CASE s.op = "CreateIndex"
  <2> DEFINE indices == With(table.indices, s.n, s.v)
  <2>1. after = [table EXCEPT !.indices = indices]
    BY <1>2 DEF Altered
  <2>2. /\ DOMAIN indices = DOMAIN table.indices \cup {s.n} /\ indices[s.n] = s.v
        /\ \A n \in DOMAIN indices : n # s.n => indices[n] = table.indices[n]
    BY DEF With
  <2> HIDE DEF indices
  <2>3. DOMAIN after = DOMAIN table /\ after.cols = table.cols /\ after.indices = indices
        /\ after.triggers = table.triggers
    BY <1>1, <2>1
  <2> HIDE DEF after
  <2>4. IsFiniteSet(DOMAIN indices)
    BY <1>1, <2>2, FS_AddElement
  <2>5. IsTable(after)
    BY <1>1, <2>3, <2>4 DEF IsTable, Within
  <2>6. Within(s.t[1], after, D)
    BY <1>2, <2>2, <2>3, <2>5 DEF Within, Proper
  <2>7. KeepsData(table, after)
    BY <2>3 DEF KeepsData
  <2> QED BY <2>6, <2>7 DEF after
<1>3. CASE s.op \in {"CreateTrigger", "DeleteTrigger"}
  <2> DEFINE triggers == IF s.op = "CreateTrigger" THEN table.triggers \cup {s.n}
                         ELSE table.triggers \ {s.n}
  <2>1. after = [table EXCEPT !.triggers = triggers]
    BY <1>3 DEF Altered
  <2>2. IsFiniteSet(triggers)
    BY <1>1, FS_AddElement, FS_RemoveElement
  <2>4. \A n \in triggers : n[1] = s.t[1]
    BY DEF Within, Proper
  <2> HIDE DEF triggers
  <2>3. DOMAIN after = DOMAIN table /\ after.cols = table.cols /\ after.indices = table.indices
        /\ after.triggers = triggers
    BY <1>1, <2>1
  <2> HIDE DEF after
  <2>5. IsTable(after)
    BY <1>1, <2>3, <2>2 DEF IsTable, Within
  <2>6. Within(s.t[1], after, D)
    BY <2>3, <2>4, <2>5 DEF Within
  <2>7. KeepsData(table, after)
    BY <2>3 DEF KeepsData
  <2> QED BY <2>6, <2>7 DEF after
<1> QED BY <1>2, <1>3

(* Every ALTER TABLE that is not refused keeps the table well formed, and  *)
(* only DROP COLUMN loses data.                                            *)
LEMMA AlteredWithin ==
    ASSUME NEW table, NEW s, NEW D, NEW time, Within(s.t[1], table, D), Proper(s),
           s.op \in TableStatements, Alterable(table, s, D)
    PROVE  /\ Within(s.t[1], Altered(table, s, time), D)
           /\ s.op # "DeleteColumn" => KeepsData(table, Altered(table, s, time))
<1>1. CASE s.op = "CreateColumn"
  BY <1>1, CreateColumnWithin DEF Alterable
<1>2. CASE s.op = "DeleteColumn"
  <2>1. Altered(table, s, time) = LoseColumns(table, {s.n})
    BY <1>2 DEF Altered
  <2> QED BY <1>2, <2>1, LoseColumnsWithin
<1>3. CASE s.op \in {"SetColumnDefaultValue", "UnsetColumnDefaultValue", "SetNotNull", "UnsetNotNull"}
  BY <1>3, ColumnWithin DEF Alterable
<1>4. CASE s.op = "CreateUniqueConstraint"
  <2>1. Altered(table, s, time) = Unique(table, s.n, s.v)
    BY <1>4 DEF Altered
  <2> QED BY <2>1, UniqueWithin
<1>5. CASE s.op \in {"RemoveUniqueConstraint", "DropUniqueConstraint"}
  <2>1. Altered(table, s, time) = Unique(table, s.n, {})
    BY <1>5 DEF Altered
  <2> QED BY <2>1, UniqueWithin
<1>6. CASE s.op = "CreateForeignKeyReference"
  BY <1>6, ReferenceWithin DEF Alterable
<1>7. CASE s.op \in {"CreateIndex", "CreateTrigger", "DeleteTrigger"}
  BY <1>7, RestWithin
<1> QED BY <1>1, <1>2, <1>3, <1>4, <1>5, <1>6, <1>7 DEF TableStatements

(* A table, and those it refers to, when other tables go.                  *)
LEMMA WithoutReferencesWithin ==
    ASSUME NEW schema, NEW table, NEW D, NEW S, Within(schema, table, D)
    PROVE  /\ Within(schema, WithoutReferences(table, S), D \ S)
           /\ KeepsData(table, WithoutReferences(table, S))
<1> DEFINE after == WithoutReferences(table, S)
<1>1. \A c \in DOMAIN table.cols :
        /\ IsColumn(table.cols[c])
        /\ \A r \in table.cols[c].refs : r.table \in D /\ MayUse(schema, r.table)
  BY DEF Within, IsTable
<1>2. CASE \A c \in Range(table.cols) : \A r \in c.refs : r.table \notin S
  <2>1. after = table
    BY <1>2, Zenon DEF WithoutReferences
  <2>2. \A c \in DOMAIN table.cols : \A r \in table.cols[c].refs : r.table \notin S
    BY <1>2 DEF Range
  <2>3. Within(schema, table, D \ S)
    BY <1>1, <2>2 DEF Within
  <2> QED BY <2>1, <2>3 DEF KeepsData
<1>3. CASE ~(\A c \in Range(table.cols) : \A r \in c.refs : r.table \notin S)
  <2> DEFINE refs == [c \in DOMAIN table.cols |-> {r \in table.cols[c].refs : r.table \notin S}]
             cols == Referring(table, refs)
  <2>1. after = [table EXCEPT !.cols =
                   [c \in DOMAIN table.cols |->
                      [table.cols[c] EXCEPT !.refs = {r \in @ : r.table \notin S}]]]
    BY <1>3, Zenon DEF WithoutReferences
  <2>2. cols = [c \in DOMAIN table.cols |->
                      [table.cols[c] EXCEPT !.refs = {r \in @ : r.table \notin S}]]
    BY DEF Referring
  <2>3. \A c \in DOMAIN table.cols :
          refs[c] \subseteq table.cols[c].refs /\ \A r \in refs[c] : r.table \notin S
    OBVIOUS
  <2>4. DOMAIN refs = DOMAIN table.cols
    OBVIOUS
  <2> HIDE DEF refs, cols, after
  <2>5. \A c \in DOMAIN refs :
          IsFiniteSet(refs[c]) /\ \A r \in refs[c] : DOMAIN r = {"group", "table"}
    BY <1>1, <2>3, <2>4, FS_Subset DEF IsColumn
  <2>6. /\ DOMAIN cols = DOMAIN table.cols
        /\ \A c \in DOMAIN cols :
              /\ IsColumn(cols[c]) /\ cols[c].typ = table.cols[c].typ
              /\ cols[c].born = table.cols[c].born /\ cols[c].refs = refs[c]
    BY <2>4, <2>5, References DEF Within, cols
  <2>7. \A c \in DOMAIN cols :
           /\ IsColumn(cols[c]) /\ cols[c].typ = table.cols[c].typ
           /\ cols[c].born = table.cols[c].born
           /\ \A r \in cols[c].refs : r.table \in D \ S /\ MayUse(schema, r.table)
    BY <1>1, <2>3, <2>6
  <2>8. after = [table EXCEPT !.cols = cols]
    BY <2>1, <2>2
  <2>9. Within(schema, after, D) /\ KeepsData(table, after)
    <3>1. \A c \in DOMAIN cols :
           /\ IsColumn(cols[c]) /\ cols[c].typ = table.cols[c].typ
           /\ cols[c].born = table.cols[c].born
           /\ \A r \in cols[c].refs : r.table \in D /\ MayUse(schema, r.table)
      BY <2>7
    <3> QED BY <2>6, <2>8, <3>1, NewColumns
  <2>10. after.cols = cols
    <3>1. DOMAIN table = {"managed", "cols", "indices", "triggers"}
      BY DEF Within, IsTable
    <3> QED BY <2>8, <3>1
  <2>11. Within(schema, after, D \ S)
    BY <2>7, <2>9, <2>10 DEF Within
  <2> QED BY <2>9, <2>11 DEF after
<1> QED BY <1>2, <1>3

(* Following a rename changes only the tables that references name.        *)
LEMMA RenamedIsTable ==
    ASSUME NEW table, IsTable(table), NEW t, NEW u
    PROVE  LET after == RenamedReferences(table, t, u) IN
           /\ IsTable(after) /\ after.indices = table.indices
           /\ after.triggers = table.triggers
           /\ DOMAIN after.cols = DOMAIN table.cols
           /\ \A c \in DOMAIN table.cols :
                 /\ after.cols[c].typ = table.cols[c].typ
                 /\ after.cols[c].born = table.cols[c].born
                 /\ \A r \in after.cols[c].refs : \E q \in table.cols[c].refs :
                       r.table = IF q.table = t THEN u ELSE q.table
<1> DEFINE after == RenamedReferences(table, t, u)
<1>1. \A c \in DOMAIN table.cols : IsColumn(table.cols[c])
  BY DEF IsTable
<1>2. CASE \A c \in Range(table.cols) : \A r \in c.refs : r.table # t
  <2>1. after = table
    BY <1>2, Zenon DEF RenamedReferences
  <2>2. \A c \in DOMAIN table.cols : \A r \in table.cols[c].refs : r.table # t
    BY <1>2 DEF Range
  <2> HIDE DEF after
  <2>3. \A c \in DOMAIN table.cols : \A r \in table.cols[c].refs : \E q \in table.cols[c].refs :
           r.table = IF q.table = t THEN u ELSE q.table
    BY <2>2
  <2> QED BY <2>1, <2>3 DEF after
<1>3. CASE ~(\A c \in Range(table.cols) : \A r \in c.refs : r.table # t)
  <2> DEFINE moved(r) == [r EXCEPT !.table = IF @ = t THEN u ELSE @]
             refs == [c \in DOMAIN table.cols |-> {moved(r) : r \in table.cols[c].refs}]
             cols == Referring(table, refs)
  <2>1. after = [table EXCEPT !.cols =
                   [c \in DOMAIN table.cols |->
                      [table.cols[c] EXCEPT !.refs = {moved(r) : r \in @}]]]
    BY <1>3, Zenon DEF RenamedReferences
  <2>2. cols = [c \in DOMAIN table.cols |->
                      [table.cols[c] EXCEPT !.refs = {moved(r) : r \in @}]]
    <3> HIDE DEF moved
    <3> QED BY DEF Referring
  <2>3. DOMAIN refs = DOMAIN table.cols
    OBVIOUS
  <2>4. ASSUME NEW c \in DOMAIN table.cols
        PROVE  /\ IsFiniteSet(refs[c])
               /\ \A r \in refs[c] :
                     /\ DOMAIN r = {"group", "table"}
                     /\ \E q \in table.cols[c].refs : r.table = IF q.table = t THEN u ELSE q.table
    <3> DEFINE from == table.cols[c].refs
               f == [r \in from |-> moved(r)]
    <3>1. IsFiniteSet(from) /\ \A r \in from : DOMAIN r = {"group", "table"}
      BY <1>1 DEF IsColumn
    <3>2. refs[c] = Range(f) /\ DOMAIN f = from
      <4> HIDE DEF moved, from
      <4>1. DOMAIN f = from /\ \A r \in from : f[r] = moved(r)
        OBVIOUS
      <4>2. refs[c] = {moved(r) : r \in from}
        BY DEF from
      <4> HIDE DEF f
      <4> QED BY <4>1, <4>2 DEF Range
    <3> HIDE DEF from
    <3>3. \A r \in from :
            /\ DOMAIN moved(r) = {"group", "table"}
            /\ moved(r).table = IF r.table = t THEN u ELSE r.table
      BY <3>1
    <3>4. \A r \in Range(f) : \E q \in from : r = moved(q)
      <4> HIDE DEF moved
      <4> QED BY DEF Range
    <3> HIDE DEF f, moved, refs
    <3>5. IsFiniteSet(refs[c])
      BY <3>1, <3>2, FiniteRange
    <3> QED BY <3>2, <3>3, <3>4, <3>5 DEF from
  <2>5. after = [table EXCEPT !.cols = cols]
    BY <2>1, <2>2
  <2> HIDE DEF moved, refs, cols, after
  <2>6. \A c \in DOMAIN refs :
          IsFiniteSet(refs[c]) /\ \A r \in refs[c] : DOMAIN r = {"group", "table"}
    BY <2>3, <2>4
  <2>7. /\ DOMAIN cols = DOMAIN table.cols
        /\ \A c \in DOMAIN cols :
              /\ IsColumn(cols[c]) /\ cols[c].typ = table.cols[c].typ
              /\ cols[c].born = table.cols[c].born /\ cols[c].refs = refs[c]
    BY <2>3, <2>6, References DEF cols
  <2>8. /\ DOMAIN table = {"managed", "cols", "indices", "triggers"}
        /\ IsFiniteSet(DOMAIN table.cols) /\ IsFiniteSet(DOMAIN table.indices)
        /\ IsFiniteSet(table.triggers)
    BY DEF IsTable
  <2>9. /\ DOMAIN after = DOMAIN table /\ after.cols = cols /\ after.indices = table.indices
        /\ after.triggers = table.triggers
    BY <2>5, <2>8
  <2>10. IsTable(after)
    BY <2>7, <2>8, <2>9 DEF IsTable
  <2> QED BY <2>4, <2>7, <2>9, <2>10 DEF after
<1> QED BY <1>2, <1>3

(* A table that follows the rename of another stays well formed, with its  *)
(* data.                                                                   *)
LEMMA RenamedWithin ==
    ASSUME NEW schema, NEW table, NEW D, NEW t, NEW u, Within(schema, table, D), u[1] = t[1]
    PROVE  /\ Within(schema, RenamedReferences(table, t, u), (D \ {t}) \cup {u})
           /\ KeepsData(table, RenamedReferences(table, t, u))
<1> DEFINE after == RenamedReferences(table, t, u)
<1>1. /\ IsTable(after) /\ after.indices = table.indices
      /\ after.triggers = table.triggers
      /\ DOMAIN after.cols = DOMAIN table.cols
      /\ \A c \in DOMAIN table.cols :
            /\ after.cols[c].typ = table.cols[c].typ
            /\ after.cols[c].born = table.cols[c].born
            /\ \A r \in after.cols[c].refs : \E q \in table.cols[c].refs :
                  r.table = IF q.table = t THEN u ELSE q.table
  BY RenamedIsTable DEF Within
<1> HIDE DEF after
<1>2. KeepsData(table, after)
  BY <1>1 DEF KeepsData
<1>3. ASSUME NEW c \in DOMAIN table.cols, NEW r \in after.cols[c].refs
      PROVE  r.table \in (D \ {t}) \cup {u} /\ MayUse(schema, r.table)
  <2>1. PICK q \in table.cols[c].refs : r.table = IF q.table = t THEN u ELSE q.table
    BY <1>1
  <2>2. q.table \in D /\ MayUse(schema, q.table)
    BY DEF Within
  <2>3. MayUse(schema, r.table)
    BY <2>1, <2>2 DEF MayUse
  <2> QED BY <2>1, <2>2, <2>3
<1>4. \A c \in DOMAIN table.cols : MayUse(schema, table.cols[c].typ)
  BY DEF Within
<1>5. /\ \A n \in DOMAIN table.indices : IsModelIndex(n, table.indices[n])
      /\ \A n \in table.triggers : n[1] = schema
  BY DEF Within
<1>6. Within(schema, after, (D \ {t}) \cup {u})
  BY <1>1, <1>3, <1>4, <1>5 DEF Within
<1> QED BY <1>2, <1>6 DEF after

-----------------------------------------------------------------------------
(* The tables of a catalog.                                                *)
TablesOK(tables) ==
    /\ IsFiniteSet(DOMAIN tables)
    /\ DOMAIN tables \subseteq TableNames
    /\ \A t \in DOMAIN tables : Within(t[1], tables[t], DOMAIN tables)

(* The data of a that are in no table of Lost are in b, and neither.       *)
Preserved(a, b, Lost) ==
    \A t \in DOMAIN a \ Lost : \A c \in DOMAIN a[t].cols :
        \E u \in DOMAIN b \ Lost : \E k \in DOMAIN b[u].cols :
            b[u].cols[k].born = a[t].cols[c].born

Untouched(a, b, scope) ==
    \A t \in DOMAIN a : t[1] \notin scope => t \in DOMAIN b /\ b[t] = a[t]

(* A statement that loses no data but those of Lost.                       *)
Harmless(s, Lost) ==
    /\ s.op \notin {"DeleteSchema", "DeleteEnum", "DeleteColumn"}
    /\ s.op = "DeleteTable" => s.t \in Lost
    /\ s.op = "RenameTable" => s.t \in Lost \/ Landing(s) \notin Lost

(* A statement about the tables, types and schemas of a scope.             *)
Local(s, scope) ==
    /\ s.op \in TableStatements \cup {"CreateTable", "DeleteTable", "RenameTable"}
          => s.t[1] \in scope
    /\ s.op = "DeleteSchema" => s.n \in scope
    /\ s.op = "DeleteEnum" => s.n[1] \in scope

Stays(a, s, b) ==
    SelfContained => \A m \in Models : Local(s, Scope(m)) => Untouched(a, b, Scope(m))

Allowed(tables, s) ==
    /\ s.op \in TableStatements => s.t \in DOMAIN tables /\ Alterable(tables[s.t], s, DOMAIN tables)
    /\ s.op \in {"DeleteTable", "RenameTable"} => s.t \in DOMAIN tables
    /\ s.op = "RenameTable" => Landing(s) \notin DOMAIN tables
    /\ s.op = "CreateTable" => s.t \notin DOMAIN tables

(* What a statement that PostgreSQL does not refuse found in the catalog.  *)
LEMMA NotRefused ==
    ASSUME NEW base, NEW s, ~Refuses(base, s)
    PROVE  Allowed(base.tables, s)
<1>1. CASE s.op \in {"CreateColumn", "CreateForeignKeyReference", "CreateIndex", "CreateTrigger",
                     "DeleteTrigger", "CreateUniqueConstraint", "RemoveUniqueConstraint",
                     "DropUniqueConstraint"}
  <2>1. s.t \in DOMAIN base.tables
    BY <1>1 DEF Refuses
  <2>2. s.op = "CreateColumn" => s.n \notin DOMAIN base.tables[s.t].cols
    BY <2>1 DEF Refuses, Has
  <2>3. s.op = "CreateForeignKeyReference" => s.v.table \in DOMAIN base.tables
    BY <2>1 DEF Refuses
  <2> QED BY <1>1, <2>1, <2>2, <2>3, SMTT(30) DEF Allowed, Alterable
<1>2. CASE s.op \in {"SetColumnDefaultValue", "UnsetColumnDefaultValue", "SetNotNull",
                     "UnsetNotNull", "DeleteColumn"}
  <2>1. Has(base, s.t, s.n)
    BY <1>2 DEF Refuses
  <2> QED BY <1>2, <2>1, SMTT(30) DEF Allowed, Alterable, Has
<1>3. CASE s.op \in {"DeleteTable", "RenameTable", "CreateTable"}
  <2>1. /\ s.op \in {"DeleteTable", "RenameTable"} => s.t \in DOMAIN base.tables
        /\ s.op = "RenameTable" => Landing(s) \notin DOMAIN base.tables
        /\ s.op = "CreateTable" => s.t \notin DOMAIN base.tables
    BY <1>3 DEF Refuses
  <2> QED BY <1>3, <2>1, SMTT(30) DEF Allowed, TableStatements
<1> QED BY <1>1, <1>2, <1>3, SMTT(30) DEF Allowed, TableStatements

(* A statement about one table: the other tables stay, and a harmless one  *)
(* loses no data.                                                          *)
LEMMA AlterStep ==
    ASSUME NEW tables, TablesOK(tables), NEW s, Proper(s), Allowed(tables, s), NEW time, NEW Lost,
           s.op \in TableStatements
    PROVE  LET after == Tables(tables, s, time) IN
           /\ TablesOK(after) /\ Stays(tables, s, after)
           /\ Harmless(s, Lost) => Preserved(tables, after, Lost)
<1> DEFINE new == Altered(tables[s.t], s, time)
           after == Tables(tables, s, time)
<1>1. after = [tables EXCEPT ![s.t] = new]
  BY DEF Tables, TableStatements
<1>2. s.t \in DOMAIN tables /\ Alterable(tables[s.t], s, DOMAIN tables)
  BY DEF Allowed
<1>3. /\ Within(s.t[1], new, DOMAIN tables)
      /\ s.op # "DeleteColumn" => KeepsData(tables[s.t], new)
  <2>1. Within(s.t[1], tables[s.t], DOMAIN tables)
    BY <1>2 DEF TablesOK
  <2> QED BY <1>2, <2>1, AlteredWithin
<1> HIDE DEF new
<1>4. /\ DOMAIN after = DOMAIN tables /\ after[s.t] = new
      /\ \A t \in DOMAIN tables : t # s.t => after[t] = tables[t]
  BY <1>1, <1>2
<1> HIDE DEF after
<1>5. TablesOK(after)
  BY <1>3, <1>4 DEF TablesOK
<1>6. Stays(tables, s, after)
  BY <1>4 DEF Stays, Local, Untouched
<1>7. Harmless(s, Lost) => Preserved(tables, after, Lost)
  BY <1>3, <1>4 DEF Harmless, Preserved, KeepsData
<1> QED BY <1>5, <1>6, <1>7 DEF after

(* CREATE TABLE adds a table and leaves the rest alone.                    *)
LEMMA CreateTableStep ==
    ASSUME NEW tables, TablesOK(tables), NEW s, Proper(s), Allowed(tables, s), NEW time, NEW Lost,
           s.op = "CreateTable"
    PROVE  LET after == Tables(tables, s, time) IN
           /\ TablesOK(after) /\ Stays(tables, s, after)
           /\ Harmless(s, Lost) => Preserved(tables, after, Lost)
<1> DEFINE cols == [c \in DOMAIN s.v.cols |-> Bare(s.v.cols[c], <<time, s.t, c>>)]
           new == [managed |-> TRUE, indices |-> <<>>, triggers |-> {}, cols |-> cols]
           after == Tables(tables, s, time)
<1>1. after = With(tables, s.t, new)
  BY DEF Tables, TableStatements
<1>2. s.t \notin DOMAIN tables /\ s.t \in ModelNames /\ NewTable(s.t[1], s.v)
  BY DEF Allowed, Proper
<1>3. /\ IsFiniteSet(DOMAIN s.v.cols)
      /\ \A c \in DOMAIN s.v.cols : NewColumn(s.t[1], s.v.cols[c])
  BY <1>2 DEF NewTable, IsTable
<1>4. /\ DOMAIN cols = DOMAIN s.v.cols
      /\ \A c \in DOMAIN cols : cols[c] = Bare(s.v.cols[c], <<time, s.t, c>>)
  OBVIOUS
<1> HIDE DEF cols
<1>5. ASSUME NEW c \in DOMAIN cols
      PROVE  IsColumn(cols[c]) /\ MayUse(s.t[1], cols[c].typ) /\ cols[c].refs = {}
  <2>1. NewColumn(s.t[1], s.v.cols[c])
    BY <1>3, <1>4
  <2> DEFINE col == s.v.cols[c]
             born == <<time, s.t, c>>
  <2>2. IsColumn(cols[c]) /\ cols[c].typ = col.typ /\ cols[c].refs = {}
    <3>1. cols[c] = Bare(col, born)
      BY <1>4
    <3> HIDE DEF col, born
    <3>2. NewColumn(s.t[1], col)
      BY <2>1 DEF col
    <3>3. IsColumn(Bare(col, born)) /\ Bare(col, born).typ = col.typ /\ Bare(col, born).refs = {}
      BY <3>2, BareColumn
    <3> QED BY <3>1, <3>3
  <2> QED BY <2>1, <2>2 DEF NewColumn
<1>6. /\ DOMAIN new = {"managed", "cols", "indices", "triggers"} /\ new.cols = cols
      /\ DOMAIN new.indices = {} /\ new.triggers = {}
  OBVIOUS
<1>7. /\ DOMAIN after = DOMAIN tables \cup {s.t} /\ after[s.t] = new
      /\ \A t \in DOMAIN tables : after[t] = tables[t]
  <2> HIDE DEF new
  <2> QED BY <1>1, <1>2 DEF With
<1> HIDE DEF new, after
<1>8. IsTable(new)
  BY <1>3, <1>4, <1>5, <1>6, FS_EmptySet DEF IsTable
<1>9. Within(s.t[1], new, DOMAIN after)
  BY <1>5, <1>6, <1>8 DEF Within
<1>10. \A t \in DOMAIN tables : Within(t[1], after[t], DOMAIN after)
  <2>1. \A t \in DOMAIN tables : Within(t[1], tables[t], DOMAIN tables)
    BY DEF TablesOK
  <2> QED BY <1>7, <2>1 DEF Within
<1>11. s.t \in TableNames
  BY <1>2, ModelsAssumption DEF TableNames, ModelNames
<1>12. TablesOK(after)
  <2>1. IsFiniteSet(DOMAIN after)
    BY <1>7, FS_AddElement DEF TablesOK
  <2> QED BY <1>7, <1>9, <1>10, <1>11, <2>1 DEF TablesOK
<1>13. Stays(tables, s, after)
  BY <1>7 DEF Stays, Untouched
<1>14. Preserved(tables, after, Lost)
  BY <1>7 DEF Preserved
<1> QED BY <1>12, <1>13, <1>14 DEF after

(* DROP ... CASCADE leaves no reference to what it drops, and no change to *)
(* a table that had none.                                                  *)
LEMMA LoseTablesStep ==
    ASSUME NEW tables, TablesOK(tables), NEW S
    PROVE  LET after == LoseTables(tables, S) IN
           /\ TablesOK(after)
           /\ DOMAIN after = DOMAIN tables \ S
           /\ \A t \in DOMAIN after :
                 /\ KeepsData(tables[t], after[t])
                 /\ (\A c \in DOMAIN tables[t].cols : \A r \in tables[t].cols[c].refs : r.table \notin S)
                       => after[t] = tables[t]
<1> DEFINE after == LoseTables(tables, S)
<1>1. /\ DOMAIN after = DOMAIN tables \ S
      /\ \A t \in DOMAIN after : after[t] = WithoutReferences(tables[t], S)
  BY DEF LoseTables
<1> HIDE DEF after
<1>2. \A t \in DOMAIN after :
        /\ Within(t[1], after[t], DOMAIN tables \ S) /\ KeepsData(tables[t], after[t])
  BY <1>1, WithoutReferencesWithin DEF TablesOK
<1>3. TablesOK(after)
  <2>1. IsFiniteSet(DOMAIN after)
    BY <1>1, FS_Subset DEF TablesOK
  <2> QED BY <1>1, <1>2, <2>1 DEF TablesOK
<1>4. ASSUME NEW t \in DOMAIN after,
             \A c \in DOMAIN tables[t].cols : \A r \in tables[t].cols[c].refs : r.table \notin S
      PROVE  after[t] = tables[t]
  <2>1. \A c \in Range(tables[t].cols) : \A r \in c.refs : r.table \notin S
    BY <1>4 DEF Range
  <2> QED BY <1>1, <2>1, Zenon DEF WithoutReferences
<1> QED BY <1>1, <1>2, <1>3, <1>4 DEF after

(* DROP TABLE and DROP SCHEMA, with what CASCADE takes along.              *)
LEMMA DropStep ==
    ASSUME NEW tables, TablesOK(tables), NEW s, Proper(s), Allowed(tables, s), NEW time, NEW Lost,
           s.op \in {"DeleteTable", "DeleteSchema"}
    PROVE  LET after == Tables(tables, s, time) IN
           /\ TablesOK(after) /\ Stays(tables, s, after)
           /\ Harmless(s, Lost) => Preserved(tables, after, Lost)
<1> DEFINE S == IF s.op = "DeleteTable" THEN {s.t} ELSE {u \in DOMAIN tables : u[1] = s.n}
           after == Tables(tables, s, time)
<1>1. after = LoseTables(tables, S)
  BY DEF Tables, TableStatements
<1>2. /\ TablesOK(after)
      /\ DOMAIN after = DOMAIN tables \ S
      /\ \A t \in DOMAIN after :
            /\ KeepsData(tables[t], after[t])
            /\ (\A c \in DOMAIN tables[t].cols : \A r \in tables[t].cols[c].refs : r.table \notin S)
                  => after[t] = tables[t]
  <2> HIDE DEF S
  <2> DEFINE less == LoseTables(tables, S)
  <2>1. /\ TablesOK(less)
        /\ DOMAIN less = DOMAIN tables \ S
        /\ \A t \in DOMAIN less :
              /\ KeepsData(tables[t], less[t])
              /\ (\A c \in DOMAIN tables[t].cols : \A r \in tables[t].cols[c].refs : r.table \notin S)
                    => less[t] = tables[t]
    BY LoseTablesStep
  <2> HIDE DEF less, after
  <2>2. after = less
    BY <1>1 DEF less
  <2> QED BY <2>1, <2>2
<1> HIDE DEF after
<1>3. ASSUME SelfContained, NEW m \in Models, Local(s, Scope(m)),
             NEW t \in DOMAIN tables, t[1] \notin Scope(m)
      PROVE  t \in DOMAIN after /\ after[t] = tables[t]
  <2>1. \A x \in S : x[1] \in Scope(m)
    BY <1>3 DEF Local
  <2> HIDE DEF S
  <2>2. t \in DOMAIN after
    BY <1>2, <1>3, <2>1
  <2>3. ASSUME NEW c \in DOMAIN tables[t].cols, NEW r \in tables[t].cols[c].refs
        PROVE  r.table \notin S
    <3>1. Linked(t[1], r.table[1])
      BY <1>3 DEF TablesOK, Within, MayUse
    <3> QED BY <1>3, <2>1, <3>1 DEF Linked
  <2> QED BY <1>2, <2>2, <2>3
<1>4. Stays(tables, s, after)
  BY <1>3 DEF Stays, Untouched
<1>5. ASSUME Harmless(s, Lost) PROVE Preserved(tables, after, Lost)
  <2>1. S \subseteq Lost
    BY <1>5 DEF Harmless
  <2> HIDE DEF S
  <2> QED BY <1>2, <2>1 DEF Preserved, KeepsData
<1> QED BY <1>2, <1>4, <1>5 DEF after

(* ALTER TABLE ... RENAME, with the references that follow it.             *)
LEMMA RenameStep ==
    ASSUME NEW tables, TablesOK(tables), NEW s, Proper(s), Allowed(tables, s), NEW time, NEW Lost,
           s.op = "RenameTable"
    PROVE  LET after == Tables(tables, s, time) IN
           /\ TablesOK(after) /\ Stays(tables, s, after)
           /\ Harmless(s, Lost) => Preserved(tables, after, Lost)
<1> DEFINE t == s.t
           u == Landing(s)
           D == (DOMAIN tables \ {t}) \cup {u}
           after == Tables(tables, s, time)
<1>1. after = MoveTable(tables, t, u)
  BY DEF Tables, TableStatements
<1>2. /\ t \in DOMAIN tables /\ u \notin DOMAIN tables /\ t \in TableNames /\ s.n \in ModelNames
      /\ u = <<t[1], s.n[2]>> /\ u[1] = t[1]
  BY DEF Allowed, TablesOK, Proper, Landing
<1>3. u \in TableNames
  <2>1. PICK x \in ModelNames, y \in ModelNames : t = <<x[1], y[2]>>
    BY <1>2 DEF TableNames
  <2>2. u = <<x[1], s.n[2]>>
    BY <1>2, <2>1
  <2> QED BY <1>2, <2>1, <2>2 DEF TableNames
<1> HIDE DEF t, u
<1>4. /\ DOMAIN after = D /\ after[u] = RenamedReferences(tables[t], t, u)
      /\ \A x \in DOMAIN after : x # u => after[x] = RenamedReferences(tables[x], t, u)
  BY <1>1 DEF MoveTable
<1> HIDE DEF after
<1>5. \A x \in DOMAIN tables :
        /\ Within(x[1], RenamedReferences(tables[x], t, u), D)
        /\ KeepsData(tables[x], RenamedReferences(tables[x], t, u))
  BY <1>2, RenamedWithin DEF TablesOK
<1>6. \A x \in DOMAIN after : Within(x[1], after[x], D)
  <2> HIDE DEF D
  <2>1. Within(u[1], after[u], D)
    BY <1>2, <1>4, <1>5
  <2>2. \A x \in DOMAIN after : x # u => x \in DOMAIN tables
    BY <1>4 DEF D
  <2> QED BY <1>4, <1>5, <2>1, <2>2
<1>7. TablesOK(after)
  <2>1. IsFiniteSet(D)
    <3>1. IsFiniteSet(DOMAIN tables \ {t})
      BY FS_RemoveElement DEF TablesOK
    <3> QED BY <3>1, FS_AddElement
  <2>2. D \subseteq TableNames
    BY <1>3 DEF TablesOK
  <2> QED BY <1>4, <1>6, <2>1, <2>2 DEF TablesOK
<1>8. ASSUME SelfContained, NEW m \in Models, Local(s, Scope(m)),
             NEW x \in DOMAIN tables, x[1] \notin Scope(m)
      PROVE  x \in DOMAIN after /\ after[x] = tables[x]
  <2>1. t[1] \in Scope(m)
    BY <1>8 DEF Local, t
  <2>2. x # t /\ x # u
    BY <1>2, <1>8, <2>1
  <2>3. ASSUME NEW c \in DOMAIN tables[x].cols, NEW r \in tables[x].cols[c].refs
        PROVE  r.table # t
    <3>1. Linked(x[1], r.table[1])
      BY <1>8 DEF TablesOK, Within, MayUse
    <3> QED BY <1>8, <2>1, <3>1 DEF Linked
  <2>4. \A c \in Range(tables[x].cols) : \A r \in c.refs : r.table # t
    BY <2>3 DEF Range
  <2>5. RenamedReferences(tables[x], t, u) = tables[x]
    BY <2>4, Zenon DEF RenamedReferences
  <2> QED BY <1>4, <1>8, <2>2, <2>5
<1>9. Stays(tables, s, after)
  BY <1>8 DEF Stays, Untouched
<1>10. ASSUME Harmless(s, Lost) PROVE Preserved(tables, after, Lost)
  <2>1. t \in Lost \/ u \notin Lost
    BY <1>10 DEF Harmless, t, u
  <2>2. KeepsData(tables[t], after[u])
    BY <1>2, <1>4, <1>5
  <2>3. \A x \in DOMAIN tables : x # t => x \in DOMAIN after /\ KeepsData(tables[x], after[x])
    BY <1>2, <1>4, <1>5
  <2>4. u \in DOMAIN after
    BY <1>4
  <2> QED BY <2>1, <2>2, <2>3, <2>4 DEF Preserved, KeepsData
<1> QED BY <1>7, <1>9, <1>10 DEF after

(* DROP TYPE and DROP INDEX, which name no table.                          *)
LEMMA EverywhereStep ==
    ASSUME NEW tables, TablesOK(tables), NEW s, Proper(s), NEW time, NEW Lost,
           s.op \in {"DeleteEnum", "DeleteIndex"}
    PROVE  LET after == Tables(tables, s, time) IN
           /\ TablesOK(after) /\ Stays(tables, s, after)
           /\ Harmless(s, Lost) => Preserved(tables, after, Lost)
<1> DEFINE after == Tables(tables, s, time)
<1>0. \A t \in DOMAIN tables : Within(t[1], tables[t], DOMAIN tables)
  BY DEF TablesOK
<1>1. CASE s.op = "DeleteEnum"
  <2> DEFINE of(u) == {c \in DOMAIN tables[u].cols : tables[u].cols[c].typ = s.n}
  <2>1. after = [u \in DOMAIN tables |-> LoseColumns(tables[u], of(u))]
    BY <1>1 DEF Tables, TableStatements
  <2>2. DOMAIN after = DOMAIN tables /\ \A u \in DOMAIN tables : after[u] = LoseColumns(tables[u], of(u))
    <3> HIDE DEF of
    <3> QED BY <2>1
  <2> HIDE DEF after
  <2>3. TablesOK(after)
    <3> HIDE DEF of
    <3> QED BY <2>2, LoseColumnsWithin DEF TablesOK
  <2>4. ASSUME SelfContained, NEW m \in Models, Local(s, Scope(m)),
               NEW t \in DOMAIN tables, t[1] \notin Scope(m)
        PROVE  t \in DOMAIN after /\ after[t] = tables[t]
    <3>1. s.n[1] \in Scope(m)
      BY <1>1, <2>4 DEF Local
    <3>2. ASSUME NEW c \in DOMAIN tables[t].cols PROVE tables[t].cols[c].typ # s.n
      <4>1. Linked(t[1], tables[t].cols[c].typ[1])
        BY <1>0, <2>4 DEF Within, MayUse
      <4> QED BY <2>4, <3>1, <4>1 DEF Linked
    <3>3. of(t) = {}
      BY <3>2
    <3> HIDE DEF of
    <3> QED BY <2>2, <3>3, Zenon DEF LoseColumns
  <2>5. Stays(tables, s, after)
    BY <2>4 DEF Stays, Untouched
  <2> QED BY <1>1, <2>3, <2>5 DEF after, Harmless
<1>2. CASE s.op = "DeleteIndex"
  <2> DEFINE less(u) == [tables[u] EXCEPT !.indices = Without(@, {s.n})]
  <2>1. after = [u \in DOMAIN tables |-> IF u[1] = "public" THEN less(u) ELSE tables[u]]
    BY <1>2 DEF Tables, TableStatements
  <2>2. DOMAIN after = DOMAIN tables
        /\ \A u \in DOMAIN tables : after[u] = IF u[1] = "public" THEN less(u) ELSE tables[u]
    <3> HIDE DEF less
    <3> QED BY <2>1
  <2> HIDE DEF after
  <2>3. ASSUME NEW u \in DOMAIN tables
        PROVE  Within(u[1], less(u), DOMAIN tables) /\ KeepsData(tables[u], less(u))
    <3> DEFINE table == tables[u]
               indices == Without(table.indices, {s.n})
               new == [table EXCEPT !.indices = indices]
    <3>1. /\ DOMAIN table = {"managed", "cols", "indices", "triggers"}
          /\ IsFiniteSet(DOMAIN table.cols) /\ IsFiniteSet(DOMAIN table.indices)
          /\ IsFiniteSet(table.triggers) /\ Within(u[1], table, DOMAIN tables)
      BY <1>0 DEF Within, IsTable
    <3>2. /\ DOMAIN indices \subseteq DOMAIN table.indices
          /\ \A n \in DOMAIN indices : indices[n] = table.indices[n]
      BY DEF Without
    <3>3. less(u) = new
      OBVIOUS
    <3> HIDE DEF table, indices
    <3>4. /\ DOMAIN new = DOMAIN table /\ new.cols = table.cols /\ new.indices = indices
          /\ new.triggers = table.triggers
      BY <3>1
    <3> HIDE DEF new, less
    <3>5. IsFiniteSet(DOMAIN indices)
      BY <3>1, <3>2, FS_Subset
    <3>6. IsTable(new)
      BY <3>1, <3>4, <3>5 DEF IsTable, Within
    <3>7. Within(u[1], new, DOMAIN tables)
      BY <3>1, <3>2, <3>4, <3>6 DEF Within
    <3>8. KeepsData(table, new)
      BY <3>4 DEF KeepsData
    <3> QED BY <3>3, <3>7, <3>8 DEF table
  <2> HIDE DEF less
  <2>4. TablesOK(after)
    BY <1>0, <2>2, <2>3 DEF TablesOK
  <2>5. Stays(tables, s, after)
    BY <2>2 DEF Stays, Untouched, SelfContained
  <2>6. Preserved(tables, after, Lost)
    BY <2>2, <2>3 DEF Preserved, KeepsData
  <2> QED BY <2>4, <2>5, <2>6 DEF after
<1> QED BY <1>1, <1>2

(* What one statement of any kind makes of the tables.                     *)
LEMMA TablesStep ==
    ASSUME NEW tables, TablesOK(tables), NEW s, Proper(s), Allowed(tables, s), NEW time, NEW Lost
    PROVE  LET after == Tables(tables, s, time) IN
           /\ TablesOK(after) /\ Stays(tables, s, after)
           /\ Harmless(s, Lost) => Preserved(tables, after, Lost)
<1>1. CASE s.op \in TableStatements
  BY <1>1, AlterStep
<1>2. CASE s.op = "CreateTable"
  BY <1>2, CreateTableStep
<1>3. CASE s.op \in {"DeleteTable", "DeleteSchema"}
  BY <1>3, DropStep
<1>4. CASE s.op = "RenameTable"
  BY <1>4, RenameStep
<1>5. CASE s.op \in {"DeleteEnum", "DeleteIndex"}
  BY <1>5, EverywhereStep
<1>6. CASE s.op \notin TableStatements \cup {"CreateTable", "DeleteTable", "DeleteSchema",
                                             "RenameTable", "DeleteEnum", "DeleteIndex"}
  <2>1. Tables(tables, s, time) = tables
    BY <1>6 DEF Tables
  <2> QED BY <2>1 DEF Stays, Untouched, Preserved
<1> QED BY <1>1, <1>2, <1>3, <1>4, <1>5, <1>6

-----------------------------------------------------------------------------
(* A transaction: statements one after the other.                          *)
CatalogOK(base) ==
    TablesOK(base.tables) /\ IsFiniteSet(DOMAIN base.enums) /\ IsFiniteSet(DOMAIN base.functions)

(* Adding or removing a name keeps a map finite.                           *)
LEMMA FiniteDomains ==
    ASSUME NEW f, IsFiniteSet(DOMAIN f), NEW x, NEW v, NEW S
    PROVE  /\ IsFiniteSet(DOMAIN With(f, x, v)) /\ IsFiniteSet(DOMAIN Without(f, {x}))
           /\ IsFiniteSet(DOMAIN Keep(f, S))
<1>1. /\ DOMAIN With(f, x, v) = DOMAIN f \cup {x}
      /\ DOMAIN Without(f, {x}) \subseteq DOMAIN f /\ DOMAIN Keep(f, S) \subseteq DOMAIN f
  BY DEF With, Without, Keep
<1> QED BY <1>1, FS_AddElement, FS_Subset

(* What one statement of any kind makes of the catalog.                    *)
LEMMA EffectStep ==
    ASSUME NEW base, CatalogOK(base), NEW s, Proper(s), ~Refuses(base, s), NEW time, NEW Lost
    PROVE  LET after == Effect(base, s, time) IN
           /\ CatalogOK(after) /\ Stays(base.tables, s, after.tables)
           /\ Harmless(s, Lost) => Preserved(base.tables, after.tables, Lost)
<1> DEFINE after == Effect(base, s, time)
<1>1. /\ after.tables = Tables(base.tables, s, time)
      /\ after.enums = CASE s.op = "CreateEnum" -> With(base.enums, s.n, s.v)
                         [] s.op = "DeleteEnum" -> Without(base.enums, {s.n})
                         [] s.op = "DeleteSchema" ->
                              Keep(base.enums, {e \in DOMAIN base.enums : e[1] # s.n})
                         [] OTHER -> base.enums
      /\ after.functions = CASE s.op \in {"CreateFunction", "CreateOrReplaceFunction"} ->
                                  With(base.functions, s.n, s.v)
                             [] s.op = "DeleteFunction" -> Without(base.functions, {s.n})
                             [] OTHER -> base.functions
  BY DEF Effect
<1> HIDE DEF after
<1>2. /\ TablesOK(after.tables) /\ Stays(base.tables, s, after.tables)
      /\ Harmless(s, Lost) => Preserved(base.tables, after.tables, Lost)
  <2>1. Allowed(base.tables, s) /\ TablesOK(base.tables)
    BY NotRefused DEF CatalogOK
  <2> QED BY <1>1, <2>1, TablesStep
<1>3. IsFiniteSet(DOMAIN after.enums)
  <2> DEFINE f == base.enums
             kept == {e \in DOMAIN f : e[1] # s.n}
  <2>1. IsFiniteSet(DOMAIN f)
    BY DEF CatalogOK
  <2>2. /\ IsFiniteSet(DOMAIN With(f, s.n, s.v)) /\ IsFiniteSet(DOMAIN Without(f, {s.n}))
        /\ IsFiniteSet(DOMAIN Keep(f, kept))
    <3> HIDE DEF f, kept
    <3> QED BY <2>1, FiniteDomains
  <2> QED BY <1>1, <2>1, <2>2
<1>4. IsFiniteSet(DOMAIN after.functions)
  <2> DEFINE f == base.functions
  <2>1. IsFiniteSet(DOMAIN f)
    BY DEF CatalogOK
  <2>2. IsFiniteSet(DOMAIN With(f, s.n, s.v)) /\ IsFiniteSet(DOMAIN Without(f, {s.n}))
    <3> HIDE DEF f
    <3> QED BY <2>1, FiniteDomains
  <2> QED BY <1>1, <2>1, <2>2
<1> QED BY <1>2, <1>3, <1>4 DEF CatalogOK, after

RunAt(base, stmts, time, f, i) ==
    IF i = 0 THEN [db |-> base, ok |-> TRUE] ELSE Executed(f[i - 1], stmts[i], time)
SolvesRun(base, stmts, time, f, N) == f = [n \in 0..N |-> RunAt(base, stmts, time, f, n)]

(* The recursive function inside Run exists.                               *)
LEMMA RunExists ==
    ASSUME NEW base, NEW stmts, NEW time, NEW N \in Nat
    PROVE  \E f : SolvesRun(base, stmts, time, f, N)
<1> DEFINE Good == {k \in Nat : \E f : f = [n \in 0..k |-> RunAt(base, stmts, time, f, n)]}
<1>1. 0 \in Good
  <2> DEFINE f == [n \in 0..0 |-> RunAt(base, stmts, time, <<>>, 0)]
  <2>1. f = [n \in 0..0 |-> RunAt(base, stmts, time, f, n)]
    BY DEF RunAt
  <2> QED BY <2>1
<1>2. ASSUME NEW k \in 1..N, k - 1 \in Good
      PROVE  k \in Good
  <2>1. PICK f : f = [n \in 0..(k - 1) |-> RunAt(base, stmts, time, f, n)]
    BY <1>2
  <2> DEFINE g == [n \in 0..k |-> IF n = k THEN RunAt(base, stmts, time, f, k) ELSE f[n]]
  <2>2. ASSUME NEW n \in 0..k
        PROVE  g[n] = RunAt(base, stmts, time, g, n)
    <3>1. n # 0 => g[n - 1] = f[n - 1]
      OBVIOUS
    <3>2. RunAt(base, stmts, time, g, n) = RunAt(base, stmts, time, f, n)
      <4> HIDE DEF g
      <4> QED BY <3>1, Zenon DEF RunAt
    <3>3. CASE n = k
      BY <3>2, <3>3
    <3>4. CASE n # k
      <4>1. g[n] = f[n] /\ n \in 0..(k - 1)
        BY <3>4
      <4>2. f[n] = RunAt(base, stmts, time, f, n)
        <5> HIDE DEF g
        <5> QED BY <2>1, <4>1
      <4> QED BY <3>2, <4>1, <4>2
    <3> QED BY <3>3, <3>4
  <2>3. g = [n \in 0..k |-> RunAt(base, stmts, time, g, n)]
    <3>1. g = [n \in 0..k |-> g[n]]
      OBVIOUS
    <3> HIDE DEF g
    <3> QED BY <2>2, <3>1
  <2> HIDE DEF g
  <2> QED BY <2>3
<1> HIDE DEF Good
<1>3. N \in Good
  <2>1. 0..N \subseteq Good
    BY <1>1, <1>2, UpTo
  <2> QED BY <2>1
<1> QED BY <1>3 DEF Good, SolvesRun

(* What a transaction that runs all of a list does to the tables.          *)
Changes(base, stmts, tables, Lost) ==
    /\ (\A s \in Range(stmts) : Harmless(s, Lost)) => Preserved(base.tables, tables, Lost)
    /\ SelfContained => \A m \in Models :
          (\A s \in Range(stmts) : Local(s, Scope(m))) => Untouched(base.tables, tables, Scope(m))

(* A list of statements keeps the catalog well formed, whether it runs to  *)
(* its end or stops; it loses no data if every statement is harmless and   *)
(* changes no table outside a scope if every statement is local to it.     *)
LEMMA RunStep ==
    ASSUME NEW base, CatalogOK(base), NEW stmts, IsList(stmts), \A s \in Range(stmts) : Proper(s),
           NEW time, NEW Lost
    PROVE  LET r == Run(base, stmts, time) IN
           DOMAIN r = {"db", "ok"} /\ CatalogOK(r.db) /\ Changes(base, stmts, r.db.tables, Lost)
<1> DEFINE N == Len(stmts)
           ran == CHOOSE f : f = [i \in 0..N |-> RunAt(base, stmts, time, f, i)]
           Right(n) == /\ DOMAIN ran[n] = {"db", "ok"} /\ CatalogOK(ran[n].db)
                       /\ Changes(base, stmts, ran[n].db.tables, Lost)
           Good == {n \in 0..N : Right(n)}
<1>1. N \in Nat /\ DOMAIN stmts = 1..N
  BY ListShape
<1>2. ran = [i \in 0..N |-> RunAt(base, stmts, time, ran, i)]
  <2> HIDE DEF N
  <2>1. \E f : SolvesRun(base, stmts, time, f, N)
    BY <1>1, RunExists
  <2> QED BY <2>1, Zenon DEF SolvesRun
<1>3. Run(base, stmts, time) = ran[N]
  BY Zenon DEF Run, RunAt
<1> HIDE DEF ran, N
<1>4. \A n \in 0..N : ran[n] = RunAt(base, stmts, time, ran, n)
  BY <1>2
<1>5. 0 \in Good
  <2>1. DOMAIN ran[0] = {"db", "ok"} /\ ran[0].db = base /\ 0 \in 0..N
    BY <1>1, <1>4 DEF RunAt
  <2>2. Changes(base, stmts, base.tables, Lost)
    BY DEF Changes, Preserved, Untouched
  <2>3. Right(0)
    BY <2>1, <2>2
  <2> HIDE DEF Right
  <2> QED BY <2>1, <2>3
<1>6. ASSUME NEW n \in 1..N, n - 1 \in Good
      PROVE  n \in Good
  <2> DEFINE before == ran[n - 1]
             s == stmts[n]
             after == ran[n]
  <2>1. after = Executed(before, s, time)
    BY <1>1, <1>4 DEF RunAt
  <2>2. Right(n - 1)
    <3> HIDE DEF Right
    <3> QED BY <1>6
  <2>3. s \in Range(stmts) /\ Proper(s)
    BY <1>1 DEF Range
  <2>4. CatalogOK(before.db) /\ Changes(base, stmts, before.db.tables, Lost)
    BY <2>2
  <2> HIDE DEF before, s, after
  <2>5. CASE ~before.ok \/ Refuses(before.db, s)
    <3>1. DOMAIN after = {"db", "ok"} /\ after.db = before.db
      BY <2>1, <2>5 DEF Executed
    <3> QED BY <2>4, <3>1 DEF after
  <2>6. CASE ~(~before.ok \/ Refuses(before.db, s))
    <3> DEFINE effect == Effect(before.db, s, time)
    <3>1. DOMAIN after = {"db", "ok"} /\ after.db = effect
      <4> HIDE DEF effect
      <4>1. Executed(before, s, time) = [db |-> effect, ok |-> TRUE]
        BY <2>6, Zenon DEF Executed, effect
      <4> QED BY <2>1, <4>1
    <3>2. /\ CatalogOK(effect) /\ Stays(before.db.tables, s, effect.tables)
          /\ Harmless(s, Lost) => Preserved(before.db.tables, effect.tables, Lost)
      BY <2>3, <2>4, <2>6, EffectStep
    <3> HIDE DEF effect
    <3>3. Preserved(base.tables, before.db.tables, Lost) /\ Preserved(before.db.tables, effect.tables, Lost)
            => Preserved(base.tables, effect.tables, Lost)
      BY DEF Preserved
    <3>4. \A scope : Untouched(base.tables, before.db.tables, scope)
                       /\ Untouched(before.db.tables, effect.tables, scope)
            => Untouched(base.tables, effect.tables, scope)
      BY DEF Untouched
    <3>5. Changes(base, stmts, effect.tables, Lost)
      BY <2>3, <2>4, <3>2, <3>3, <3>4 DEF Changes, Stays
    <3> QED BY <3>1, <3>2, <3>5 DEF after
  <2>7. Right(n)
    BY <2>5, <2>6 DEF after
  <2> HIDE DEF Right
  <2> QED BY <1>1, <2>7
<1>7. Right(N)
  <2> HIDE DEF Right
  <2>1. 0..N \subseteq Good
    <3> HIDE DEF Good
    <3> QED BY <1>1, <1>5, <1>6, UpTo
  <2> QED BY <1>1, <2>1
<1> QED BY <1>3, <1>7

-----------------------------------------------------------------------------
(* The difference of two specs: which statements it is made of             *)

Lists(f) == IsFiniteSet(DOMAIN f) /\ \A x \in DOMAIN f : IsList(f[x])

(* o is a statement of the lists of f.                                     *)
Of(f, o) == \E x \in DOMAIN f : o \in Range(f[x])

(* Membership in a map of lists, listed key by key.                        *)
LEMMA EachOf ==
    ASSUME NEW f, Lists(f)
    PROVE  IsList(Each(f)) /\ \A o : o \in Range(Each(f)) <=> Of(f, o)
<1>1. IsList(Each(f)) /\ Range(Each(f)) = UNION {Range(f[x]) : x \in DOMAIN f}
  BY ListEach DEF Lists
<1> QED BY <1>1 DEF Of

(* Membership in two maps of lists, one listed after the other.            *)
LEMMA TwoOf ==
    ASSUME NEW f, NEW g, Lists(f), Lists(g)
    PROVE  IsList(Each(f) \o Each(g)) /\ \A o : o \in Range(Each(f) \o Each(g)) <=> Of(f, o) \/ Of(g, o)
<1>1. IsList(Each(f)) /\ IsList(Each(g))
  BY EachOf
<1>2. IsList(Each(f) \o Each(g)) /\ Range(Each(f) \o Each(g)) = Range(Each(f)) \cup Range(Each(g))
  BY <1>1, ListConcat
<1>3. \A o : (o \in Range(Each(f)) <=> Of(f, o)) /\ (o \in Range(Each(g)) <=> Of(g, o))
  BY EachOf
<1> QED BY <1>2, <1>3

(* A list for each member of a set, of one statement.                      *)
LEMMA OneEach ==
    ASSUME NEW f, IsFiniteSet(DOMAIN f), NEW g, \A x \in DOMAIN f : f[x] = <<g[x]>>
    PROVE  Lists(f) /\ \A o : Of(f, o) <=> \E x \in DOMAIN f : o = g[x]
<1>1. \A x \in DOMAIN f : IsList(f[x]) /\ Range(f[x]) = {g[x]}
  BY ListOne
<1> QED BY <1>1 DEF Lists, Of

(* The fields of an operation.                                             *)
LEMMA OpFields ==
    ASSUME NEW op, NEW t, NEW n, NEW v
    PROVE  /\ Op(op, t, n, v).op = op /\ Op(op, t, n, v).t = t
           /\ Op(op, t, n, v).n = n /\ Op(op, t, n, v).v = v
  BY DEF Op

(* A statement of the difference of a table.                               *)
TableOp(t, o) == o.t = t /\ Proper(o) /\ o.op \in TableStatements \cup {"DeleteIndex"}

(* The operations on a table that create nothing of a model's are proper.  *)
LEMMA FreeOp ==
    ASSUME NEW op \in {"DeleteColumn", "SetColumnDefaultValue", "UnsetColumnDefaultValue",
                       "SetNotNull", "UnsetNotNull", "CreateUniqueConstraint",
                       "RemoveUniqueConstraint", "DropUniqueConstraint", "DeleteTrigger",
                       "DeleteIndex"},
           NEW t, NEW n, NEW v
    PROVE  TableOp(t, Op(op, t, n, v)) /\ Op(op, t, n, v).op = op
<1> DEFINE o == Op(op, t, n, v)
<1>1. o.op = op /\ o.t = t
  BY OpFields
<1> HIDE DEF o
<1>2. Proper(o)
  BY <1>1 DEF Proper, Statements, TableStatements
<1> QED BY <1>1, <1>2 DEF TableOp, TableStatements, o

(* Columns *)
LEMMA SqlColumn ==
    ASSUME NEW schema, NEW col, NewColumn(schema, col), NEW single
    PROVE  NewColumn(schema, column_to_sql(col, single))
<1> DEFINE new == column_to_sql(col, single)
<1>1. DOMAIN col = {"typ", "pk", "nullable", "default", "uniques", "refs", "born"}
  BY DEF NewColumn, IsColumn
<1>2. /\ DOMAIN new = DOMAIN col /\ new.typ = col.typ /\ new.refs = col.refs
      /\ new.uniques = col.uniques
  BY <1>1 DEF column_to_sql
<1> HIDE DEF new
<1>3. NewColumn(schema, new)
  BY <1>1, <1>2 DEF IsColumn, NewColumn
<1> QED BY <1>3 DEF new

(* Creating a column of a model is proper.                                 *)
LEMMA CreateColumnOp ==
    ASSUME NEW t, NEW c, NEW col, NewColumn(t[1], col), NEW single
    PROVE  /\ TableOp(t, Op("CreateColumn", t, c, column_to_sql(col, single)))
           /\ Op("CreateColumn", t, c, column_to_sql(col, single)).op = "CreateColumn"
<1> DEFINE v == column_to_sql(col, single)
           o == Op("CreateColumn", t, c, v)
<1>1. NewColumn(t[1], v)
  BY SqlColumn
<1> HIDE DEF v
<1>2. o.op = "CreateColumn" /\ o.t = t /\ o.v = v
  BY OpFields
<1> HIDE DEF o
<1>3. Proper(o)
  BY <1>1, <1>2 DEF Proper, Statements, TableStatements
<1> QED BY <1>2, <1>3 DEF TableOp, TableStatements, o, v

NewType(old, new) ==
    \/ (old.typ # new.typ \/ old.refs # new.refs) /\ ~differs_only_in_reference_column(old, new)
    \/ old.pk # new.pk

(* The operations on one column; a change of its type, nullability or      *)
(* default is one that verify reports.                                     *)
LEMMA ColumnDiff ==
    ASSUME NEW t, NEW c, NEW old, NEW new, NewColumn(t[1], new), NEW single
    PROVE  LET d == column_diff(t, c, old, new, single) IN
           /\ IsList(d) /\ \A o \in Range(d) : TableOp(t, o)
           /\ \/ NewType(old, new)
              \/ old.nullable # new.nullable
              \/ old.default # new.default
              => \E o \in Range(d) : error_string(o)
<1> DEFINE d == column_diff(t, c, old, new, single)
           gone == Op("DeleteColumn", t, c, old)
           made == Op("CreateColumn", t, c, column_to_sql(new, single))
<1>1. CASE NewType(old, new)
  <2>1. d = <<gone, made>>
    BY <1>1 DEF column_diff, NewType
  <2>2. TableOp(t, gone) /\ TableOp(t, made) /\ made.op = "CreateColumn"
    BY FreeOp, CreateColumnOp
  <2> HIDE DEF gone, made, d
  <2>3. IsList(d) /\ Range(d) = {gone, made}
    BY <2>1, ListTwo
  <2>4. error_string(made)
    BY <2>2 DEF error_string
  <2> QED BY <2>2, <2>3, <2>4 DEF d
<1>2. CASE ~NewType(old, new) /\ old.nullable # new.nullable
  <2> DEFINE o == Op(IF new.nullable THEN "UnsetNotNull" ELSE "SetNotNull", t, c, old)
  <2>1. d = <<o>>
    BY <1>2 DEF column_diff, NewType
  <2>2. TableOp(t, o) /\ o.op \in {"UnsetNotNull", "SetNotNull"}
    BY FreeOp
  <2> HIDE DEF o, d
  <2>3. IsList(d) /\ Range(d) = {o}
    BY <2>1, ListOne
  <2>4. error_string(o)
    BY <2>2 DEF error_string
  <2> QED BY <2>2, <2>3, <2>4 DEF d
<1>3. CASE ~NewType(old, new) /\ old.nullable = new.nullable /\ old.default # new.default
  <2> DEFINE o == Op(IF new.default \in {"none", "serial"} THEN "UnsetColumnDefaultValue"
                                      ELSE "SetColumnDefaultValue", t, c, new)
  <2>1. d = <<o>>
    BY <1>3 DEF column_diff, NewType
  <2>2. TableOp(t, o) /\ o.op \in {"UnsetColumnDefaultValue", "SetColumnDefaultValue"}
    BY FreeOp
  <2> HIDE DEF o, d
  <2>3. IsList(d) /\ Range(d) = {o}
    BY <2>1, ListOne
  <2>4. error_string(o)
    BY <2>2 DEF error_string
  <2> QED BY <2>2, <2>3, <2>4 DEF d
<1>4. CASE ~NewType(old, new) /\ old.nullable = new.nullable /\ old.default = new.default
  <2>1. d = <<>>
    BY <1>4 DEF column_diff, NewType
  <2> HIDE DEF d
  <2> QED BY <1>4, <2>1, ListEmpty DEF d
<1> QED BY <1>1, <1>2, <1>3, <1>4

KeptColumns(t, old, new) ==
    [c \in DOMAIN old |->
        IF c \in DOMAIN new THEN column_diff(t, c, old[c], new[c], has_single_pk(new))
        ELSE <<Op("DeleteColumn", t, c, old[c])>>]
AddedColumns(t, old, new) ==
    [c \in DOMAIN new \ DOMAIN old |->
        <<Op("CreateColumn", t, c, column_to_sql(new[c], has_single_pk(new)))>>]

(* The operations on the columns of a table are those of columns on both   *)
(* sides or on one.                                                        *)
LEMMA ColumnsDiff ==
    ASSUME NEW t, NEW old, NEW new, IsTable(old), NewTable(t[1], new)
    PROVE  LET d == columns_diff(t, old.cols, new.cols) IN
           /\ IsList(d) /\ \A o \in Range(d) : TableOp(t, o)
           /\ Lists(KeptColumns(t, old.cols, new.cols))
           /\ Lists(AddedColumns(t, old.cols, new.cols))
           /\ \A o : o \in Range(d) <=> \/ Of(KeptColumns(t, old.cols, new.cols), o)
                                        \/ Of(AddedColumns(t, old.cols, new.cols), o)
<1> DEFINE a == old.cols
           b == new.cols
           kept == KeptColumns(t, a, b)
           added == AddedColumns(t, a, b)
           d == columns_diff(t, a, b)
           single == has_single_pk(b)
<1>1. IsFiniteSet(DOMAIN a) /\ IsFiniteSet(DOMAIN b) /\ \A c \in DOMAIN b : NewColumn(t[1], b[c])
  BY DEF IsTable, NewTable
<1>2. d = Each(kept) \o Each(added)
  BY DEF columns_diff, KeptColumns, AddedColumns
<1> HIDE DEF a, b, single
<1>3. /\ DOMAIN kept = DOMAIN a
      /\ \A c \in DOMAIN a : kept[c] = IF c \in DOMAIN b THEN column_diff(t, c, a[c], b[c], single)
                                       ELSE <<Op("DeleteColumn", t, c, a[c])>>
  BY DEF KeptColumns, single
<1>4. /\ DOMAIN added = DOMAIN b \ DOMAIN a
      /\ \A c \in DOMAIN added : added[c] = <<Op("CreateColumn", t, c, column_to_sql(b[c], single))>>
  BY DEF AddedColumns, single
<1> HIDE DEF kept, added, d
<1>5. ASSUME NEW c \in DOMAIN kept
      PROVE  IsList(kept[c]) /\ \A o \in Range(kept[c]) : TableOp(t, o)
  <2>1. CASE c \in DOMAIN b
    <3>1. kept[c] = column_diff(t, c, a[c], b[c], single) /\ NewColumn(t[1], b[c])
      BY <1>1, <1>3, <2>1
    <3> QED BY <3>1, ColumnDiff
  <2>2. CASE c \notin DOMAIN b
    <3> DEFINE o == Op("DeleteColumn", t, c, a[c])
    <3>1. kept[c] = <<o>>
      BY <1>3, <2>2
    <3>2. TableOp(t, o)
      BY FreeOp
    <3> HIDE DEF o
    <3> QED BY <3>1, <3>2, ListOne
  <2> QED BY <2>1, <2>2
<1>6. ASSUME NEW c \in DOMAIN added
      PROVE  IsList(added[c]) /\ \A o \in Range(added[c]) : TableOp(t, o)
  <2> DEFINE o == Op("CreateColumn", t, c, column_to_sql(b[c], single))
  <2>1. added[c] = <<o>>
    BY <1>4
  <2>2. TableOp(t, o)
    BY <1>1, <1>4, CreateColumnOp
  <2> HIDE DEF o
  <2> QED BY <2>1, <2>2, ListOne
<1>7. Lists(kept) /\ Lists(added)
  <2>1. IsFiniteSet(DOMAIN kept) /\ IsFiniteSet(DOMAIN added)
    BY <1>1, <1>3, <1>4, FS_Difference
  <2> QED BY <1>5, <1>6, <2>1 DEF Lists
<1>8. IsList(d) /\ \A o : o \in Range(d) <=> Of(kept, o) \/ Of(added, o)
  BY <1>2, <1>7, TwoOf
<1>9. \A o \in Range(d) : TableOp(t, o)
  BY <1>5, <1>6, <1>8 DEF Of
<1> QED BY <1>7, <1>8, <1>9 DEF a, b, kept, added, d

(* Indices *)
LEMMA CreateIndexOp ==
    ASSUME NEW t, NEW n, NEW v, IsModelIndex(n, v)
    PROVE  TableOp(t, Op("CreateIndex", t, n, v)) /\ Op("CreateIndex", t, n, v).op = "CreateIndex"
<1> DEFINE o == Op("CreateIndex", t, n, v)
<1>1. o.op = "CreateIndex" /\ o.t = t /\ o.n = n /\ o.v = v
  BY OpFields
<1> HIDE DEF o
<1>2. Proper(o)
  BY <1>1 DEF Proper, Statements, TableStatements
<1> QED BY <1>1, <1>2 DEF TableOp, TableStatements, o

KeptIndex(t, n, old, new) ==
    LET same == SameIndex(new, n, old[n])
    IN  IF same = {} THEN <<Op("DeleteIndex", t, n, old[n])>>
        ELSE LET m == CHOOSE m \in same : TRUE
             IN  IF new[m] = old[n] THEN <<>>
                 ELSE <<Op("DeleteIndex", t, n, old[n]), Op("CreateIndex", t, m, new[m])>>
KeptIndices(t, old, new) == [n \in DOMAIN old |-> KeptIndex(t, n, old, new)]
AddedIndices(t, old, new) ==
    [n \in {m \in DOMAIN new : SameIndex(old, m, new[m]) = {}} |-> <<Op("CreateIndex", t, n, new[n])>>]

(* The operations on indices include the creation of every one that the    *)
(* old side lacks.                                                         *)
LEMMA IndicesDiff ==
    ASSUME NEW t, NEW old, NEW new, IsTable(old), NewTable(t[1], new)
    PROVE  LET d == indices_diff(t, old.indices, new.indices) IN
           /\ IsList(d) /\ \A o \in Range(d) : TableOp(t, o)
           /\ \A o : Of(AddedIndices(t, old.indices, new.indices), o) => o \in Range(d)
<1> DEFINE a == old.indices
           b == new.indices
           kept == KeptIndices(t, a, b)
           added == AddedIndices(t, a, b)
           d == indices_diff(t, a, b)
<1>1. IsFiniteSet(DOMAIN a) /\ IsFiniteSet(DOMAIN b) /\ \A n \in DOMAIN b : IsModelIndex(n, b[n])
  BY DEF IsTable, NewTable
<1>2. d = Each(kept) \o Each(added)
  BY Zenon DEF indices_diff, KeptIndices, KeptIndex, AddedIndices
<1> HIDE DEF a, b
<1>3. DOMAIN kept = DOMAIN a /\ \A n \in DOMAIN a : kept[n] = KeptIndex(t, n, a, b)
  BY DEF KeptIndices
<1>4. /\ DOMAIN added \subseteq DOMAIN b
      /\ \A n \in DOMAIN added : added[n] = <<Op("CreateIndex", t, n, b[n])>>
  BY DEF AddedIndices
<1> HIDE DEF kept, added, d
<1>5. ASSUME NEW n \in DOMAIN kept
      PROVE  IsList(kept[n]) /\ \A o \in Range(kept[n]) : TableOp(t, o)
  <2> DEFINE same == SameIndex(b, n, a[n])
             m == CHOOSE m \in same : TRUE
             gone == Op("DeleteIndex", t, n, a[n])
             made == Op("CreateIndex", t, m, b[m])
  <2>1. kept[n] = IF same = {} THEN <<gone>> ELSE IF b[m] = a[n] THEN <<>> ELSE <<gone, made>>
    BY <1>3 DEF KeptIndex
  <2>2. TableOp(t, gone)
    BY FreeOp
  <2>3. same # {} => TableOp(t, made)
    <3> SUFFICES ASSUME same # {} PROVE TableOp(t, made)
      OBVIOUS
    <3>1. m \in DOMAIN b
      BY DEF SameIndex
    <3>2. IsModelIndex(m, b[m])
      BY <1>1, <3>1
    <3> HIDE DEF m
    <3> QED BY <3>2, CreateIndexOp
  <2> HIDE DEF gone, made, same, m
  <2>4. /\ IsList(<<gone>>) /\ Range(<<gone>>) = {gone} /\ IsList(<<>>) /\ Range(<<>>) = {}
        /\ IsList(<<gone, made>>) /\ Range(<<gone, made>>) = {gone, made}
    BY ListOne, ListTwo, ListEmpty
  <2> QED BY <2>1, <2>2, <2>3, <2>4
<1>6. ASSUME NEW n \in DOMAIN added
      PROVE  IsList(added[n]) /\ \A o \in Range(added[n]) : TableOp(t, o)
  <2> DEFINE o == Op("CreateIndex", t, n, b[n])
  <2>1. added[n] = <<o>>
    BY <1>4
  <2>2. TableOp(t, o)
    BY <1>1, <1>4, CreateIndexOp
  <2> HIDE DEF o
  <2> QED BY <2>1, <2>2, ListOne
<1>7. Lists(kept) /\ Lists(added)
  <2>1. IsFiniteSet(DOMAIN kept) /\ IsFiniteSet(DOMAIN added)
    BY <1>1, <1>3, <1>4, FS_Subset
  <2> QED BY <1>5, <1>6, <2>1 DEF Lists
<1>8. IsList(d) /\ \A o : o \in Range(d) <=> Of(kept, o) \/ Of(added, o)
  BY <1>2, <1>7, TwoOf
<1>9. \A o \in Range(d) : TableOp(t, o)
  BY <1>5, <1>6, <1>8 DEF Of
<1> QED BY <1>8, <1>9 DEF a, b, added, d

(* Unique constraints *)
LEMMA FiniteUnion ==
    ASSUME NEW f, IsFiniteSet(DOMAIN f), \A x \in DOMAIN f : IsFiniteSet(f[x])
    PROVE  IsFiniteSet(UNION {f[x] : x \in DOMAIN f})
<1>1. IsFiniteSet(Range(f)) /\ \A s \in Range(f) : IsFiniteSet(s)
  BY FiniteRange DEF Range
<1>2. IsFiniteSet(UNION Range(f))
  BY <1>1, FS_UNION
<1> QED BY <1>2 DEF Range

(* A table has finitely many unique constraints and foreign keys.          *)
LEMMA FiniteConstraints ==
    ASSUME NEW table, IsTable(table)
    PROVE  /\ IsFiniteSet(DOMAIN named_unique_constraints(table.cols))
           /\ IsFiniteSet(DOMAIN foreign_key_references(table.cols))
<1> DEFINE cols == table.cols
           f == [c \in DOMAIN cols |-> cols[c].uniques]
           g == [c \in DOMAIN cols |-> cols[c].refs]
           all == UNION {cols[c].refs : c \in DOMAIN cols}
           h == [r \in all |-> r.group]
<1>1. IsFiniteSet(DOMAIN cols) /\ \A c \in DOMAIN cols : IsFiniteSet(cols[c].uniques) /\ IsFiniteSet(cols[c].refs)
  BY DEF IsTable, IsColumn
<1> HIDE DEF cols
<1>2. IsFiniteSet(UNION {cols[c].uniques : c \in DOMAIN cols})
  <2>1. DOMAIN f = DOMAIN cols /\ \A c \in DOMAIN cols : f[c] = cols[c].uniques
    OBVIOUS
  <2> HIDE DEF f
  <2>2. IsFiniteSet(UNION {f[c] : c \in DOMAIN f})
    BY <1>1, <2>1, FiniteUnion
  <2>3. {f[c] : c \in DOMAIN f} = {cols[c].uniques : c \in DOMAIN cols}
    BY <2>1
  <2> QED BY <2>2, <2>3
<1>3. IsFiniteSet(all)
  <2>1. DOMAIN g = DOMAIN cols /\ \A c \in DOMAIN cols : g[c] = cols[c].refs
    OBVIOUS
  <2> HIDE DEF g
  <2>2. IsFiniteSet(UNION {g[c] : c \in DOMAIN g})
    BY <1>1, <2>1, FiniteUnion
  <2>3. {g[c] : c \in DOMAIN g} = {cols[c].refs : c \in DOMAIN cols}
    BY <2>1
  <2> QED BY <2>2, <2>3
<1>4. IsFiniteSet({r.group : r \in all})
  <2> HIDE DEF all
  <2>1. DOMAIN h = all /\ Range(h) = {r.group : r \in all}
    BY DEF Range
  <2> HIDE DEF h
  <2> QED BY <1>3, <2>1, FiniteRange
<1>5. DOMAIN named_unique_constraints(cols) = UNION {cols[c].uniques : c \in DOMAIN cols}
  BY DEF named_unique_constraints
<1>6. DOMAIN foreign_key_references(cols) = {r.group : r \in all}
  BY DEF foreign_key_references
<1> QED BY <1>2, <1>4, <1>5, <1>6 DEF cols

GoneUniques(t, old, new) ==
    [n \in {m \in DOMAIN old : matching_column_group(new, m, old[m]) = {}} |->
        <<Op("RemoveUniqueConstraint", t, n, {})>>]
AddedUniques(t, old, new) ==
    [n \in {m \in DOMAIN new : matching_column_group(old, m, new[m]) # {new[m]}} |->
        (IF matching_column_group(old, n, new[n]) = {} THEN <<>>
         ELSE <<Op("RemoveUniqueConstraint", t, n, {})>>)
        \o <<Op("CreateUniqueConstraint", t, n, new[n])>>]

(* A unique constraint that only one side has is one that verify reports.  *)
LEMMA UniquesDiff ==
    ASSUME NEW t, NEW old, NEW new, IsFiniteSet(DOMAIN old), IsFiniteSet(DOMAIN new)
    PROVE  LET d == uniques_diff(t, old, new) IN
           /\ IsList(d) /\ \A o \in Range(d) : TableOp(t, o)
           /\ \A n \in DOMAIN old : matching_column_group(new, n, old[n]) = {} =>
                 \E o \in Range(d) : error_string(o)
           /\ \A n \in DOMAIN new : matching_column_group(old, n, new[n]) # {new[n]} =>
                 \E o \in Range(d) : error_string(o)
<1> DEFINE gone == GoneUniques(t, old, new)
           added == AddedUniques(t, old, new)
           d == uniques_diff(t, old, new)
           drop(n) == Op("RemoveUniqueConstraint", t, n, {})
           make(n) == Op("CreateUniqueConstraint", t, n, new[n])
<1>1. d = Each(gone) \o Each(added)
  BY DEF uniques_diff, GoneUniques, AddedUniques
<1>2. \A n : /\ TableOp(t, drop(n)) /\ drop(n).op = "RemoveUniqueConstraint"
             /\ TableOp(t, make(n)) /\ make(n).op = "CreateUniqueConstraint"
  BY FreeOp
<1>3. \A n : error_string(drop(n)) /\ error_string(make(n))
  <2> HIDE DEF drop, make
  <2> QED BY <1>2 DEF error_string
<1> HIDE DEF drop, make
<1>4. /\ DOMAIN gone = {m \in DOMAIN old : matching_column_group(new, m, old[m]) = {}}
      /\ \A n \in DOMAIN gone : gone[n] = <<drop(n)>>
  BY DEF GoneUniques, drop
<1>5. /\ DOMAIN added = {m \in DOMAIN new : matching_column_group(old, m, new[m]) # {new[m]}}
      /\ \A n \in DOMAIN added : added[n] =
            (IF matching_column_group(old, n, new[n]) = {} THEN <<>> ELSE <<drop(n)>>) \o <<make(n)>>
  BY DEF AddedUniques, drop, make
<1> HIDE DEF gone, added, d
<1>6. ASSUME NEW n \in DOMAIN gone
      PROVE  IsList(gone[n]) /\ Range(gone[n]) = {drop(n)}
  BY <1>4, ListOne
<1>7. ASSUME NEW n \in DOMAIN added
      PROVE  IsList(added[n]) /\ make(n) \in Range(added[n]) /\ Range(added[n]) \subseteq {drop(n), make(n)}
  <2> DEFINE first == IF matching_column_group(old, n, new[n]) = {} THEN <<>> ELSE <<drop(n)>>
  <2>1. added[n] = first \o <<make(n)>>
    BY <1>5
  <2>2. IsList(first) /\ Range(first) \subseteq {drop(n)}
    BY ListEmpty, ListOne
  <2>3. IsList(<<make(n)>>) /\ Range(<<make(n)>>) = {make(n)}
    BY ListOne
  <2> HIDE DEF first
  <2>4. IsList(first \o <<make(n)>>) /\ Range(first \o <<make(n)>>) = Range(first) \cup {make(n)}
    BY <2>2, <2>3, ListConcat
  <2> QED BY <2>1, <2>2, <2>4
<1>8. Lists(gone) /\ Lists(added)
  <2>1. IsFiniteSet(DOMAIN gone) /\ IsFiniteSet(DOMAIN added)
    <3>1. DOMAIN gone \subseteq DOMAIN old /\ DOMAIN added \subseteq DOMAIN new
      BY <1>4, <1>5
    <3> QED BY <3>1, FS_Subset
  <2> QED BY <1>6, <1>7, <2>1 DEF Lists
<1>9. IsList(d) /\ \A o : o \in Range(d) <=> Of(gone, o) \/ Of(added, o)
  BY <1>1, <1>8, TwoOf
<1>10. \A o \in Range(d) : TableOp(t, o)
  BY <1>2, <1>6, <1>7, <1>9 DEF Of
<1>11. ASSUME NEW n \in DOMAIN old, matching_column_group(new, n, old[n]) = {}
       PROVE  drop(n) \in Range(d)
  BY <1>4, <1>6, <1>9, <1>11 DEF Of
<1>12. ASSUME NEW n \in DOMAIN new, matching_column_group(old, n, new[n]) # {new[n]}
       PROVE  make(n) \in Range(d)
  BY <1>5, <1>7, <1>9, <1>12 DEF Of
<1> QED BY <1>3, <1>9, <1>10, <1>11, <1>12 DEF d

(* Triggers.  One that is named after a table of the same schema is        *)
(* proper.                                                                 *)
LEMMA CreateTriggerOp ==
    ASSUME NEW t, NEW n, n[1] = t[1]
    PROVE  /\ TableOp(t, Op("CreateTrigger", t, n, {}))
           /\ Op("CreateTrigger", t, n, {}).op = "CreateTrigger"
<1> DEFINE o == Op("CreateTrigger", t, n, {})
<1>1. o.op = "CreateTrigger" /\ o.t = t /\ o.n = n
  BY OpFields
<1> HIDE DEF o
<1>2. Proper(o)
  BY <1>1 DEF Proper, Statements, TableStatements
<1> QED BY <1>1, <1>2 DEF TableOp, TableStatements, o

(* The difference of the triggers of a table is about that table, and      *)
(* verify reports one that is missing.                                     *)
LEMMA TriggersDiff ==
    ASSUME NEW t, NEW old, NEW new, IsFiniteSet(old), IsFiniteSet(new), \A n \in new : n[1] = t[1]
    PROVE  LET d == triggers_diff(t, old, new) IN
           /\ IsList(d) /\ \A o \in Range(d) : TableOp(t, o)
           /\ \A n \in new \ old : \E o \in Range(d) : error_string(o)
<1> DEFINE gone == [n \in old \ new |-> <<Op("DeleteTrigger", t, n, {})>>]
           added == [n \in new \ old |-> <<Op("CreateTrigger", t, n, {})>>]
           d == triggers_diff(t, old, new)
           drop == [n \in old \ new |-> Op("DeleteTrigger", t, n, {})]
           make == [n \in new \ old |-> Op("CreateTrigger", t, n, {})]
<1>1. d = Each(gone) \o Each(added)
  BY DEF triggers_diff
<1>2. /\ \A n \in old \ new : TableOp(t, drop[n])
      /\ \A n \in new \ old : TableOp(t, make[n]) /\ make[n].op = "CreateTrigger"
  BY FreeOp, CreateTriggerOp
<1>3. /\ DOMAIN gone = old \ new /\ \A n \in DOMAIN gone : gone[n] = <<drop[n]>>
      /\ DOMAIN added = new \ old /\ \A n \in DOMAIN added : added[n] = <<make[n]>>
  OBVIOUS
<1> HIDE DEF gone, added, d, drop, make
<1>4. IsFiniteSet(DOMAIN gone) /\ IsFiniteSet(DOMAIN added)
  BY <1>3, FS_Difference
<1>5. Lists(gone) /\ \A o : Of(gone, o) <=> \E x \in DOMAIN gone : o = drop[x]
  BY <1>3, <1>4, OneEach, ZenonT(40)
<1>6. Lists(added) /\ \A o : Of(added, o) <=> \E x \in DOMAIN added : o = make[x]
  BY <1>3, <1>4, OneEach, ZenonT(40)
<1>7. IsList(d) /\ \A o : o \in Range(d) <=> Of(gone, o) \/ Of(added, o)
  BY <1>1, <1>5, <1>6, TwoOf
<1>8. \A o \in Range(d) : TableOp(t, o)
  BY <1>2, <1>3, <1>5, <1>6, <1>7
<1>9. ASSUME NEW n \in new \ old PROVE make[n] \in Range(d) /\ error_string(make[n])
  BY <1>2, <1>3, <1>6, <1>7 DEF error_string
<1> QED BY <1>7, <1>8, <1>9 DEF d

(* References *)
LEMMA ReferenceOp ==
    ASSUME NEW t, NEW table, NewTable(t[1], table),
           NEW g \in DOMAIN foreign_key_references(table.cols)
    PROVE  TableOp(t, CreateReference(t, table.cols, g))
<1> DEFINE cols == table.cols
           members == foreign_key_references(cols)[g]
           c == CHOOSE c \in members : TRUE
           r == CHOOSE r \in cols[c].refs : r.group = g
           v == [cols |-> members, table |-> r.table]
           o == CreateReference(t, cols, g)
<1>1. o = Op("CreateForeignKeyReference", t, g, v)
  BY DEF CreateReference
<1>2. /\ g \in {q.group : q \in UNION {cols[x].refs : x \in DOMAIN cols}}
      /\ members = {x \in DOMAIN cols : \E q \in cols[x].refs : q.group = g}
  BY DEF foreign_key_references
<1> HIDE DEF cols
<1>3. PICK q \in UNION {cols[x].refs : x \in DOMAIN cols} : q.group = g
  BY <1>2
<1>4. PICK x \in DOMAIN cols : q \in cols[x].refs
  BY <1>3
<1>5. members # {}
  BY <1>2, <1>3, <1>4
<1> HIDE DEF members
<1>6. c \in members
  BY <1>5
<1> HIDE DEF c
<1>7. c \in DOMAIN cols /\ \E k \in cols[c].refs : k.group = g
  BY <1>2, <1>6
<1>8. r \in cols[c].refs
  BY <1>7
<1> HIDE DEF r
<1>9. MayUse(t[1], r.table)
  BY <1>7, <1>8 DEF NewTable, cols
<1>10. v.table = r.table
  OBVIOUS
<1> HIDE DEF v, o
<1>11. o.op = "CreateForeignKeyReference" /\ o.t = t /\ o.v = v
  BY <1>1, OpFields
<1>12. Proper(o)
  BY <1>9, <1>10, <1>11 DEF Proper, Statements, TableStatements
<1> QED BY <1>11, <1>12 DEF TableOp, TableStatements, o, cols

(* The operations on foreign keys are about the table and proper.          *)
LEMMA ReferencesDiff ==
    ASSUME NEW t, NEW old, NEW new, NewTable(t[1], new)
    PROVE  LET d == references_diff(t, old, new.cols) IN
           IsList(d) /\ \A o \in Range(d) : TableOp(t, o)
<1> DEFINE before == foreign_key_references(old)
           after  == foreign_key_references(new.cols)
           added  == {g \in DOMAIN after \ DOMAIN before :
                        \A h \in DOMAIN before : ~(before[h] \subseteq after[g])}
           f == [g \in added |-> <<CreateReference(t, new.cols, g)>>]
           make == [g \in added |-> CreateReference(t, new.cols, g)]
           d == references_diff(t, old, new.cols)
<1>1. d = Each(f)
  BY DEF references_diff
<1>2. added \subseteq DOMAIN after /\ IsFiniteSet(DOMAIN after)
  BY FiniteConstraints DEF NewTable
<1> HIDE DEF added
<1>3. \A g \in added : TableOp(t, make[g])
  BY <1>2, ReferenceOp
<1>4. DOMAIN f = added /\ \A g \in DOMAIN f : f[g] = <<make[g]>>
  OBVIOUS
<1> HIDE DEF f, make, d, after
<1>5. IsFiniteSet(DOMAIN f)
  BY <1>2, <1>4, FS_Subset
<1>6. Lists(f) /\ \A o : Of(f, o) <=> \E x \in DOMAIN f : o = make[x]
  <2>1. \A g \in DOMAIN f : f[g] = <<make[g]>>
    BY <1>4
  <2> QED BY <1>5, <2>1, OneEach
<1>7. IsList(d) /\ \A o : o \in Range(d) <=> Of(f, o)
  BY <1>1, <1>6, EachOf
<1> QED BY <1>3, <1>4, <1>6, <1>7 DEF d

(* Tables *)
LEMMA TableDiff ==
    ASSUME NEW t, NEW old, NEW new, IsTable(old), NewTable(t[1], new)
    PROVE  LET d == table_diff(t, old, new) IN
           /\ IsList(d) /\ \A o \in Range(d) : TableOp(t, o)
           /\ new.managed =>
                 /\ Range(columns_diff(t, old.cols, new.cols)) \subseteq Range(d)
                 /\ Range(indices_diff(t, old.indices, new.indices)) \subseteq Range(d)
                 /\ Range(uniques_diff(t, named_unique_constraints(old.cols),
                                          named_unique_constraints(new.cols))) \subseteq Range(d)
                 /\ Range(triggers_diff(t, old.triggers, new.triggers)) \subseteq Range(d)
<1> DEFINE a == columns_diff(t, old.cols, new.cols)
           b == indices_diff(t, old.indices, new.indices)
           c == uniques_diff(t, named_unique_constraints(old.cols),
                                named_unique_constraints(new.cols))
           e == triggers_diff(t, old.triggers, new.triggers)
           f == references_diff(t, old.cols, new.cols)
           d == table_diff(t, old, new)
<1>1. CASE ~new.managed
  <2>1. d = <<>>
    BY <1>1 DEF table_diff
  <2> HIDE DEF d
  <2> QED BY <1>1, <2>1, ListEmpty DEF d
<1>2. CASE new.managed
  <2>1. d = (((a \o b) \o c) \o e) \o f
    BY <1>2 DEF table_diff
  <2>2. IsTable(new) /\ IsFiniteSet(old.triggers) /\ IsFiniteSet(new.triggers)
    BY DEF NewTable, IsTable
  <2>3. IsList(a) /\ \A o \in Range(a) : TableOp(t, o)
    BY ColumnsDiff
  <2>4. IsList(b) /\ \A o \in Range(b) : TableOp(t, o)
    BY IndicesDiff
  <2>5. IsList(c) /\ \A o \in Range(c) : TableOp(t, o)
    BY <2>2, FiniteConstraints, UniquesDiff
  <2>6. IsList(e) /\ \A o \in Range(e) : TableOp(t, o)
    <3>1. \A n \in new.triggers : n[1] = t[1]
      BY DEF NewTable
    <3> QED BY <2>2, <3>1, TriggersDiff
  <2>7. IsList(f) /\ \A o \in Range(f) : TableOp(t, o)
    BY ReferencesDiff
  <2> HIDE DEF a, b, c, d, e, f
  <2>8. IsList(a \o b) /\ Range(a \o b) = Range(a) \cup Range(b)
    BY <2>3, <2>4, ListConcat
  <2>9. IsList((a \o b) \o c) /\ Range((a \o b) \o c) = Range(a \o b) \cup Range(c)
    BY <2>8, <2>5, ListConcat
  <2>10. IsList(((a \o b) \o c) \o e) /\ Range(((a \o b) \o c) \o e) = Range((a \o b) \o c) \cup Range(e)
    BY <2>9, <2>6, ListConcat
  <2>11. IsList(d) /\ Range(d) = Range(((a \o b) \o c) \o e) \cup Range(f)
    BY <2>1, <2>10, <2>7, ListConcat
  <2>12. Range(d) = Range(a) \cup Range(b) \cup Range(c) \cup Range(e) \cup Range(f)
    BY <2>8, <2>9, <2>10, <2>11
  <2>13. \A o \in Range(d) : TableOp(t, o)
    BY <2>3, <2>4, <2>5, <2>6, <2>7, <2>12
  <2>14. /\ Range(a) \subseteq Range(d) /\ Range(b) \subseteq Range(d)
         /\ Range(c) \subseteq Range(d) /\ Range(e) \subseteq Range(d)
    BY <2>12
  <2> QED BY <2>11, <2>13, <2>14 DEF a, b, c, d, e
<1> QED BY <1>1, <1>2

(* Specs *)
OldSpec(old) ==
    /\ DOMAIN old = {"tables", "enums", "functions"}
    /\ IsFiniteSet(DOMAIN old.tables) /\ IsFiniteSet(DOMAIN old.enums)
    /\ IsFiniteSet(DOMAIN old.functions)
    /\ \A t \in DOMAIN old.tables : IsTable(old.tables[t])

NewSpec(new) ==
    /\ IsFiniteSet(DOMAIN new.tables) /\ IsFiniteSet(DOMAIN new.enums)
    /\ IsFiniteSet(DOMAIN new.functions)
    /\ \A t \in DOMAIN new.tables : t \in ModelNames /\ NewTable(t[1], new.tables[t])

(* A statement of the difference of two specs.                             *)
DiffOp(o, old, new, scope) ==
    /\ Proper(o) /\ Local(o, scope) /\ o.op # "RenameTable"
    /\ o.op = "DeleteTable" => o.t \in DOMAIN InScope(old.tables, scope)
    /\ o.op = "CreateTable" => /\ o.t \in DOMAIN InScope(new.tables, scope)
                               /\ o.t \notin DOMAIN InScope(old.tables, scope)

(* What a scope keeps of a map.                                            *)
LEMMA ScopeOf ==
    ASSUME NEW f, NEW scope
    PROVE  /\ DOMAIN InScope(f, scope) = {x \in DOMAIN f : x[1] \in scope}
           /\ \A x \in DOMAIN InScope(f, scope) : InScope(f, scope)[x] = f[x]
           /\ IsFiniteSet(DOMAIN f) => IsFiniteSet(DOMAIN InScope(f, scope))
<1>1. /\ DOMAIN InScope(f, scope) = {x \in DOMAIN f : x[1] \in scope}
      /\ \A x \in DOMAIN InScope(f, scope) : InScope(f, scope)[x] = f[x]
  BY DEF InScope, Keep
<1>2. DOMAIN InScope(f, scope) \subseteq DOMAIN f
  BY <1>1
<1> QED BY <1>1, <1>2, FS_Subset

(* A statement about something that has no tables.                         *)
LEMMA SimpleOp ==
    ASSUME NEW op \in {"CreateExtension", "RemoveExtension", "CreateSchema", "CreateSequence",
                       "DeleteSequence", "CreateEnum", "CreateFunction", "CreateOrReplaceFunction",
                       "DeleteFunction"},
           NEW t, NEW n, NEW v, NEW old, NEW new, NEW scope
    PROVE  DiffOp(Op(op, t, n, v), old, new, scope)
<1> DEFINE o == Op(op, t, n, v)
<1>1. o.op = op
  BY OpFields
<1> HIDE DEF o
<1>2. Proper(o)
  BY <1>1 DEF Proper, Statements
<1>3. Local(o, scope)
  BY <1>1 DEF Local, TableStatements
<1> QED BY <1>1, <1>2, <1>3 DEF DiffOp, o

(* Dropping an enum or a schema of the scope is an operation of diff.      *)
LEMMA DropOp ==
    ASSUME NEW t, NEW n, NEW v, NEW old, NEW new, NEW scope
    PROVE  /\ n[1] \in scope => DiffOp(Op("DeleteEnum", t, n, v), old, new, scope)
           /\ n \in scope => DiffOp(Op("DeleteSchema", t, n, v), old, new, scope)
<1> DEFINE o == Op("DeleteEnum", t, n, v)
           p == Op("DeleteSchema", t, n, v)
<1>1. o.op = "DeleteEnum" /\ o.n = n /\ p.op = "DeleteSchema" /\ p.n = n
  BY OpFields
<1> HIDE DEF o, p
<1>2. Proper(o) /\ Proper(p)
  BY <1>1 DEF Proper, Statements
<1>3. (n[1] \in scope => Local(o, scope)) /\ (n \in scope => Local(p, scope))
  BY <1>1 DEF Local, TableStatements
<1> QED BY <1>1, <1>2, <1>3 DEF DiffOp, o, p

(* The operations on tables hold those of every table on both sides; a     *)
(* managed table that is missing is one that verify reports.               *)
LEMMA TablesDiff ==
    ASSUME NEW old, NEW new, NEW scope, OldSpec(old), NewSpec(new)
    PROVE  LET before == InScope(old.tables, scope)
               after  == InScope(new.tables, scope)
               d      == tables_diff(before, after)
           IN  /\ IsList(d) /\ \A o \in Range(d) : DiffOp(o, old, new, scope)
               /\ \A t \in DOMAIN before \cap DOMAIN after :
                     Range(table_diff(t, before[t], after[t])) \subseteq Range(d)
               /\ \A t \in DOMAIN after \ DOMAIN before : after[t].managed =>
                     \E o \in Range(d) : error_string(o)
<1> DEFINE before == InScope(old.tables, scope)
           after  == InScope(new.tables, scope)
           d      == tables_diff(before, after)
           kept   == [t \in DOMAIN before |->
                        IF t \in DOMAIN after THEN table_diff(t, before[t], after[t])
                        ELSE <<Op("DeleteTable", t, "", before[t])>>]
           added  == [t \in DOMAIN Managed(after) \ DOMAIN before |->
                        <<Op("CreateTable", t, "", after[t])>>]
           make   == [t \in DOMAIN Managed(after) \ DOMAIN before |-> Op("CreateTable", t, "", after[t])]
<1>1. d = Each(kept) \o Each(added)
  BY DEF tables_diff
<1>2. /\ IsFiniteSet(DOMAIN before) /\ IsFiniteSet(DOMAIN after)
      /\ \A t \in DOMAIN before : t[1] \in scope /\ IsTable(before[t])
      /\ \A t \in DOMAIN after : t[1] \in scope /\ t \in ModelNames /\ NewTable(t[1], after[t])
  <2>1. /\ DOMAIN before = {x \in DOMAIN old.tables : x[1] \in scope}
        /\ \A x \in DOMAIN before : before[x] = old.tables[x]
        /\ IsFiniteSet(DOMAIN before)
    BY ScopeOf DEF OldSpec
  <2>2. /\ DOMAIN after = {x \in DOMAIN new.tables : x[1] \in scope}
        /\ \A x \in DOMAIN after : after[x] = new.tables[x]
        /\ IsFiniteSet(DOMAIN after)
    BY ScopeOf DEF NewSpec
  <2> HIDE DEF before, after
  <2> QED BY <2>1, <2>2 DEF OldSpec, NewSpec
<1> HIDE DEF before, after, d
<1>3. DOMAIN Managed(after) = {t \in DOMAIN after : after[t].managed}
  BY DEF Managed, Keep
<1>4. ASSUME NEW t \in DOMAIN before
      PROVE  IsList(kept[t]) /\ \A o \in Range(kept[t]) : DiffOp(o, old, new, scope)
  <2>1. CASE t \in DOMAIN after
    <3>1. kept[t] = table_diff(t, before[t], after[t])
      BY <2>1
    <3>2. IsList(kept[t]) /\ \A o \in Range(kept[t]) : TableOp(t, o)
      BY <1>2, <2>1, <3>1, TableDiff
    <3> HIDE DEF kept
    <3>3. ASSUME NEW o \in Range(kept[t]) PROVE DiffOp(o, old, new, scope)
      <4>1. o.t = t /\ Proper(o) /\ o.op \in TableStatements \cup {"DeleteIndex"}
        BY <3>2 DEF TableOp
      <4>2. Local(o, scope)
        BY <1>2, <4>1 DEF Local, TableStatements
      <4> QED BY <4>1, <4>2 DEF DiffOp, TableStatements
    <3> QED BY <3>2, <3>3
  <2>2. CASE t \notin DOMAIN after
    <3> DEFINE o == Op("DeleteTable", t, "", before[t])
    <3>1. kept[t] = <<o>>
      BY <2>2
    <3>2. o.op = "DeleteTable" /\ o.t = t /\ o.v = before[t]
      BY DEF Op
    <3> HIDE DEF o, kept
    <3>3. Proper(o) /\ Local(o, scope)
      BY <1>2, <3>2 DEF Proper, Statements, Local, TableStatements
    <3>4. DiffOp(o, old, new, scope)
      BY <3>2, <3>3 DEF DiffOp, before
    <3> QED BY <3>1, <3>4, ListOne
  <2> QED BY <2>1, <2>2
<1>5. ASSUME NEW t \in DOMAIN Managed(after) \ DOMAIN before
      PROVE  DiffOp(make[t], old, new, scope) /\ make[t].op = "CreateTable"
  <2> DEFINE o == make[t]
  <2>1. o.op = "CreateTable" /\ o.t = t /\ o.v = after[t]
    BY DEF Op
  <2> HIDE DEF o, make
  <2>2. t \in DOMAIN after
    BY <1>3
  <2>3. Proper(o) /\ Local(o, scope)
    BY <1>2, <2>1, <2>2 DEF Proper, Statements, Local, TableStatements
  <2> QED BY <2>1, <2>2, <2>3 DEF DiffOp, before, after, o
<1>6. /\ DOMAIN kept = DOMAIN before
      /\ DOMAIN added = DOMAIN Managed(after) \ DOMAIN before
      /\ \A t \in DOMAIN added : added[t] = <<make[t]>>
      /\ \A t \in DOMAIN before \cap DOMAIN after : kept[t] = table_diff(t, before[t], after[t])
  OBVIOUS
<1> HIDE DEF kept, added, make
<1>7. Lists(kept)
  BY <1>2, <1>4, <1>6 DEF Lists
<1>8. Lists(added) /\ \A o : Of(added, o) <=> \E x \in DOMAIN added : o = make[x]
  <2>1. DOMAIN added \subseteq DOMAIN after
    BY <1>3, <1>6
  <2>2. IsFiniteSet(DOMAIN added)
    BY <1>2, <2>1, FS_Subset
  <2> QED BY <1>6, <2>2, OneEach, ZenonT(40)
<1>9. IsList(d) /\ \A o : o \in Range(d) <=> Of(kept, o) \/ Of(added, o)
  BY <1>1, <1>7, <1>8, TwoOf
<1>10. \A o \in Range(d) : DiffOp(o, old, new, scope)
  BY <1>4, <1>5, <1>6, <1>8, <1>9 DEF Of
<1>11. \A t \in DOMAIN before \cap DOMAIN after : Range(table_diff(t, before[t], after[t])) \subseteq Range(d)
  BY <1>6, <1>9 DEF Of
<1>12. ASSUME NEW t \in DOMAIN after \ DOMAIN before, after[t].managed
       PROVE  make[t] \in Range(d) /\ error_string(make[t])
  BY <1>3, <1>5, <1>6, <1>8, <1>9, <1>12 DEF error_string
<1> QED BY <1>9, <1>10, <1>11, <1>12 DEF before, after, d

(* Enums and functions: what is gone, what is new, what has changed.       *)
LEMMA EnumsDiff ==
    ASSUME NEW before, NEW after, IsFiniteSet(DOMAIN before), IsFiniteSet(DOMAIN after),
           NEW old, NEW new, NEW scope, \A e \in DOMAIN before : e[1] \in scope
    PROVE  LET d == enums_diff(before, after) IN
           /\ IsList(d) /\ \A o \in Range(d) : DiffOp(o, old, new, scope)
           /\ \A e \in DOMAIN after : (e \notin DOMAIN before \/ before[e] # after[e]) =>
                 \E o \in Range(d) : error_string(o)
<1> DEFINE d == enums_diff(before, after)
           gone(e) == Op("DeleteEnum", "", e, before[e])
           again(e) == Op("CreateEnum", "", e, before[e])
           kept == [e \in DOMAIN before |->
                      IF e \notin DOMAIN after THEN <<gone(e)>>
                      ELSE IF before[e] # after[e] THEN <<again(e)>> ELSE <<>>]
           added == [e \in DOMAIN after \ DOMAIN before |-> <<Op("CreateEnum", "", e, after[e])>>]
           make == [e \in DOMAIN after \ DOMAIN before |-> Op("CreateEnum", "", e, after[e])]
<1>1. d = Each(kept) \o Each(added)
  BY DEF enums_diff
<1>2. \A e \in DOMAIN before : DiffOp(gone(e), old, new, scope)
  BY DropOp
<1>3. \A e \in DOMAIN before : DiffOp(again(e), old, new, scope) /\ again(e).op = "CreateEnum"
  <2>1. ASSUME NEW e \in DOMAIN before PROVE DiffOp(again(e), old, new, scope)
    BY SimpleOp
  <2>2. \A e \in DOMAIN before : again(e).op = "CreateEnum"
    BY DEF Op
  <2> QED BY <2>1, <2>2
<1>4. \A e \in DOMAIN after \ DOMAIN before :
         DiffOp(make[e], old, new, scope) /\ make[e].op = "CreateEnum"
  <2>1. ASSUME NEW e \in DOMAIN after \ DOMAIN before PROVE DiffOp(make[e], old, new, scope)
    BY SimpleOp
  <2>2. \A e \in DOMAIN after \ DOMAIN before : make[e].op = "CreateEnum"
    BY DEF Op
  <2> QED BY <2>1, <2>2
<1> HIDE DEF gone, again, d
<1>5. /\ DOMAIN kept = DOMAIN before
      /\ \A e \in DOMAIN kept : kept[e] = IF e \notin DOMAIN after THEN <<gone(e)>>
                      ELSE IF before[e] # after[e] THEN <<again(e)>> ELSE <<>>
      /\ DOMAIN added = DOMAIN after \ DOMAIN before
      /\ \A e \in DOMAIN added : added[e] = <<make[e]>>
  OBVIOUS
<1> HIDE DEF kept, added, make
<1>6. ASSUME NEW e \in DOMAIN kept
      PROVE  /\ IsList(kept[e]) /\ \A o \in Range(kept[e]) : DiffOp(o, old, new, scope)
             /\ e \in DOMAIN after /\ before[e] # after[e] => again(e) \in Range(kept[e])
  BY <1>2, <1>3, <1>5, ListOne, ListEmpty
<1>7. Lists(kept)
  BY <1>5, <1>6 DEF Lists
<1>8. Lists(added) /\ \A o : Of(added, o) <=> \E x \in DOMAIN added : o = make[x]
  <2>1. IsFiniteSet(DOMAIN added)
    BY <1>5, FS_Difference
  <2>2. \A e \in DOMAIN added : added[e] = <<make[e]>>
    BY <1>5
  <2> QED BY <2>1, <2>2, OneEach
<1>9. IsList(d) /\ \A o : o \in Range(d) <=> Of(kept, o) \/ Of(added, o)
  BY <1>1, <1>7, <1>8, TwoOf
<1>10. \A o \in Range(d) : DiffOp(o, old, new, scope)
  BY <1>4, <1>5, <1>6, <1>8, <1>9 DEF Of
<1>11. ASSUME NEW e \in DOMAIN after, e \notin DOMAIN before \/ before[e] # after[e]
       PROVE  \E o \in Range(d) : error_string(o)
  <2>1. CASE e \notin DOMAIN before
    <3>1. make[e] \in Range(d) /\ make[e].op = "CreateEnum"
      BY <1>4, <1>5, <1>8, <1>9, <2>1
    <3> QED BY <3>1 DEF error_string
  <2>2. CASE e \in DOMAIN before
    <3>1. again(e) \in Range(d) /\ again(e).op = "CreateEnum"
      BY <1>3, <1>5, <1>6, <1>9, <1>11, <2>2 DEF Of
    <3> QED BY <3>1 DEF error_string
  <2> QED BY <2>1, <2>2
<1> QED BY <1>9, <1>10, <1>11 DEF d

(* A function that is missing or different is one that verify reports.     *)
LEMMA FunctionsDiff ==
    ASSUME NEW before, NEW after, IsFiniteSet(DOMAIN before), IsFiniteSet(DOMAIN after),
           NEW old, NEW new, NEW scope
    PROVE  LET d == functions_diff(before, after) IN
           /\ IsList(d) /\ \A o \in Range(d) : DiffOp(o, old, new, scope)
           /\ \A e \in DOMAIN after : (e \notin DOMAIN before \/ before[e] # after[e]) =>
                 \E o \in Range(d) : error_string(o)
<1> DEFINE d == functions_diff(before, after)
           gone(e) == Op("DeleteFunction", "", e, {})
           again(e) == Op("CreateOrReplaceFunction", "", e, after[e])
           kept == [e \in DOMAIN before |->
                      IF e \notin DOMAIN after THEN <<gone(e)>>
                      ELSE IF before[e] # after[e] THEN <<again(e)>> ELSE <<>>]
           added == [e \in DOMAIN after \ DOMAIN before |-> <<Op("CreateFunction", "", e, after[e])>>]
           make == [e \in DOMAIN after \ DOMAIN before |-> Op("CreateFunction", "", e, after[e])]
<1>1. d = Each(kept) \o Each(added)
  BY DEF functions_diff
<1>2. \A e \in DOMAIN before : DiffOp(gone(e), old, new, scope)
  BY SimpleOp
<1>3. \A e \in DOMAIN before : DiffOp(again(e), old, new, scope) /\ again(e).op = "CreateOrReplaceFunction"
  <2>1. ASSUME NEW e \in DOMAIN before PROVE DiffOp(again(e), old, new, scope)
    BY SimpleOp
  <2>2. \A e \in DOMAIN before : again(e).op = "CreateOrReplaceFunction"
    BY DEF Op
  <2> QED BY <2>1, <2>2
<1>4. \A e \in DOMAIN after \ DOMAIN before :
         DiffOp(make[e], old, new, scope) /\ make[e].op = "CreateFunction"
  <2>1. ASSUME NEW e \in DOMAIN after \ DOMAIN before PROVE DiffOp(make[e], old, new, scope)
    BY SimpleOp
  <2>2. \A e \in DOMAIN after \ DOMAIN before : make[e].op = "CreateFunction"
    BY DEF Op
  <2> QED BY <2>1, <2>2
<1> HIDE DEF gone, again, d
<1>5. /\ DOMAIN kept = DOMAIN before
      /\ \A e \in DOMAIN kept : kept[e] = IF e \notin DOMAIN after THEN <<gone(e)>>
                      ELSE IF before[e] # after[e] THEN <<again(e)>> ELSE <<>>
      /\ DOMAIN added = DOMAIN after \ DOMAIN before
      /\ \A e \in DOMAIN added : added[e] = <<make[e]>>
  OBVIOUS
<1> HIDE DEF kept, added, make
<1>6. ASSUME NEW e \in DOMAIN kept
      PROVE  /\ IsList(kept[e]) /\ \A o \in Range(kept[e]) : DiffOp(o, old, new, scope)
             /\ e \in DOMAIN after /\ before[e] # after[e] => again(e) \in Range(kept[e])
  BY <1>2, <1>3, <1>5, ListOne, ListEmpty
<1>7. Lists(kept)
  BY <1>5, <1>6 DEF Lists
<1>8. Lists(added) /\ \A o : Of(added, o) <=> \E x \in DOMAIN added : o = make[x]
  <2>1. IsFiniteSet(DOMAIN added)
    BY <1>5, FS_Difference
  <2>2. \A e \in DOMAIN added : added[e] = <<make[e]>>
    BY <1>5
  <2> QED BY <2>1, <2>2, OneEach
<1>9. IsList(d) /\ \A o : o \in Range(d) <=> Of(kept, o) \/ Of(added, o)
  BY <1>1, <1>7, <1>8, TwoOf
<1>10. \A o \in Range(d) : DiffOp(o, old, new, scope)
  BY <1>4, <1>5, <1>6, <1>8, <1>9 DEF Of
<1>11. ASSUME NEW e \in DOMAIN after, e \notin DOMAIN before \/ before[e] # after[e]
       PROVE  \E o \in Range(d) : error_string(o)
  <2>1. CASE e \notin DOMAIN before
    <3>1. make[e] \in Range(d) /\ make[e].op = "CreateFunction"
      BY <1>4, <1>5, <1>8, <1>9, <2>1
    <3> QED BY <3>1 DEF error_string
  <2>2. CASE e \in DOMAIN before
    <3>1. again(e) \in Range(d) /\ again(e).op = "CreateOrReplaceFunction"
      BY <1>3, <1>5, <1>6, <1>9, <1>11, <2>2 DEF Of
    <3> QED BY <3>1 DEF error_string
  <2> QED BY <2>1, <2>2
<1> QED BY <1>9, <1>10, <1>11 DEF d

(* Extensions, sequences and schemas *)
LEMMA NamedDiff ==
    ASSUME NEW op \in {"CreateExtension", "RemoveExtension", "CreateSchema", "CreateSequence",
                       "DeleteSequence", "DeleteSchema"},
           NEW S, IsFiniteSet(S), NEW old, NEW new, NEW scope,
           op = "DeleteSchema" => S \subseteq scope
    PROVE  IsList(Named(op, S)) /\ \A o \in Range(Named(op, S)) : DiffOp(o, old, new, scope)
<1> DEFINE f == [n \in S |-> <<Op(op, "", n, {})>>]
           g == [n \in S |-> Op(op, "", n, {})]
<1>1. Named(op, S) = Each(f)
  BY DEF Named
<1>2. ASSUME NEW n \in S PROVE DiffOp(g[n], old, new, scope)
  <2>1. g[n] = Op(op, "", n, {})
    OBVIOUS
  <2> QED BY <2>1, SimpleOp, DropOp
<1>3. DOMAIN f = S /\ \A n \in DOMAIN f : f[n] = <<g[n]>>
  OBVIOUS
<1> HIDE DEF f, g
<1>4. Lists(f) /\ \A o : Of(f, o) <=> \E x \in DOMAIN f : o = g[x]
  <2>1. IsFiniteSet(DOMAIN f)
    BY <1>3
  <2>2. \A n \in DOMAIN f : f[n] = <<g[n]>>
    BY <1>3
  <2> QED BY <2>1, <2>2, OneEach
<1>5. IsList(Each(f)) /\ \A o : o \in Range(Each(f)) <=> Of(f, o)
  BY <1>4, EachOf
<1> QED BY <1>1, <1>2, <1>3, <1>4, <1>5

(* Finitely many tables have finitely many columns.                        *)
LEMMA FiniteColumns ==
    ASSUME NEW tables, IsFiniteSet(DOMAIN tables), \A t \in DOMAIN tables : IsTable(tables[t])
    PROVE  IsFiniteSet(Columns(tables))
<1> DEFINE f == [t \in DOMAIN tables |-> Range(tables[t].cols)]
<1>1. DOMAIN f = DOMAIN tables /\ \A t \in DOMAIN f : f[t] = Range(tables[t].cols)
  OBVIOUS
<1>2. Columns(tables) = UNION {f[t] : t \in DOMAIN f}
  BY DEF Columns
<1> HIDE DEF f
<1>3. \A t \in DOMAIN f : IsFiniteSet(f[t])
  BY <1>1, FiniteRange DEF IsTable
<1> QED BY <1>1, <1>2, <1>3, FiniteUnion

(* What finitely many tables require is finite.                            *)
LEMMA FiniteRequired ==
    ASSUME NEW tables, IsFiniteSet(DOMAIN tables), \A t \in DOMAIN tables : IsTable(tables[t])
    PROVE  /\ IsFiniteSet(required_extensions(tables)) /\ IsFiniteSet(required_sequences(tables))
           /\ IsFiniteSet(required_schemas(tables))
<1> DEFINE managed == {t \in DOMAIN tables : tables[t].managed}
           types == [c \in Columns(tables) |-> c.typ]
           defaults == [c \in Columns(Managed(tables)) |-> c.default]
           schemas == [t \in managed |-> t[1]]
<1>1. managed \subseteq DOMAIN tables /\ IsFiniteSet(managed)
  <2>1. managed \subseteq DOMAIN tables
    OBVIOUS
  <2> QED BY <2>1, FS_Subset
<1>2. /\ DOMAIN Managed(tables) = managed
      /\ \A t \in DOMAIN Managed(tables) : Managed(tables)[t] = tables[t]
  BY DEF Managed, Keep
<1> HIDE DEF managed
<1>3. IsFiniteSet(Columns(tables)) /\ IsFiniteSet(Columns(Managed(tables)))
  BY <1>1, <1>2, FiniteColumns
<1>4. IsFiniteSet(Range(types)) /\ IsFiniteSet(Range(defaults)) /\ IsFiniteSet(Range(schemas))
  <2>1. /\ DOMAIN types = Columns(tables) /\ DOMAIN defaults = Columns(Managed(tables))
        /\ DOMAIN schemas = managed
    OBVIOUS
  <2> HIDE DEF types, defaults, schemas
  <2> QED BY <1>1, <1>3, <2>1, FiniteRange
<1>5. required_extensions(tables) \subseteq Range(types)
  BY DEF required_extensions, Range
<1>6. required_sequences(tables) \subseteq Range(defaults)
  BY DEF required_sequences, Range
<1>7. required_schemas(tables) \subseteq Range(schemas)
  BY DEF required_schemas, Range, managed
<1> HIDE DEF types, defaults, schemas
<1> QED BY <1>4, <1>5, <1>6, <1>7, FS_Subset

(* The operations of diff are proper and stay in the scope; those of       *)
(* enums, tables and functions are all among them.                         *)
LEMMA Diff ==
    ASSUME NEW old, NEW new, NEW scope, OldSpec(old), NewSpec(new)
    PROVE  LET d == diff(old, new, scope)
               before == InScope(old.tables, scope)
               after  == InScope(new.tables, scope)
           IN  /\ IsList(d) /\ \A o \in Range(d) : DiffOp(o, old, new, scope)
               /\ Range(enums_diff(InScope(old.enums, scope), InScope(new.enums, scope)))
                     \subseteq Range(d)
               /\ Range(tables_diff(before, after)) \subseteq Range(d)
               /\ Range(functions_diff(old.functions, new.functions)) \subseteq Range(d)
<1> DEFINE before == InScope(old.tables, scope)
           after  == InScope(new.tables, scope)
           a == Named("CreateExtension", required_extensions(after) \ required_extensions(before))
           b == Named("CreateSchema", required_schemas(after) \ required_schemas(before))
           c == Named("CreateSequence", required_sequences(after) \ required_sequences(before))
           e == Named("DeleteSequence", required_sequences(before) \ required_sequences(after))
           f == enums_diff(InScope(old.enums, scope), InScope(new.enums, scope))
           g == tables_diff(before, after)
           h == functions_diff(old.functions, new.functions)
           i == Named("RemoveExtension", required_extensions(before) \ required_extensions(after))
           j == Named("DeleteSchema", required_schemas(before) \ required_schemas(after))
           d == diff(old, new, scope)
           all == (((((((a \o b) \o c) \o e) \o f) \o g) \o h) \o i) \o j
           OK(l) == IsList(l) /\ \A o \in Range(l) : DiffOp(o, old, new, scope)
<1>1. d = sort_changes(all)
  BY Zenon DEF diff
<1>2. /\ IsFiniteSet(DOMAIN before) /\ IsFiniteSet(DOMAIN after)
      /\ \A t \in DOMAIN before : t[1] \in scope /\ IsTable(before[t])
      /\ \A t \in DOMAIN after : IsTable(after[t])
  <2>1. /\ DOMAIN before = {x \in DOMAIN old.tables : x[1] \in scope}
        /\ \A x \in DOMAIN before : before[x] = old.tables[x]
        /\ IsFiniteSet(DOMAIN before)
    BY ScopeOf DEF OldSpec
  <2>2. /\ DOMAIN after = {x \in DOMAIN new.tables : x[1] \in scope}
        /\ \A x \in DOMAIN after : after[x] = new.tables[x]
        /\ IsFiniteSet(DOMAIN after)
    BY ScopeOf DEF NewSpec
  <2> HIDE DEF before, after
  <2> QED BY <2>1, <2>2 DEF OldSpec, NewSpec, NewTable
<1>3. OK(g)
  BY TablesDiff
<1>4. OK(f)
  <2> DEFINE x == InScope(old.enums, scope)
             y == InScope(new.enums, scope)
  <2>1. IsFiniteSet(DOMAIN x) /\ IsFiniteSet(DOMAIN y) /\ \A n \in DOMAIN x : n[1] \in scope
    <3>1. IsFiniteSet(DOMAIN old.enums) /\ IsFiniteSet(DOMAIN new.enums)
      BY DEF OldSpec, NewSpec
    <3>2. IsFiniteSet(DOMAIN x) /\ DOMAIN x = {n \in DOMAIN old.enums : n[1] \in scope}
      BY <3>1, ScopeOf
    <3>3. IsFiniteSet(DOMAIN y)
      BY <3>1, ScopeOf
    <3> HIDE DEF x, y
    <3> QED BY <3>2, <3>3
  <2> HIDE DEF x, y
  <2>2. OK(enums_diff(x, y))
    BY <2>1, EnumsDiff
  <2> QED BY <2>2 DEF x, y
<1>5. OK(h)
  BY FunctionsDiff DEF OldSpec, NewSpec
<1>6. OK(a) /\ OK(b) /\ OK(c) /\ OK(e) /\ OK(i) /\ OK(j)
  <2> HIDE DEF before, after
  <2>1. /\ IsFiniteSet(required_extensions(before)) /\ IsFiniteSet(required_sequences(before))
        /\ IsFiniteSet(required_schemas(before))
    BY <1>2, FiniteRequired
  <2>2. /\ IsFiniteSet(required_extensions(after)) /\ IsFiniteSet(required_sequences(after))
        /\ IsFiniteSet(required_schemas(after))
    BY <1>2, FiniteRequired
  <2>3. \A S, T : IsFiniteSet(S) => IsFiniteSet(S \ T)
    BY FS_Difference
  <2>4. required_schemas(before) \ required_schemas(after) \subseteq scope
    BY <1>2 DEF required_schemas
  <2>5. OK(a) /\ OK(b)
    BY <2>1, <2>2, <2>3, NamedDiff
  <2>6. OK(c) /\ OK(e)
    BY <2>1, <2>2, <2>3, NamedDiff
  <2>7. OK(i) /\ OK(j)
    BY <2>1, <2>2, <2>3, <2>4, NamedDiff
  <2> QED BY <2>5, <2>6, <2>7
<1> HIDE DEF before, after, a, b, c, e, f, g, h, i, j, d
<1>7. ASSUME NEW l, NEW m, OK(l), OK(m)
      PROVE  OK(l \o m) /\ Range(l) \subseteq Range(l \o m) /\ Range(m) \subseteq Range(l \o m)
  <2>1. IsList(l \o m) /\ Range(l \o m) = Range(l) \cup Range(m)
    BY <1>7, ListConcat
  <2> QED BY <1>7, <2>1
<1> DEFINE l1 == a \o b
           l2 == l1 \o c
           l3 == l2 \o e
           l4 == l3 \o f
           l5 == l4 \o g
           l6 == l5 \o h
           l7 == l6 \o i
           l8 == l7 \o j
<1> HIDE DEF OK
<1>8. OK(l1)
  BY <1>6, <1>7
<1> HIDE DEF l1
<1>9. OK(l2)
  BY <1>6, <1>7, <1>8
<1> HIDE DEF l2
<1>10. OK(l3)
  BY <1>6, <1>7, <1>9
<1> HIDE DEF l3
<1>11. OK(l4) /\ Range(f) \subseteq Range(l4)
  BY <1>4, <1>7, <1>10
<1> HIDE DEF l4
<1>12. OK(l5) /\ Range(l4) \subseteq Range(l5) /\ Range(g) \subseteq Range(l5)
  BY <1>3, <1>7, <1>11
<1> HIDE DEF l5
<1>13. OK(l6) /\ Range(l5) \subseteq Range(l6) /\ Range(h) \subseteq Range(l6)
  BY <1>5, <1>7, <1>12
<1> HIDE DEF l6
<1>14. OK(l7) /\ Range(l6) \subseteq Range(l7)
  BY <1>6, <1>7, <1>13
<1> HIDE DEF l7
<1>15. OK(l8) /\ Range(l7) \subseteq Range(l8)
  BY <1>6, <1>7, <1>14
<1>16. all = l8
  BY DEF l1, l2, l3, l4, l5, l6, l7, l8
<1> HIDE DEF l8, all
<1>17. IsList(d) /\ Range(d) = Range(l8)
  BY <1>1, <1>15, <1>16, ListSort DEF OK
<1>18. \A o \in Range(d) : DiffOp(o, old, new, scope)
  BY <1>15, <1>17 DEF OK
<1>19. Range(f) \subseteq Range(d) /\ Range(g) \subseteq Range(d) /\ Range(h) \subseteq Range(d)
  BY <1>11, <1>12, <1>13, <1>14, <1>15, <1>17
<1> QED BY <1>17, <1>18, <1>19 DEF before, after, d, f, g, h

-----------------------------------------------------------------------------
(* The list of a command: the statements of a difference, in three phases  *)

(* What may be in the list of a command about the schemas of a scope whose *)
(* user has given up the tables of Lost.                                   *)
Listed(x, scope, Lost) ==
    /\ Proper(x.sql) /\ Local(x.sql, scope)
    /\ ~x.destructive => Harmless(x.sql, Lost)

(* An op that may be made a statement: one of a difference, or a rename    *)
(* that arrives (or that starts from a table that is given up).            *)
Plannable(o, scope, approved, Lost) ==
    /\ Proper(o) /\ Local(o, scope)
    /\ o.op = "RenameTable" => o.t \in Lost \/ Landing(o) \notin Lost
    /\ approved \subseteq Lost

Phases == {"pre", "main", "post"}

(* An operation on a table of the scope, DROP COLUMN apart, is local and   *)
(* harmless.                                                               *)
LEMMA TableOpListed ==
    ASSUME NEW t, NEW o, TableOp(t, o), NEW scope, t[1] \in scope, NEW Lost, o.op # "DeleteColumn"
    PROVE  Proper(o) /\ Local(o, scope) /\ Harmless(o, Lost)
<1>1. o.t = t /\ Proper(o) /\ o.op \in TableStatements \cup {"DeleteIndex"}
  BY DEF TableOp
<1>2. Local(o, scope) /\ Harmless(o, Lost)
  BY <1>1 DEF Local, Harmless, TableStatements
<1> QED BY <1>1, <1>2

(* What follows the creation of a table is about that table and harmless.  *)
LEMMA CreationSql ==
    ASSUME NEW t, NEW table, NewTable(t[1], table)
    PROVE  LET d == creation_sql(t, table) IN
           IsList(d) /\ \A o \in Range(d) : TableOp(t, o) /\ o.op # "DeleteColumn"
<1> DEFINE uniques == named_unique_constraints(table.cols)
           refs == foreign_key_references(table.cols)
           a == [n \in DOMAIN uniques |-> <<Op("CreateUniqueConstraint", t, n, uniques[n])>>]
           b == [g \in DOMAIN refs |-> <<CreateReference(t, table.cols, g)>>]
           c == [n \in DOMAIN table.indices |-> <<Op("CreateIndex", t, n, table.indices[n])>>]
           e == [n \in table.triggers |-> <<Op("CreateTrigger", t, n, {})>>]
           f == [n \in DOMAIN uniques |-> Op("CreateUniqueConstraint", t, n, uniques[n])]
           g == [k \in DOMAIN refs |-> CreateReference(t, table.cols, k)]
           h == [n \in DOMAIN table.indices |-> Op("CreateIndex", t, n, table.indices[n])]
           i == [n \in table.triggers |-> Op("CreateTrigger", t, n, {})]
           d == creation_sql(t, table)
           Fine(o) == TableOp(t, o) /\ o.op # "DeleteColumn"
<1>1. d = ((Each(a) \o Each(b)) \o Each(c)) \o Each(e)
  BY Zenon DEF creation_sql
<1>2. /\ IsFiniteSet(DOMAIN uniques) /\ IsFiniteSet(DOMAIN refs)
      /\ IsFiniteSet(DOMAIN table.indices) /\ IsFiniteSet(table.triggers)
  BY FiniteConstraints DEF NewTable, IsTable
<1>3. \A n \in DOMAIN uniques : Fine(f[n])
  BY FreeOp
<1>4. \A n \in DOMAIN refs : Fine(g[n])
  <2>1. \A n \in DOMAIN refs : TableOp(t, g[n])
    BY ReferenceOp
  <2>2. \A n \in DOMAIN refs : g[n].op = "CreateForeignKeyReference"
    BY DEF CreateReference, Op
  <2> QED BY <2>1, <2>2
<1>5. \A n \in DOMAIN table.indices : Fine(h[n])
  BY CreateIndexOp DEF NewTable
<1>6. \A n \in table.triggers : Fine(i[n])
  BY CreateTriggerOp DEF NewTable
<1>7. /\ DOMAIN a = DOMAIN uniques /\ \A n \in DOMAIN a : a[n] = <<f[n]>>
      /\ DOMAIN b = DOMAIN refs /\ \A n \in DOMAIN b : b[n] = <<g[n]>>
      /\ DOMAIN c = DOMAIN table.indices /\ \A n \in DOMAIN c : c[n] = <<h[n]>>
      /\ DOMAIN e = table.triggers /\ \A n \in DOMAIN e : e[n] = <<i[n]>>
  OBVIOUS
<1> HIDE DEF uniques, refs, a, b, c, d, e, f, g, h, i
<1>8. /\ IsList(Each(a)) /\ \A o \in Range(Each(a)) : Fine(o)
  <2>1. IsFiniteSet(DOMAIN a) /\ \A n \in DOMAIN a : a[n] = <<f[n]>>
    BY <1>2, <1>7
  <2>2. Lists(a) /\ \A o : Of(a, o) <=> \E x \in DOMAIN a : o = f[x]
    BY <2>1, OneEach
  <2>3. IsList(Each(a)) /\ \A o : o \in Range(Each(a)) <=> Of(a, o)
    BY <2>2, EachOf
  <2> HIDE DEF Fine
  <2> QED BY <1>3, <1>7, <2>2, <2>3
<1>9. /\ IsList(Each(b)) /\ \A o \in Range(Each(b)) : Fine(o)
  <2>1. IsFiniteSet(DOMAIN b) /\ \A n \in DOMAIN b : b[n] = <<g[n]>>
    BY <1>2, <1>7
  <2>2. Lists(b) /\ \A o : Of(b, o) <=> \E x \in DOMAIN b : o = g[x]
    BY <2>1, OneEach
  <2>3. IsList(Each(b)) /\ \A o : o \in Range(Each(b)) <=> Of(b, o)
    BY <2>2, EachOf
  <2> HIDE DEF Fine
  <2> QED BY <1>4, <1>7, <2>2, <2>3
<1>10. /\ IsList(Each(c)) /\ \A o \in Range(Each(c)) : Fine(o)
  <2>1. IsFiniteSet(DOMAIN c) /\ \A n \in DOMAIN c : c[n] = <<h[n]>>
    BY <1>2, <1>7
  <2>2. Lists(c) /\ \A o : Of(c, o) <=> \E x \in DOMAIN c : o = h[x]
    BY <2>1, OneEach
  <2>3. IsList(Each(c)) /\ \A o : o \in Range(Each(c)) <=> Of(c, o)
    BY <2>2, EachOf
  <2> HIDE DEF Fine
  <2> QED BY <1>5, <1>7, <2>2, <2>3
<1>11. /\ IsList(Each(e)) /\ \A o \in Range(Each(e)) : Fine(o)
  <2>1. IsFiniteSet(DOMAIN e) /\ \A n \in DOMAIN e : e[n] = <<i[n]>>
    BY <1>2, <1>7
  <2>2. Lists(e) /\ \A o : Of(e, o) <=> \E x \in DOMAIN e : o = i[x]
    BY <2>1, OneEach
  <2>3. IsList(Each(e)) /\ \A o : o \in Range(Each(e)) <=> Of(e, o)
    BY <2>2, EachOf
  <2> HIDE DEF Fine
  <2> QED BY <1>6, <1>7, <2>2, <2>3
<1> HIDE DEF Fine
<1>12. IsList(Each(a) \o Each(b)) /\ \A o \in Range(Each(a) \o Each(b)) : Fine(o)
  BY <1>8, <1>9, ListConcat
<1>13. /\ IsList((Each(a) \o Each(b)) \o Each(c))
       /\ \A o \in Range((Each(a) \o Each(b)) \o Each(c)) : Fine(o)
  BY <1>12, <1>10, ListConcat
<1>14. IsList(d) /\ \A o \in Range(d) : Fine(o)
  BY <1>1, <1>13, <1>11, ListConcat
<1> QED BY <1>14 DEF Fine, d

(* What precedes the deletion of a table is about that table and harmless. *)
LEMMA DeletionSql ==
    ASSUME NEW t, NEW table, IsTable(table)
    PROVE  LET d == deletion_sql(t, table) IN
           IsList(d) /\ \A o \in Range(d) : TableOp(t, o) /\ o.op # "DeleteColumn"
<1> DEFINE uniques == named_unique_constraints(table.cols)
           a == [n \in DOMAIN uniques |-> <<Op("DropUniqueConstraint", t, n, {})>>]
           f == [n \in DOMAIN uniques |-> Op("DropUniqueConstraint", t, n, {})]
           d == deletion_sql(t, table)
<1>1. d = Each(a)
  BY DEF deletion_sql
<1>2. IsFiniteSet(DOMAIN uniques)
  BY FiniteConstraints
<1>3. \A n \in DOMAIN uniques : TableOp(t, f[n]) /\ f[n].op # "DeleteColumn"
  BY FreeOp
<1>4. DOMAIN a = DOMAIN uniques /\ \A n \in DOMAIN a : a[n] = <<f[n]>>
  OBVIOUS
<1> HIDE DEF uniques, a, f, d
<1>5. Lists(a) /\ \A o : Of(a, o) <=> \E x \in DOMAIN a : o = f[x]
  <2>1. IsFiniteSet(DOMAIN a) /\ \A n \in DOMAIN a : a[n] = <<f[n]>>
    BY <1>2, <1>4
  <2> QED BY <2>1, OneEach
<1>6. IsList(d) /\ \A o : o \in Range(d) <=> Of(a, o)
  BY <1>1, <1>5, EachOf
<1> QED BY <1>3, <1>4, <1>5, <1>6 DEF d

(* The statements of one op.                                               *)
LEMMA ToSql ==
    ASSUME NEW o, NEW scope, NEW approved, NEW Lost, Plannable(o, scope, approved, Lost),
           NEW p \in Phases
    PROVE  LET stmts == to_sql(o)[p] IN
           /\ IsList(stmts)
           /\ \A s \in Range(stmts) :
                 /\ Proper(s) /\ Local(s, scope)
                 /\ \/ is_destructive(o) /\ ~(o.op = "DeleteTable" /\ o.t \in approved)
                    \/ Harmless(s, Lost)
<1> DEFINE stmts == to_sql(o)[p]
<1>1. /\ IsList(<<o>>) /\ Range(<<o>>) = {o} /\ IsList(<<>>) /\ Range(<<>>) = {}
  BY ListOne, ListEmpty
<1>2. /\ Proper(o) /\ Local(o, scope)
      /\ \/ is_destructive(o) /\ ~(o.op = "DeleteTable" /\ o.t \in approved)
         \/ Harmless(o, Lost)
  BY DEF Plannable, Harmless, is_destructive
<1>3. CASE o.op = "CreateTable"
  <2> DEFINE post == creation_sql(o.t, o.v)
  <2>1. to_sql(o) = [pre |-> <<>>, main |-> <<o>>, post |-> post]
    BY <1>3 DEF to_sql
  <2>2. IsList(post) /\ \A s \in Range(post) : TableOp(o.t, s) /\ s.op # "DeleteColumn"
    BY <1>2, <1>3, CreationSql DEF Proper
  <2> HIDE DEF post
  <2>3. \A s \in Range(post) : Proper(s) /\ Local(s, scope) /\ Harmless(s, Lost)
    <3>1. o.t[1] \in scope
      BY <1>2, <1>3 DEF Local
    <3> QED BY <2>2, <3>1, TableOpListed
  <2>4. stmts \in {<<>>, <<o>>, post}
    BY <2>1 DEF Phases
  <2> HIDE DEF stmts
  <2> QED BY <1>1, <1>2, <2>2, <2>3, <2>4 DEF stmts
<1>4. CASE o.op = "DeleteTable"
  <2> DEFINE pre == deletion_sql(o.t, o.v)
  <2>1. to_sql(o) = [pre |-> pre, main |-> <<o>>, post |-> <<>>]
    BY <1>4 DEF to_sql
  <2>2. IsList(pre) /\ \A s \in Range(pre) : TableOp(o.t, s) /\ s.op # "DeleteColumn"
    BY <1>2, <1>4, DeletionSql DEF Proper
  <2> HIDE DEF pre
  <2>3. \A s \in Range(pre) : Proper(s) /\ Local(s, scope) /\ Harmless(s, Lost)
    <3>1. o.t[1] \in scope
      BY <1>2, <1>4 DEF Local
    <3> QED BY <2>2, <3>1, TableOpListed
  <2>4. stmts \in {<<>>, <<o>>, pre}
    BY <2>1 DEF Phases
  <2> HIDE DEF stmts
  <2> QED BY <1>1, <1>2, <2>2, <2>3, <2>4 DEF stmts
<1>5. CASE o.op \notin {"CreateTable", "DeleteTable"}
  <2>1. to_sql(o) \in {[pre |-> <<>>, main |-> <<>>, post |-> <<o>>],
                       [pre |-> <<>>, main |-> <<o>>, post |-> <<>>]}
    BY <1>5 DEF to_sql
  <2>2. stmts \in {<<>>, <<o>>}
    BY <2>1 DEF Phases
  <2> HIDE DEF stmts
  <2> QED BY <1>1, <1>2, <2>2 DEF stmts
<1> QED BY <1>3, <1>4, <1>5

(* A statement of an operation is marked destructive unless it is harmless *)
(* or the user approved the loss.                                          *)
LEMMA MarkedListed ==
    ASSUME NEW o, NEW scope, NEW approved, NEW Lost, Plannable(o, scope, approved, Lost),
           NEW p \in Phases
    PROVE  LET marked == Marked(to_sql(o)[p], o, approved) IN
           IsList(marked) /\ \A x \in Range(marked) : Listed(x, scope, Lost)
<1> DEFINE stmts == to_sql(o)[p]
           bad == is_destructive(o) /\ ~(o.op = "DeleteTable" /\ o.t \in approved)
           marked == Marked(stmts, o, approved)
<1>1. /\ IsList(stmts)
      /\ \A s \in Range(stmts) : Proper(s) /\ Local(s, scope) /\ (bad \/ Harmless(s, Lost))
  BY ToSql
<1>2. marked = [i \in DOMAIN stmts |-> [sql |-> stmts[i], destructive |-> bad]]
  BY DEF Marked
<1> HIDE DEF stmts, bad, marked
<1>3. Len(stmts) \in Nat /\ DOMAIN stmts = 1..Len(stmts) /\ \A i \in 1..Len(stmts) : stmts[i] \in Range(stmts)
  BY <1>1, ListShape
<1>4. IsList(marked)
  <2>1. marked = [i \in 1..Len(stmts) |-> marked[i]]
    BY <1>2, <1>3
  <2> QED BY <1>3, <2>1, ListOf
<1>5. ASSUME NEW x \in Range(marked) PROVE Listed(x, scope, Lost)
  <2>1. PICK i \in DOMAIN stmts : x = [sql |-> stmts[i], destructive |-> bad]
    BY <1>2 DEF Range
  <2>2. x.sql = stmts[i] /\ x.destructive = bad /\ stmts[i] \in Range(stmts)
    BY <1>3, <2>1
  <2> QED BY <1>1, <2>2 DEF Listed
<1> QED BY <1>4, <1>5 DEF marked, stmts

(* The list of Migration::from_diffs has only proper statements, local to  *)
(* the scope and marked as they should be.                                 *)
LEMMA FromDiffs ==
    ASSUME NEW ops, IsList(ops), NEW scope, NEW approved, NEW Lost,
           \A o \in Range(ops) : Plannable(o, scope, approved, Lost)
    PROVE  LET list == from_diffs(ops, approved) IN
           IsList(list) /\ \A x \in Range(list) : Listed(x, scope, Lost)
<1> DEFINE lists(p) == [i \in DOMAIN ops |-> Marked(to_sql(ops[i])[p], ops[i], approved)]
           phase(p) == FlattenSeq(lists(p))
           list == from_diffs(ops, approved)
<1>1. list = (phase("pre") \o phase("main")) \o phase("post")
  BY Zenon DEF from_diffs
<1>2. Len(ops) \in Nat /\ DOMAIN ops = 1..Len(ops) /\ \A i \in 1..Len(ops) : ops[i] \in Range(ops)
  BY ListShape
<1>3. ASSUME NEW p \in Phases
      PROVE  IsList(phase(p)) /\ \A x \in Range(phase(p)) : Listed(x, scope, Lost)
  <2> DEFINE f == lists(p)
  <2>1. DOMAIN f = DOMAIN ops
    OBVIOUS
  <2>2. ASSUME NEW i \in DOMAIN ops
        PROVE  IsList(f[i]) /\ \A x \in Range(f[i]) : Listed(x, scope, Lost)
    <3> DEFINE o == ops[i]
               m == Marked(to_sql(o)[p], o, approved)
    <3>1. f[i] = m
      OBVIOUS
    <3>2. Plannable(o, scope, approved, Lost)
      BY <1>2
    <3>3. IsList(m) /\ \A x \in Range(m) : Listed(x, scope, Lost)
      <4> HIDE DEF o
      <4> QED BY <3>2, MarkedListed
    <3> HIDE DEF m, f
    <3> QED BY <3>1, <3>3
  <2>3. phase(p) = FlattenSeq(f)
    OBVIOUS
  <2> HIDE DEF f, phase
  <2>4. IsList(f)
    <3>1. f = [i \in 1..Len(ops) |-> f[i]]
      BY <1>2 DEF f
    <3> QED BY <1>2, <3>1, ListOf
  <2>5. IsList(FlattenSeq(f)) /\ Range(FlattenSeq(f)) = UNION {Range(f[i]) : i \in DOMAIN f}
    BY <2>1, <2>2, <2>4, ListFlatten
  <2> QED BY <2>1, <2>2, <2>3, <2>5
<1> HIDE DEF phase, list
<1>4. \A p \in {"pre", "main", "post"} :
        IsList(phase(p)) /\ \A x \in Range(phase(p)) : Listed(x, scope, Lost)
  BY <1>3 DEF Phases
<1> DEFINE a == phase("pre")
           b == phase("main")
           c == phase("post")
<1>5. /\ IsList(a) /\ \A x \in Range(a) : Listed(x, scope, Lost)
      /\ IsList(b) /\ \A x \in Range(b) : Listed(x, scope, Lost)
      /\ IsList(c) /\ \A x \in Range(c) : Listed(x, scope, Lost)
  BY <1>4
<1> HIDE DEF a, b, c
<1>6. IsList(a \o b) /\ Range(a \o b) = Range(a) \cup Range(b)
  BY <1>5, ListConcat
<1>7. IsList((a \o b) \o c) /\ Range((a \o b) \o c) = Range(a \o b) \cup Range(c)
  BY <1>5, <1>6, ListConcat
<1>8. list = (a \o b) \o c
  BY <1>1 DEF a, b, c
<1> QED BY <1>5, <1>6, <1>7, <1>8 DEF list

-----------------------------------------------------------------------------
(* The two specs of a migration                                            *)

(* The specification of a model is one that diff may be given as the new   *)
(* side.                                                                   *)
LEMMA ModelSpec ==
    ASSUME NEW m \in Models
    PROVE  NewSpec(from_database(ModelOf[m]))
<1> DEFINE model == ModelOf[m]
           new == from_database(model)
           synced == {t \in DOMAIN model.tables : model.tables[t].sync # {}}
<1>1. /\ DOMAIN new.tables = DOMAIN model.tables /\ new.enums = model.enums
      /\ DOMAIN new.functions = synced
      /\ \A t \in DOMAIN model.tables : new.tables[t] =
            [managed  |-> model.tables[t].managed, cols |-> model.tables[t].cols,
             indices  |-> model.tables[t].indices, triggers |-> {t} \cap synced]
  BY DEF from_database
<1>2. synced \subseteq DOMAIN model.tables
  OBVIOUS
<1> HIDE DEF new, synced
<1>3. /\ IsFiniteSet(DOMAIN model.tables) /\ IsFiniteSet(DOMAIN model.enums)
      /\ \A t \in DOMAIN model.tables :
            /\ IsFiniteSet(DOMAIN model.tables[t].cols)
            /\ IsFiniteSet(DOMAIN model.tables[t].indices)
            /\ \A c \in DOMAIN model.tables[t].cols : IsColumn(model.tables[t].cols[c])
  BY ModelsAssumption
<1>4. ASSUME NEW t \in DOMAIN model.tables
      PROVE  t \in ModelNames /\ NewTable(t[1], new.tables[t])
  <2> DEFINE table == new.tables[t]
             of == model.tables[t]
  <2>1. /\ DOMAIN table = {"managed", "cols", "indices", "triggers"} /\ table.cols = of.cols
        /\ table.indices = of.indices /\ table.triggers = {t} \cap synced
    <3>1. table = [managed  |-> of.managed, cols |-> of.cols, indices  |-> of.indices,
                   triggers |-> {t} \cap synced]
      BY <1>1
    <3> HIDE DEF table, of
    <3> QED BY <3>1
  <2>2. t \in ModelNames
    BY DEF ModelNames
  <2>3. IsFiniteSet(table.triggers)
    <3>1. table.triggers \subseteq {t} /\ IsFiniteSet({t})
      BY <2>1, FS_Singleton
    <3> QED BY <3>1, FS_Subset
  <2> HIDE DEF table
  <2>4. IsTable(table)
    BY <1>3, <2>1, <2>3 DEF IsTable
  <2>5. ASSUME NEW c \in DOMAIN of.cols
        PROVE  /\ NewColumn(t[1], of.cols[c])
               /\ \A r \in of.cols[c].refs : MayUse(t[1], r.table)
    <3>1. of.cols[c] \in Range(of.cols)
      BY DEF Range
    <3>2. SelfContained => /\ Linked(t[1], of.cols[c].typ[1])
                           /\ \A r \in of.cols[c].refs : Linked(t[1], r.table[1])
      BY <3>1 DEF SelfContained
    <3>3. IsColumn(of.cols[c])
      BY <1>3
    <3> QED BY <3>2, <3>3 DEF NewColumn, MayUse
  <2>6. \A n \in DOMAIN of.indices : IsModelIndex(n, of.indices[n])
    BY DEF IsModelIndex
  <2>7. NewTable(t[1], table)
    <3> HIDE DEF of
    <3> QED BY <2>1, <2>4, <2>5, <2>6 DEF NewTable
  <2> QED BY <2>2, <2>7 DEF table
<1> HIDE DEF model
<1>5. IsFiniteSet(DOMAIN new.functions)
  BY <1>1, <1>2, <1>3, FS_Subset
<1>6. NewSpec(new)
  BY <1>1, <1>3, <1>4, <1>5 DEF NewSpec
<1> QED BY <1>6 DEF new, model

(* So is the empty one that wipe_database migrates to.                     *)
LEMMA EmptySpec == NewSpec(from_database(EmptyModel))
<1> DEFINE new == from_database(EmptyModel)
<1>1. DOMAIN EmptyModel.tables = {} /\ DOMAIN EmptyModel.enums = {}
  BY DEF EmptyModel
<1>2. DOMAIN new.tables = {} /\ DOMAIN new.enums = {} /\ DOMAIN new.functions = {}
  BY <1>1 DEF from_database
<1> HIDE DEF new
<1>3. NewSpec(new)
  BY <1>2, FS_EmptySet DEF NewSpec
<1> QED BY <1>3 DEF new

(* What is read back of a well formed table: all of it but the triggers.   *)
LEMMA TableRead ==
    ASSUME NEW base, CatalogOK(base), NEW t \in DOMAIN base.tables
    PROVE  LET table == base.tables[t]
               read  == [table EXCEPT !.triggers = TriggersRead(base.tables, t)]
           IN  /\ IsTable(read) /\ read.cols = table.cols /\ read.indices = table.indices
               /\ read.triggers = TriggersRead(base.tables, t)
<1> DEFINE table == base.tables[t]
           triggers == TriggersRead(base.tables, t)
           read == [table EXCEPT !.triggers = triggers]
           f == [u \in DOMAIN base.tables |-> base.tables[u].triggers]
<1>1. /\ IsFiniteSet(DOMAIN base.tables)
      /\ \A u \in DOMAIN base.tables : IsTable(base.tables[u])
  BY DEF CatalogOK, TablesOK, Within
<1>2. IsFiniteSet(triggers)
  <2>1. DOMAIN f = DOMAIN base.tables /\ \A u \in DOMAIN f : IsFiniteSet(f[u])
    BY <1>1 DEF IsTable
  <2>2. triggers \subseteq UNION {f[u] : u \in DOMAIN f}
    BY DEF TriggersRead
  <2> HIDE DEF f, triggers
  <2>3. IsFiniteSet(UNION {f[u] : u \in DOMAIN f})
    BY <1>1, <2>1, FiniteUnion
  <2> QED BY <2>2, <2>3, FS_Subset
<1>3. IsTable(table)
  BY <1>1
<1> HIDE DEF table, triggers
<1>4. /\ DOMAIN read = DOMAIN table /\ read.cols = table.cols
      /\ read.indices = table.indices /\ read.triggers = triggers
  BY <1>3 DEF IsTable
<1> HIDE DEF read
<1>5. IsTable(read)
  BY <1>2, <1>3, <1>4 DEF IsTable
<1> QED BY <1>4, <1>5 DEF read, table, triggers

(* What is read back from a well formed catalog may be the old side.       *)
LEMMA LiveSpec ==
    ASSUME NEW base, CatalogOK(base), NEW scope
    PROVE  OldSpec(from_live_database(base, scope))
<1> DEFINE old == from_live_database(base, scope)
           kept == InScope(base.tables, scope)
           tables == [t \in DOMAIN kept |->
                        [base.tables[t] EXCEPT !.triggers = TriggersRead(base.tables, t)]]
           enums == InScope(base.enums, scope)
<1>1. /\ DOMAIN old = {"tables", "enums", "functions"} /\ old.tables = tables /\ old.enums = enums
      /\ old.functions = base.functions
  <2> HIDE DEF tables, enums
  <2> QED BY DEF from_live_database, tables, enums
<1>2. /\ IsFiniteSet(DOMAIN base.tables) /\ IsFiniteSet(DOMAIN base.enums)
      /\ IsFiniteSet(DOMAIN base.functions)
  BY DEF CatalogOK, TablesOK
<1>3. DOMAIN kept \subseteq DOMAIN base.tables /\ IsFiniteSet(DOMAIN kept)
  <2>1. DOMAIN kept = {x \in DOMAIN base.tables : x[1] \in scope} /\ IsFiniteSet(DOMAIN kept)
    BY <1>2, ScopeOf
  <2> HIDE DEF kept
  <2> QED BY <2>1
<1>4. IsFiniteSet(DOMAIN enums)
  BY <1>2, ScopeOf
<1> HIDE DEF enums, old, kept
<1>5. DOMAIN tables = DOMAIN kept /\ \A t \in DOMAIN tables : IsTable(tables[t])
  BY <1>3, TableRead
<1> HIDE DEF tables
<1>6. OldSpec(old)
  BY <1>1, <1>2, <1>3, <1>4, <1>5 DEF OldSpec
<1> QED BY <1>6 DEF old

(* Renames *)
LEMMA RenamedSpec ==
    ASSUME NEW old, OldSpec(old), NEW t, NEW u
    PROVE  OldSpec(with_table_renamed(old, t, u))
<1>1. CASE t \notin DOMAIN old.tables
  BY <1>1 DEF with_table_renamed
<1>2. CASE t \in DOMAIN old.tables
  <2> DEFINE new == with_table_renamed(old, t, u)
             tables == MoveTable(old.tables, t, u)
  <2>1. new = [old EXCEPT !.tables = tables]
    BY <1>2 DEF with_table_renamed
  <2>2. /\ DOMAIN tables = (DOMAIN old.tables \ {t}) \cup {u}
        /\ \A x \in DOMAIN tables :
              tables[x] = RenamedReferences(old.tables[IF x = u THEN t ELSE x], t, u)
    BY DEF MoveTable
  <2> HIDE DEF tables
  <2>3. /\ DOMAIN new = {"tables", "enums", "functions"} /\ new.tables = tables
        /\ new.enums = old.enums /\ new.functions = old.functions
    BY <2>1 DEF OldSpec
  <2> HIDE DEF new
  <2>4. IsFiniteSet(DOMAIN tables)
    <3>1. IsFiniteSet(DOMAIN old.tables \ {t})
      BY FS_RemoveElement DEF OldSpec
    <3> QED BY <2>2, <3>1, FS_AddElement
  <2>5. ASSUME NEW x \in DOMAIN tables PROVE IsTable(tables[x])
    <3> DEFINE from == old.tables[IF x = u THEN t ELSE x]
    <3>1. IsTable(from)
      BY <1>2, <2>2 DEF OldSpec
    <3>2. tables[x] = RenamedReferences(from, t, u)
      BY <2>2
    <3> HIDE DEF from
    <3> QED BY <3>1, <3>2, RenamedIsTable
  <2>6. OldSpec(new)
    BY <2>3, <2>4, <2>5 DEF OldSpec
  <2> QED BY <2>6 DEF new
<1> QED BY <1>1, <1>2

RenamedAt(old, actions, f, n) ==
    IF n = 0 THEN old
    ELSE IF actions[n].do = "rename" THEN with_table_renamed(f[n - 1], actions[n].t, actions[n].to)
    ELSE f[n - 1]
SolvesRenamed(old, actions, f, N) == f = [n \in 0..N |-> RenamedAt(old, actions, f, n)]

(* The recursive function inside Renamed exists.                           *)
LEMMA RenamedExists ==
    ASSUME NEW old, NEW actions, NEW N \in Nat
    PROVE  \E f : SolvesRenamed(old, actions, f, N)
<1> DEFINE Good == {k \in Nat : \E f : f = [n \in 0..k |-> RenamedAt(old, actions, f, n)]}
<1>1. 0 \in Good
  <2> DEFINE f == [n \in 0..0 |-> RenamedAt(old, actions, <<>>, 0)]
  <2>1. f = [n \in 0..0 |-> RenamedAt(old, actions, f, n)]
    BY DEF RenamedAt
  <2> QED BY <2>1
<1>2. ASSUME NEW k \in 1..N, k - 1 \in Good
      PROVE  k \in Good
  <2>1. PICK f : f = [n \in 0..(k - 1) |-> RenamedAt(old, actions, f, n)]
    BY <1>2
  <2> DEFINE g == [n \in 0..k |-> IF n = k THEN RenamedAt(old, actions, f, k) ELSE f[n]]
  <2>2. ASSUME NEW n \in 0..k
        PROVE  g[n] = RenamedAt(old, actions, g, n)
    <3>1. n # 0 => g[n - 1] = f[n - 1]
      OBVIOUS
    <3>2. RenamedAt(old, actions, g, n) = RenamedAt(old, actions, f, n)
      <4> HIDE DEF g
      <4> QED BY <3>1, Zenon DEF RenamedAt
    <3>3. CASE n = k
      BY <3>2, <3>3
    <3>4. CASE n # k
      <4>1. g[n] = f[n] /\ n \in 0..(k - 1)
        BY <3>4
      <4>2. f[n] = RenamedAt(old, actions, f, n)
        <5> HIDE DEF g
        <5> QED BY <2>1, <4>1
      <4> QED BY <3>2, <4>1, <4>2
    <3> QED BY <3>3, <3>4
  <2>3. g = [n \in 0..k |-> RenamedAt(old, actions, g, n)]
    <3>1. g = [n \in 0..k |-> g[n]]
      OBVIOUS
    <3> HIDE DEF g
    <3> QED BY <2>2, <3>1
  <2> HIDE DEF g
  <2> QED BY <2>3
<1> HIDE DEF Good
<1>3. N \in Good
  <2>1. 0..N \subseteq Good
    BY <1>1, <1>2, UpTo
  <2> QED BY <2>1
<1> QED BY <1>3 DEF Good, SolvesRenamed

(* What the user may answer about the tables of a spec.                    *)
Lost(actions) == Deleted(actions) \cup Displaced(actions)

ActionOK(a, old, scope) ==
    /\ a.t \in DOMAIN InScope(old.tables, scope)
    /\ a.do = "rename" => a.to \in ModelNames /\ a.to \notin DOMAIN InScope(old.tables, scope)

(* A rename that the user chose may be planned.                            *)
LEMMA RenameOp ==
    ASSUME NEW old, NEW scope, NEW actions, NEW a \in Range(actions), a.do = "rename",
           \A b \in Range(actions) : ActionOK(b, old, scope)
    PROVE  Plannable(Op("RenameTable", a.t, a.to, {}), scope, Deleted(actions), Lost(actions))
<1> DEFINE o == Op("RenameTable", a.t, a.to, {})
<1>1. o.op = "RenameTable" /\ o.t = a.t /\ o.n = a.to
  BY DEF Op
<1> HIDE DEF o
<1>2. ActionOK(a, old, scope)
  OBVIOUS
<1>3. a.t[1] \in scope
  <2>1. DOMAIN InScope(old.tables, scope) = {x \in DOMAIN old.tables : x[1] \in scope}
    BY ScopeOf
  <2> QED BY <1>2, <2>1 DEF ActionOK
<1>4. Proper(o) /\ Local(o, scope)
  BY <1>1, <1>2, <1>3 DEF Proper, Statements, Local, ActionOK
<1>5. CASE a.t[1] # a.to[1]
  <2>1. a.t \in Lost(actions)
    BY <1>5 DEF Lost, Displaced, Renames
  <2> QED BY <1>1, <1>4, <2>1 DEF Plannable, Lost, o
<1>6. CASE a.t[1] = a.to[1]
  <2>1. a.to = <<a.to[1], a.to[2]>>
    BY <1>2, ModelsAssumption DEF ActionOK, ModelNames
  <2>2. Landing(o) = a.to
    BY <1>1, <1>6, <2>1 DEF Landing
  <2>3. Lost(actions) \subseteq DOMAIN InScope(old.tables, scope)
    BY DEF Lost, Deleted, Displaced, Renames, ActionOK
  <2>4. Landing(o) \notin Lost(actions)
    BY <1>2, <2>2, <2>3 DEF ActionOK
  <2> QED BY <1>1, <1>4, <2>4 DEF Plannable, Lost, o
<1> QED BY <1>5, <1>6

(* So may the renames of the sequences that go with it.                    *)
LEMMA RenameOps ==
    ASSUME NEW old, NEW scope, NEW actions, NEW a \in Range(actions), a.do = "rename",
           \A b \in Range(actions) : ActionOK(b, old, scope), NEW spec, OldSpec(spec)
    PROVE  LET list == rename_ops(spec, a.t, a.to) IN
           /\ IsList(list)
           /\ \A o \in Range(list) : Plannable(o, scope, Deleted(actions), Lost(actions))
<1> DEFINE list == rename_ops(spec, a.t, a.to)
<1>1. CASE a.t \notin DOMAIN spec.tables
  <2>1. list = <<>>
    BY <1>1 DEF rename_ops
  <2> HIDE DEF list
  <2> QED BY <2>1, ListEmpty DEF list
<1>2. CASE a.t \in DOMAIN spec.tables
  <2> DEFINE cols == spec.tables[a.t].cols
             serial == {c \in DOMAIN cols : cols[c].default = "serial"}
             make == [c \in serial |-> Op("RenameSequence", a.t, c, a.to)]
             f == [c \in serial |-> <<Op("RenameSequence", a.t, c, a.to)>>]
             o == Op("RenameTable", a.t, a.to, {})
  <2>1. list = <<o>> \o Each(f)
    BY <1>2, Zenon DEF rename_ops
  <2>2. Plannable(o, scope, Deleted(actions), Lost(actions))
    BY RenameOp
  <2>3. IsFiniteSet(serial)
    <3>1. IsFiniteSet(DOMAIN cols) /\ serial \subseteq DOMAIN cols
      BY <1>2 DEF OldSpec, IsTable
    <3> QED BY <3>1, FS_Subset
  <2>4. \A c \in serial : Plannable(make[c], scope, Deleted(actions), Lost(actions))
    <3>1. \A c \in serial : make[c].op = "RenameSequence"
      BY OpFields
    <3> HIDE DEF make, serial
    <3>2. Deleted(actions) \subseteq Lost(actions)
      BY DEF Lost
    <3> QED BY <3>1, <3>2 DEF Plannable, Proper, Statements, Local, TableStatements
  <2>5. DOMAIN f = serial /\ \A c \in DOMAIN f : f[c] = <<make[c]>>
    OBVIOUS
  <2> HIDE DEF f, make, serial, list, o
  <2>6. Lists(f) /\ \A x : Of(f, x) <=> \E c \in DOMAIN f : x = make[c]
    <3>1. IsFiniteSet(DOMAIN f) /\ \A c \in DOMAIN f : f[c] = <<make[c]>>
      BY <2>3, <2>5
    <3> QED BY <3>1, OneEach
  <2>7. IsList(Each(f)) /\ \A x : x \in Range(Each(f)) <=> Of(f, x)
    BY <2>6, EachOf
  <2>8. IsList(<<o>>) /\ Range(<<o>>) = {o}
    BY ListOne
  <2>9. IsList(list) /\ Range(list) = {o} \cup Range(Each(f))
    BY <2>1, <2>7, <2>8, ListConcat
  <2> QED BY <2>2, <2>4, <2>5, <2>6, <2>7, <2>9 DEF list
<1> QED BY <1>1, <1>2

(* What diff finds may be planned.                                         *)
LEMMA DiffPlannable ==
    ASSUME NEW o, NEW old, NEW new, NEW scope, DiffOp(o, old, new, scope), NEW approved, NEW L,
           approved \subseteq L
    PROVE  Plannable(o, scope, approved, L)
  BY DEF DiffOp, Plannable

(* The list that migrate_interactively makes of the answers is one a       *)
(* command may hold, with the tables given up as the only data that may    *)
(* go.                                                                     *)
LEMMA TableActions ==
    ASSUME NEW old, OldSpec(old), NEW new, NewSpec(new), NEW scope, NEW actions, IsList(actions),
           \A a \in Range(actions) : ActionOK(a, old, scope)
    PROVE  LET list == apply_table_actions(old, new, actions, scope) IN
           IsList(list) /\ \A x \in Range(list) : Listed(x, scope, Lost(actions))
<1> DEFINE N == Len(actions)
           renamed == CHOOSE f : f = [n \in 0..N |-> RenamedAt(old, actions, f, n)]
           rename(i) == rename_ops(renamed[i - 1], actions[i].t, actions[i].to)
           lists == [i \in DOMAIN actions |->
                       IF actions[i].do = "rename" THEN rename(i) ELSE <<>>]
           ops == FlattenSeq(lists)
           d == diff(renamed[N], new, scope)
           list == apply_table_actions(old, new, actions, scope)
           Good == {n \in 0..N : OldSpec(renamed[n])}
<1>1. N \in Nat /\ DOMAIN actions = 1..N /\ \A i \in 1..N : actions[i] \in Range(actions)
  BY ListShape
<1>2. renamed = [n \in 0..N |-> RenamedAt(old, actions, renamed, n)]
  <2> HIDE DEF N
  <2>1. \E f : SolvesRenamed(old, actions, f, N)
    BY <1>1, RenamedExists
  <2> QED BY <2>1, Zenon DEF SolvesRenamed
<1>3. list = from_diffs(ops \o d, Deleted(actions))
  BY Zenon DEF apply_table_actions, RenamedAt
<1> HIDE DEF renamed, N
<1>4. \A n \in 0..N : renamed[n] = RenamedAt(old, actions, renamed, n)
  BY <1>2
<1>5. \A n \in 0..N : OldSpec(renamed[n])
  <2>1. 0 \in Good
    BY <1>1, <1>4 DEF RenamedAt
  <2>2. ASSUME NEW n \in 1..N, n - 1 \in Good PROVE n \in Good
    <3>1. OldSpec(renamed[n - 1]) /\ n \in 0..N
      BY <1>1, <2>2
    <3>2. \/ renamed[n] = renamed[n - 1]
          \/ renamed[n] = with_table_renamed(renamed[n - 1], actions[n].t, actions[n].to)
      BY <1>1, <1>4 DEF RenamedAt
    <3>3. OldSpec(renamed[n])
      BY <3>1, <3>2, RenamedSpec
    <3> QED BY <3>1, <3>3
  <2>3. 0..N \subseteq Good
    <3> HIDE DEF Good
    <3> QED BY <1>1, <2>1, <2>2, UpTo
  <2> QED BY <2>3
<1>6. IsList(d) /\ \A o \in Range(d) : Plannable(o, scope, Deleted(actions), Lost(actions))
  <2> DEFINE from == renamed[N]
  <2> HIDE DEF from
  <2>1. d = diff(from, new, scope) /\ OldSpec(from)
    BY <1>1, <1>5 DEF from
  <2> HIDE DEF d
  <2>2. IsList(d) /\ \A o \in Range(d) : DiffOp(o, from, new, scope)
    BY <2>1, Diff
  <2>3. Deleted(actions) \subseteq Lost(actions)
    BY DEF Lost
  <2> QED BY <2>2, <2>3, DiffPlannable
<1>7. ASSUME NEW i \in DOMAIN actions
      PROVE  /\ IsList(lists[i])
             /\ \A o \in Range(lists[i]) : Plannable(o, scope, Deleted(actions), Lost(actions))
  <2>1. CASE actions[i].do = "rename"
    <3>1. lists[i] = rename(i)
      BY <2>1
    <3>2. OldSpec(renamed[i - 1]) /\ actions[i] \in Range(actions)
      BY <1>1, <1>5
    <3>3. /\ IsList(rename(i))
          /\ \A o \in Range(rename(i)) : Plannable(o, scope, Deleted(actions), Lost(actions))
      BY <2>1, <3>2, RenameOps
    <3> HIDE DEF rename, lists
    <3> QED BY <3>1, <3>3
  <2>2. CASE actions[i].do # "rename"
    <3>1. lists[i] = <<>>
      BY <2>2
    <3> HIDE DEF lists
    <3> QED BY <3>1, ListEmpty
  <2> QED BY <2>1, <2>2
<1>8. DOMAIN lists = DOMAIN actions /\ lists = [i \in 1..N |-> lists[i]]
  BY <1>1
<1> HIDE DEF lists, d, list
<1>9. IsList(lists)
  BY <1>1, <1>8, ListOf
<1>10. IsList(ops) /\ Range(ops) = UNION {Range(lists[i]) : i \in DOMAIN lists}
  BY <1>7, <1>8, <1>9, ListFlatten
<1> HIDE DEF ops
<1>11. \A o \in Range(ops) : Plannable(o, scope, Deleted(actions), Lost(actions))
  BY <1>7, <1>8, <1>10
<1>12. IsList(ops \o d) /\ Range(ops \o d) = Range(ops) \cup Range(d)
  BY <1>6, <1>10, ListConcat
<1>13. \A o \in Range(ops \o d) : Plannable(o, scope, Deleted(actions), Lost(actions))
  BY <1>6, <1>11, <1>12
<1>14. IsList(list) /\ \A x \in Range(list) : Listed(x, scope, Lost(actions))
  BY <1>3, <1>12, <1>13, FromDiffs
<1> QED BY <1>14 DEF list

-----------------------------------------------------------------------------
(* The inductive invariant: the catalog refers to nothing that is not      *)
(* there and has only what models have, and so has the list of a command,  *)
(* which keeps to the scope and to what the user has answered.             *)

CommandOK(k) ==
    /\ k.at \in {"idle", "asking", "ready"}
    /\ k.at = "asking" =>
         /\ DOMAIN k = {"at", "model", "old", "permit", "actions", "base"}
         /\ k.model \in Models /\ OldSpec(k.old) /\ IsList(k.actions)
         /\ \A a \in Range(k.actions) : ActionOK(a, k.old, Scope(k.model))
         /\ AskedOnce(k)
    /\ k.at = "ready" =>
         /\ IsList(k.plan)
         /\ k.model # NoModel => k.model \in Models
         /\ \A x \in Range(k.plan) :
               /\ Proper(x.sql)
               /\ k.model # NoModel => Local(x.sql, Scope(k.model))
               /\ ~x.destructive => Harmless(x.sql, Lost(k.actions))

Inv ==
    /\ CatalogOK(db)
    /\ tick \in 0..MaxMigrations /\ commands \in 0..MaxCommands
    /\ DOMAIN cmd = Procs /\ \A p \in Procs : CommandOK(cmd[p])

(* A process that runs no command.                                         *)
LEMMA IdleOK == CommandOK(Idle)
  BY DEF CommandOK, Idle

(* A command that has just made its list.                                  *)
LEMMA PlannedOK ==
    ASSUME NEW m, m # NoModel => m \in Models, NEW list, IsList(list), NEW scope,
           m # NoModel => scope = Scope(m), NEW actions,
           \A x \in Range(list) : Listed(x, scope, Lost(actions)), NEW permit, NEW base
    PROVE  CommandOK(Planned(m, list, permit, actions, base))
<1> DEFINE k == Planned(m, list, permit, actions, base)
<1>1. CASE list = <<>>
  BY <1>1, IdleOK DEF Planned
<1>2. CASE list # <<>>
  <2>1. /\ k.at = "ready" /\ k.plan = list /\ k.model = m /\ k.actions = actions
    BY <1>2 DEF Planned
  <2> HIDE DEF k
  <2>2. CommandOK(k)
    BY <2>1 DEF CommandOK, Listed
  <2> QED BY <2>2 DEF k
<1> QED BY <1>1, <1>2

(* The list of a command that asked nothing.                               *)
LEMMA DiffListed ==
    ASSUME NEW old, OldSpec(old), NEW new, NewSpec(new), NEW scope
    PROVE  LET list == from_diffs(diff(old, new, scope), {}) IN
           IsList(list) /\ \A x \in Range(list) : Listed(x, scope, Lost(<<>>))
<1> DEFINE d == diff(old, new, scope)
<1>1. IsList(d) /\ \A o \in Range(d) : DiffOp(o, old, new, scope)
  BY Diff
<1> HIDE DEF d
<1>2. \A o \in Range(d) : Plannable(o, scope, {}, Lost(<<>>))
  BY <1>1, DiffPlannable
<1>3. IsList(from_diffs(d, {})) /\ \A x \in Range(from_diffs(d, {})) : Listed(x, scope, Lost(<<>>))
  BY <1>1, <1>2, FromDiffs
<1> QED BY <1>3 DEF d

(* The empty catalog.                                                      *)
LEMMA InitInv == Init => Inv
<1> SUFFICES ASSUME Init PROVE Inv
  OBVIOUS
<1>1. db.tables = <<>> /\ db.enums = <<>> /\ db.functions = <<>>
  BY DEF Init, EmptyCatalog
<1>2. DOMAIN db.tables = {} /\ DOMAIN db.enums = {} /\ DOMAIN db.functions = {}
  BY <1>1
<1>3. CatalogOK(db)
  BY <1>2, FS_EmptySet DEF CatalogOK, TablesOK
<1>4. tick \in 0..MaxMigrations /\ commands \in 0..MaxCommands
  BY BoundsAssumption DEF Init
<1>5. DOMAIN cmd = Procs /\ \A p \in Procs : CommandOK(cmd[p])
  BY IdleOK DEF Init
<1> QED BY <1>3, <1>4, <1>5 DEF Inv

(* The command of one process changes.                                     *)
LEMMA CommandStep ==
    ASSUME Inv, NEW p \in Procs, NEW k, CommandOK(k), cmd' = [cmd EXCEPT ![p] = k],
           CatalogOK(db)', tick' \in 0..MaxMigrations, commands' \in 0..MaxCommands
    PROVE  Inv'
<1>1. DOMAIN cmd' = Procs /\ \A q \in Procs : cmd'[q] = IF q = p THEN k ELSE cmd[q]
  BY DEF Inv
<1>2. \A q \in Procs : CommandOK(cmd'[q])
  BY <1>1 DEF Inv
<1> QED BY <1>1, <1>2 DEF Inv

(* Starting a command keeps the count within its bound.                    *)
LEMMA StartCounts ==
    ASSUME Inv, NEW p, Start(p)
    PROVE  commands' \in 0..MaxCommands
  BY BoundsAssumption DEF Inv, Start

(* Inv through a migration planned without questions.                      *)
LEMMA from_db_and_modelInv ==
    ASSUME Inv, NEW p \in Procs, NEW m \in Models, NEW permit \in BOOLEAN,
           from_db_and_model(p, m, permit)
    PROVE  Inv'
<1> DEFINE new   == from_database(ModelOf[m])
           scope == from_specs_schemas(new)
           old   == from_live_database(db, scope)
           list  == from_diffs(diff(old, new, scope), {})
           k     == IF Readable(db, scope) THEN Planned(m, list, permit, <<>>, tick) ELSE Idle
<1>1. cmd' = [cmd EXCEPT ![p] = k] /\ Start(p) /\ db' = db /\ tick' = tick
  BY Zenon DEF from_db_and_model
<1>2. CatalogOK(db) /\ tick \in 0..MaxMigrations
  BY DEF Inv
<1>3. OldSpec(old) /\ NewSpec(new)
  BY <1>2, LiveSpec, ModelSpec
<1>4. IsList(list) /\ \A x \in Range(list) : Listed(x, scope, Lost(<<>>))
  <2> HIDE DEF old, new
  <2> QED BY <1>3, DiffListed
<1>5. scope = Scope(m)
  BY DEF Scope
<1>6. CommandOK(k)
  <2> HIDE DEF list, scope
  <2> QED BY <1>4, <1>5, PlannedOK, IdleOK
<1>7. commands' \in 0..MaxCommands
  BY <1>1, StartCounts
<1>8. CatalogOK(db)' /\ tick' \in 0..MaxMigrations
  BY <1>1, <1>2
<1> HIDE DEF k
<1> QED BY <1>1, <1>6, <1>7, <1>8, CommandStep

(* Inv through wipe_database.                                              *)
LEMMA wipe_databaseInv ==
    ASSUME Inv, NEW p \in Procs, wipe_database(p)
    PROVE  Inv'
<1> DEFINE scope == SchemasOf(db)
           old   == from_live_database(db, scope)
           none  == from_database(EmptyModel)
           list  == from_diffs(diff(old, none, scope), {})
           k     == Planned(NoModel, list, TRUE, <<>>, tick)
<1>1. cmd' = [cmd EXCEPT ![p] = k] /\ Start(p) /\ db' = db /\ tick' = tick
  BY Zenon DEF wipe_database
<1>2. CatalogOK(db) /\ tick \in 0..MaxMigrations
  BY DEF Inv
<1>3. OldSpec(old) /\ NewSpec(none)
  BY <1>2, LiveSpec, EmptySpec
<1>4. IsList(list) /\ \A x \in Range(list) : Listed(x, scope, Lost(<<>>))
  <2> HIDE DEF old, none, scope
  <2> QED BY <1>3, DiffListed
<1>6. CommandOK(k)
  <2> HIDE DEF list, scope
  <2> QED BY <1>4, PlannedOK
<1>7. commands' \in 0..MaxCommands
  BY <1>1, StartCounts
<1>8. CatalogOK(db)' /\ tick' \in 0..MaxMigrations
  BY <1>1, <1>2
<1> HIDE DEF k
<1> QED BY <1>1, <1>6, <1>7, <1>8, CommandStep

(* Inv through the start of an interactive migration.                      *)
LEMMA migrate_interactivelyInv ==
    ASSUME Inv, NEW p \in Procs, NEW m \in Models, NEW permit \in BOOLEAN,
           migrate_interactively(p, m, permit)
    PROVE  Inv'
<1> DEFINE old == from_live_database(db, Scope(m))
           ask == [at |-> "asking", model |-> m, old |-> old,
                   permit |-> permit, actions |-> <<>>, base |-> tick]
           k   == IF Readable(db, Scope(m)) THEN ask ELSE Idle
<1>1. cmd' = [cmd EXCEPT ![p] = k] /\ Start(p) /\ db' = db /\ tick' = tick
  BY Zenon DEF migrate_interactively, Scope
<1>2. CatalogOK(db) /\ tick \in 0..MaxMigrations
  BY DEF Inv
<1>3. OldSpec(old)
  BY <1>2, LiveSpec
<1>6. CommandOK(k)
  <2>1. /\ ask.at = "asking" /\ DOMAIN ask = {"at", "model", "old", "permit", "actions", "base"}
        /\ ask.model = m /\ ask.old = old /\ ask.actions = <<>>
    <3> HIDE DEF old
    <3> QED OBVIOUS
  <2> HIDE DEF ask, old
  <2>2. AskedOnce(ask)
    BY <2>1, ListEmpty DEF AskedOnce
  <2>3. CommandOK(ask)
    BY <1>3, <2>1, <2>2, ListEmpty DEF CommandOK
  <2> QED BY <2>3, IdleOK
<1>7. commands' \in 0..MaxCommands
  BY <1>1, StartCounts
<1>8. CatalogOK(db)' /\ tick' \in 0..MaxMigrations
  BY <1>1, <1>2
<1> HIDE DEF k
<1> QED BY <1>1, <1>6, <1>7, <1>8, CommandStep

(* Inv through an answer about a table.                                    *)
LEMMA handle_table_deleteInv ==
    ASSUME Inv, NEW p \in Procs, handle_table_delete(p)
    PROVE  Inv'
<1> DEFINE k     == cmd[p]
           new   == from_database(ModelOf[k.model])
           scope == from_specs_schemas(new)
           d     == diff(k.old, new, scope)
           asked == delete_tables(k.old, new, k.actions, scope)
           t     == Head(Ordered(asked))
<1>1. /\ k.at = "asking" /\ asked # {} /\ UNCHANGED <<db, tick, commands, streak>>
      /\ \/ cmd' = [cmd EXCEPT ![p].actions = Append(@, [do |-> "defer", t |-> t, to |-> t])]
         \/ cmd' = [cmd EXCEPT ![p].actions = Append(@, [do |-> "delete", t |-> t, to |-> t])]
         \/ \E u \in rename_targets(k.old, new, k.actions, scope) :
               cmd' = [cmd EXCEPT ![p].actions = Append(@, [do |-> "rename", t |-> t, to |-> u])]
  BY Zenon DEF handle_table_delete
<1>2. /\ DOMAIN k = {"at", "model", "old", "permit", "actions", "base"}
      /\ k.model \in Models /\ OldSpec(k.old) /\ IsList(k.actions)
      /\ \A a \in Range(k.actions) : ActionOK(a, k.old, Scope(k.model))
      /\ AskedOnce(k)
  BY <1>1 DEF Inv, CommandOK
<1>3. NewSpec(new) /\ scope = Scope(k.model)
  BY <1>2, ModelSpec DEF Scope
<1>4. IsList(d) /\ \A o \in Range(d) : DiffOp(o, k.old, new, scope)
  <2> HIDE DEF new, scope, k
  <2> QED BY <1>2, <1>3, Diff
<1>5. /\ asked \subseteq {d[i].t : i \in {j \in DOMAIN d : d[j].op = "DeleteTable"}}
      /\ create_tables(k.old, new, k.actions, scope)
            \subseteq {d[i].t : i \in {j \in DOMAIN d : d[j].op = "CreateTable"}}
      /\ \A a \in Range(k.actions) : a.t \notin asked
  BY DEF delete_tables, create_tables, OpTables
<1> HIDE DEF d, asked, new, scope
<1>6. Len(d) \in Nat /\ DOMAIN d = 1..Len(d) /\ \A i \in 1..Len(d) : d[i] \in Range(d)
  BY <1>4, ListShape
<1>7. t \in asked
  <2>1. IsFiniteSet(asked)
    <3> DEFINE f == [i \in DOMAIN d |-> d[i].t]
    <3>1. DOMAIN f = 1..Len(d) /\ IsFiniteSet(DOMAIN f)
      BY <1>6, FS_Interval
    <3>2. asked \subseteq Range(f)
      BY <1>5 DEF Range
    <3> HIDE DEF f
    <3> QED BY <3>1, <3>2, FiniteRange, FS_Subset
  <2> DEFINE s == Ordered(asked)
  <2>2. IsList(s) /\ Range(s) = asked
    BY <2>1, ListOrdered
  <2> HIDE DEF s
  <2>3. s \in Seq(Range(s)) /\ s # <<>>
    <3>1. s # <<>>
      BY <1>1, <2>2, ListEmpty
    <3> QED BY <2>2, <3>1 DEF IsList
  <2>4. Head(s) \in Range(s)
    BY <2>3
  <2> QED BY <2>2, <2>4 DEF s
<1>8. t \in DOMAIN InScope(k.old.tables, scope)
  BY <1>4, <1>5, <1>6, <1>7 DEF DiffOp
<1>9. \A u \in rename_targets(k.old, new, k.actions, scope) :
         u \in ModelNames /\ u \notin DOMAIN InScope(k.old.tables, scope)
  <2>1. DOMAIN InScope(new.tables, scope) \subseteq DOMAIN new.tables
    <3>1. DOMAIN InScope(new.tables, scope) = {x \in DOMAIN new.tables : x[1] \in scope}
      BY ScopeOf
    <3> QED BY <3>1
  <2>2. \A u \in create_tables(k.old, new, k.actions, scope) :
           u \in ModelNames /\ u \notin DOMAIN InScope(k.old.tables, scope)
    BY <1>3, <1>4, <1>5, <1>6, <2>1 DEF DiffOp, NewSpec
  <2>3. DOMAIN InScope(k.old.tables, scope) \subseteq DOMAIN k.old.tables
    <3>1. DOMAIN InScope(k.old.tables, scope) = {x \in DOMAIN k.old.tables : x[1] \in scope}
      BY ScopeOf
    <3> QED BY <3>1
  <2> QED BY <2>2, <2>3, FileNamesAssumption DEF rename_targets
<1> HIDE DEF t
<1>10. \E a : /\ ActionOK(a, k.old, scope) /\ a.t = t
              /\ cmd' = [cmd EXCEPT ![p].actions = Append(@, a)]
  <2>1. CASE cmd' = [cmd EXCEPT ![p].actions = Append(@, [do |-> "defer", t |-> t, to |-> t])]
    <3> DEFINE a == [do |-> "defer", t |-> t, to |-> t]
    <3>1. a.t = t /\ a.do = "defer"
      OBVIOUS
    <3>2. cmd' = [cmd EXCEPT ![p].actions = Append(@, a)]
      BY <2>1
    <3> HIDE DEF a, k
    <3>3. ActionOK(a, k.old, scope)
      BY <1>8, <3>1 DEF ActionOK
    <3> QED BY <3>1, <3>2, <3>3
  <2>2. CASE cmd' = [cmd EXCEPT ![p].actions = Append(@, [do |-> "delete", t |-> t, to |-> t])]
    <3> DEFINE a == [do |-> "delete", t |-> t, to |-> t]
    <3>1. a.t = t /\ a.do = "delete"
      OBVIOUS
    <3>2. cmd' = [cmd EXCEPT ![p].actions = Append(@, a)]
      BY <2>2
    <3> HIDE DEF a, k
    <3>3. ActionOK(a, k.old, scope)
      BY <1>8, <3>1 DEF ActionOK
    <3> QED BY <3>1, <3>2, <3>3
  <2>3. ASSUME NEW u \in rename_targets(k.old, new, k.actions, scope),
               cmd' = [cmd EXCEPT ![p].actions = Append(@, [do |-> "rename", t |-> t, to |-> u])]
        PROVE  \E a : /\ ActionOK(a, k.old, scope) /\ a.t = t
                      /\ cmd' = [cmd EXCEPT ![p].actions = Append(@, a)]
    <3> DEFINE a == [do |-> "rename", t |-> t, to |-> u]
    <3>1. a.t = t /\ a.do = "rename" /\ a.to = u
      OBVIOUS
    <3>2. cmd' = [cmd EXCEPT ![p].actions = Append(@, a)]
      BY <2>3
    <3> HIDE DEF a, k
    <3>3. ActionOK(a, k.old, scope)
      BY <1>8, <1>9, <3>1 DEF ActionOK
    <3> QED BY <3>1, <3>2, <3>3
  <2> QED BY <1>1, <2>1, <2>2, <2>3
<1>11. PICK a : /\ ActionOK(a, k.old, scope) /\ a.t = t
                /\ cmd' = [cmd EXCEPT ![p].actions = Append(@, a)]
  BY <1>10
<1> DEFINE actions == Append(k.actions, a)
           after == [k EXCEPT !.actions = actions]
<1>12. /\ IsList(actions) /\ \A b \in Range(actions) : ActionOK(b, k.old, Scope(k.model))
       /\ \A i, j \in DOMAIN actions : actions[i].t = actions[j].t => i = j
  <2> DEFINE l == k.actions
  <2>1. IsList(l) /\ l \in Seq(Range(l))
    BY <1>2 DEF IsList
  <2> HIDE DEF l
  <2>2. Append(l, a) = l \o <<a>>
    <3>1. l \in Seq(Range(l) \cup {a}) /\ a \in Range(l) \cup {a}
      BY <2>1
    <3> QED BY <3>1, AppendIsConcat
  <2>3. IsList(<<a>>) /\ Range(<<a>>) = {a}
    BY ListOne
  <2>4. IsList(l \o <<a>>) /\ Range(l \o <<a>>) = Range(l) \cup {a}
    BY <2>1, <2>3, ListConcat
  <2>5. actions = l \o <<a>>
    BY <2>2 DEF l
  <2> HIDE DEF actions
  <2>6. \A b \in Range(l) : ActionOK(b, k.old, Scope(k.model))
    BY <1>2 DEF l
  <2>7. /\ Len(l) \in Nat /\ DOMAIN l = 1..Len(l) /\ DOMAIN actions = 1..(Len(l) + 1)
        /\ actions[Len(l) + 1] = a /\ \A i \in 1..Len(l) : actions[i] = l[i] /\ l[i] \in Range(l)
    <3>1. Len(l) \in Nat /\ DOMAIN l = 1..Len(l) /\ \A i \in 1..Len(l) : l[i] \in Range(l)
      BY <2>1, ListShape
    <3>2. l \in Seq(Range(l) \cup {a}) /\ actions = Append(l, a)
      BY <2>1, <2>2, <2>5
    <3> QED BY <3>1, <3>2
  <2>8. /\ \A i, j \in DOMAIN l : l[i].t = l[j].t => i = j
        /\ \A b \in Range(l) : b.t # a.t
    BY <1>2, <1>5, <1>7, <1>11 DEF l, AskedOnce
  <2>9. ASSUME NEW i \in DOMAIN actions, NEW j \in DOMAIN actions, actions[i].t = actions[j].t
        PROVE  i = j
    BY <2>7, <2>8, <2>9
  <2> QED BY <1>3, <1>11, <2>4, <2>5, <2>6, <2>9
<1>13. cmd' = [cmd EXCEPT ![p] = after]
  BY <1>11
<1> HIDE DEF actions, k
<1>14. /\ DOMAIN after = DOMAIN k /\ after.at = k.at /\ after.model = k.model
       /\ after.old = k.old /\ after.actions = actions
  BY <1>2
<1> HIDE DEF after
<1>15. AskedOnce(after)
  <2>1. \A b \in Range(actions) : b.t \in DOMAIN k.old.tables
    <3> DEFINE kept == InScope(k.old.tables, Scope(k.model))
    <3>1. DOMAIN kept = {x \in DOMAIN k.old.tables : x[1] \in Scope(k.model)}
      BY ScopeOf
    <3>2. \A b \in Range(actions) : b.t \in DOMAIN kept
      BY <1>12 DEF ActionOK
    <3> HIDE DEF kept
    <3> QED BY <3>1, <3>2
  <2> QED BY <1>12, <1>14, <2>1 DEF AskedOnce
<1>17. CommandOK(after)
  BY <1>1, <1>2, <1>12, <1>14, <1>15 DEF CommandOK
<1>16. CatalogOK(db)' /\ tick' \in 0..MaxMigrations /\ commands' \in 0..MaxCommands
  BY <1>1 DEF Inv
<1> QED BY <1>13, <1>16, <1>17, CommandStep

(* Inv through the plan made of the answers.                               *)
LEMMA finish_askingInv ==
    ASSUME Inv, NEW p \in Procs, finish_asking(p)
    PROVE  Inv'
<1> DEFINE k     == cmd[p]
           new   == from_database(ModelOf[k.model])
           scope == from_specs_schemas(new)
           list  == apply_table_actions(k.old, new, k.actions, scope)
           after == Planned(k.model, list, k.permit, k.actions, k.base)
<1>1. /\ k.at = "asking" /\ cmd' = [cmd EXCEPT ![p] = after]
      /\ UNCHANGED <<db, tick, commands, streak>>
  BY Zenon DEF finish_asking
<1>2. /\ k.model \in Models /\ OldSpec(k.old) /\ IsList(k.actions)
      /\ \A a \in Range(k.actions) : ActionOK(a, k.old, Scope(k.model))
  BY <1>1 DEF Inv, CommandOK
<1>3. NewSpec(new) /\ scope = Scope(k.model)
  BY <1>2, ModelSpec DEF Scope
<1>4. IsList(list) /\ \A x \in Range(list) : Listed(x, scope, Lost(k.actions))
  <2> HIDE DEF new, scope, k
  <2> QED BY <1>2, <1>3, TableActions
<1>5. CommandOK(after)
  <2> HIDE DEF list, scope, k
  <2> QED BY <1>2, <1>3, <1>4, PlannedOK
<1>6. CatalogOK(db)' /\ tick' \in 0..MaxMigrations /\ commands' \in 0..MaxCommands
  BY <1>1 DEF Inv
<1> HIDE DEF after
<1> QED BY <1>1, <1>5, <1>6, CommandStep

(* Inv through a command that gives up.                                    *)
LEMMA abandonInv ==
    ASSUME Inv, NEW p \in Procs, abandon(p)
    PROVE  Inv'
<1>1. cmd' = [cmd EXCEPT ![p] = Idle] /\ UNCHANGED <<db, tick, commands, streak>>
  BY DEF abandon
<1>2. CatalogOK(db)' /\ tick' \in 0..MaxMigrations /\ commands' \in 0..MaxCommands
  BY <1>1 DEF Inv
<1> QED BY <1>1, <1>2, IdleOK, CommandStep

(* What the transaction of a command does.                                 *)
LEMMA OutcomeOK ==
    ASSUME Inv, NEW p \in Procs, cmd[p].at = "ready"
    PROVE  LET k == cmd[p]
               r == Outcome(k)
           IN  /\ CatalogOK(r.db)
               /\ r.ok /\ ~k.permit => Preserved(db.tables, r.db.tables, Lost(k.actions))
               /\ SelfContained /\ k.model # NoModel =>
                     Untouched(db.tables, r.db.tables, Scope(k.model))
<1> DEFINE k == cmd[p]
           stmts == [i \in DOMAIN k.plan |-> k.plan[i].sql]
           run == Run(db, stmts, tick + 1)
           r == Outcome(k)
<1>1. /\ IsList(k.plan)
      /\ k.model # NoModel => k.model \in Models
      /\ \A x \in Range(k.plan) :
            /\ Proper(x.sql)
            /\ k.model # NoModel => Local(x.sql, Scope(k.model))
            /\ ~x.destructive => Harmless(x.sql, Lost(k.actions))
      /\ CatalogOK(db)
  BY DEF Inv, CommandOK
<1> HIDE DEF k
<1>2. /\ Len(k.plan) \in Nat /\ DOMAIN k.plan = 1..Len(k.plan)
      /\ \A i \in 1..Len(k.plan) : k.plan[i] \in Range(k.plan)
  BY <1>1, ListShape
<1>3. DOMAIN stmts = DOMAIN k.plan /\ \A i \in DOMAIN stmts : stmts[i] = k.plan[i].sql
  OBVIOUS
<1>4. r = [run EXCEPT !.ok = @ /\ (k.permit \/ \A i \in DOMAIN k.plan : ~k.plan[i].destructive)]
  BY DEF Outcome
<1>5. IsList(stmts)
  <2>1. stmts = [i \in 1..Len(k.plan) |-> stmts[i]]
    BY <1>2
  <2> HIDE DEF stmts
  <2> QED BY <1>2, <2>1, ListOf
<1> HIDE DEF stmts
<1>6. \A s \in Range(stmts) : \E x \in Range(k.plan) : s = x.sql
  BY <1>2, <1>3 DEF Range
<1>7. \A s \in Range(stmts) : Proper(s)
  BY <1>1, <1>6
<1>8. /\ DOMAIN run = {"db", "ok"} /\ CatalogOK(run.db)
      /\ Changes(db, stmts, run.db.tables, Lost(k.actions))
  BY <1>1, <1>5, <1>7, RunStep
<1> HIDE DEF run
<1>9. r.db = run.db /\ (r.ok /\ ~k.permit => \A i \in DOMAIN k.plan : ~k.plan[i].destructive)
  BY <1>4, <1>8
<1> HIDE DEF r
<1>10. ASSUME r.ok, ~k.permit PROVE Preserved(db.tables, r.db.tables, Lost(k.actions))
  <2>1. \A s \in Range(stmts) : Harmless(s, Lost(k.actions))
    <3>1. \A x \in Range(k.plan) : ~x.destructive
      BY <1>9, <1>10 DEF Range
    <3> QED BY <1>1, <1>6, <3>1
  <2> QED BY <1>8, <1>9, <2>1 DEF Changes
<1>11. ASSUME SelfContained, k.model # NoModel
       PROVE  Untouched(db.tables, r.db.tables, Scope(k.model))
  <2>1. k.model \in Models /\ \A s \in Range(stmts) : Local(s, Scope(k.model))
    BY <1>1, <1>6, <1>11
  <2> QED BY <1>8, <1>9, <1>11, <2>1 DEF Changes
<1>12. CatalogOK(r.db)
  BY <1>8, <1>9
<1> QED BY <1>10, <1>11, <1>12 DEF k, r

(* Inv through the execution of a list, against whatever the catalog has   *)
(* become.                                                                 *)
LEMMA applyInv ==
    ASSUME Inv, NEW p \in Procs, apply(p)
    PROVE  Inv'
<1> DEFINE r == Outcome(cmd[p])
<1>1. /\ cmd[p].at = "ready" /\ tick < MaxMigrations /\ commands' = commands
      /\ cmd' = [cmd EXCEPT ![p] = Idle]
      /\ \/ db' = r.db /\ tick' = tick + 1
         \/ db' = db /\ tick' = tick
  BY DEF apply
<1>2. CatalogOK(r.db)
  BY <1>1, OutcomeOK
<1> HIDE DEF r
<1>3. CatalogOK(db)'
  <2>1. CatalogOK(db)
    BY DEF Inv
  <2> QED BY <1>1, <1>2, <2>1
<1>4. tick' \in 0..MaxMigrations /\ commands' \in 0..MaxCommands
  BY <1>1, BoundsAssumption DEF Inv
<1> QED BY <1>1, <1>3, <1>4, IdleOK, CommandStep

(* Inv is inductive.                                                       *)
LEMMA StepInv ==
    ASSUME Inv, [Next]_vars
    PROVE  Inv'
<1>1. CASE UNCHANGED vars
  BY <1>1 DEF vars, Inv
<1>2. ASSUME NEW p \in Procs, Step(p) PROVE Inv'
  BY <1>2, from_db_and_modelInv, migrate_interactivelyInv, wipe_databaseInv,
     handle_table_deleteInv, finish_askingInv, abandonInv, applyInv DEF Step
<1> QED BY <1>1, <1>2 DEF Next

(* The catalog stays well formed and every command holds a list of proper  *)
(* statements, local to the scope of its model and marked destructive      *)
(* wherever they may lose data the user did not give up, while commands of *)
(* other processes run in between (Migration::apply).                      *)
THEOREM Invariance == Spec => []Inv
<1>1. Init => Inv
  BY InitInv
<1>2. Inv /\ [Next]_vars => Inv'
  BY StepInv
<1> QED BY <1>1, <1>2, PTL DEF Spec

-----------------------------------------------------------------------------
(* TypeOK: bounds, the states of a command, and no dangling foreign key,   *)
(* whatever list runs against whatever the catalog has become since.       *)
THEOREM TypeCorrect == Spec => []TypeOK
<1>1. ASSUME Inv PROVE TypeOK
  <2>1. ASSUME NEW c \in Columns(db.tables), NEW r \in c.refs PROVE r.table \in DOMAIN db.tables
    <3>1. PICK t \in DOMAIN db.tables : c \in Range(db.tables[t].cols)
      BY DEF Columns
    <3>2. PICK n \in DOMAIN db.tables[t].cols : c = db.tables[t].cols[n]
      BY <3>1 DEF Range
    <3>3. Within(t[1], db.tables[t], DOMAIN db.tables)
      BY <1>1 DEF Inv, CatalogOK, TablesOK
    <3> QED BY <3>2, <3>3 DEF Within
  <2>2. DOMAIN db.tables \subseteq TableNames
    BY <1>1 DEF Inv, CatalogOK, TablesOK
  <2>3. \A p \in Procs : /\ cmd[p].at \in {"idle", "asking", "ready"}
                          /\ cmd[p].at = "asking" => AskedOnce(cmd[p])
    BY <1>1 DEF Inv, CommandOK
  <2> QED BY <1>1, <2>1, <2>2, <2>3 DEF TypeOK, Inv
<1> QED BY <1>1, Invariance, PTL

(* Only the command that applies its list changes the catalog.             *)
LEMMA WhoApplies ==
    ASSUME Inv, [Next]_vars, NEW p \in Procs, Applies(p)
    PROVE  apply(p) /\ cmd[p].at = "ready" /\ Outcome(cmd[p]).ok /\ db' = Outcome(cmd[p]).db
<1>1. cmd[p].at = "ready" /\ cmd'[p].at = "idle" /\ db' # db
  BY DEF Applies
<1>2. ~(UNCHANGED vars)
  BY <1>1 DEF vars
<1>3. PICK q \in Procs : Step(q)
  BY <1>2, SMTT(20) DEF Next
<1>4. apply(q)
  BY <1>1, <1>3 DEF Step, from_db_and_model, migrate_interactively, wipe_database,
     handle_table_delete, finish_asking, abandon
<1>5. q = p
  <2> SUFFICES ASSUME q # p PROVE FALSE
    OBVIOUS
  <2>1. cmd' = [cmd EXCEPT ![q] = Idle] /\ DOMAIN cmd = Procs
    BY <1>4 DEF apply, Inv
  <2>2. cmd'[p] = cmd[p]
    BY <2>1
  <2> QED BY <1>1, <2>2
<1> DEFINE r == Outcome(cmd[p])
<1>6. r.ok /\ db' = r.db
  BY <1>1, <1>4, <1>5 DEF apply
<1> QED BY <1>1, <1>4, <1>5, <1>6

(* NothingLostUnasked: without permission the data of a column survive,    *)
(* but for those of tables the user gave up (Migration::apply).            *)
THEOREM NothingLostUnaskedHolds == Spec => NothingLostUnasked
<1>1. ASSUME Inv, [Next]_vars, NEW p \in Procs, Applies(p), ~cmd[p].permit
      PROVE  Data(db.tables) \ Data(db'.tables) \subseteq
                Data(Keep(db.tables, Deleted(cmd[p].actions) \cup Displaced(cmd[p].actions)))
  <2> DEFINE lost == Lost(cmd[p].actions)
             a == db.tables
             b == db'.tables
  <2>1. Preserved(a, b, lost)
    BY <1>1, WhoApplies, OutcomeOK
  <2>2. lost = Deleted(cmd[p].actions) \cup Displaced(cmd[p].actions)
    BY DEF Lost
  <2> HIDE DEF lost, a, b
  <2>3. ASSUME NEW d \in Data(a), d \notin Data(b)
        PROVE  d \in Data(Keep(a, lost))
    <3>1. PICK x \in Columns(a) : d = x.born
      BY DEF Data
    <3>2. PICK t \in DOMAIN a : x \in Range(a[t].cols)
      BY DEF Columns
    <3>3. PICK c \in DOMAIN a[t].cols : x = a[t].cols[c]
      BY <3>2 DEF Range
    <3>4. t \in lost
      <4> SUFFICES ASSUME t \notin lost PROVE FALSE
        OBVIOUS
      <4>1. PICK u \in DOMAIN b : \E n \in DOMAIN b[u].cols : b[u].cols[n].born = d
        BY <2>1, <3>1, <3>3 DEF Preserved
      <4>2. PICK n \in DOMAIN b[u].cols : b[u].cols[n].born = d
        BY <4>1
      <4>3. b[u].cols[n] \in Range(b[u].cols)
        BY DEF Range
      <4>4. b[u].cols[n] \in Columns(b)
        BY <4>3 DEF Columns
      <4> QED BY <2>3, <4>2, <4>4 DEF Data
    <3>5. t \in DOMAIN Keep(a, lost) /\ Keep(a, lost)[t] = a[t]
      BY <3>4 DEF Keep
    <3>6. x \in Columns(Keep(a, lost))
      BY <3>2, <3>5 DEF Columns
    <3> QED BY <3>1, <3>6 DEF Data
  <2> QED BY <2>2, <2>3 DEF a, b
<1> DEFINE Property == \A p \in Procs : Applies(p) /\ ~cmd[p].permit =>
              Data(db.tables) \ Data(db'.tables) \subseteq
                 Data(Keep(db.tables, Deleted(cmd[p].actions) \cup Displaced(cmd[p].actions)))
<1>2. ASSUME Inv, [Next]_vars PROVE [Property]_vars
  BY <1>1, <1>2
<1>3. NothingLostUnasked <=> [][Property]_vars
  BY DEF NothingLostUnasked
<1> HIDE DEF Property
<1> QED BY <1>2, <1>3, Invariance, PTL DEF Spec

(* ScopeRespected: a migration leaves the tables of other schemas as they  *)
(* are, when no table depends on a scope it is outside of and every model  *)
(* has a table in "public" (MigrationScope::FromNewSpec).                  *)
THEOREM ScopeRespectedHolds ==
    ASSUME SelfContained
    PROVE  Spec => ScopeRespected
<1> DEFINE Property == \A p \in Procs : Applies(p) /\ cmd[p].model # NoModel =>
              LET scope == from_specs_schemas(from_database(ModelOf[cmd[p].model]))
              IN  \A t \in DOMAIN db.tables : t[1] \notin scope =>
                     t \in DOMAIN db'.tables /\ db'.tables[t] = db.tables[t]
<1>1. ASSUME Inv, [Next]_vars PROVE Property
  <2> SUFFICES ASSUME NEW p \in Procs, Applies(p), cmd[p].model # NoModel,
                      NEW t \in DOMAIN db.tables, t[1] \notin Scope(cmd[p].model)
               PROVE  t \in DOMAIN db'.tables /\ db'.tables[t] = db.tables[t]
    BY DEF Scope
  <2>1. Untouched(db.tables, db'.tables, Scope(cmd[p].model))
    BY <1>1, WhoApplies, OutcomeOK
  <2> QED BY <2>1 DEF Untouched
<1>2. ScopeRespected <=> [][Property]_vars
  BY DEF ScopeRespected
<1> HIDE DEF Property
<1> QED BY <1>1, <1>2, Invariance, PTL DEF Spec

-----------------------------------------------------------------------------
(* What exo schema verify accepts                                          *)

(* What the queries of the model rely on in a table that is there.         *)
ColumnsServe(have, want) ==
    /\ \A c \in DOMAIN have.cols \ DOMAIN want.cols : have.cols[c].nullable
    /\ \A c \in DOMAIN want.cols :
         /\ c \in DOMAIN have.cols
         /\ have.cols[c].pk = want.cols[c].pk
         /\ have.cols[c].nullable = want.cols[c].nullable
         /\ have.cols[c].default = want.cols[c].default
         /\ have.cols[c].refs = {} <=> want.cols[c].refs = {}
         /\ want.cols[c].refs = {} => have.cols[c].typ = want.cols[c].typ

Serves(have, want) ==
    /\ want.triggers \subseteq have.triggers
    /\ Range(want.indices) \subseteq Range(have.indices)
    /\ Range(named_unique_constraints(want.cols)) = Range(named_unique_constraints(have.cols))
    /\ \A c \in DOMAIN have.cols \ DOMAIN want.cols : have.cols[c].nullable
    /\ \A c \in DOMAIN want.cols :
         /\ c \in DOMAIN have.cols
         /\ \A a \in {"pk", "nullable", "default"} : have.cols[c][a] = want.cols[c][a]
         /\ have.cols[c].refs = {} <=> want.cols[c].refs = {}
         /\ want.cols[c].refs = {} => have.cols[c].typ = want.cols[c].typ

(* Verify reports no operation on the columns: they serve the model.       *)
LEMMA UsableColumns ==
    ASSUME NEW t, NEW have, NEW want, IsTable(have), NewTable(t[1], want),
           \A o \in Range(columns_diff(t, have.cols, want.cols)) : ~error_string(o)
    PROVE  ColumnsServe(have, want)
<1> DEFINE a == have.cols
           b == want.cols
           kept == KeptColumns(t, a, b)
           added == AddedColumns(t, a, b)
           d == columns_diff(t, a, b)
           single == has_single_pk(b)
<1>1. \A o : Of(kept, o) \/ Of(added, o) => ~error_string(o)
  <2>1. \A o : o \in Range(d) <=> Of(kept, o) \/ Of(added, o)
    BY ColumnsDiff
  <2> HIDE DEF kept, added
  <2> QED BY <2>1
<1>2. \A c \in DOMAIN b : NewColumn(t[1], b[c])
  BY DEF NewTable
<1> HIDE DEF a, b, single
<1>3. /\ DOMAIN kept = DOMAIN a
      /\ \A c \in DOMAIN a : kept[c] = IF c \in DOMAIN b THEN column_diff(t, c, a[c], b[c], single)
                                       ELSE <<Op("DeleteColumn", t, c, a[c])>>
  BY DEF KeptColumns, single
<1>4. /\ DOMAIN added = DOMAIN b \ DOMAIN a
      /\ \A c \in DOMAIN added : added[c] = <<Op("CreateColumn", t, c, column_to_sql(b[c], single))>>
  BY DEF AddedColumns, single
<1> HIDE DEF kept, added, d
<1>5. ASSUME NEW c \in DOMAIN a \ DOMAIN b PROVE a[c].nullable
  <2> DEFINE o == Op("DeleteColumn", t, c, a[c])
  <2>1. o.op = "DeleteColumn" /\ o.v = a[c]
    BY DEF Op
  <2>2. kept[c] = <<o>>
    BY <1>3
  <2> HIDE DEF o
  <2>3. o \in Range(kept[c])
    BY <2>2, ListOne
  <2>4. ~error_string(o)
    BY <1>1, <1>3, <2>3 DEF Of
  <2> QED BY <2>1, <2>4 DEF error_string
<1>6. ASSUME NEW c \in DOMAIN b PROVE c \in DOMAIN a
  <2> SUFFICES ASSUME c \notin DOMAIN a PROVE FALSE
    OBVIOUS
  <2> DEFINE o == Op("CreateColumn", t, c, column_to_sql(b[c], single))
  <2>1. o.op = "CreateColumn"
    BY DEF Op
  <2>2. added[c] = <<o>> /\ c \in DOMAIN added
    BY <1>4
  <2> HIDE DEF o
  <2>3. o \in Range(added[c])
    BY <2>2, ListOne
  <2>4. ~error_string(o)
    BY <1>1, <2>2, <2>3 DEF Of
  <2> QED BY <2>1, <2>4 DEF error_string
<1>7. ASSUME NEW c \in DOMAIN b
      PROVE  /\ a[c].pk = b[c].pk /\ a[c].nullable = b[c].nullable /\ a[c].default = b[c].default
             /\ a[c].refs = {} <=> b[c].refs = {}
             /\ b[c].refs = {} => a[c].typ = b[c].typ
  <2> DEFINE old == a[c]
             new == b[c]
             x == column_diff(t, c, old, new, single)
  <2>1. kept[c] = x /\ c \in DOMAIN kept /\ NewColumn(t[1], new)
    BY <1>2, <1>3, <1>6
  <2>2. \A o \in Range(x) : ~error_string(o)
    <3> HIDE DEF x
    <3> QED BY <1>1, <2>1 DEF Of
  <2> HIDE DEF old, new
  <2>3. ~NewType(old, new) /\ old.nullable = new.nullable /\ old.default = new.default
    <3>1. \/ NewType(old, new)
          \/ old.nullable # new.nullable
          \/ old.default # new.default
          => \E o \in Range(x) : error_string(o)
      BY <2>1, ColumnDiff
    <3> HIDE DEF x
    <3> QED BY <2>2, <3>1
  <2>4. old.pk = new.pk
    BY <2>3 DEF NewType
  <2>5. \/ old.typ = new.typ /\ old.refs = new.refs
        \/ old.refs # {} /\ new.refs # {}
    BY <2>3 DEF NewType, differs_only_in_reference_column
  <2> QED BY <2>3, <2>4, <2>5 DEF old, new
<1> QED BY <1>5, <1>6, <1>7 DEF a, b, ColumnsServe

(* Verify reports no operation on the indices: those of the model are      *)
(* there.                                                                  *)
LEMMA UsableIndices ==
    ASSUME IndexNamesTell, NEW t, NEW have, NEW want, IsTable(have), NewTable(t[1], want),
           \A n \in DOMAIN have.indices : IsModelIndex(n, have.indices[n]),
           \A o \in Range(indices_diff(t, have.indices, want.indices)) : ~error_string(o)
    PROVE  Range(want.indices) \subseteq Range(have.indices)
<1> DEFINE a == have.indices
           b == want.indices
           added == AddedIndices(t, a, b)
<1>1. \A o : Of(added, o) => ~error_string(o)
  <2>1. \A o : Of(added, o) => o \in Range(indices_diff(t, a, b))
    BY IndicesDiff
  <2> HIDE DEF added
  <2> QED BY <2>1
<1>2. \A n \in DOMAIN b : IsModelIndex(n, b[n])
  BY DEF NewTable
<1>3. \A n \in DOMAIN a : IsModelIndex(n, a[n])
  OBVIOUS
<1> HIDE DEF a, b
<1>4. /\ DOMAIN added = {m \in DOMAIN b : SameIndex(a, m, b[m]) = {}}
      /\ \A n \in DOMAIN added : added[n] = <<Op("CreateIndex", t, n, b[n])>>
  BY DEF AddedIndices
<1> HIDE DEF added
<1>5. ASSUME NEW n \in DOMAIN b PROVE b[n] \in Range(a)
  <2>1. SameIndex(a, n, b[n]) # {}
    <3> SUFFICES ASSUME SameIndex(a, n, b[n]) = {} PROVE FALSE
      OBVIOUS
    <3> DEFINE o == Op("CreateIndex", t, n, b[n])
    <3>1. o.op = "CreateIndex"
      BY DEF Op
    <3>2. added[n] = <<o>> /\ n \in DOMAIN added
      BY <1>4
    <3> HIDE DEF o
    <3>3. o \in Range(added[n])
      BY <3>2, ListOne
    <3>4. ~error_string(o)
      BY <1>1, <3>2, <3>3 DEF Of
    <3> QED BY <3>1, <3>4 DEF error_string
  <2>2. PICK m \in DOMAIN a : m = n \/ a[m] = b[n]
    BY <2>1 DEF SameIndex
  <2>3. a[m] = b[n]
    <3>1. m = n => a[n] = b[n]
      <4> SUFFICES ASSUME m = n PROVE a[n] = b[n]
        OBVIOUS
      <4>1. IsModelIndex(n, a[n]) /\ IsModelIndex(n, b[n])
        BY <1>2, <1>3
      <4> QED BY <4>1 DEF IsModelIndex, IndexNamesTell
    <3> QED BY <2>2, <3>1
  <2> QED BY <2>3 DEF Range
<1> QED BY <1>5 DEF a, b, Range

(* Verify reports no operation on the unique constraints: both sides have  *)
(* the same.                                                               *)
LEMMA UsableUniques ==
    ASSUME NEW t, NEW old, NEW new, IsFiniteSet(DOMAIN old), IsFiniteSet(DOMAIN new),
           \A o \in Range(uniques_diff(t, old, new)) : ~error_string(o)
    PROVE  Range(new) = Range(old)
<1>1. \A n \in DOMAIN old : matching_column_group(new, n, old[n]) # {}
  BY UniquesDiff
<1>2. \A n \in DOMAIN new : matching_column_group(old, n, new[n]) = {new[n]}
  BY UniquesDiff
<1>3. ASSUME NEW n \in DOMAIN new PROVE new[n] \in Range(old)
  BY <1>2 DEF matching_column_group, Range
<1>4. ASSUME NEW n \in DOMAIN old PROVE old[n] \in Range(new)
  <2>1. CASE n \in DOMAIN new
    <3>1. old[n] = new[n]
      BY <1>2, <2>1 DEF matching_column_group
    <3> QED BY <2>1, <3>1 DEF Range
  <2>2. CASE n \notin DOMAIN new
    BY <1>1, <2>2 DEF matching_column_group
  <2> QED BY <2>1, <2>2
<1> QED BY <1>3, <1>4 DEF Range

(* Verify reports no operation on the table: it serves the model.          *)
LEMMA UsableTable ==
    ASSUME IndexNamesTell, NEW t, NEW have, NEW want, IsTable(have), NewTable(t[1], want),
           want.managed, \A n \in DOMAIN have.indices : IsModelIndex(n, have.indices[n]),
           \A o \in Range(table_diff(t, have, want)) : ~error_string(o)
    PROVE  Serves(have, want)
<1> DEFINE d == table_diff(t, have, want)
           u == named_unique_constraints(have.cols)
           v == named_unique_constraints(want.cols)
<1>1. /\ Range(columns_diff(t, have.cols, want.cols)) \subseteq Range(d)
      /\ Range(indices_diff(t, have.indices, want.indices)) \subseteq Range(d)
      /\ Range(uniques_diff(t, u, v)) \subseteq Range(d)
      /\ Range(triggers_diff(t, have.triggers, want.triggers)) \subseteq Range(d)
  BY TableDiff
<1>2. IsTable(want)
  BY DEF NewTable
<1>3. IsFiniteSet(DOMAIN u) /\ IsFiniteSet(DOMAIN v)
  BY <1>2, FiniteConstraints
<1>4. Range(v) = Range(u)
  <2>1. \A o \in Range(uniques_diff(t, u, v)) : ~error_string(o)
    BY <1>1
  <2> HIDE DEF u, v
  <2> QED BY <1>3, <2>1, UsableUniques
<1>5. Range(want.indices) \subseteq Range(have.indices)
  <2>1. \A o \in Range(indices_diff(t, have.indices, want.indices)) : ~error_string(o)
    BY <1>1
  <2> QED BY <2>1, UsableIndices
<1>6. want.triggers \subseteq have.triggers
  <2>1. \A o \in Range(triggers_diff(t, have.triggers, want.triggers)) : ~error_string(o)
    BY <1>1
  <2>2. IsFiniteSet(have.triggers) /\ IsFiniteSet(want.triggers)
    BY <1>2 DEF IsTable
  <2>3. \A n \in want.triggers \ have.triggers :
          \E o \in Range(triggers_diff(t, have.triggers, want.triggers)) : error_string(o)
    <3>1. \A n \in want.triggers : n[1] = t[1]
      BY DEF NewTable
    <3> QED BY <2>2, <3>1, TriggersDiff
  <2> QED BY <2>1, <2>3
<1>7. ColumnsServe(have, want)
  <2>1. \A o \in Range(columns_diff(t, have.cols, want.cols)) : ~error_string(o)
    BY <1>1
  <2> QED BY <2>1, UsableColumns
<1>8. \A c \in DOMAIN want.cols : \A a \in {"pk", "nullable", "default"} :
         have.cols[c][a] = want.cols[c][a]
  BY <1>7 DEF ColumnsServe
<1> HIDE DEF u, v, d
<1> QED BY <1>4, <1>5, <1>6, <1>7, <1>8 DEF Serves, ColumnsServe, u, v

(* Verify reports nothing: the whole catalog serves the model.             *)
LEMMA VerifyTells ==
    ASSUME EnumsInScope, IndexNamesTell, CatalogOK(db), NEW m \in Models, verify(db, ModelOf[m])
    PROVE  Usable(from_database(ModelOf[m]))
<1> DEFINE new    == from_database(ModelOf[m])
           scope  == from_specs_schemas(new)
           old    == from_live_database(db, scope)
           d      == diff(old, new, scope)
           before == InScope(old.tables, scope)
           after  == InScope(new.tables, scope)
<1>1. \A i \in DOMAIN d : ~error_string(d[i])
  BY DEF verify
<1>2. OldSpec(old) /\ NewSpec(new)
  BY LiveSpec, ModelSpec
<1>3. /\ old.tables = [t \in DOMAIN InScope(db.tables, scope) |->
                         [db.tables[t] EXCEPT !.triggers = TriggersRead(db.tables, t)]]
      /\ old.enums = InScope(db.enums, scope) /\ old.functions = db.functions
  BY Zenon DEF from_live_database
<1>4. new.enums = ModelOf[m].enums /\ scope = Scope(m)
  BY DEF from_database, Scope
<1>5. \A t \in DOMAIN new.tables :
         (new.tables[t].managed => t[1] \in scope) /\ new.tables[t].triggers \subseteq {t}
  BY DEF from_specs_schemas, required_schemas, from_database
<1> HIDE DEF old, new, scope
<1>6. /\ IsList(d)
      /\ Range(enums_diff(InScope(old.enums, scope), InScope(new.enums, scope))) \subseteq Range(d)
      /\ Range(tables_diff(before, after)) \subseteq Range(d)
      /\ Range(functions_diff(old.functions, new.functions)) \subseteq Range(d)
  BY <1>2, Diff
<1> HIDE DEF d
<1>7. \A o \in Range(d) : ~error_string(o)
  BY <1>1 DEF Range
<1>8. ASSUME NEW e \in DOMAIN new.enums PROVE e \in DOMAIN db.enums /\ db.enums[e] = new.enums[e]
  <2> DEFINE x == InScope(old.enums, scope)
             y == InScope(new.enums, scope)
             z == InScope(db.enums, scope)
  <2>1. /\ DOMAIN y = {n \in DOMAIN new.enums : n[1] \in scope}
        /\ \A n \in DOMAIN y : y[n] = new.enums[n]
    BY ScopeOf
  <2>2. /\ DOMAIN z = {n \in DOMAIN db.enums : n[1] \in scope}
        /\ \A n \in DOMAIN z : z[n] = db.enums[n]
    BY ScopeOf
  <2>3. /\ DOMAIN x = {n \in DOMAIN z : n[1] \in scope}
        /\ \A n \in DOMAIN x : x[n] = z[n]
    <3>1. x = InScope(z, scope)
      BY <1>3
    <3> HIDE DEF x, z
    <3> QED BY <3>1, ScopeOf
  <2>4. IsFiniteSet(DOMAIN x) /\ IsFiniteSet(DOMAIN y)
    <3>1. IsFiniteSet(DOMAIN old.enums) /\ IsFiniteSet(DOMAIN new.enums)
      BY <1>2 DEF OldSpec, NewSpec
    <3> QED BY <3>1, ScopeOf
  <2>5. e \in DOMAIN y
    BY <1>4, <2>1 DEF EnumsInScope
  <2> HIDE DEF x, y, z
  <2>6. \A n \in DOMAIN y : (n \notin DOMAIN x \/ x[n] # y[n]) =>
           \E o \in Range(enums_diff(x, y)) : error_string(o)
    <3>1. \A n \in DOMAIN x : n[1] \in scope
      BY <2>3
    <3> QED BY <2>4, <3>1, EnumsDiff
  <2>7. \A o \in Range(enums_diff(x, y)) : ~error_string(o)
    BY <1>6, <1>7 DEF x, y
  <2>8. e \in DOMAIN x /\ x[e] = y[e]
    BY <2>5, <2>6, <2>7
  <2> QED BY <2>1, <2>2, <2>3, <2>5, <2>8
<1>9. ASSUME NEW f \in DOMAIN new.functions
      PROVE  f \in DOMAIN db.functions /\ db.functions[f] = new.functions[f]
  <2>1. IsFiniteSet(DOMAIN old.functions) /\ IsFiniteSet(DOMAIN new.functions)
    BY <1>2 DEF OldSpec, NewSpec
  <2>2. \A n \in DOMAIN new.functions :
           (n \notin DOMAIN old.functions \/ old.functions[n] # new.functions[n]) =>
              \E o \in Range(functions_diff(old.functions, new.functions)) : error_string(o)
    BY <2>1, FunctionsDiff
  <2> QED BY <1>3, <1>6, <1>7, <2>2
<1>10. \A t \in DOMAIN db.tables : Within(t[1], db.tables[t], DOMAIN db.tables)
  BY DEF CatalogOK, TablesOK
<1>11. /\ DOMAIN after = {n \in DOMAIN new.tables : n[1] \in scope}
       /\ \A n \in DOMAIN after : after[n] = new.tables[n]
  BY ScopeOf
<1>12. /\ DOMAIN before = {n \in DOMAIN db.tables : n[1] \in scope}
       /\ \A n \in DOMAIN before :
             before[n] = [db.tables[n] EXCEPT !.triggers = TriggersRead(db.tables, n)]
  <2> DEFINE z == InScope(db.tables, scope)
  <2>1. DOMAIN z = {n \in DOMAIN db.tables : n[1] \in scope}
    BY ScopeOf
  <2>2. /\ DOMAIN before = {n \in DOMAIN old.tables : n[1] \in scope}
        /\ \A n \in DOMAIN before : before[n] = old.tables[n]
    BY ScopeOf
  <2>3. /\ DOMAIN old.tables = DOMAIN z
        /\ \A n \in DOMAIN z :
              old.tables[n] = [db.tables[n] EXCEPT !.triggers = TriggersRead(db.tables, n)]
    BY <1>3
  <2> HIDE DEF z, before
  <2> QED BY <2>1, <2>2, <2>3
<1>13. /\ \A t \in DOMAIN before \cap DOMAIN after :
             Range(table_diff(t, before[t], after[t])) \subseteq Range(tables_diff(before, after))
       /\ \A t \in DOMAIN after \ DOMAIN before : after[t].managed =>
             \E o \in Range(tables_diff(before, after)) : error_string(o)
  BY <1>2, TablesDiff
<1> HIDE DEF before, after
<1>14. ASSUME NEW t \in DOMAIN Managed(new.tables)
       PROVE  /\ t \in DOMAIN db.tables
              /\ LET have == db.tables[t]  want == new.tables[t]
                 IN  /\ want.triggers \subseteq have.triggers
                     /\ Range(want.indices) \subseteq Range(have.indices)
                     /\ Range(named_unique_constraints(want.cols)) =
                        Range(named_unique_constraints(have.cols))
                     /\ \A c \in DOMAIN have.cols \ DOMAIN want.cols : have.cols[c].nullable
                     /\ \A c \in DOMAIN want.cols :
                          /\ c \in DOMAIN have.cols
                          /\ \A a \in {"pk", "nullable", "default"} :
                                have.cols[c][a] = want.cols[c][a]
                          /\ have.cols[c].refs = {} <=> want.cols[c].refs = {}
                          /\ want.cols[c].refs = {} => have.cols[c].typ = want.cols[c].typ
  <2>1. t \in DOMAIN new.tables /\ new.tables[t].managed
    BY DEF Managed, Keep
  <2>2. t \in DOMAIN after /\ after[t] = new.tables[t]
    BY <1>5, <1>11, <2>1
  <2>3. t \in DOMAIN before
    BY <1>6, <1>7, <1>13, <2>1, <2>2
  <2> DEFINE have == db.tables[t]
             want == new.tables[t]
             read == [have EXCEPT !.triggers = TriggersRead(db.tables, t)]
  <2>4. t \in DOMAIN db.tables /\ before[t] = read
    BY <1>12, <2>3
  <2>5. \A o \in Range(table_diff(t, read, want)) : ~error_string(o)
    BY <1>6, <1>7, <1>13, <2>2, <2>3, <2>4
  <2>6. /\ IsTable(read) /\ read.cols = have.cols /\ read.indices = have.indices
        /\ read.triggers = TriggersRead(db.tables, t)
    BY <2>4, TableRead
  <2>7. NewTable(t[1], want) /\ want.managed
    BY <1>2, <2>1 DEF NewSpec
  <2>8. \A n \in DOMAIN have.indices : IsModelIndex(n, have.indices[n])
    BY <1>10, <2>4 DEF Within
  <2> HIDE DEF have, want, read
  <2>9. Serves(read, want)
    BY <2>5, <2>6, <2>7, <2>8, UsableTable
  <2>10. want.triggers \subseteq have.triggers
    <3> SUFFICES ASSUME NEW n \in want.triggers PROVE n \in have.triggers
      OBVIOUS
    <3>1. n = t
      BY <1>5, <2>1 DEF want
    <3>2. n \in TriggersRead(db.tables, t)
      BY <2>6, <2>9 DEF Serves
    <3>3. PICK u \in DOMAIN db.tables : t = <<"public", u[2]>> /\ t \in db.tables[u].triggers
      BY <3>1, <3>2 DEF TriggersRead
    <3>4. t[1] = "public" /\ t[1] = u[1]
      BY <1>10, <3>3 DEF Within
    <3>5. u = <<u[1], u[2]>>
      <4>1. u \in TableNames
        BY DEF CatalogOK, TablesOK
      <4> QED BY <4>1 DEF TableNames
    <3> QED BY <3>1, <3>3, <3>4, <3>5 DEF have
  <2> QED BY <2>4, <2>6, <2>9, <2>10 DEF have, want, Serves
<1>15. Usable(new)
  BY <1>8, <1>9, <1>14, Zenon DEF Usable
<1> QED BY <1>15 DEF new

(* VerifiedIsUsable, and at any time: the differences that exo schema      *)
(* verify passes over do not touch what the queries of the model rely on,  *)
(* when the scope of a model covers its enums and index names tell what an *)
(* index covers.                                                           *)
THEOREM VerifiedIsUsableHolds ==
    ASSUME EnumsInScope, IndexNamesTell
    PROVE  Spec => []Verified /\ []VerifiedIsUsable
<1>1. ASSUME Inv PROVE Verified
  BY <1>1, VerifyTells DEF Inv, Verified
<1>2. ASSUME Inv PROVE VerifiedIsUsable
  BY <1>1, <1>2 DEF VerifiedIsUsable
<1> QED BY <1>1, <1>2, Invariance, PTL
=============================================================================
