---------------------------- MODULE AdmissionProofs ----------------------------
(***************************************************************************)
(* Proofs about the store (module Cache) and about admission around it      *)
(* (module Admission), for every set of keys, tags, shards and callers,     *)
(* every limit and size, every sketch and way its keys collide.             *)
(***************************************************************************)
EXTENDS Admission, SequenceTheorems, FiniteSetTheorems, FunctionTheorems,
        WellFoundedInduction, TLAPS

-------------------------------------------------------------------------------
(* Numbers. *)

LEMMA LeastExists ==
    ASSUME NEW S \in SUBSET Nat, S # {}
    PROVE  \E n \in S : \A m \in S : n <= m
<1> DEFINE R == OpToRel(<, Nat)
<1>1. IsWellFoundedOn(R, Nat)
  BY NatLessThanWellFounded
<1>2. PICK n \in S : \A m \in S : ~(<<m, n>> \in R)
  <2> HIDE DEF R
  <2> QED BY <1>1, WFMin
<1>3. \A m, k \in Nat : m < k => <<m, k>> \in R
  BY DEF OpToRel
<1> HIDE DEF R
<1>4. ASSUME NEW m \in S PROVE n <= m
  <2>1. m \in Nat /\ n \in Nat
    OBVIOUS
  <2>2. ~(m < n)
    BY <1>2, <1>3, <2>1
  <2> QED BY <2>1, <2>2
<1> QED BY <1>4

LEMMA GreatestExists ==
    ASSUME NEW N \in Nat, NEW S \in SUBSET 0..N, S # {}
    PROVE  Max(S) \in S /\ \A n \in S : n <= Max(S)
<1> DEFINE Below == { N - n : n \in S }
<1>1. Below \in SUBSET Nat /\ Below # {}
  <2>1. \A n \in S : N - n \in Nat
    <3>1. \A n \in S : n \in 0..N
      OBVIOUS
    <3> QED BY <3>1
  <2> QED BY <2>1
<1>2. PICK least \in Below : \A m \in Below : least <= m
  <2> HIDE DEF Below
  <2> QED BY <1>1, LeastExists
<1>3. PICK n \in S : least = N - n
  BY <1>2
<1>4. ASSUME NEW m \in S PROVE n >= m
  <2>1. N - m \in Below
    OBVIOUS
  <2>2. N - n <= N - m
    BY <2>1, <1>2, <1>3
  <2>3. n \in Int /\ m \in Int
    OBVIOUS
  <2> QED BY <2>2, <2>3
<1>5. n \in S /\ \A m \in S : n >= m
  BY <1>4
<1>6. Max(S) \in S /\ \A m \in S : Max(S) >= m
  BY <1>5 DEF Max
<1>7. \A m \in S : m \in Int
  OBVIOUS
<1> QED BY <1>6, <1>7

-------------------------------------------------------------------------------
(* Lists. *)

\* The list holds each key of S once and nothing else.
Holds(list, S) ==
    /\ list \in Seq(S)
    /\ \A k \in S : \E i \in 1..Len(list) : list[i] = k
    /\ \A i, j \in 1..Len(list) : list[i] = list[j] => i = j

LEMMA HoldsAll ==
    ASSUME NEW list, NEW S, Holds(list, S)
    PROVE  /\ ToSet(list) = S
           /\ Len(list) \in Nat
           /\ IsFiniteSet(S) /\ Cardinality(S) = Len(list)
<1>1. list \in Seq(S) /\ Len(list) \in Nat /\ DOMAIN list = 1..Len(list)
  BY DEF Holds
<1>2. ToSet(list) = S
  BY <1>1 DEF Holds, ToSet
<1>3. list \in Bijection(1..Len(list), S)
  <2>1. list \in [1..Len(list) -> S]
    BY <1>1
  <2>2. list \in Injection(1..Len(list), S)
    BY <2>1, Fun_IsInj DEF Holds
  <2>3. list \in Surjection(1..Len(list), S)
    BY <2>1, Fun_IsSurj DEF Holds
  <2> QED BY <2>2, <2>3 DEF Bijection
<1>4. IsFiniteSet(1..Len(list)) /\ Cardinality(1..Len(list)) = Len(list)
  BY <1>1, FS_Interval
<1>5. ExistsBijection(1..Len(list), S)
  BY <1>3 DEF ExistsBijection
<1>6. IsFiniteSet(S) /\ Cardinality(S) = Len(list)
  BY <1>4, <1>5, FS_Bijection
<1> QED BY <1>1, <1>2, <1>6

LEMMA WithoutHolds ==
    ASSUME NEW list, NEW S, Holds(list, S), NEW k
    PROVE  /\ Holds(Without(list, k), S \ {k})
           /\ k \in S => Len(Without(list, k)) = Len(list) - 1
           /\ k \notin S => Without(list, k) = list
<1>0. list \in Seq(S) /\ Len(list) \in Nat /\ ToSet(list) = S
  BY HoldsAll DEF Holds
<1>1. CASE k \notin S
  <2>1. Without(list, k) = list /\ S \ {k} = S
    BY <1>0, <1>1 DEF Without
  <2> QED BY <1>1, <2>1
<1>2. CASE k \in S
  <2> DEFINE n == Position(list, k)
             rest == Without(list, k)
  <2>1. n \in 1..Len(list) /\ list[n] = k
    <3>1. \E i \in DOMAIN list : list[i] = k
      BY <1>0, <1>2 DEF Holds
    <3> QED BY <1>0, <3>1 DEF Position
  <2>2. rest = SubSeq(list, 1, n - 1) \o SubSeq(list, n + 1, Len(list))
    BY <1>0, <1>2 DEF Without, RemoveAt
  <2> HIDE DEF n, rest
  <2>3. /\ rest \in Seq(S) /\ Len(rest) = Len(list) - 1
        /\ \A i \in 1..(n - 1) : rest[i] = list[i]
        /\ \A i \in n..(Len(list) - 1) : rest[i] = list[i + 1]
    <3> DEFINE a == SubSeq(list, 1, n - 1)
               b == SubSeq(list, n + 1, Len(list))
    <3>1. a \in Seq(S) /\ Len(a) = n - 1 /\ \A i \in 1..(n - 1) : a[i] = list[i]
      BY <1>0, <2>1
    <3>2. /\ b \in Seq(S) /\ Len(b) = Len(list) - n
          /\ \A i \in 1..(Len(list) - n) : b[i] = list[i + n]
      BY <1>0, <2>1
    <3> HIDE DEF a, b
    <3>3. rest = a \o b
      BY <2>2 DEF a, b
    <3>4. rest \in Seq(S) /\ Len(rest) = Len(list) - 1
      BY <1>0, <2>1, <3>1, <3>2, <3>3
    <3>5. \A i \in 1..(n - 1) : rest[i] = list[i]
      BY <1>0, <2>1, <3>1, <3>2, <3>3
    <3>6. ASSUME NEW i \in n..(Len(list) - 1) PROVE rest[i] = list[i + 1]
      <4>1. rest[i] = b[i - (n - 1)]
        BY <1>0, <2>1, <3>1, <3>2, <3>3
      <4>2. i - (n - 1) \in 1..(Len(list) - n) /\ (i - (n - 1)) + n = i + 1
        BY <1>0, <2>1
      <4> QED BY <3>2, <4>1, <4>2
    <3> QED BY <3>4, <3>5, <3>6
  <2> DEFINE from(i) == IF i < n THEN i ELSE i + 1
  <2>4. \A i \in 1..Len(rest) : /\ rest[i] = list[from(i)]
                                /\ from(i) \in 1..Len(list) /\ from(i) # n
    BY <1>0, <2>1, <2>3
  <2>0. \A i, j \in 1..Len(list) : list[i] = list[j] => i = j
    BY DEF Holds
  <2>5. ASSUME NEW i \in 1..Len(rest) PROVE rest[i] # k
    <3> HIDE DEF from
    <3>1. rest[i] = list[from(i)] /\ from(i) \in 1..Len(list) /\ from(i) # n
      BY <2>4
    <3> QED BY <2>0, <2>1, <3>1
  <2>6. rest \in Seq(S \ {k})
    <3>1. \A i \in 1..Len(rest) : rest[i] \in S
      BY <2>3
    <3> QED BY <2>3, <2>5, <3>1
  <2>7. ASSUME NEW x \in S \ {k} PROVE \E i \in 1..Len(rest) : rest[i] = x
    <3>1. PICK j \in 1..Len(list) : list[j] = x
      BY DEF Holds
    <3>2. j # n
      BY <2>1, <3>1
    <3>3. CASE j < n
      <4>1. j \in 1..Len(rest) /\ j \in 1..(n - 1)
        BY <1>0, <2>1, <2>3, <3>3
      <4> QED BY <2>3, <3>1, <4>1
    <3>4. CASE j > n
      <4>1. j - 1 \in 1..Len(rest) /\ j - 1 \in n..(Len(list) - 1) /\ (j - 1) + 1 = j
        BY <1>0, <2>1, <2>3, <3>4
      <4>2. rest[j - 1] = list[j]
        BY <2>3, <4>1
      <4> QED BY <3>1, <4>1, <4>2
    <3> QED BY <1>0, <2>1, <3>2, <3>3, <3>4
  <2>8. ASSUME NEW i \in 1..Len(rest), NEW j \in 1..Len(rest), rest[i] = rest[j] PROVE i = j
    <3>1. from(i) = from(j)
      <4> HIDE DEF from
      <4>1. /\ rest[i] = list[from(i)] /\ from(i) \in 1..Len(list)
            /\ rest[j] = list[from(j)] /\ from(j) \in 1..Len(list)
        BY <2>4
      <4> QED BY <2>0, <2>8, <4>1
    <3> QED BY <1>0, <2>1, <2>3, <3>1
  <2>9. Holds(rest, S \ {k})
    BY <2>6, <2>7, <2>8 DEF Holds
  <2> QED BY <1>2, <2>3, <2>9 DEF rest
<1> QED BY <1>1, <1>2

LEMMA FrontHolds ==
    ASSUME NEW list, NEW S, Holds(list, S), NEW k
    PROVE  /\ Holds(ToFront(list, k), S \cup {k})
           /\ ToFront(list, k)[1] = k
           /\ k \in S => Len(ToFront(list, k)) = Len(list)
<1> DEFINE rest == Without(list, k)
           order == ToFront(list, k)
<1>1. /\ Holds(rest, S \ {k})
      /\ k \in S => Len(rest) = Len(list) - 1
  BY WithoutHolds
<1>2. order = <<k>> \o rest
  BY DEF ToFront
<1> HIDE DEF rest, order
<1>3. rest \in Seq(S \ {k}) /\ Len(rest) \in Nat
  BY <1>1 DEF Holds
<1>4. /\ order \in Seq(S \cup {k}) /\ Len(order) = Len(rest) + 1 /\ order[1] = k
      /\ \A i \in 1..Len(rest) : order[i + 1] = rest[i]
  <2>1. rest \in Seq(S \cup {k}) /\ <<k>> \in Seq(S \cup {k})
    BY <1>3
  <2> QED BY <1>2, <1>3, <2>1
<1>5. \A i \in 2..Len(order) : /\ i - 1 \in 1..Len(rest) /\ order[i] = rest[i - 1]
                               /\ order[i] # k
  <2> SUFFICES ASSUME NEW i \in 2..Len(order)
               PROVE  i - 1 \in 1..Len(rest) /\ order[i] = rest[i - 1] /\ order[i] # k
    OBVIOUS
  <2>1. i - 1 \in 1..Len(rest) /\ (i - 1) + 1 = i
    BY <1>3, <1>4
  <2>2. order[i] = rest[i - 1] /\ rest[i - 1] \in S \ {k}
    BY <1>3, <1>4, <2>1
  <2> QED BY <2>1, <2>2
<1>6. ASSUME NEW x \in S \cup {k} PROVE \E i \in 1..Len(order) : order[i] = x
  <2>1. CASE x = k
    BY <1>3, <1>4, <2>1
  <2>2. CASE x # k
    <3>1. PICK j \in 1..Len(rest) : rest[j] = x
      BY <1>1, <2>2 DEF Holds
    <3>2. j + 1 \in 1..Len(order) /\ order[j + 1] = x
      BY <1>3, <1>4, <3>1
    <3> QED BY <3>2
  <2> QED BY <2>1, <2>2
<1>7. ASSUME NEW i \in 1..Len(order), NEW j \in 1..Len(order), order[i] = order[j] PROVE i = j
  <2>1. CASE i = 1 \/ j = 1
    BY <1>3, <1>4, <1>5, <1>7, <2>1
  <2>2. CASE i # 1 /\ j # 1
    <3>1. i \in 2..Len(order) /\ j \in 2..Len(order)
      BY <1>3, <1>4, <2>2
    <3>2. /\ i - 1 \in 1..Len(rest) /\ j - 1 \in 1..Len(rest)
          /\ rest[i - 1] = rest[j - 1]
      BY <1>5, <1>7, <3>1
    <3>3. \A a, b \in 1..Len(rest) : rest[a] = rest[b] => a = b
      BY <1>1 DEF Holds
    <3>4. i - 1 = j - 1
      BY <3>2, <3>3
    <3> QED BY <3>1, <3>4
  <2> QED BY <2>1, <2>2
<1>8. Holds(order, S \cup {k})
  BY <1>4, <1>6, <1>7 DEF Holds
<1>9. k \in S => Len(order) = Len(list)
  <2>1. Len(list) \in Nat
    BY HoldsAll
  <2> QED BY <1>1, <1>3, <1>4, <2>1
<1> QED BY <1>4, <1>8, <1>9 DEF order

\* Its first keys are a list without those behind.
LEMMA PrefixHolds ==
    ASSUME NEW list, NEW S, Holds(list, S), NEW n \in 1..Len(list)
    PROVE  /\ Holds(SubSeq(list, 1, n), S \ Behind(list, n))
           /\ Len(SubSeq(list, 1, n)) = n
           /\ Behind(list, n) \subseteq S
           /\ list[1] \in S \ Behind(list, n)
<1>1. list \in Seq(S) /\ Len(list) \in Nat /\ DOMAIN list = 1..Len(list)
  BY DEF Holds
<1> DEFINE first == SubSeq(list, 1, n)
<1>2. /\ first \in Seq(S) /\ Len(first) = n
      /\ \A i \in 1..n : first[i] = list[i] /\ i \in 1..Len(list)
  BY <1>1
<1>3. \A i \in 1..Len(list) : list[i] \in S
  BY <1>1
<1>4. Behind(list, n) \subseteq S
  BY <1>1, <1>3 DEF Behind
<1>5. \A i \in 1..n : first[i] \notin Behind(list, n)
  <2> SUFFICES ASSUME NEW i \in 1..n, NEW j \in (n + 1)..Len(list), list[i] = list[j] PROVE FALSE
    BY <1>2 DEF Behind
  <2>1. i \in 1..Len(list) /\ j \in 1..Len(list) /\ i # j
    BY <1>1
  <2> QED BY <2>1 DEF Holds
<1> HIDE DEF first
<1>6. first \in Seq(S \ Behind(list, n))
  <2>1. \A i \in 1..Len(first) : first[i] \in S \ Behind(list, n)
    BY <1>2, <1>3, <1>5
  <2> QED BY <1>2, <2>1
<1>7. ASSUME NEW x \in S \ Behind(list, n) PROVE \E i \in 1..Len(first) : first[i] = x
  <2>1. PICK i \in 1..Len(list) : list[i] = x
    BY DEF Holds
  <2>2. i \notin (n + 1)..Len(list)
    BY <2>1 DEF Behind
  <2>3. i \in 1..n
    BY <1>1, <2>2
  <2> QED BY <1>2, <2>1, <2>3
<1>8. \A i, j \in 1..Len(first) : first[i] = first[j] => i = j
  BY <1>2 DEF Holds
<1>9. Holds(first, S \ Behind(list, n))
  BY <1>6, <1>7, <1>8 DEF Holds
<1>10. list[1] \in S \ Behind(list, n)
  <2>1. 1 \in 1..n /\ 1 \in 1..Len(list)
    BY <1>1
  <2> QED BY <1>2, <1>3, <1>5, <2>1
<1> QED BY <1>2, <1>4, <1>9, <1>10 DEF first

-------------------------------------------------------------------------------
(* Bytes. *)

\* The keys are finitely many and their entries have sizes.
Sized(entries, keys) == IsFiniteSet(keys) /\ \A k \in keys : entries[k].size \in Nat

LEMMA OneTo ==
    ASSUME NEW n \in Nat
    PROVE  IsFiniteSet(1..n) /\ Cardinality(1..n) = n
<1>1. 1 \in Int /\ n \in Int
  OBVIOUS
<1>2. IsFiniteSet(1..n) /\ Cardinality(1..n) = IF 1 > n THEN 0 ELSE n - 1 + 1
  BY <1>1, FS_Interval
<1>3. (IF 1 > n THEN 0 ELSE n - 1 + 1) = n
  OBVIOUS
<1> QED BY <1>2, <1>3

LEMMA SizeFinite ==
    ASSUME NEW entries, NEW keys, Sized(entries, keys)
    PROVE  /\ IsFiniteSet(UNION { {k} \X (1..entries[k].size) : k \in keys })
           /\ SizeOf(entries, keys) \in Nat
<1> DEFINE part == [k \in keys |-> {k} \X (1..entries[k].size)]
           parts == { {k} \X (1..entries[k].size) : k \in keys }
<1>1. part \in Surjection(keys, parts)
  <2>1. part \in [keys -> parts]
    OBVIOUS
  <2>2. \A p \in parts : \E k \in keys : part[k] = p
    OBVIOUS
  <2> QED BY <2>1, <2>2, Fun_IsSurj
<1>2. IsFiniteSet(parts)
  BY <1>1, FS_Surjection DEF Sized
<1>3. \A p \in parts : IsFiniteSet(p)
  <2> SUFFICES ASSUME NEW k \in keys PROVE IsFiniteSet({k} \X (1..entries[k].size))
    OBVIOUS
  <2>1. IsFiniteSet({k}) /\ IsFiniteSet(1..entries[k].size)
    BY FS_Singleton, OneTo DEF Sized
  <2> QED BY <2>1, FS_Product
<1> HIDE DEF part, parts
<1>4. IsFiniteSet(UNION parts)
  BY <1>2, <1>3, FS_UNION
<1>5. Cardinality(UNION parts) \in Nat
  BY <1>4, FS_CardinalityType
<1> QED BY <1>4, <1>5 DEF parts, SizeOf

LEMMA SizeOfNone ==
    ASSUME NEW entries
    PROVE  SizeOf(entries, {}) = 0
<1>1. UNION { {k} \X (1..entries[k].size) : k \in {} } = {}
  OBVIOUS
<1> QED BY <1>1, FS_EmptySet DEF SizeOf

LEMMA SizeOfOne ==
    ASSUME NEW entries, NEW k, entries[k].size \in Nat
    PROVE  SizeOf(entries, {k}) = entries[k].size
<1>1. UNION { {x} \X (1..entries[x].size) : x \in {k} } = {k} \X (1..entries[k].size)
  OBVIOUS
<1>2. IsFiniteSet({k}) /\ Cardinality({k}) = 1
  BY FS_Singleton
<1>3. IsFiniteSet(1..entries[k].size) /\ Cardinality(1..entries[k].size) = entries[k].size
  BY OneTo
<1>4. Cardinality({k} \X (1..entries[k].size)) = 1 * entries[k].size
  BY <1>2, <1>3, FS_Product
<1> QED BY <1>1, <1>4 DEF SizeOf

LEMMA SizeOfBoth ==
    ASSUME NEW entries, NEW A, NEW B, Sized(entries, A), Sized(entries, B), A \cap B = {}
    PROVE  /\ SizeOf(entries, A \cup B) = SizeOf(entries, A) + SizeOf(entries, B)
           /\ SizeOf(entries, A) \in Nat /\ SizeOf(entries, B) \in Nat
<1> DEFINE U(keys) == UNION { {k} \X (1..entries[k].size) : k \in keys }
<1>1. IsFiniteSet(U(A)) /\ IsFiniteSet(U(B))
  BY SizeFinite
<1>2. SizeOf(entries, A) \in Nat /\ SizeOf(entries, B) \in Nat
  BY SizeFinite
<1>3. U(A \cup B) = U(A) \cup U(B)
  OBVIOUS
<1>4. U(A) \cap U(B) = {}
  OBVIOUS
<1>5. /\ SizeOf(entries, A) = Cardinality(U(A)) /\ SizeOf(entries, B) = Cardinality(U(B))
      /\ SizeOf(entries, A \cup B) = Cardinality(U(A \cup B))
  BY DEF SizeOf
<1> HIDE DEF U
<1>6. Cardinality(U(A) \cup U(B))
      = Cardinality(U(A)) + Cardinality(U(B)) - Cardinality(U(A) \cap U(B))
  BY <1>1, FS_Union
<1>7. Cardinality(U(A) \cap U(B)) = 0
  BY <1>4, FS_EmptySet
<1>8. SizeOf(entries, A \cup B) = SizeOf(entries, A) + SizeOf(entries, B) - 0
  BY <1>3, <1>5, <1>6, <1>7
<1> QED BY <1>2, <1>8

LEMMA SizeOfSame ==
    ASSUME NEW entries, NEW others, NEW keys, \A k \in keys : entries[k].size = others[k].size
    PROVE  SizeOf(entries, keys) = SizeOf(others, keys)
<1>1. { {k} \X (1..entries[k].size) : k \in keys } = { {k} \X (1..others[k].size) : k \in keys }
  OBVIOUS
<1> QED BY <1>1 DEF SizeOf

\* Taking some of the keys away.
LEMMA SizeOfRest ==
    ASSUME NEW entries, NEW keys, Sized(entries, keys), NEW gone \in SUBSET keys
    PROVE  /\ SizeOf(entries, keys \ gone) = SizeOf(entries, keys) - SizeOf(entries, gone)
           /\ SizeOf(entries, keys) \in Nat /\ SizeOf(entries, gone) \in Nat
           /\ SizeOf(entries, keys \ gone) \in Nat
<1>1. IsFiniteSet(gone) /\ IsFiniteSet(keys \ gone)
  BY FS_Subset DEF Sized
<1>2. Sized(entries, gone) /\ Sized(entries, keys \ gone)
  BY <1>1 DEF Sized
<1>3. (keys \ gone) \cap gone = {} /\ (keys \ gone) \cup gone = keys
  OBVIOUS
<1>4. /\ SizeOf(entries, keys) = SizeOf(entries, keys \ gone) + SizeOf(entries, gone)
      /\ SizeOf(entries, keys \ gone) \in Nat /\ SizeOf(entries, gone) \in Nat
  <2>1. SizeOf(entries, (keys \ gone) \cup gone)
        = SizeOf(entries, keys \ gone) + SizeOf(entries, gone)
    BY <1>2, <1>3, SizeOfBoth
  <2> QED BY <1>2, <1>3, <2>1, SizeFinite
<1>5. SizeOf(entries, keys) \in Nat
  BY SizeFinite
<1> QED BY <1>4, <1>5

-------------------------------------------------------------------------------
(* The store.  Its invariant is what the properties say of every shard, with  *)
(* the list as one that holds the shard's keys.                               *)

ShardsInv ==
    \A s \in Shards : Holds(lru[s], Here(s)) /\ bytes[s] = SizeOf(items, Here(s))

StoreInv == TypeOK /\ TagIndexExact /\ ShardsInv /\ LimitsKept

LEMMA EntryIs ==
    ASSUME TypeOK, NEW k \in Stored
    PROVE  /\ k \in Keys /\ items[k] \in Entry /\ items[k] # None
           /\ items[k].size \in Nat \ {0} /\ items[k].tags \subseteq Tags
           /\ ShardOf[k] \in Shards
<1>1. k \in Keys /\ items[k] \in Entry /\ items[k] # None
  BY DEF TypeOK, Stored
<1> QED BY <1>1, CacheAssumption DEF Entry

LEMMA StoredSized ==
    ASSUME TypeOK, NEW keys \in SUBSET Stored
    PROVE  Sized(items, keys)
<1>1. keys \subseteq Keys
  BY DEF Stored
<1>2. IsFiniteSet(keys)
  BY <1>1, FS_Subset, CacheAssumption
<1> QED BY <1>2, EntryIs DEF Sized

LEMMA LimitTypes ==
    /\ ShardCapacity \in Nat /\ ShardCapacity >= 1
    /\ ShardBytes \in Int
<1> DEFINE N == Cardinality(Shards)
<1>1. N \in Nat \ {0}
  BY CacheAssumption, FS_CardinalityType, FS_EmptySet
<1> HIDE DEF N
<1>2. Capacity \in Nat \ {0} /\ MaxBytes \in Nat
  BY CacheAssumption
<1>3. Capacity + N - 1 \in Nat /\ Capacity + N - 1 >= N
  BY <1>1, <1>2
<1>4. \A a \in Nat, b \in Nat \ {0} : a \div b \in Nat /\ (a >= b => a \div b >= 1)
  BY SMT
<1>5. ShardCapacity = (Capacity + N - 1) \div N /\ ShardBytes = MaxBytes \div N
  BY DEF ShardCapacity, ShardBytes, N
<1> QED BY <1>1, <1>2, <1>3, <1>4, <1>5

\* Fewer keys and fewer bytes keep a limit.
LEMMA LimitsMonotone ==
    ASSUME NEW n \in Nat, NEW m \in Nat, m <= n, NEW b \in Nat, NEW c \in Nat, c <= b,
           ~OverLimit(n, b)
    PROVE  ~OverLimit(m, c)
BY LimitTypes DEF OverLimit

\* What the invariant says of a shard, in numbers.
LEMMA ShardNumbers ==
    ASSUME StoreInv, NEW s \in Shards
    PROVE  /\ Here(s) \subseteq Stored /\ Sized(items, Here(s))
           /\ Len(lru[s]) = Cardinality(Here(s)) /\ Len(lru[s]) \in Nat
           /\ bytes[s] = SizeOf(items, Here(s)) /\ bytes[s] \in Nat
<1>1. Here(s) \subseteq Stored
  BY DEF Here
<1>2. Sized(items, Here(s))
  BY <1>1, StoredSized DEF StoreInv
<1>3. Holds(lru[s], Here(s)) /\ bytes[s] = SizeOf(items, Here(s))
  BY DEF StoreInv, ShardsInv
<1>4. Len(lru[s]) = Cardinality(Here(s)) /\ Len(lru[s]) \in Nat
  BY <1>3, HoldsAll
<1>5. SizeOf(items, Here(s)) \in Nat
  BY <1>2, SizeFinite
<1> QED BY <1>1, <1>2, <1>3, <1>4, <1>5

\* A list of a shard is a list of keys.
LEMMA HoldsKeys ==
    ASSUME NEW list, NEW S \in SUBSET Keys, Holds(list, S)
    PROVE  list \in Seq(Keys)
BY DEF Holds

-------------------------------------------------------------------------------
LEMMA RemoveKeeps ==
    ASSUME StoreInv, NEW k \in Stored, RemoveLocked(k), callbacks' \in [Keys -> Nat],
           UNCHANGED <<now, sets>>
    PROVE  StoreInv'
<1> DEFINE s == ShardOf[k]
<1>0. TypeOK /\ k \in Keys /\ s \in Shards /\ items[k].size \in Nat \ {0} /\ items[k] # None
  BY EntryIs DEF StoreInv
<1>1. /\ items' = [items EXCEPT ![k] = None]
      /\ lru' = [lru EXCEPT ![s] = Without(@, k)]
      /\ tagged' = Untagged({k})
      /\ bytes' = [bytes EXCEPT ![s] = @ - items[k].size]
  BY DEF RemoveLocked
<1> HIDE DEF s
<1>2. /\ items' \in [Keys -> Entry \cup {None}] /\ items'[k] = None
      /\ \A x \in Keys \ {k} : items'[x] = items[x]
      /\ Stored' = Stored \ {k}
  <2>1. /\ items' \in [Keys -> Entry \cup {None}] /\ items'[k] = None
        /\ \A x \in Keys \ {k} : items'[x] = items[x]
    BY <1>0, <1>1 DEF TypeOK
  <2> QED BY <2>1 DEF Stored
<1>3. /\ s = ShardOf[k]
      /\ \A t \in Shards : Here(t)' = IF t = s THEN Here(s) \ {k} ELSE Here(t)
  <2>1. s = ShardOf[k]
    BY DEF s
  <2>2. \A t \in Shards : Here(t)' = { x \in Stored' : ShardOf[x] = t }
    BY DEF Here
  <2> QED BY <1>2, <2>1, <2>2 DEF Here
<1>4. k \in Here(s)
  BY <1>3 DEF Here
<1>5. \A t \in Shards : \A x \in Here(t)' : items'[x] = items[x]
  BY <1>2 DEF Here, Stored
\* The shard's own list and counter.
<1>6. /\ Holds(lru'[s], Here(s) \ {k}) /\ Len(lru'[s]) = Len(lru[s]) - 1
      /\ bytes'[s] = SizeOf(items, Here(s) \ {k}) /\ bytes'[s] = bytes[s] - items[k].size
      /\ bytes'[s] \in Nat
  <2>1. lru'[s] = Without(lru[s], k) /\ bytes'[s] = bytes[s] - items[k].size
    BY <1>0, <1>1 DEF TypeOK
  <2>2. Holds(lru[s], Here(s))
    BY <1>0 DEF StoreInv, ShardsInv
  <2>3. Holds(lru'[s], Here(s) \ {k}) /\ Len(lru'[s]) = Len(lru[s]) - 1
    <3>1. /\ Holds(Without(lru[s], k), Here(s) \ {k})
          /\ Len(Without(lru[s], k)) = Len(lru[s]) - 1
      BY <1>4, <2>2, WithoutHolds
    <3> QED BY <2>1, <3>1
  <2>4. bytes[s] = SizeOf(items, Here(s)) /\ Sized(items, Here(s))
    BY <1>0, ShardNumbers
  <2>5. /\ SizeOf(items, Here(s) \ {k}) = SizeOf(items, Here(s)) - SizeOf(items, {k})
        /\ SizeOf(items, Here(s) \ {k}) \in Nat
    <3>1. {k} \in SUBSET Here(s)
      BY <1>4
    <3> QED BY <2>4, <3>1, SizeOfRest
  <2>6. SizeOf(items, {k}) = items[k].size
    BY <1>0, SizeOfOne
  <2> QED BY <2>1, <2>3, <2>4, <2>5, <2>6
<1>7. \A t \in Shards \ {s} : lru'[t] = lru[t] /\ bytes'[t] = bytes[t]
  BY <1>0, <1>1 DEF TypeOK
<1>8. ASSUME NEW t \in Shards
      PROVE  /\ Holds(lru'[t], Here(t)')
             /\ bytes'[t] = SizeOf(items', Here(t)') /\ bytes'[t] \in Nat
             /\ Len(lru'[t]) \in Nat /\ Len(lru'[t]) <= Len(lru[t]) /\ bytes'[t] <= bytes[t]
  <2>0. Len(lru[t]) \in Nat /\ bytes[t] \in Nat
    BY ShardNumbers
  <2>1. SizeOf(items', Here(t)') = SizeOf(items, Here(t)')
    BY <1>5, SizeOfSame
  <2>2. CASE t = s
    <3>1. Here(t)' = Here(s) \ {k}
      BY <1>3, <2>2
    <3>2. Len(lru'[t]) \in Nat
      BY <1>6, <2>2, HoldsAll
    <3> QED BY <1>0, <1>6, <2>0, <2>1, <2>2, <3>1, <3>2
  <2>3. CASE t # s
    <3>1. Here(t)' = Here(t) /\ lru'[t] = lru[t] /\ bytes'[t] = bytes[t]
      BY <1>3, <1>7, <2>3
    <3>2. Holds(lru[t], Here(t)) /\ bytes[t] = SizeOf(items, Here(t))
      BY DEF StoreInv, ShardsInv
    <3> QED BY <2>0, <2>1, <3>1, <3>2
  <2> QED BY <2>2, <2>3
<1>9. ShardsInv'
  BY <1>8 DEF ShardsInv
<1>10. TypeOK'
  <2>1. bytes' \in [Shards -> Nat]
    <3>1. DOMAIN bytes' = Shards /\ bytes' = [t \in Shards |-> bytes'[t]]
      BY <1>1 DEF StoreInv, TypeOK
    <3> QED BY <1>8, <3>1
  <2>2. lru' \in [Shards -> Seq(Keys)]
    <3>1. lru' = [t \in Shards |-> lru'[t]]
      BY <1>1 DEF StoreInv, TypeOK
    <3>2. \A t \in Shards : Here(t)' \subseteq Keys
      BY DEF Here, Stored
    <3>3. \A t \in Shards : lru'[t] \in Seq(Keys)
      BY <1>8, <3>2, HoldsKeys
    <3> QED BY <3>1, <3>3
  <2>3. tagged' \in [Tags -> SUBSET Keys]
    BY <1>0, <1>1 DEF TypeOK, Untagged
  <2> QED BY <1>0, <1>2, <2>1, <2>2, <2>3 DEF TypeOK
<1>11. TagIndexExact'
  <2> SUFFICES ASSUME NEW t \in Tags
               PROVE  tagged'[t] = { x \in Stored' : t \in items'[x].tags }
    BY DEF TagIndexExact
  <2>1. tagged'[t] = tagged[t] \ { x \in {k} \cap Stored : t \in items[x].tags }
    BY <1>1 DEF Untagged
  <2>2. tagged[t] = { x \in Stored : t \in items[x].tags }
    BY DEF StoreInv, TagIndexExact
  <2>3. \A x \in Stored' : items'[x] = items[x]
    BY <1>2 DEF Stored
  <2> QED BY <1>2, <2>1, <2>2, <2>3
<1>12. LimitsKept'
  <2> SUFFICES ASSUME NEW t \in Shards PROVE ~OverLimit(Len(lru'[t]), bytes'[t])
    BY DEF LimitsKept, OverLimit, ShardCapacity, ShardBytes
  <2>1. ~OverLimit(Len(lru[t]), bytes[t]) /\ Len(lru[t]) \in Nat /\ bytes[t] \in Nat
    BY ShardNumbers DEF StoreInv, LimitsKept
  <2> QED BY <1>8, <2>1, LimitsMonotone
<1> QED BY <1>9, <1>10, <1>11, <1>12 DEF StoreInv

\* A step that only orders a list or arms a timer otherwise.
LEMMA SameEntriesKeep ==
    ASSUME StoreInv, items' \in [Keys -> Entry \cup {None}],
           \A x \in Keys : items'[x] = None <=> items[x] = None,
           \A x \in Stored : items'[x].size = items[x].size /\ items'[x].tags = items[x].tags,
           lru' \in [Shards -> Seq(Keys)],
           \A s \in Shards : Holds(lru'[s], Here(s)),
           callbacks' \in [Keys -> Nat], now' \in Nat, UNCHANGED <<tagged, bytes, sets>>
    PROVE  StoreInv'
<1>1. Stored' = Stored /\ \A s \in Shards : Here(s)' = Here(s)
  BY DEF Stored, Here
<1>2. ASSUME NEW s \in Shards
      PROVE  /\ SizeOf(items', Here(s)) = SizeOf(items, Here(s))
             /\ Len(lru'[s]) = Len(lru[s])
  <2>1. \A x \in Here(s) : items'[x].size = items[x].size
    BY DEF Here
  <2>2. Len(lru'[s]) = Cardinality(Here(s)) /\ Len(lru[s]) = Cardinality(Here(s))
    BY ShardNumbers, HoldsAll
  <2> QED BY <2>1, <2>2, SizeOfSame
<1>3. TypeOK'
  BY DEF StoreInv, TypeOK
<1>4. TagIndexExact'
  BY <1>1 DEF StoreInv, TagIndexExact
<1>5. ShardsInv'
  BY <1>1, <1>2 DEF StoreInv, ShardsInv
<1>6. LimitsKept'
  <2> SUFFICES ASSUME NEW s \in Shards PROVE ~OverLimit(Len(lru'[s]), bytes'[s])
    BY DEF LimitsKept, OverLimit, ShardCapacity, ShardBytes
  <2> QED BY <1>2 DEF StoreInv, LimitsKept
<1> QED BY <1>3, <1>4, <1>5, <1>6 DEF StoreInv

LEMMA LookupKeeps ==
    ASSUME StoreInv, NEW k \in Keys, Lookup(k)
    PROVE  StoreInv'
<1>1. k \in Stored /\ UNCHANGED <<callbacks, now, sets>>
  BY DEF Lookup
<1>2. CASE RemoveLocked(k)
  <2>1. callbacks' \in [Keys -> Nat]
    BY <1>1 DEF StoreInv, TypeOK
  <2> QED BY <1>1, <1>2, <2>1, RemoveKeeps
<1>3. CASE /\ lru' = [lru EXCEPT ![ShardOf[k]] = ToFront(@, k)]
           /\ UNCHANGED <<items, tagged, bytes>>
  <2> DEFINE s == ShardOf[k]
  <2>1. s \in Shards /\ k \in Here(s)
    BY <1>1, EntryIs DEF StoreInv, Here
  <2>2. lru \in [Shards -> Seq(Keys)] /\ lru' = [lru EXCEPT ![s] = ToFront(@, k)]
    BY <1>3 DEF StoreInv, TypeOK
  <2> HIDE DEF s
  <2>3. lru'[s] = ToFront(lru[s], k) /\ \A t \in Shards \ {s} : lru'[t] = lru[t]
    BY <2>1, <2>2
  <2>4. \A t \in Shards : Holds(lru[t], Here(t))
    BY DEF StoreInv, ShardsInv
  <2>5. Holds(lru'[s], Here(s))
    <3>1. Holds(ToFront(lru[s], k), Here(s) \cup {k}) /\ Here(s) \cup {k} = Here(s)
      BY <2>1, <2>4, FrontHolds
    <3> QED BY <2>3, <3>1
  <2>6. \A t \in Shards : Holds(lru'[t], Here(t))
    BY <2>3, <2>4, <2>5
  <2>7. lru' \in [Shards -> Seq(Keys)]
    <3>1. Here(s) \subseteq Keys
      BY DEF Here, Stored
    <3>2. lru'[s] \in Seq(Keys)
      BY <2>5, <3>1, HoldsKeys
    <3> QED BY <2>1, <2>2, <2>3, <3>2
  <2>8. items' = items /\ items \in [Keys -> Entry \cup {None}]
    BY <1>3 DEF StoreInv, TypeOK
  <2>9. callbacks' \in [Keys -> Nat] /\ now' \in Nat /\ UNCHANGED <<tagged, bytes, sets>>
    BY <1>1, <1>3 DEF StoreInv, TypeOK
  <2> QED BY <2>6, <2>7, <2>8, <2>9, SameEntriesKeep
<1> QED BY <1>2, <1>3 DEF Lookup

\* Whatever only the timers and the clock do.
LEMMA ListsKept ==
    ASSUME StoreInv, lru' = lru
    PROVE  lru' \in [Shards -> Seq(Keys)] /\ \A s \in Shards : Holds(lru'[s], Here(s))
BY DEF StoreInv, TypeOK, ShardsInv

LEMMA TimersKeep ==
    ASSUME StoreInv, NEW k \in Keys, TimerExpires(k) \/ TimerCallback(k) \/ Tick
    PROVE  StoreInv'
<1>0. /\ items \in [Keys -> Entry \cup {None}] /\ callbacks \in [Keys -> Nat] /\ now \in Nat
  BY DEF StoreInv, TypeOK
<1>1. CASE TimerExpires(k)
  <2>1. /\ k \in Stored /\ items' = [items EXCEPT ![k].armed = FALSE]
        /\ callbacks' = [callbacks EXCEPT ![k] = @ + 1]
        /\ UNCHANGED <<lru, tagged, bytes, now, sets>>
    BY <1>1 DEF TimerExpires
  <2>2. items[k] \in Entry /\ items[k] # None
    BY <2>1, EntryIs DEF StoreInv
  <2> DEFINE e == [items[k] EXCEPT !.armed = FALSE]
  <2>3. e \in Entry /\ e.size = items[k].size /\ e.tags = items[k].tags
    BY <2>2 DEF Entry
  <2>4. e # None
    BY <2>3, CacheAssumption DEF Entry
  <2>5. items' = [items EXCEPT ![k] = e]
    BY <2>1
  <2> HIDE DEF e
  <2>6. /\ items' \in [Keys -> Entry \cup {None}]
        /\ \A x \in Keys : items'[x] = None <=> items[x] = None
        /\ \A x \in Stored : items'[x].size = items[x].size /\ items'[x].tags = items[x].tags
    BY <1>0, <2>2, <2>3, <2>4, <2>5 DEF Stored
  <2>7. callbacks' \in [Keys -> Nat] /\ now' \in Nat /\ UNCHANGED <<tagged, bytes, sets>>
    BY <1>0, <2>1
  <2>8. lru' \in [Shards -> Seq(Keys)] /\ \A s \in Shards : Holds(lru'[s], Here(s))
    BY <2>1, ListsKept
  <2> QED BY <2>6, <2>7, <2>8, SameEntriesKeep
<1>2. CASE TimerCallback(k)
  <2>1. callbacks' \in [Keys -> Nat] /\ UNCHANGED <<now, sets>>
    BY <1>0, <1>2 DEF TimerCallback
  <2>2. CASE k \in Stored /\ RemoveLocked(k)
    BY <2>1, <2>2, RemoveKeeps
  <2>3. CASE UNCHANGED <<items, lru, tagged, bytes>>
    <3>1. lru' \in [Shards -> Seq(Keys)] /\ \A s \in Shards : Holds(lru'[s], Here(s))
      BY <2>3, ListsKept
    <3>2. items' = items /\ now' \in Nat /\ UNCHANGED <<tagged, bytes, sets>>
      BY <1>0, <2>1, <2>3
    <3> QED BY <1>0, <2>1, <3>1, <3>2, SameEntriesKeep
  <2> QED BY <1>2, <2>2, <2>3 DEF TimerCallback
<1>3. CASE Tick
  <2>1. now' \in Nat /\ UNCHANGED <<items, lru, tagged, bytes, callbacks, sets>>
    BY <1>0, <1>3 DEF Tick
  <2>2. lru' \in [Shards -> Seq(Keys)] /\ \A s \in Shards : Holds(lru'[s], Here(s))
    BY <2>1, ListsKept
  <2> QED BY <1>0, <2>1, <2>2, SameEntriesKeep
<1> QED BY <1>1, <1>2, <1>3

-------------------------------------------------------------------------------
(* Storing an item. *)

\* What is kept of a list that is not empty is within the limits, or the first key.
LEMMA KeptIs ==
    ASSUME NEW S, NEW order \in Seq(S), order # <<>>, NEW total
    PROVE  LET n == Kept(order, total)
           IN  /\ n \in 1..Len(order)
               /\ n = 1 \/ ~OverLimit(n, total - SizeOf(items, Behind(order, n)))
<1> DEFINE D == {1} \cup { n \in DOMAIN order :
                             ~OverLimit(n, total - SizeOf(items, Behind(order, n))) }
<1>1. Len(order) \in Nat \ {0} /\ DOMAIN order = 1..Len(order)
  OBVIOUS
<1>2. D \in SUBSET 0..Len(order) /\ D # {}
  <2>1. 1 \in 0..Len(order)
    BY <1>1
  <2> QED BY <1>1, <2>1
<1>3. Kept(order, total) = Max(D)
  BY DEF Kept
<1> HIDE DEF D
<1>4. Max(D) \in D
  BY <1>1, <1>2, GreatestExists
<1> QED BY <1>1, <1>3, <1>4 DEF D

\* The list, the entries and the sizes of the shard that stores the item.
LEMMA SetIs ==
    ASSUME StoreInv, NEW k \in Keys, NEW tags \in SUBSET Tags, NEW size \in Sizes,
           NEW removeAt \in Nat \cup {Never}, Set(k, tags, size, removeAt)
    PROVE  LET s       == ShardOf[k]
               entry   == [tags |-> tags, size |-> size, removeAt |-> removeAt,
                           armed |-> removeAt # Never]
               order   == ToFront(lru[s], k)
               total   == bytes[s] - SizeOf(items, {k} \cap Stored) + size
               n       == Kept(order, total)
               evicted == Behind(order, n)
           IN  /\ entry \in Entry /\ entry # None
               /\ evicted \subseteq Here(s) \ {k}
               /\ Holds(SubSeq(order, 1, n), (Here(s) \cup {k}) \ evicted)
               /\ Len(SubSeq(order, 1, n)) = n /\ n \in Nat /\ n >= 1
               /\ total - SizeOf(items, evicted)
                    = SizeOf(items, (Here(s) \ {k}) \ evicted) + size
               /\ SizeOf(items, (Here(s) \ {k}) \ evicted) \in Nat
               /\ ~OverLimit(n, total - SizeOf(items, evicted))
<1> DEFINE s       == ShardOf[k]
           entry   == [tags |-> tags, size |-> size, removeAt |-> removeAt,
                       armed |-> removeAt # Never]
           order   == ToFront(lru[s], k)
           total   == bytes[s] - SizeOf(items, {k} \cap Stored) + size
           n       == Kept(order, total)
           evicted == Behind(order, n)
           H       == Here(s)
<1>1. s \in Shards /\ size \in Nat \ {0}
  BY CacheAssumption
<1>2. entry \in Entry /\ entry # None
  <2>1. entry \in Entry
    BY DEF Entry
  <2> QED BY <2>1, CacheAssumption DEF Entry
<1>3. {k} \cap Stored \subseteq H
  BY DEF Here
<1> HIDE DEF s
<1>4. /\ Holds(lru[s], H) /\ Sized(items, H)
      /\ bytes[s] = SizeOf(items, H) /\ bytes[s] \in Nat
  BY <1>1, ShardNumbers DEF StoreInv, ShardsInv
<1> HIDE DEF H
<1>5. Holds(order, H \cup {k}) /\ order[1] = k
  BY <1>4, FrontHolds
<1>6. order \in Seq(H \cup {k}) /\ order # <<>>
  <2>1. order \in Seq(H \cup {k})
    BY <1>5 DEF Holds
  <2>2. order # <<>>
    <3>1. k \in H \cup {k}
      OBVIOUS
    <3>2. \E i \in 1..Len(order) : order[i] = k
      BY <1>5, <3>1 DEF Holds
    <3> QED BY <3>2
  <2> QED BY <2>1, <2>2
<1> HIDE DEF order, total
<1>7. n \in 1..Len(order) /\ (n = 1 \/ ~OverLimit(n, total - SizeOf(items, evicted)))
  BY <1>6, KeptIs
<1> DEFINE prefix == SubSeq(order, 1, n)
           R      == (H \cup {k}) \ evicted
<1> HIDE DEF n
<1>8. /\ Holds(prefix, R) /\ Len(prefix) = n /\ evicted \subseteq H \cup {k}
      /\ k \in R
  BY <1>5, <1>7, PrefixHolds
<1>9. n \in Nat /\ n >= 1
  BY <1>6, <1>7
<1>10. evicted \subseteq H \ {k}
  BY <1>8
<1>11. /\ total - SizeOf(items, evicted) = SizeOf(items, (H \ {k}) \ evicted) + size
       /\ SizeOf(items, (H \ {k}) \ evicted) \in Nat
  <2> HIDE DEF evicted
  <2>1. H \ {k} = H \ ({k} \cap Stored)
    BY DEF H, Here
  <2>2. {k} \cap Stored \in SUBSET H
    BY <1>3 DEF H
  <2>3. /\ SizeOf(items, H \ ({k} \cap Stored)) = SizeOf(items, H) - SizeOf(items, {k} \cap Stored)
        /\ SizeOf(items, {k} \cap Stored) \in Nat /\ SizeOf(items, H) \in Nat
    BY <1>4, <2>2, SizeOfRest
  <2>4. Sized(items, H \ {k})
    <3>1. IsFiniteSet(H \ {k})
      BY <1>4, FS_Subset DEF Sized
    <3> QED BY <1>4, <3>1 DEF Sized
  <2>5. evicted \in SUBSET (H \ {k})
    BY <1>10
  <2>6. /\ SizeOf(items, (H \ {k}) \ evicted) = SizeOf(items, H \ {k}) - SizeOf(items, evicted)
        /\ SizeOf(items, evicted) \in Nat /\ SizeOf(items, H \ {k}) \in Nat
        /\ SizeOf(items, (H \ {k}) \ evicted) \in Nat
    BY <2>4, <2>5, SizeOfRest
  <2>7. total = SizeOf(items, H) - SizeOf(items, {k} \cap Stored) + size
    BY <1>4 DEF total
  <2>8. SizeOf(items, H \ {k}) = SizeOf(items, H) - SizeOf(items, {k} \cap Stored)
    BY <2>1, <2>3
  <2> HIDE DEF H
  <2> QED BY <1>1, <2>3, <2>6, <2>7, <2>8
<1>12. ~OverLimit(n, total - SizeOf(items, evicted))
  <2>1. CASE n = 1
    <3>1. R = {k}
      <4>1. \A x \in R : x = prefix[1]
        <5>1. \A x \in R : \E i \in 1..Len(prefix) : prefix[i] = x
          BY <1>8 DEF Holds
        <5> QED BY <1>8, <2>1, <5>1
      <4> QED BY <1>8, <4>1
    <3>2. (H \ {k}) \ evicted = {}
      BY <3>1
    <3>3. total - SizeOf(items, evicted) = size
      <4>1. SizeOf(items, (H \ {k}) \ evicted) = 0
        BY <3>2, SizeOfNone
      <4> QED BY <1>1, <1>11, <4>1
    <3>4. ShardBytes > 0 => size <= ShardBytes
      BY DEF Set, Acceptable
    <3>5. ~OverLimit(1, size)
      BY <1>1, <3>4, LimitTypes DEF OverLimit
    <3> QED BY <2>1, <3>3, <3>5
  <2>2. CASE n # 1
    BY <1>7, <2>2
  <2> QED BY <2>1, <2>2
<1> QED BY <1>2, <1>8, <1>9, <1>10, <1>11, <1>12 DEF prefix, R, evicted, n, total, order, H, s

LEMMA SetKeeps ==
    ASSUME StoreInv, NEW k \in Keys, NEW tags \in SUBSET Tags, NEW size \in Sizes,
           NEW removeAt \in Nat \cup {Never}, Set(k, tags, size, removeAt)
    PROVE  StoreInv'
<1> DEFINE s       == ShardOf[k]
           entry   == [tags |-> tags, size |-> size, removeAt |-> removeAt,
                       armed |-> removeAt # Never]
           order   == ToFront(lru[s], k)
           total   == bytes[s] - SizeOf(items, {k} \cap Stored) + size
           n       == Kept(order, total)
           evicted == Behind(order, n)
           prefix  == SubSeq(order, 1, n)
           rest    == (Here(s) \ {k}) \ evicted
<1>1. /\ entry \in Entry /\ entry # None
      /\ evicted \subseteq Here(s) \ {k}
      /\ Holds(prefix, (Here(s) \cup {k}) \ evicted)
      /\ Len(prefix) = n /\ n \in Nat /\ n >= 1
      /\ total - SizeOf(items, evicted) = SizeOf(items, rest) + size
      /\ SizeOf(items, rest) \in Nat
      /\ ~OverLimit(n, total - SizeOf(items, evicted))
  BY SetIs
<1>2. /\ items' = [x \in Keys |-> IF x = k THEN entry ELSE IF x \in evicted THEN None ELSE items[x]]
      /\ lru' = [lru EXCEPT ![s] = prefix]
      /\ tagged' = [t \in Tags |->
                      Untagged({k} \cup evicted)[t] \cup (IF t \in tags THEN {k} ELSE {})]
      /\ bytes' = [bytes EXCEPT ![s] = total - SizeOf(items, evicted)]
      /\ sets' = sets + 1
      /\ UNCHANGED <<callbacks, now>>
  BY DEF Set
<1>3. s \in Shards /\ s = ShardOf[k] /\ size \in Nat \ {0}
  BY CacheAssumption
<1>4. entry.size = size /\ entry.tags = tags
  OBVIOUS
<1>5. TypeOK
  BY DEF StoreInv
<1> HIDE DEF s, entry, order, total, n, evicted, prefix
\* The entries.
<1>6. /\ items' \in [Keys -> Entry \cup {None}] /\ items'[k] = entry
      /\ \A x \in evicted : x \in Keys => items'[x] = None
      /\ \A x \in Keys \ ({k} \cup evicted) : items'[x] = items[x]
  <2>1. items \in [Keys -> Entry \cup {None}] /\ k \notin evicted
    BY <1>1, <1>5 DEF TypeOK
  <2> QED BY <1>1, <1>2, <2>1
<1>7. Stored' = (Stored \ evicted) \cup {k}
  BY <1>1, <1>6 DEF Stored
<1>8. \A t \in Shards : Here(t)' = IF t = s THEN (Here(s) \cup {k}) \ evicted ELSE Here(t)
  <2>1. \A t \in Shards : Here(t)' = { x \in Stored' : ShardOf[x] = t }
    BY DEF Here
  <2>2. \A x \in evicted : x \in Stored /\ ShardOf[x] = s /\ x # k
    BY <1>1 DEF Here
  <2> QED BY <1>3, <1>7, <2>1, <2>2 DEF Here
\* The shard's own list and counter.
<1>9. /\ Holds(lru'[s], Here(s)') /\ Len(lru'[s]) = n
      /\ bytes'[s] = SizeOf(items', Here(s)') /\ bytes'[s] \in Nat
      /\ ~OverLimit(Len(lru'[s]), bytes'[s])
  <2>1. Here(s)' = (Here(s) \cup {k}) \ evicted /\ Here(s)' = rest \cup {k} /\ k \notin rest
    BY <1>1, <1>3, <1>8
  <2>2. lru'[s] = prefix /\ bytes'[s] = total - SizeOf(items, evicted)
    BY <1>2, <1>3, <1>5 DEF TypeOK
  <2>3. SizeOf(items', rest \cup {k}) = SizeOf(items, rest) + size
    <3>1. rest \subseteq Stored /\ \A x \in rest : items'[x] = items[x]
      BY <1>6 DEF Here, Stored
    <3>2. Sized(items, rest)
      BY <1>5, <3>1, StoredSized
    <3>3. Sized(items', rest)
      BY <3>1, <3>2 DEF Sized
    <3>4. Sized(items', {k})
      BY <1>3, <1>4, <1>6, FS_Singleton DEF Sized
    <3>5. SizeOf(items', rest) = SizeOf(items, rest)
      BY <3>1, SizeOfSame
    <3>6. SizeOf(items', {k}) = size
      BY <1>3, <1>4, <1>6, SizeOfOne
    <3>7. rest \cap {k} = {}
      BY <2>1
    <3>8. SizeOf(items', rest \cup {k}) = SizeOf(items', rest) + SizeOf(items', {k})
      BY <3>3, <3>4, <3>7, SizeOfBoth
    <3> QED BY <3>5, <3>6, <3>8
  <2>4. SizeOf(items, rest) + size \in Nat
    BY <1>1, <1>3
  <2> HIDE DEF rest
  <2>5. bytes'[s] = SizeOf(items', Here(s)') /\ bytes'[s] \in Nat
    BY <1>1, <2>1, <2>2, <2>3, <2>4
  <2> QED BY <1>1, <2>1, <2>2, <2>5
<1>10. \A t \in Shards \ {s} : lru'[t] = lru[t] /\ bytes'[t] = bytes[t]
  BY <1>2, <1>5 DEF TypeOK
<1>11. ASSUME NEW t \in Shards
       PROVE  /\ Holds(lru'[t], Here(t)')
              /\ bytes'[t] = SizeOf(items', Here(t)') /\ bytes'[t] \in Nat
              /\ ~OverLimit(Len(lru'[t]), bytes'[t])
  <2>1. CASE t = s
    BY <1>9, <2>1
  <2>2. CASE t # s
    <3>1. Here(t)' = Here(t) /\ lru'[t] = lru[t] /\ bytes'[t] = bytes[t]
      BY <1>8, <1>10, <2>2
    <3>2. /\ Holds(lru[t], Here(t)) /\ bytes[t] = SizeOf(items, Here(t)) /\ bytes[t] \in Nat
          /\ ~OverLimit(Len(lru[t]), bytes[t])
      BY ShardNumbers DEF StoreInv, ShardsInv, LimitsKept
    <3>3. \A x \in Here(t) : items'[x] = items[x]
      <4>1. \A x \in Here(t) : x \in Keys /\ ShardOf[x] # s
        BY <2>2 DEF Here, Stored
      <4>2. \A x \in {k} \cup evicted : ShardOf[x] = s
        BY <1>1, <1>3 DEF Here
      <4> QED BY <1>6, <4>1, <4>2
    <3>4. SizeOf(items', Here(t)) = SizeOf(items, Here(t))
      BY <3>3, SizeOfSame
    <3> QED BY <3>1, <3>2, <3>4
  <2> QED BY <2>1, <2>2
<1>12. ShardsInv'
  BY <1>11 DEF ShardsInv
<1>13. LimitsKept'
  <2> SUFFICES ASSUME NEW t \in Shards PROVE ~OverLimit(Len(lru'[t]), bytes'[t])
    BY DEF LimitsKept, OverLimit, ShardCapacity, ShardBytes
  <2> QED BY <1>11
<1>14. TypeOK'
  <2>1. bytes' \in [Shards -> Nat]
    <3>1. bytes' = [t \in Shards |-> bytes'[t]]
      BY <1>2, <1>5 DEF TypeOK
    <3> QED BY <1>11, <3>1
  <2>2. lru' \in [Shards -> Seq(Keys)]
    <3>1. lru' = [t \in Shards |-> lru'[t]]
      BY <1>2, <1>5 DEF TypeOK
    <3>2. \A t \in Shards : Here(t)' \subseteq Keys
      BY DEF Here, Stored
    <3>3. \A t \in Shards : lru'[t] \in Seq(Keys)
      BY <1>11, <3>2, HoldsKeys
    <3> QED BY <3>1, <3>3
  <2>3. tagged' \in [Tags -> SUBSET Keys]
    BY <1>2, <1>5 DEF TypeOK, Untagged
  <2>4. callbacks' \in [Keys -> Nat] /\ now' \in Nat /\ sets' \in Nat
    BY <1>2, <1>5 DEF TypeOK
  <2> QED BY <1>6, <2>1, <2>2, <2>3, <2>4 DEF TypeOK
<1>15. TagIndexExact'
  <2> SUFFICES ASSUME NEW t \in Tags
               PROVE  tagged'[t] = { x \in Stored' : t \in items'[x].tags }
    BY DEF TagIndexExact
  <2>1. tagged'[t] = (tagged[t] \ { x \in ({k} \cup evicted) \cap Stored : t \in items[x].tags })
                     \cup (IF t \in tags THEN {k} ELSE {})
    BY <1>2 DEF Untagged
  <2>2. tagged[t] = { x \in Stored : t \in items[x].tags }
    BY DEF StoreInv, TagIndexExact
  <2>3. tagged'[t] = { x \in Stored \ ({k} \cup evicted) : t \in items[x].tags }
                     \cup (IF t \in tags THEN {k} ELSE {})
    BY <2>1, <2>2
  <2>4. \A x \in Stored \ ({k} \cup evicted) : items'[x] = items[x]
    BY <1>6 DEF Stored
  <2>5. items'[k].tags = tags
    BY <1>4, <1>6
  <2>6. Stored' = (Stored \ ({k} \cup evicted)) \cup {k}
    BY <1>1, <1>7
  <2> HIDE DEF rest
  <2>7. { x \in Stored' : t \in items'[x].tags }
        = { x \in Stored \ ({k} \cup evicted) : t \in items[x].tags }
          \cup (IF t \in tags THEN {k} ELSE {})
    BY <2>4, <2>5, <2>6
  <2> QED BY <2>3, <2>7
<1> QED BY <1>12, <1>13, <1>14, <1>15 DEF StoreInv

-------------------------------------------------------------------------------
LEMMA StoreInitInv == Init => StoreInv
<1> SUFFICES ASSUME Init PROVE StoreInv
  OBVIOUS
<1>1. Stored = {} /\ \A s \in Shards : Here(s) = {}
  BY DEF Init, Stored, Here
<1>2. TypeOK
  BY DEF Init, TypeOK
<1>3. TagIndexExact
  BY <1>1 DEF Init, TagIndexExact
<1>4. ASSUME NEW s \in Shards
      PROVE  /\ Holds(lru[s], Here(s)) /\ bytes[s] = SizeOf(items, Here(s))
             /\ ~OverLimit(Len(lru[s]), bytes[s])
  <2>1. lru[s] = <<>> /\ bytes[s] = 0 /\ Here(s) = {}
    BY <1>1 DEF Init
  <2>2. Holds(<<>>, {})
    BY DEF Holds
  <2>3. ~OverLimit(0, 0)
    BY LimitTypes DEF OverLimit
  <2>4. Len(lru[s]) = 0
    BY <2>1
  <2> QED BY <2>1, <2>2, <2>3, <2>4, SizeOfNone
<1> QED BY <1>2, <1>3, <1>4 DEF StoreInv, ShardsInv, LimitsKept

LEMMA StoreNextInv == StoreInv /\ [Next]_vars => StoreInv'
<1> SUFFICES ASSUME StoreInv, [Next]_vars PROVE StoreInv'
  OBVIOUS
<1>1. ASSUME NEW k \in Keys, NEW tags \in SUBSET Tags, NEW size \in Sizes,
             NEW removeAt \in RemovalTimes, Set(k, tags, size, removeAt)
      PROVE  StoreInv'
  <2>1. removeAt \in Nat \cup {Never}
    BY CacheAssumption DEF RemovalTimes, StoreInv, TypeOK
  <2> QED BY <1>1, <2>1, SetKeeps
<1>2. ASSUME NEW k \in Keys, Lookup(k) PROVE StoreInv'
  BY <1>2, LookupKeeps
<1>3. ASSUME NEW k \in Keys, Delete(k) PROVE StoreInv'
  BY <1>3, RemoveKeeps DEF Delete, StoreInv, TypeOK
<1>4. ASSUME NEW k \in Keys, TimerExpires(k) \/ TimerCallback(k) PROVE StoreInv'
  BY <1>4, TimersKeep
<1>5. CASE Tick
  <2>1. now' \in Nat /\ callbacks' \in [Keys -> Nat] /\ items' \in [Keys -> Entry \cup {None}]
        /\ UNCHANGED <<items, lru, tagged, bytes, callbacks, sets>>
    BY <1>5 DEF Tick, StoreInv, TypeOK
  <2>2. lru' \in [Shards -> Seq(Keys)] /\ \A s \in Shards : Holds(lru'[s], Here(s))
    BY <2>1, ListsKept
  <2> QED BY <2>1, <2>2, SameEntriesKeep
<1>6. CASE UNCHANGED vars
  BY <1>6 DEF vars, StoreInv, TypeOK, TagIndexExact, ShardsInv, LimitsKept, Here, Stored,
              OverLimit, ShardCapacity, ShardBytes
<1> QED BY <1>1, <1>2, <1>3, <1>4, <1>5, <1>6 DEF Next

\* Every variable of the store keeps its type; the byte counters never fall below 0.
THEOREM StoreTypeCorrect == Spec => []TypeOK
<1>1. StoreInv => TypeOK
  BY DEF StoreInv
<1> QED BY <1>1, StoreInitInv, StoreNextInv, PTL DEF Spec

\* An invalidation finds exactly what is stored with its tag (InMemoryCache.Set,
\* removeLocked, KeysForTag).
THEOREM TagIndexIsExact == Spec => []TagIndexExact
<1>1. StoreInv => TagIndexExact
  BY DEF StoreInv
<1> QED BY <1>1, StoreInitInv, StoreNextInv, PTL DEF Spec

\* Nothing is leaked and nothing counted twice (InMemoryCache.Set, removeLocked).
THEOREM AccountsAreExact == Spec => []AccountsExact
<1>1. StoreInv => AccountsExact
  BY HoldsAll DEF StoreInv, ShardsInv, AccountsExact
<1> QED BY <1>1, StoreInitInv, StoreNextInv, PTL DEF Spec

\* No shard outgrows its share of the limits (InMemoryCache.Set, overLimitLocked).
THEOREM LimitsAreKept == Spec => []LimitsKept
<1>1. StoreInv => LimitsKept
  BY DEF StoreInv
<1> QED BY <1>1, StoreInitInv, StoreNextInv, PTL DEF Spec

\* A callback that comes late removes nothing that is not past its own time
\* (InMemoryCache.expirationTimer).
THEOREM OnlyExpiredIsExpired == Spec => OnlyExpiredExpire
<1>1. ASSUME StoreInv, Next, NEW k \in Stored, callbacks'[k] < callbacks[k], items'[k] = None
      PROVE  Expired(k)
  <2>1. k \in Keys /\ callbacks \in [Keys -> Nat] /\ items[k] # None
    BY <1>1 DEF StoreInv, TypeOK, Stored
  <2>2. callbacks' # callbacks
    BY <1>1, <2>1
  <2>3. PICK x \in Keys : TimerExpires(x) \/ TimerCallback(x)
    <3>1. \A x \in Keys : ~Lookup(x) /\ ~Delete(x)
      BY <2>2 DEF Lookup, Delete
    <3>2. ~Tick /\ \A x, tags, size, removeAt : ~Set(x, tags, size, removeAt)
      BY <2>2 DEF Tick, Set
    <3> QED BY <1>1, <3>1, <3>2 DEF Next
  <2>4. CASE TimerExpires(x)
    BY <1>1, <2>1, <2>4 DEF TimerExpires
  <2>5. CASE TimerCallback(x)
    <3>1. callbacks' = [callbacks EXCEPT ![x] = @ - 1]
      BY <2>5 DEF TimerCallback
    <3>2. x = k
      BY <1>1, <2>1, <3>1
    <3>3. items' # items
      BY <1>1, <2>1
    <3> QED BY <2>5, <3>2, <3>3 DEF TimerCallback
  <2> QED BY <2>3, <2>4, <2>5
<1>2. StoreInv /\ [Next]_vars =>
        [\A k \in Stored : (callbacks'[k] < callbacks[k] /\ items'[k] = None) => Expired(k)]_vars
  BY <1>1
<1> QED BY <1>2, StoreInitInv, StoreNextInv, PTL DEF Spec, OnlyExpiredExpire

-------------------------------------------------------------------------------
(* Admission.  Its invariant. *)

MaybeKey == Keys \cup {None}

Calls ==
    [pc : {"idle", "hit", "measure", "set", "touch"}, key : MaybeKey, candidate : Nat,
     victim : MaybeKey, victimFrequency : Nat, polluted : BOOLEAN]

\* Every variable of admission has its type, and who is not idle has a key.
AdmissionTypeOK ==
    /\ counters \in [Rows -> [1..Width -> Nat]]
    /\ ageCounter \in Nat
    /\ window \in Seq(Keys)
    /\ call \in [Callers -> Calls]
    /\ \A c \in Callers : call[c].pc # "idle" => call[c].key \in Keys
    /\ exact \in [Keys -> Nat]
    /\ requests \in [Keys -> Nat]

\* Has the caller's own request for the key been counted?
Counts(c, k) == call[c].pc \in {"measure", "set", "touch"} /\ call[c].key = k

\* Every request under way was counted apart from the others', and apart from the
\* one that brought the key into the window.
RequestsInv ==
    /\ \A k \in ToSet(window) : requests[k] >= 1
    /\ \A c \in Callers, k \in Keys : Counts(c, k) =>
         /\ requests[k] >= 1
         /\ k \in ToSet(window) => requests[k] >= 2
         /\ \A d \in Callers \ {c} : Counts(d, k) => requests[k] >= 2

\* A key alone on its counter is never taken for more frequent than it was.
AloneInv ==
    \A row \in Rows, k \in Keys :
        (\A other \in Keys \ {k} : ~Collide(row, other, k))
            => counters[row][Index[row][k]] <= requests[k]

\* Nor is it measured for more; a frequency of one is any key's.
MeasuredInv ==
    \A c \in Callers :
        /\ call[c].pc = "measure" => call[c].candidate = 1
        /\ call[c].pc = "set" /\ call[c].candidate >= 2 =>
             \A row \in Rows :
                 (\A other \in Keys \ {call[c].key} : ~Collide(row, other, call[c].key))
                     => call[c].candidate <= requests[call[c].key]

AdmissionInv ==
    /\ AdmissionTypeOK
    /\ NeverUnderestimates
    /\ SketchBounded
    /\ RequestsInv
    /\ AloneInv
    /\ MeasuredInv

\* From one increment to the next.
LEMMA NextOfSample ==
    ASSUME NEW a \in Nat, NEW s \in Nat \ {0}
    PROVE  /\ (a + 1) % s = 0 => a % s = s - 1
           /\ (a + 1) % s # 0 => (a + 1) % s = (a % s) + 1
           /\ a % s \in 0..(s - 1)
BY SMTT(60)

LEMMA HalvedType ==
    ASSUME NEW n \in Nat
    PROVE  /\ Halved(n) \in Nat
           /\ Halved(n) <= n
           /\ \A m \in Nat : n <= m => Halved(n) <= Halved(m)
           /\ \A m \in Nat \ {0} : n <= 2 * m => Halved(n) <= m
BY DEF Halved

-------------------------------------------------------------------------------
(* The window. *)

\* What a key is moved to the front of keeps its keys.
LEMMA ToFrontType ==
    ASSUME NEW S, NEW order \in Seq(S), NEW k
    PROVE  /\ Without(order, k) \in Seq(S)
           /\ k \in S => ToFront(order, k) \in Seq(S) /\ ToFront(order, k) # <<>>
<1>1. Without(order, k) \in Seq(S)
  <2>1. CASE k \notin ToSet(order)
    BY <2>1 DEF Without
  <2>2. CASE k \in ToSet(order)
    <3> DEFINE i == Position(order, k)
    <3>1. i \in 1..Len(order)
      BY <2>2 DEF Position, ToSet
    <3> HIDE DEF i
    <3>2. SubSeq(order, 1, i - 1) \in Seq(S) /\ SubSeq(order, i + 1, Len(order)) \in Seq(S)
      BY <3>1
    <3>3. Without(order, k) = SubSeq(order, 1, i - 1) \o SubSeq(order, i + 1, Len(order))
      BY <2>2 DEF Without, RemoveAt, i
    <3> QED BY <3>2, <3>3
  <2> QED BY <2>1, <2>2
<1>2. ASSUME k \in S
      PROVE  ToFront(order, k) \in Seq(S) /\ ToFront(order, k) # <<>>
  BY <1>1, <1>2 DEF ToFront
<1> QED BY <1>1, <1>2

LEMMA TouchedType ==
    ASSUME NEW S, window \in Seq(S), NEW k \in S
    PROVE  Touched(k) \in Seq(S)
<1> DEFINE order == ToFront(window, k)
<1>1. order \in Seq(S) /\ order # <<>>
  BY ToFrontType
<1> HIDE DEF order
<1>2. Front(order) \in Seq(S)
  BY <1>1 DEF Front
<1> QED BY <1>1, <1>2 DEF Touched, order

\* A sequence over a set holds nothing else, and each is one over what it holds.
LEMMA ToSetType ==
    ASSUME NEW S, NEW order \in Seq(S)
    PROVE  /\ ToSet(order) \subseteq S
           /\ order \in Seq(ToSet(order))
BY DEF ToSet

LEMMA TouchedKeys ==
    ASSUME window \in Seq(Keys), NEW k \in Keys
    PROVE  ToSet(Touched(k)) \subseteq ToSet(window) \cup {k}
<1> DEFINE S == ToSet(window) \cup {k}
<1>1. window \in Seq(S)
  BY ToSetType
<1>2. k \in S
  OBVIOUS
<1> HIDE DEF S
<1>3. Touched(k) \in Seq(S)
  BY <1>1, <1>2, TouchedType
<1>4. ToSet(Touched(k)) \subseteq S
  BY <1>3, ToSetType
<1> QED BY <1>4 DEF S

-------------------------------------------------------------------------------
(* Counting and estimating. *)

LEMMA CounterType ==
    ASSUME AdmissionTypeOK, NEW row \in Rows, NEW k \in Keys
    PROVE  counters[row][Index[row][k]] \in Nat
<1>1. Index[row] \in [Keys -> 1..Width]
  BY AdmissionAssumption
<1>2. counters[row] \in [1..Width -> Nat]
  BY DEF AdmissionTypeOK
<1> QED BY <1>1, <1>2

LEMMA EstimateType ==
    ASSUME AdmissionTypeOK, NEW k \in Keys
    PROVE  /\ Estimate(k) \in Nat
           /\ \A row \in Rows : Estimate(k) <= counters[row][Index[row][k]]
<1>1. \A row \in Rows : counters[row][Index[row][k]] \in Nat
  BY CounterType
<1>2. Estimates(k) \in SUBSET Nat /\ Estimates(k) # {}
  BY <1>1, AdmissionAssumption DEF Estimates
<1>3. \E n \in Estimates(k) : \A m \in Estimates(k) : n <= m
  BY <1>2, LeastExists
<1>4. Estimate(k) \in Estimates(k) /\ \A m \in Estimates(k) : Estimate(k) <= m
  BY <1>3 DEF Estimate
<1> QED BY <1>2, <1>4 DEF Estimates

\* A counter after an increment.
LEMMA CountedIs ==
    ASSUME AdmissionTypeOK, NEW k \in Keys, Increment(k), NEW row \in Rows, NEW i \in 1..Width
    PROVE  LET n == IF i = Index[row][k] THEN counters[row][i] + 1 ELSE counters[row][i]
           IN  /\ counters[row][i] \in Nat
               /\ counters'[row][i] = IF Aged THEN Halved(n) ELSE n
               /\ counters'[row][i] \in Nat
<1> DEFINE n == IF i = Index[row][k] THEN counters[row][i] + 1 ELSE counters[row][i]
<1>1. counters[row][i] \in Nat
  BY DEF AdmissionTypeOK
<1>2. counters'[row] = Counted(counters[row], row, k) /\ n \in Nat
  BY <1>1 DEF Increment
<1>3. counters'[row][i] = IF Aged THEN Halved(n) ELSE n
  BY <1>2 DEF Counted
<1>4. Halved(n) \in Nat
  BY <1>2, HalvedType
<1> QED BY <1>1, <1>2, <1>3, <1>4

LEMMA ExactIs ==
    ASSUME AdmissionTypeOK, NEW k \in Keys, Increment(k), NEW x \in Keys
    PROVE  LET n == IF x = k THEN exact[x] + 1 ELSE exact[x]
           IN  /\ exact[x] \in Nat
               /\ exact'[x] = IF Aged THEN Halved(n) ELSE n
               /\ exact'[x] \in Nat
<1>1. exact[x] \in Nat
  BY DEF AdmissionTypeOK
<1> QED BY <1>1, HalvedType DEF Increment

LEMMA IncrementTypes ==
    ASSUME AdmissionTypeOK, NEW k \in Keys, Increment(k)
    PROVE  /\ counters' \in [Rows -> [1..Width -> Nat]]
           /\ ageCounter' \in Nat
           /\ exact' \in [Keys -> Nat]
           /\ requests' \in [Keys -> Nat]
           /\ \A x \in Keys : requests'[x] >= requests[x]
           /\ requests'[k] = requests[k] + 1
<1>1. counters' \in [Rows -> [1..Width -> Nat]]
  <2>1. \A row \in Rows : counters'[row] = Counted(counters[row], row, k)
    BY DEF Increment
  <2>2. \A row \in Rows : DOMAIN counters'[row] = 1..Width
    BY <2>1 DEF Counted
  <2>3. ASSUME NEW row \in Rows PROVE counters'[row] \in [1..Width -> Nat]
    <3>1. \A i \in 1..Width : counters'[row][i] \in Nat
      BY CountedIs
    <3>2. counters'[row] = [i \in 1..Width |-> counters'[row][i]]
      BY <2>1 DEF Counted
    <3> QED BY <3>1, <3>2
  <2> QED BY <2>3 DEF Increment
<1>2. exact' \in [Keys -> Nat]
  BY ExactIs DEF Increment
<1>3. /\ ageCounter' \in Nat
      /\ requests' \in [Keys -> Nat]
      /\ \A x \in Keys : requests'[x] >= requests[x]
      /\ requests'[k] = requests[k] + 1
  BY DEF Increment, AdmissionTypeOK
<1> QED BY <1>1, <1>2, <1>3

\* The key's own share and its counters are raised and halved together.
LEMMA IncrementNeverUnderestimates ==
    ASSUME AdmissionTypeOK, NeverUnderestimates, NEW k \in Keys, Increment(k)
    PROVE  NeverUnderestimates'
<1> SUFFICES ASSUME NEW row \in Rows, NEW x \in Keys
             PROVE  exact'[x] <= counters'[row][Index[row][x]]
  BY DEF NeverUnderestimates
<1> DEFINE i == Index[row][x]
           n == IF i = Index[row][k] THEN counters[row][i] + 1 ELSE counters[row][i]
           m == IF x = k THEN exact[x] + 1 ELSE exact[x]
<1>1. i \in 1..Width
  BY AdmissionAssumption
<1>2. counters'[row][i] = IF Aged THEN Halved(n) ELSE n
  BY <1>1, CountedIs
<1>3. exact'[x] = IF Aged THEN Halved(m) ELSE m
  BY ExactIs
<1>4. exact[x] \in Nat /\ counters[row][i] \in Nat /\ exact[x] <= counters[row][i]
  BY <1>1, CountedIs, ExactIs DEF NeverUnderestimates
<1>5. m \in Nat /\ n \in Nat /\ m <= n
  BY <1>4
<1>6. Halved(m) <= Halved(n)
  BY <1>5, HalvedType
<1> QED BY <1>2, <1>3, <1>5, <1>6

\* Halving brings a counter down to the sample; until the next one it grows by one
\* with each increment at most.
LEMMA IncrementSketchBounded ==
    ASSUME AdmissionTypeOK, SketchBounded, NEW k \in Keys, Increment(k)
    PROVE  SketchBounded'
<1> SUFFICES ASSUME NEW row \in Rows, NEW i \in 1..Width
             PROVE  counters'[row][i] <= Sample + (ageCounter' % Sample)
  BY DEF SketchBounded
<1> DEFINE n == IF i = Index[row][k] THEN counters[row][i] + 1 ELSE counters[row][i]
<1>1. /\ counters[row][i] \in Nat
      /\ counters'[row][i] = IF Aged THEN Halved(n) ELSE n
  BY CountedIs
<1>2. /\ Sample \in Nat \ {0}
      /\ ageCounter \in Nat
      /\ ageCounter' = ageCounter + 1
      /\ counters[row][i] <= Sample + (ageCounter % Sample)
  BY AdmissionAssumption DEF AdmissionTypeOK, Increment, SketchBounded
<1>3. /\ (ageCounter + 1) % Sample = 0 => ageCounter % Sample = Sample - 1
      /\ (ageCounter + 1) % Sample # 0 => (ageCounter + 1) % Sample = (ageCounter % Sample) + 1
      /\ ageCounter % Sample \in 0..(Sample - 1)
  BY <1>2, NextOfSample
<1>4. n \in Nat /\ n <= Sample + (ageCounter % Sample) + 1
  BY <1>1, <1>2, <1>3
<1>5. CASE Aged
  <2>1. n <= 2 * Sample
    BY <1>2, <1>3, <1>4, <1>5 DEF Aged
  <2>2. Halved(n) <= Sample
    BY <2>1, <1>2, <1>4, HalvedType
  <2>3. ageCounter' % Sample = 0
    BY <1>2, <1>5 DEF Aged
  <2> QED BY <1>1, <1>2, <1>5, <2>2, <2>3
<1>6. CASE ~Aged
  BY <1>1, <1>2, <1>3, <1>4, <1>6 DEF Aged
<1> QED BY <1>5, <1>6

LEMMA IncrementAlone ==
    ASSUME AdmissionTypeOK, AloneInv, NEW k \in Keys, Increment(k)
    PROVE  AloneInv'
<1> SUFFICES ASSUME NEW row \in Rows, NEW x \in Keys,
                    \A other \in Keys \ {x} : ~Collide(row, other, x)
             PROVE  counters'[row][Index[row][x]] <= requests'[x]
  BY DEF AloneInv, Collide
<1> DEFINE i == Index[row][x]
           n == IF i = Index[row][k] THEN counters[row][i] + 1 ELSE counters[row][i]
<1>1. i \in 1..Width
  BY AdmissionAssumption
<1>2. /\ counters[row][i] \in Nat
      /\ counters'[row][i] = IF Aged THEN Halved(n) ELSE n
  BY <1>1, CountedIs
<1>3. counters[row][i] <= requests[x]
  BY DEF AloneInv
<1>4. i = Index[row][k] => x = k
  BY DEF Collide
<1>5. /\ requests[x] \in Nat /\ requests'[x] \in Nat
      /\ requests'[x] >= requests[x]
      /\ requests'[k] = requests[k] + 1
  BY IncrementTypes DEF AdmissionTypeOK
<1>6. n \in Nat /\ n <= requests'[x]
  BY <1>2, <1>3, <1>4, <1>5
<1>7. Halved(n) \in Nat /\ Halved(n) <= n
  BY <1>6, HalvedType
<1> QED BY <1>2, <1>5, <1>6, <1>7

\* Nothing of this is disturbed by a step that counts nothing.
LEMMA SketchKept ==
    ASSUME NeverUnderestimates, SketchBounded, AloneInv, UNCHANGED sketch
    PROVE  NeverUnderestimates' /\ SketchBounded' /\ AloneInv'
BY DEF NeverUnderestimates, SketchBounded, AloneInv, sketch, Collide

-------------------------------------------------------------------------------
(* The steps that count. *)

\* The next step of a caller that has been counted.
LEMMA CountingKeeps ==
    ASSUME AdmissionInv, NEW c \in Callers, NEW k \in Keys, Increment(k),
           NEW m \in Calls, m.pc \in {"measure", "touch"}, m.key = k,
           m.pc = "measure" => m.candidate = 1,
           call' = [call EXCEPT ![c] = m], ~Counts(c, k), window' = window
    PROVE  AdmissionInv'
<1>1. /\ \A x \in Keys : requests[x] \in Nat /\ requests'[x] \in Nat
      /\ \A x \in Keys : requests'[x] >= requests[x]
      /\ requests'[k] = requests[k] + 1
  BY IncrementTypes DEF AdmissionInv, AdmissionTypeOK
<1>2. AdmissionTypeOK'
  <2>1. call' \in [Callers -> Calls]
    BY DEF AdmissionInv, AdmissionTypeOK
  <2>2. \A d \in Callers : call'[d].pc # "idle" => call'[d].key \in Keys
    BY DEF AdmissionInv, AdmissionTypeOK
  <2> QED BY <2>1, <2>2, IncrementTypes DEF AdmissionInv, AdmissionTypeOK
<1>3. NeverUnderestimates' /\ SketchBounded' /\ AloneInv'
  BY IncrementNeverUnderestimates, IncrementSketchBounded, IncrementAlone DEF AdmissionInv
<1>4. \A d \in Callers : call'[d] = IF d = c THEN m ELSE call[d]
  BY DEF AdmissionInv, AdmissionTypeOK
<1>5. RequestsInv'
  <2>1. ToSet(window') = ToSet(window) /\ ToSet(window) \subseteq Keys
    BY ToSetType DEF AdmissionInv, AdmissionTypeOK
  <2>2. \A x \in ToSet(window') : requests'[x] >= 1
    BY <1>1, <2>1 DEF AdmissionInv, RequestsInv
  <2>3. ASSUME NEW d \in Callers, NEW x \in Keys, Counts(d, x)'
        PROVE  /\ requests'[x] >= 1
               /\ x \in ToSet(window') => requests'[x] >= 2
               /\ \A e \in Callers \ {d} : Counts(e, x)' => requests'[x] >= 2
    <3>1. CASE d = c
      <4>1. x = k
        BY <1>4, <2>3, <3>1 DEF Counts
      <4>2. \A e \in Callers \ {d} : Counts(e, x)' => Counts(e, x)
        BY <1>4, <3>1 DEF Counts
      <4> QED BY <1>1, <2>1, <4>1, <4>2 DEF AdmissionInv, RequestsInv
    <3>2. CASE d # c
      <4>1. Counts(d, x)
        BY <1>4, <2>3, <3>2 DEF Counts
      <4>2. \A e \in Callers \ {c} : Counts(e, x)' => Counts(e, x)
        BY <1>4 DEF Counts
      <4>3. Counts(c, x)' => x = k
        BY <1>4 DEF Counts
      <4> QED BY <1>1, <2>1, <4>1, <4>2, <4>3 DEF AdmissionInv, RequestsInv
    <3> QED BY <3>1, <3>2
  <2> QED BY <2>2, <2>3 DEF RequestsInv
<1>6. MeasuredInv'
  <2> SUFFICES ASSUME NEW d \in Callers
               PROVE  /\ call'[d].pc = "measure" => call'[d].candidate = 1
                      /\ call'[d].pc = "set" /\ call'[d].candidate >= 2 =>
                           \A row \in Rows :
                             (\A other \in Keys \ {call'[d].key} : ~Collide(row, other, call'[d].key))
                               => call'[d].candidate <= requests'[call'[d].key]
    BY DEF MeasuredInv, Collide
  <2>1. CASE d = c
    BY <1>4, <2>1
  <2>2. CASE d # c
    <3>1. call'[d] = call[d] /\ call[d] \in Calls
      BY <1>4, <2>2 DEF AdmissionInv, AdmissionTypeOK
    <3>2. call[d].pc = "set" => call[d].key \in Keys
      BY DEF AdmissionInv, AdmissionTypeOK
    <3>3. call[d].candidate \in Nat
      BY <3>1 DEF Calls
    <3> QED BY <1>1, <3>1, <3>2, <3>3 DEF AdmissionInv, MeasuredInv
  <2> QED BY <2>1, <2>2
<1> QED BY <1>2, <1>3, <1>5, <1>6 DEF AdmissionInv

LEMMA CountHitKeeps ==
    ASSUME AdmissionInv, NEW c \in Callers, CountHit(c)
    PROVE  AdmissionInv'
<1> DEFINE m == [call[c] EXCEPT !.pc = "touch"]
<1>1. call[c] \in Calls /\ call[c].pc = "hit" /\ call[c].key \in Keys
  BY DEF AdmissionInv, AdmissionTypeOK, CountHit, At
<1>2. m \in Calls /\ m.pc = "touch" /\ m.key = call[c].key
  BY <1>1 DEF Calls
<1>3. call' = [call EXCEPT ![c] = m]
  BY DEF CountHit
<1>4. ~Counts(c, call[c].key)
  BY <1>1 DEF Counts
<1>5. Increment(call[c].key) /\ window' = window
  BY DEF CountHit
<1> HIDE DEF m
<1> QED BY <1>1, <1>2, <1>3, <1>4, <1>5, CountingKeeps

LEMMA CountFetchKeeps ==
    ASSUME AdmissionInv, NEW c \in Callers, NEW k \in Keys, CountFetch(c, k)
    PROVE  AdmissionInv'
<1> DEFINE m == [Idle EXCEPT !.pc = "measure", !.key = k]
<1>1. m \in Calls /\ m.pc = "measure" /\ m.key = k /\ m.candidate = 1
  BY DEF Calls, Idle, MaybeKey
<1>2. call' = [call EXCEPT ![c] = m]
  BY DEF CountFetch
<1>3. ~Counts(c, k)
  BY DEF Counts, CountFetch, At
<1>4. Increment(k) /\ window' = window
  BY DEF CountFetch
<1> HIDE DEF m
<1> QED BY <1>1, <1>2, <1>3, <1>4, CountingKeeps

-------------------------------------------------------------------------------
(* The steps that count nothing. *)

\* A step by which nobody comes to have been counted and whose measurement, if it
\* is one, is right.
LEMMA QuietKeeps ==
    ASSUME AdmissionInv, AdmissionTypeOK', MeasuredInv', UNCHANGED sketch,
           \A k \in ToSet(window)' : k \in ToSet(window),
           \A c \in Callers, k \in Keys : Counts(c, k)' => Counts(c, k)
    PROVE  AdmissionInv'
<1>1. RequestsInv'
  <2>1. requests' = requests
    BY DEF sketch
  <2> QED BY <2>1 DEF AdmissionInv, RequestsInv
<1> QED BY <1>1, SketchKept DEF AdmissionInv

\* Whatever becomes of the item, its caller goes on to touch the window.
LEMMA GoesOnKeeps ==
    ASSUME AdmissionInv, NEW c \in Callers, call[c].pc = "set",
           call' = [call EXCEPT ![c].pc = "touch"], UNCHANGED <<sketch, window>>
    PROVE  AdmissionInv'
<1>1. call[c] \in Calls /\ call[c].key \in Keys
  BY DEF AdmissionInv, AdmissionTypeOK
<1>2. call'[c] = [call[c] EXCEPT !.pc = "touch"] /\ \A d \in Callers \ {c} : call'[d] = call[d]
  BY DEF AdmissionInv, AdmissionTypeOK
<1>3. call'[c] \in Calls /\ call'[c].pc = "touch" /\ call'[c].key = call[c].key
  BY <1>1, <1>2 DEF Calls
<1>4. AdmissionTypeOK'
  <2>1. call' \in [Callers -> Calls]
    BY <1>3 DEF AdmissionInv, AdmissionTypeOK
  <2>2. \A d \in Callers : call'[d].pc # "idle" => call'[d].key \in Keys
    BY <1>1, <1>2, <1>3 DEF AdmissionInv, AdmissionTypeOK
  <2> QED BY <2>1, <2>2 DEF AdmissionInv, AdmissionTypeOK, sketch
<1>5. MeasuredInv'
  BY <1>2, <1>3 DEF AdmissionInv, MeasuredInv, Collide, sketch
<1>6. \A d \in Callers, k \in Keys : Counts(d, k)' => Counts(d, k)
  BY <1>2, <1>3 DEF Counts
<1> QED BY <1>4, <1>5, <1>6, QuietKeeps

LEMMA StoreKeeps ==
    ASSUME AdmissionInv, NEW c \in Callers, StoreFits(c) \/ StoreEvicts(c) \/ Refuse(c)
    PROVE  AdmissionInv'
<1>1. /\ call[c].pc = "set"
      /\ call' = [call EXCEPT ![c].pc = "touch"]
      /\ UNCHANGED <<sketch, window>>
  BY DEF StoreFits, StoreEvicts, StoreItem, Refuse, At
<1> QED BY <1>1, GoesOnKeeps

\* The store's own steps.
LEMMA ApartKeeps ==
    ASSUME AdmissionInv, UNCHANGED <<sketch, window, call>>
    PROVE  AdmissionInv'
<1>1. AdmissionTypeOK' /\ MeasuredInv'
  BY DEF AdmissionInv, AdmissionTypeOK, MeasuredInv, Collide, sketch
<1> QED BY <1>1, QuietKeeps DEF Counts

LEMMA HitKeeps ==
    ASSUME AdmissionInv, NEW c \in Callers, NEW k \in Keys, Hit(c, k)
    PROVE  AdmissionInv'
<1> DEFINE m == [Idle EXCEPT !.pc = "hit", !.key = k]
<1>1. m \in Calls /\ m.pc = "hit" /\ m.key = k
  BY DEF Calls, Idle, MaybeKey
<1>2. call' = [call EXCEPT ![c] = m] /\ UNCHANGED <<sketch, window>>
  BY DEF Hit
<1> HIDE DEF m
<1>3. \A d \in Callers : call'[d] = IF d = c THEN m ELSE call[d]
  BY <1>2 DEF AdmissionInv, AdmissionTypeOK
<1>5. AdmissionTypeOK'
  <2>1. call' \in [Callers -> Calls]
    BY <1>1, <1>2 DEF AdmissionInv, AdmissionTypeOK
  <2>2. \A d \in Callers : call'[d].pc # "idle" => call'[d].key \in Keys
    BY <1>1, <1>3 DEF AdmissionInv, AdmissionTypeOK
  <2> QED BY <1>2, <2>1, <2>2 DEF AdmissionInv, AdmissionTypeOK, sketch
<1>6. MeasuredInv'
  BY <1>1, <1>2, <1>3 DEF AdmissionInv, MeasuredInv, Collide, sketch
<1>7. \A d \in Callers, x \in Keys : Counts(d, x)' => Counts(d, x)
  BY <1>1, <1>3 DEF Counts
<1> QED BY <1>2, <1>5, <1>6, <1>7, QuietKeeps

\* What is measured of a key alone on a counter is at most that counter.
LEMMA MeasureKeeps ==
    ASSUME AdmissionInv, TypeOK, NEW c \in Callers, Measure(c)
    PROVE  AdmissionInv'
<1> DEFINE k == call[c].key
<1>1. call[c] \in Calls /\ k \in Keys /\ call[c].pc = "measure" /\ call[c].candidate = 1
  BY DEF AdmissionInv, AdmissionTypeOK, MeasuredInv, Measure, At
<1> DEFINE v == Victim(k)
<1>2. v \in MaybeKey
  <2> DEFINE list == lru[ShardOf[k]]
  <2>1. list \in Seq(Keys)
    BY <1>1, CacheAssumption DEF TypeOK
  <2> HIDE DEF list
  <2>2. list # <<>> => list[Len(list)] \in Keys
    BY <2>1
  <2>3. v = IF list = <<>> THEN None ELSE list[Len(list)]
    BY DEF Victim, Last, list
  <2> QED BY <2>2, <2>3 DEF MaybeKey
<1>3. Estimate(k) \in Nat /\ \A row \in Rows : Estimate(k) <= counters[row][Index[row][k]]
  BY <1>1, EstimateType DEF AdmissionInv
<1>4. v # None => Estimate(v) \in Nat
  BY <1>2, EstimateType DEF AdmissionInv, MaybeKey
<1> DEFINE measured == [call[c] EXCEPT !.pc = "set", !.candidate = Estimate(k), !.victim = v,
                                       !.victimFrequency = IF v = None THEN 0 ELSE Estimate(v),
                                       !.polluted = v # None /\ Pollutes(Estimate(k), Estimate(v))]
           content == [call[c] EXCEPT !.pc = "set"]
           m == IF Cardinality(Stored) < Capacity \div 2 THEN content ELSE measured
<1>5. /\ call' = [call EXCEPT ![c] = m]
      /\ UNCHANGED <<sketch, window>>
  BY DEF Measure
<1>6. /\ m \in Calls /\ m.pc = "set" /\ m.key = k
      /\ m.candidate = 1 \/ m.candidate = Estimate(k)
  <2>1. content \in Calls /\ content.pc = "set" /\ content.key = k /\ content.candidate = 1
    BY <1>1 DEF Calls
  <2>2. /\ measured \in Calls /\ measured.pc = "set" /\ measured.key = k
        /\ measured.candidate = Estimate(k)
    <3>1. (v # None /\ Pollutes(Estimate(k), Estimate(v))) \in BOOLEAN
      OBVIOUS
    <3>2. (IF v = None THEN 0 ELSE Estimate(v)) \in Nat
      BY <1>4
    <3> QED BY <1>1, <1>2, <1>3, <3>1, <3>2 DEF Calls
  <2> HIDE DEF content, measured
  <2> QED BY <2>1, <2>2
<1> HIDE DEF m
<1>7. \A d \in Callers : call'[d] = IF d = c THEN m ELSE call[d]
  BY <1>5 DEF AdmissionInv, AdmissionTypeOK
<1>8. AdmissionTypeOK'
  <2>1. call' \in [Callers -> Calls]
    BY <1>5, <1>6 DEF AdmissionInv, AdmissionTypeOK
  <2>2. \A d \in Callers : call'[d].pc # "idle" => call'[d].key \in Keys
    BY <1>1, <1>6, <1>7 DEF AdmissionInv, AdmissionTypeOK
  <2> QED BY <1>5, <2>1, <2>2 DEF AdmissionInv, AdmissionTypeOK, sketch
<1>9. MeasuredInv'
  <2> SUFFICES ASSUME NEW d \in Callers
               PROVE  /\ call'[d].pc = "measure" => call'[d].candidate = 1
                      /\ call'[d].pc = "set" /\ call'[d].candidate >= 2 =>
                           \A row \in Rows :
                             (\A other \in Keys \ {call'[d].key} : ~Collide(row, other, call'[d].key))
                               => call'[d].candidate <= requests'[call'[d].key]
    BY DEF MeasuredInv, Collide
  <2>1. requests' = requests /\ requests[k] \in Nat
    BY <1>1, <1>5 DEF AdmissionInv, AdmissionTypeOK, sketch
  <2>2. CASE d = c
    <3>1. call'[d] = m
      BY <1>7, <2>2
    <3>2. ASSUME NEW row \in Rows, \A other \in Keys \ {k} : ~Collide(row, other, k)
          PROVE  Estimate(k) <= requests[k]
      <4>1. counters[row][Index[row][k]] <= requests[k]
        BY <1>1, <3>2 DEF AdmissionInv, AloneInv
      <4> HIDE DEF k
      <4>2. counters[row][Index[row][k]] \in Nat
        BY <1>1, CounterType DEF AdmissionInv
      <4> QED BY <1>3, <2>1, <4>1, <4>2
    <3> HIDE DEF k
    <3> QED BY <1>6, <2>1, <3>1, <3>2
  <2>3. CASE d # c
    BY <1>7, <2>1, <2>3 DEF AdmissionInv, MeasuredInv
  <2> QED BY <2>2, <2>3
<1>10. \A d \in Callers, x \in Keys : Counts(d, x)' => Counts(d, x)
  BY <1>1, <1>6, <1>7 DEF Counts
<1> QED BY <1>5, <1>8, <1>9, <1>10, QuietKeeps

LEMMA TouchKeeps ==
    ASSUME AdmissionInv, NEW c \in Callers, Touch(c)
    PROVE  AdmissionInv'
<1> DEFINE k == call[c].key
<1>1. call[c].pc = "touch" /\ k \in Keys /\ Counts(c, k)
  BY DEF AdmissionInv, AdmissionTypeOK, Touch, At, Counts
<1>2. /\ window' = Touched(k)
      /\ call' = [call EXCEPT ![c] = Idle]
      /\ UNCHANGED sketch
  BY DEF Touch
<1>3. \A d \in Callers : call'[d] = IF d = c THEN Idle ELSE call[d]
  BY <1>2 DEF AdmissionInv, AdmissionTypeOK
<1>4. window' \in Seq(Keys) /\ ToSet(window') \subseteq ToSet(window) \cup {k}
  BY <1>1, <1>2, TouchedType, TouchedKeys DEF AdmissionInv, AdmissionTypeOK
<1>5. Idle \in Calls /\ Idle.pc = "idle"
  BY DEF Idle, Calls, MaybeKey
<1>6. AdmissionTypeOK'
  <2>1. call' \in [Callers -> Calls]
    BY <1>2, <1>5 DEF AdmissionInv, AdmissionTypeOK
  <2>2. \A d \in Callers : call'[d].pc # "idle" => call'[d].key \in Keys
    BY <1>3, <1>5 DEF AdmissionInv, AdmissionTypeOK
  <2> QED BY <1>2, <1>4, <2>1, <2>2 DEF AdmissionInv, AdmissionTypeOK, sketch
<1>7. MeasuredInv'
  BY <1>2, <1>3, <1>5 DEF AdmissionInv, MeasuredInv, Collide, sketch
<1>8. RequestsInv'
  <2>1. requests' = requests
    BY <1>2 DEF sketch
  <2>2. \A x \in ToSet(window') : requests'[x] >= 1
    BY <1>1, <1>4, <2>1 DEF AdmissionInv, RequestsInv
  <2>3. \A d \in Callers, x \in Keys : Counts(d, x)' => d # c /\ Counts(d, x)
    BY <1>3, <1>5 DEF Counts
  <2>4. ASSUME NEW d \in Callers, NEW x \in Keys, Counts(d, x)'
        PROVE  x \in ToSet(window') => requests'[x] >= 2
    <3>1. CASE x = k
      BY <1>1, <2>1, <2>3, <2>4, <3>1 DEF AdmissionInv, RequestsInv
    <3>2. CASE x # k
      BY <1>4, <2>1, <2>3, <2>4, <3>2 DEF AdmissionInv, RequestsInv
    <3> QED BY <3>1, <3>2
  <2> QED BY <2>1, <2>2, <2>3, <2>4 DEF AdmissionInv, RequestsInv
<1> QED BY <1>2, <1>6, <1>7, <1>8, SketchKept DEF AdmissionInv

-------------------------------------------------------------------------------
(* The store and admission together. *)

IInv == StoreInv /\ AdmissionInv

\* What admission does with the store is what the store does.
LEMMA StoreStep == IInv /\ [AdmissionNext]_admissionVars => [Next]_vars
<1> SUFFICES ASSUME IInv, [AdmissionNext]_admissionVars PROVE [Next]_vars
  OBVIOUS
<1>1. ASSUME NEW c \in Callers, NEW k \in Keys, Hit(c, k) PROVE Next
  BY <1>1 DEF Hit, Next
<1>2. ASSUME NEW c \in Callers, StoreFits(c) \/ StoreEvicts(c) PROVE Next
  <2>1. call[c].key \in Keys
    BY <1>2 DEF IInv, AdmissionInv, AdmissionTypeOK, StoreFits, StoreEvicts, At
  <2>2. Size[call[c].key] \in Sizes
    BY <2>1, AdmissionAssumption
  <2> QED BY <1>2, <2>1, <2>2 DEF StoreFits, StoreEvicts, StoreItem, Next
<1>3. CASE Apart
  BY <1>3 DEF Apart, Next
<1>4. ASSUME NEW c \in Callers,
             CountHit(c) \/ (\E k \in Keys : CountFetch(c, k)) \/ Measure(c) \/ Refuse(c) \/ Touch(c)
      PROVE  UNCHANGED vars
  BY <1>4 DEF CountHit, CountFetch, Measure, Refuse, Touch
<1>5. CASE UNCHANGED admissionVars
  BY <1>5 DEF admissionVars
<1> QED BY <1>1, <1>2, <1>3, <1>4, <1>5 DEF AdmissionNext

LEMMA InitInv == AdmissionInit => IInv
<1> SUFFICES ASSUME AdmissionInit PROVE IInv
  OBVIOUS
<1>1. Idle \in Calls
  BY DEF Idle, Calls, MaybeKey
<1>2. AdmissionTypeOK
  BY <1>1 DEF AdmissionInit, AdmissionTypeOK, Idle
<1>3. NeverUnderestimates /\ AloneInv
  BY AdmissionAssumption DEF AdmissionInit, NeverUnderestimates, AloneInv
<1>4. SketchBounded
  <2>1. Sample + (ageCounter % Sample) >= 0
    BY <1>2, NextOfSample, AdmissionAssumption DEF AdmissionTypeOK
  <2> QED BY <2>1 DEF AdmissionInit, SketchBounded
<1>5. RequestsInv /\ MeasuredInv
  BY DEF AdmissionInit, RequestsInv, MeasuredInv, Counts, Idle, ToSet
<1>6. StoreInv
  BY StoreInitInv DEF AdmissionInit
<1> QED BY <1>2, <1>3, <1>4, <1>5, <1>6 DEF IInv, AdmissionInv

LEMMA NextInv == IInv /\ [AdmissionNext]_admissionVars => IInv'
<1> SUFFICES ASSUME IInv, [AdmissionNext]_admissionVars PROVE IInv'
  OBVIOUS
<1>0. StoreInv'
  BY StoreStep, StoreNextInv DEF IInv
<1>1. AdmissionInv /\ TypeOK
  BY DEF IInv, StoreInv
<1>2. ASSUME NEW c \in Callers, NEW k \in Keys, Hit(c, k) \/ CountFetch(c, k)
      PROVE  AdmissionInv'
  BY <1>1, <1>2, HitKeeps, CountFetchKeeps
<1>3. ASSUME NEW c \in Callers, CountHit(c) PROVE AdmissionInv'
  BY <1>1, <1>3, CountHitKeeps
<1>4. ASSUME NEW c \in Callers, Measure(c) PROVE AdmissionInv'
  BY <1>1, <1>4, MeasureKeeps
<1>5. ASSUME NEW c \in Callers, StoreFits(c) \/ StoreEvicts(c) \/ Refuse(c) PROVE AdmissionInv'
  BY <1>1, <1>5, StoreKeeps
<1>6. ASSUME NEW c \in Callers, Touch(c) PROVE AdmissionInv'
  BY <1>1, <1>6, TouchKeeps
<1>7. CASE UNCHANGED <<sketch, window, call>>
  BY <1>0, <1>1, <1>7, ApartKeeps DEF IInv
<1>8. Apart \/ UNCHANGED admissionVars => UNCHANGED <<sketch, window, call>>
  BY DEF Apart, admissionVars
<1> QED BY <1>0, <1>2, <1>3, <1>4, <1>5, <1>6, <1>7, <1>8 DEF AdmissionNext, IInv

\* Whatever is admitted or refused, the store is used as it is meant to be: what is
\* proved of every behaviour of the store holds under the requests.
THEOREM StoreImplemented == AdmissionSpec => Spec
<1>1. AdmissionInit => Init
  BY DEF AdmissionInit
<1> QED BY <1>1, InitInv, NextInv, StoreStep, PTL DEF AdmissionSpec, Spec

\* Every variable of admission keeps its type: its steps are defined wherever they
\* are taken, whatever the keys, limits and collisions.
THEOREM AdmissionTypeCorrect == AdmissionSpec => []AdmissionTypeOK
<1>1. IInv => AdmissionTypeOK
  BY DEF IInv, AdmissionInv
<1> QED BY <1>1, InitInv, NextInv, PTL DEF AdmissionSpec

\* The sketch errs on one side only (CountMinSketch.Increment, age, Estimate).
THEOREM Underestimation == AdmissionSpec => []NeverUnderestimates
<1>1. IInv => NeverUnderestimates
  BY DEF IInv, AdmissionInv
<1> QED BY <1>1, InitInv, NextInv, PTL DEF AdmissionSpec

\* No counter fills its 32 bits while the sample is less than 2^31
\* (CountMinSketch.age).
THEOREM Boundedness == AdmissionSpec => []SketchBounded
<1>1. IInv => SketchBounded
  BY DEF IInv, AdmissionInv
<1> QED BY <1>1, InitInv, NextInv, PTL DEF AdmissionSpec

-------------------------------------------------------------------------------
(* Who pushes out whom. *)

\* What fits by wouldOverflowLocked costs no other item its place: the loop of Set
\* removes nothing.
LEMMA FitsLosesNothing ==
    ASSUME StoreInv, NEW k \in Keys, Fits(k), NEW tags, NEW removeAt,
           Set(k, tags, Size[k], removeAt), Size[k] \in Nat,
           [tags |-> tags, size |-> Size[k], removeAt |-> removeAt,
            armed |-> removeAt # Never] # None
    PROVE  Stored \subseteq Stored'
<1> DEFINE s     == ShardOf[k]
           entry == [tags |-> tags, size |-> Size[k], removeAt |-> removeAt,
                     armed |-> removeAt # Never]
           order == ToFront(lru[s], k)
           total == bytes[s] - SizeOf(items, {k} \cap Stored) + Size[k]
           D     == {1} \cup { n \in DOMAIN order :
                               ~OverLimit(n, total - SizeOf(items, Behind(order, n))) }
<1>1. /\ items' = [x \in Keys |-> IF x = k THEN entry
                                  ELSE IF x \in Behind(order, Kept(order, total)) THEN None
                                  ELSE items[x]]
      /\ ~OverLimit(Cardinality(Here(s) \cup {k}), total)
  BY DEF Set, Fits
<1>2. s \in Shards
  BY CacheAssumption
<1>3. {k} \cap Stored \in SUBSET Here(s)
  BY DEF Here
<1> HIDE DEF s, entry
<1>4. total \in Int
  <2>1. Sized(items, Here(s)) /\ bytes[s] \in Nat
    BY <1>2, ShardNumbers
  <2>2. SizeOf(items, {k} \cap Stored) \in Nat
    BY <1>3, <2>1, SizeOfRest
  <2> QED BY <2>1, <2>2
<1>5. /\ order \in Seq(Here(s) \cup {k}) /\ Len(order) \in Nat /\ order # <<>>
      /\ Cardinality(Here(s) \cup {k}) = Len(order)
  <2>1. Holds(lru[s], Here(s))
    BY <1>2 DEF StoreInv, ShardsInv
  <2>2. Holds(order, Here(s) \cup {k})
    BY <2>1, FrontHolds
  <2>3. \E i \in 1..Len(order) : order[i] = k
    BY <2>2 DEF Holds
  <2> HIDE DEF order
  <2>4. Len(order) \in Nat /\ Cardinality(Here(s) \cup {k}) = Len(order)
    BY <2>2, HoldsAll
  <2>5. order # <<>>
    BY <2>3
  <2> QED BY <2>2, <2>4, <2>5 DEF Holds
<1> HIDE DEF order, total
<1>6. Behind(order, Len(order)) = {}
  BY <1>5 DEF Behind
<1>7. Kept(order, total) = Len(order)
  <2>1. Len(order) \in DOMAIN order /\ DOMAIN order = 1..Len(order)
    BY <1>5
  <2>2. SizeOf(items, Behind(order, Len(order))) = 0
    BY <1>6, SizeOfNone
  <2>3. ~OverLimit(Len(order), total - SizeOf(items, Behind(order, Len(order))))
    <3>1. total - 0 = total
      BY <1>4
    <3> QED BY <1>1, <1>5, <2>2, <3>1
  <2>4. Len(order) \in D
    BY <2>1, <2>3
  <2>5. D \in SUBSET 0..Len(order) /\ D # {}
    <3>1. 1 \in 0..Len(order)
      BY <1>5, <2>1
    <3> QED BY <2>1, <3>1
  <2>6. Kept(order, total) = Max(D)
    BY DEF Kept
  <2> HIDE DEF D
  <2>7. Max(D) \in 0..Len(order) /\ Len(order) <= Max(D)
    BY <1>5, <2>4, <2>5, GreatestExists
  <2> QED BY <1>5, <2>6, <2>7
<1>8. \A x \in Keys : items[x] # None => items'[x] # None
  BY <1>1, <1>6, <1>7 DEF entry
<1> QED BY <1>8 DEF Stored

LEMMA StoreFitsLosesNothing ==
    ASSUME IInv, NEW c \in Callers, StoreFits(c)
    PROVE  Stored \subseteq Stored'
<1> DEFINE k == call[c].key
<1>1. k \in Keys
  BY DEF IInv, AdmissionInv, AdmissionTypeOK, StoreFits, At
<1>2. PICK tags \in SUBSET Tags, removeAt \in RemovalTimes : Set(k, tags, Size[k], removeAt)
  BY DEF StoreFits, StoreItem
<1> DEFINE entry == [tags |-> tags, size |-> Size[k], removeAt |-> removeAt,
                     armed |-> removeAt # Never]
<1>3. Fits(k) /\ StoreInv
  BY DEF StoreFits, IInv
<1> HIDE DEF k
<1>4. removeAt \in Nat \cup {Never}
  BY <1>3, CacheAssumption DEF RemovalTimes, StoreInv, TypeOK
<1>5. Size[k] \in Sizes /\ Size[k] \in Nat
  BY <1>1, AdmissionAssumption, CacheAssumption
<1>6. entry # None
  <2>1. entry \in Entry
    BY <1>4, <1>5 DEF Entry
  <2> QED BY <2>1, CacheAssumption DEF Entry
<1> QED BY <1>1, <1>2, <1>3, <1>5, <1>6, FitsLosesNothing

\* A step by which a call is past its store and an item is gone is an eviction.
LEMMA OnlyEviction ==
    ASSUME IInv, [AdmissionNext]_admissionVars, NEW c \in Callers, At(c, "set"),
           call'[c].pc # "set", Stored \ Stored' # {}
    PROVE  StoreEvicts(c)
<1>1. ~UNCHANGED vars
  BY DEF vars, Stored
<1>2. \A d \in Callers : /\ ~CountHit(d) /\ ~Measure(d) /\ ~Refuse(d) /\ ~Touch(d)
                         /\ \A k \in Keys : ~CountFetch(d, k)
  BY <1>1 DEF CountHit, CountFetch, Measure, Refuse, Touch
<1>3. \A d \in Callers, k \in Keys : ~Hit(d, k)
  <2> SUFFICES ASSUME NEW d \in Callers, NEW k \in Keys, Hit(d, k) PROVE FALSE
    OBVIOUS
  <2>1. d # c
    BY DEF Hit, At
  <2>2. call'[c] = call[c]
    BY <2>1 DEF Hit, IInv, AdmissionInv, AdmissionTypeOK
  <2> QED BY <2>2 DEF At
<1>4. ~Apart
  BY DEF Apart, At
<1>5. \A d \in Callers : ~StoreFits(d)
  BY StoreFitsLosesNothing
<1>6. ~UNCHANGED admissionVars
  BY <1>1 DEF admissionVars
<1>7. PICK d \in Callers : StoreEvicts(d)
  BY <1>2, <1>3, <1>4, <1>5, <1>6 DEF AdmissionNext
<1>8. d = c
  BY <1>7 DEF StoreEvicts, StoreItem, IInv, AdmissionInv, AdmissionTypeOK, At
<1> QED BY <1>7, <1>8

LEMMA EvictionWaits ==
    ASSUME AdmissionInv, NEW c \in Callers, StoreEvicts(c)
    PROVE  \/ requests[call[c].key] >= 2
           \/ \A row \in Rows : \E k \in Keys \ {call[c].key} : Collide(row, k, call[c].key)
<1> DEFINE key == call[c].key
<1>1. call[c] \in Calls /\ key \in Keys /\ call[c].pc = "set" /\ ShouldStore(c)
  BY DEF AdmissionInv, AdmissionTypeOK, StoreEvicts, At
<1>2. CASE key \in ToSet(window)
  BY <1>1, <1>2 DEF AdmissionInv, RequestsInv, Counts
<1>3. CASE call[c].candidate >= MinFrequency
  <2>1. call[c].candidate >= 2
    <3>1. call[c].candidate \in Nat
      BY <1>1 DEF Calls
    <3> QED BY <1>3, <3>1, AdmissionAssumption
  <2> SUFFICES ASSUME NEW row \in Rows, \A k \in Keys \ {key} : ~Collide(row, k, key)
               PROVE  requests[key] >= 2
    OBVIOUS
  <2>2. call[c].candidate <= requests[key]
    BY <1>1, <2>1 DEF AdmissionInv, MeasuredInv
  <2>3. call[c].candidate \in Nat /\ requests[key] \in Nat
    BY <1>1 DEF AdmissionInv, AdmissionTypeOK, Calls
  <2> QED BY <2>1, <2>2, <2>3
<1> QED BY <1>1, <1>2, <1>3 DEF ShouldStore

\* Admission does its job: whoever pushes an item out has been asked for before,
\* unless the sketch cannot tell it from other keys (TinyLFUAdmission.ShouldStore).
THEOREM Waiting == AdmissionSpec => NewcomersWait
<1>1. IInv /\ [AdmissionNext]_admissionVars =>
        [\A c \in Callers :
           /\ At(c, "set")
           /\ call'[c].pc # "set"
           /\ Stored \ Stored' # {}
           => \/ requests[call[c].key] >= 2
              \/ \A row \in Rows : \E k \in Keys \ {call[c].key} :
                   Collide(row, k, call[c].key)]_admissionVars
  BY OnlyEviction, EvictionWaits DEF IInv
<1> QED BY <1>1, InitInv, NextInv, PTL DEF AdmissionSpec, NewcomersWait
================================================================================
