--------------------------- MODULE LifetimeProofs ---------------------------
(***************************************************************************)
(* Proofs about ObjcLifetime: deallocation, autorelease pools, reference   *)
(* counts and weak references, for any number of threads, objects, pools   *)
(* and slots.                                                              *)
(***************************************************************************)
EXTENDS ObjcLifetime, FiniteSetTheorems, TLAPS

-----------------------------------------------------------------------------
(* How often a sequence holds x. *)

Spots(x, q) == {i \in DOMAIN q : q[i] = x}
Count(x, q) == Cardinality(Spots(x, q))

LEMMA BijectionIs ==
  ASSUME NEW S, NEW T, NEW f \in [S -> T],
         \A a, b \in S : f[a] = f[b] => a = b, \A b \in T : \E a \in S : f[a] = b
  PROVE  ExistsBijection(S, T)
  BY DEF ExistsBijection, Bijection, Injection, Surjection, IsInjective

LEMMA CountType ==
  ASSUME NEW S, NEW q \in Seq(S), NEW x
  PROVE  IsFiniteSet(Spots(x, q)) /\ Count(x, q) \in Nat
<1>1. DOMAIN q = 1 .. Len(q) /\ Len(q) \in Nat
  OBVIOUS
<1>2. IsFiniteSet(1 .. Len(q))
  BY <1>1, FS_Interval
<1>3. Spots(x, q) \in SUBSET (1 .. Len(q))
  BY <1>1 DEF Spots
<1>4. IsFiniteSet(Spots(x, q))
  BY <1>2, <1>3, FS_Subset
<1>5. QED
  BY <1>4, FS_CardinalityType DEF Count

LEMMA CountNone ==
  ASSUME NEW q, NEW x, \A i \in DOMAIN q : q[i] # x
  PROVE  Count(x, q) = 0
<1>1. Spots(x, q) = {}
  BY DEF Spots
<1>2. QED
  BY <1>1, FS_EmptySet DEF Count

LEMMA CountEmpty == \A x : Count(x, <<>>) = 0
<1>1. \A x : \A i \in DOMAIN <<>> : <<>>[i] # x
  OBVIOUS
<1>2. QED
  BY <1>1, CountNone

LEMMA CountMember ==
  ASSUME NEW S, NEW q \in Seq(S), NEW i \in DOMAIN q
  PROVE  Count(q[i], q) >= 1
<1>1. IsFiniteSet(Spots(q[i], q)) /\ Count(q[i], q) \in Nat
  BY CountType
<1>2. Spots(q[i], q) # {}
  BY DEF Spots
<1>3. Count(q[i], q) # 0
  BY <1>1, <1>2, FS_EmptySet DEF Count
<1>4. QED
  BY <1>1, <1>3

LEMMA CountAppend ==
  ASSUME NEW S, NEW q \in Seq(S), NEW y \in S, NEW x
  PROVE  Count(x, Append(q, y)) = Count(x, q) + IF y = x THEN 1 ELSE 0
<1> DEFINE a == Append(q, y)
<1>1. /\ DOMAIN a = 1 .. Len(q) + 1 /\ DOMAIN q = 1 .. Len(q) /\ Len(q) \in Nat
      /\ a[Len(q) + 1] = y /\ \A i \in 1 .. Len(q) : a[i] = q[i]
  OBVIOUS
<1> HIDE DEF a
<1>2. CASE y = x
  <2>1. Spots(x, a) = Spots(x, q) \cup {Len(q) + 1} /\ Len(q) + 1 \notin Spots(x, q)
    BY <1>1, <1>2 DEF Spots
  <2>2. QED
    BY <1>2, <2>1, CountType, FS_AddElement DEF Count, a
<1>3. CASE y # x
  <2>1. Spots(x, a) = Spots(x, q)
    BY <1>1, <1>3 DEF Spots
  <2>2. QED
    BY <1>3, <2>1, CountType DEF Count, a
<1>4. QED
  BY <1>2, <1>3

LEMMA CountTail ==
  ASSUME NEW S, NEW q \in Seq(S), q # <<>>, NEW x
  PROVE  Count(x, Tail(q)) = Count(x, q) - IF Head(q) = x THEN 1 ELSE 0
<1> DEFINE r == Tail(q)
<1>1. /\ DOMAIN q = 1 .. Len(q) /\ Len(q) \in Nat /\ Len(q) # 0 /\ Head(q) = q[1]
      /\ r \in Seq(S) /\ DOMAIN r = 1 .. Len(q) - 1
  OBVIOUS
<1>2. \A i \in 1 .. Len(q) - 1 : r[i] = q[i + 1]
  BY <1>1
<1> HIDE DEF r
<1> DEFINE rest == Spots(x, q) \ {1}
           f == [i \in Spots(x, r) |-> i + 1]
<1>3. /\ IsFiniteSet(Spots(x, q)) /\ Count(x, q) \in Nat
      /\ IsFiniteSet(Spots(x, r))
  BY <1>1, CountType
<1>4. 1 \in Spots(x, q) <=> Head(q) = x
  BY <1>1 DEF Spots
<1>5. Cardinality(rest) = Count(x, q) - IF Head(q) = x THEN 1 ELSE 0
  <2>1. Cardinality(rest) = IF 1 \in Spots(x, q) THEN Count(x, q) - 1 ELSE Count(x, q)
    BY <1>3, FS_RemoveElement DEF Count
  <2>2. QED
    BY <1>3, <1>4, <2>1
<1>6. \A i \in Spots(x, r) : i \in Nat /\ i + 1 \in rest
  BY <1>1, <1>2 DEF Spots
<1>7. \A j \in rest : j - 1 \in Spots(x, r) /\ (j - 1) + 1 = j
  <2>1. ASSUME NEW j \in rest PROVE j - 1 \in Spots(x, r) /\ (j - 1) + 1 = j
    <3>1. j \in 1 .. Len(q) /\ j # 1 /\ q[j] = x
      BY <1>1 DEF Spots
    <3>2. j - 1 \in 1 .. Len(q) - 1 /\ (j - 1) + 1 = j
      BY <1>1, <3>1
    <3>3. r[j - 1] = x
      BY <1>2, <3>1, <3>2
    <3>4. QED
      BY <1>1, <3>2, <3>3 DEF Spots
  <2>2. QED
    BY <2>1
<1> HIDE DEF rest
<1>8. f \in [Spots(x, r) -> rest]
  BY <1>6
<1>9. ExistsBijection(Spots(x, r), rest)
  <2>1. \A a, b \in Spots(x, r) : f[a] = f[b] => a = b
    BY <1>6
  <2>2. \A b \in rest : \E a \in Spots(x, r) : f[a] = b
    BY <1>7
  <2> HIDE DEF f
  <2>3. QED
    BY <1>8, <2>1, <2>2, BijectionIs
<1>10. Cardinality(rest) = Cardinality(Spots(x, r))
  BY <1>3, <1>9, FS_Bijection
<1>11. QED
  BY <1>5, <1>10 DEF Count, r

(* A stack cut in two at its pool n, the upper part turned round. *)
LEMMA CountSplit ==
  ASSUME NEW S, NEW q \in Seq(S), NEW n \in 1 .. Len(q), NEW x
  PROVE  /\ SubSeq(q, 1, n - 1) \in Seq(S) /\ Reverse(SubSeq(q, n, Len(q))) \in Seq(S)
         /\ Count(x, q) = Count(x, SubSeq(q, 1, n - 1)) + Count(x, Reverse(SubSeq(q, n, Len(q))))
<1> DEFINE low == SubSeq(q, 1, n - 1)
           high == SubSeq(q, n, Len(q))
           back == Reverse(high)
           upper == {i \in Spots(x, q) : i >= n}
           f == [i \in Spots(x, back) |-> Len(q) + 1 - i]
<1>0. DOMAIN q = 1 .. Len(q) /\ Len(q) \in Nat
  OBVIOUS
<1>1. /\ low \in Seq(S) /\ DOMAIN low = 1 .. n - 1
      /\ \A i \in 1 .. n - 1 : low[i] = q[i]
  BY <1>0
<1>2. /\ high \in Seq(S) /\ Len(high) = Len(q) - n + 1
      /\ \A i \in 1 .. Len(q) - n + 1 : high[i] = q[n + i - 1]
  BY <1>0
<1> HIDE DEF low, high
<1>3. /\ back \in Seq(S) /\ DOMAIN back = 1 .. Len(q) - n + 1
      /\ \A i \in 1 .. Len(q) - n + 1 : back[i] = q[Len(q) + 1 - i]
  <2>1. back = [i \in 1 .. Len(high) |-> high[(Len(high) - i) + 1]]
    BY DEF Reverse
  <2>2. Len(high) \in Nat
    BY <1>2
  <2>3. \A i \in 1 .. Len(high) : high[(Len(high) - i) + 1] \in S
    BY <1>2, <2>2
  <2>4. back \in Seq(S) /\ DOMAIN back = 1 .. Len(high)
    BY <2>1, <2>2, <2>3
  <2>5. ASSUME NEW i \in 1 .. Len(q) - n + 1 PROVE back[i] = q[Len(q) + 1 - i]
    <3>1. (Len(high) - i) + 1 \in 1 .. Len(q) - n + 1
      BY <1>0, <1>2
    <3>2. back[i] = high[(Len(high) - i) + 1]
      BY <1>2, <2>1
    <3>3. n + ((Len(high) - i) + 1) - 1 = Len(q) + 1 - i
      BY <1>0, <1>2
    <3>4. QED
      BY <1>2, <3>1, <3>2, <3>3
  <2>6. QED
    BY <1>2, <2>4, <2>5
<1> HIDE DEF back
<1>4. Spots(x, q) = Spots(x, low) \cup upper /\ Spots(x, low) \cap upper = {}
  BY <1>0, <1>1 DEF Spots
<1>5. /\ IsFiniteSet(Spots(x, q)) /\ IsFiniteSet(Spots(x, low)) /\ IsFiniteSet(Spots(x, back))
      /\ Count(x, q) \in Nat /\ Count(x, low) \in Nat /\ Count(x, back) \in Nat
  BY <1>1, <1>3, CountType
<1>6. IsFiniteSet(upper)
  <2>1. upper \in SUBSET Spots(x, q)
    OBVIOUS
  <2>2. QED
    BY <1>5, <2>1, FS_Subset
<1>7. Count(x, q) = Count(x, low) + Cardinality(upper)
  <2>1. Cardinality(Spots(x, low) \cap upper) = 0
    BY <1>4, FS_EmptySet
  <2>2. Cardinality(upper) \in Nat
    BY <1>6, FS_CardinalityType
  <2>3. Cardinality(Spots(x, q)) = Cardinality(Spots(x, low)) + Cardinality(upper)
          - Cardinality(Spots(x, low) \cap upper)
    BY <1>4, <1>5, <1>6, FS_Union
  <2>4. QED
    BY <1>5, <2>1, <2>2, <2>3 DEF Count
<1>8. \A i \in Spots(x, back) : i \in Nat /\ Len(q) + 1 - i \in upper
  BY <1>0, <1>3 DEF Spots
<1>9. ASSUME NEW j \in upper
      PROVE  Len(q) + 1 - j \in Spots(x, back) /\ Len(q) + 1 - (Len(q) + 1 - j) = j
  <2>1. j \in 1 .. Len(q) /\ j >= n /\ q[j] = x
    BY <1>0 DEF Spots
  <2>2. Len(q) + 1 - j \in 1 .. Len(q) - n + 1 /\ Len(q) + 1 - (Len(q) + 1 - j) = j
    BY <1>0, <2>1
  <2>3. back[Len(q) + 1 - j] = x
    BY <1>3, <2>1, <2>2
  <2>4. QED
    BY <1>3, <2>2, <2>3 DEF Spots
<1> HIDE DEF upper
<1>10. ExistsBijection(Spots(x, back), upper)
  <2>1. f \in [Spots(x, back) -> upper]
    BY <1>8
  <2>2. \A a, b \in Spots(x, back) : f[a] = f[b] => a = b
    BY <1>0, <1>8
  <2>3. \A b \in upper : \E a \in Spots(x, back) : f[a] = b
    BY <1>9
  <2> HIDE DEF f
  <2>4. QED
    BY <2>1, <2>2, <2>3, BijectionIs
<1>11. Cardinality(upper) = Count(x, back)
  BY <1>5, <1>10, FS_Bijection DEF Count
<1>12. QED
  BY <1>1, <1>3, <1>7, <1>11 DEF low, high, back

-----------------------------------------------------------------------------
(* The places of x in a family of sequences. *)

LEMMA PlacesAre ==
  ASSUME NEW f, NEW x
  PROVE  \A r : r \in Places(x, f) <=> \E k \in DOMAIN f : \E i \in Spots(x, f[k]) : r = <<k, i>>
  BY DEF Places, Spots

(* One sequence changes. *)
PlacesMove(f, g, k, x) ==
  /\ IsFiniteSet(Places(x, g))
  /\ Cardinality(Places(x, g)) \in Nat /\ Cardinality(Places(x, f)) \in Nat
  /\ Count(x, f[k]) \in Nat /\ Count(x, g[k]) \in Nat
  /\ Cardinality(Places(x, g)) + Count(x, f[k])
       = Cardinality(Places(x, f)) + Count(x, g[k])
  /\ Count(x, f[k]) <= Cardinality(Places(x, f))

LEMMA PlacesChange ==
  ASSUME NEW S, NEW f, NEW g, NEW k, NEW x,
         k \in DOMAIN f, DOMAIN g = DOMAIN f, f[k] \in Seq(S), g[k] \in Seq(S),
         \A d \in DOMAIN f : d # k => g[d] = f[d],
         IsFiniteSet(Places(x, f))
  PROVE  PlacesMove(f, g, k, x)
<1> DEFINE A == {<<k, i>> : i \in Spots(x, f[k])}
           B == {<<k, i>> : i \in Spots(x, g[k])}
           R == Places(x, f) \ A
<1>1. /\ IsFiniteSet(Spots(x, f[k])) /\ IsFiniteSet(Spots(x, g[k]))
      /\ Count(x, f[k]) \in Nat /\ Count(x, g[k]) \in Nat
  BY CountType
<1>2. ASSUME NEW T, IsFiniteSet(T)
      PROVE  /\ IsFiniteSet({<<k, i>> : i \in T})
             /\ Cardinality({<<k, i>> : i \in T}) = Cardinality(T)
  <2> DEFINE h == [i \in T |-> <<k, i>>]
             U == {<<k, i>> : i \in T}
  <2>1. h \in [T -> U]
    OBVIOUS
  <2>2. \A a, b \in T : h[a] = h[b] => a = b
    OBVIOUS
  <2>3. \A b \in U : \E a \in T : h[a] = b
    OBVIOUS
  <2> HIDE DEF h, U
  <2>4. ExistsBijection(T, U)
    BY <2>1, <2>2, <2>3, BijectionIs
  <2>5. IsFiniteSet(U) /\ Cardinality(U) = Cardinality(T)
    BY <1>2, <2>4, FS_Bijection
  <2>6. QED
    BY <2>5 DEF U
<1>3. /\ IsFiniteSet(A) /\ Cardinality(A) = Count(x, f[k])
      /\ IsFiniteSet(B) /\ Cardinality(B) = Count(x, g[k])
  BY <1>1, <1>2 DEF Count
<1>4. A \subseteq Places(x, f)
  BY PlacesAre
<1>5. \A r : r \in R <=> \E d \in DOMAIN f : d # k /\ \E i \in Spots(x, f[d]) : r = <<d, i>>
  <2>1. ASSUME NEW r \in R
        PROVE  \E d \in DOMAIN f : d # k /\ \E i \in Spots(x, f[d]) : r = <<d, i>>
    <3>1. PICK d \in DOMAIN f : \E i \in Spots(x, f[d]) : r = <<d, i>>
      BY PlacesAre
    <3>2. PICK i \in Spots(x, f[d]) : r = <<d, i>>
      BY <3>1
    <3>3. d # k
      BY <3>2
    <3>4. QED
      BY <3>2, <3>3
  <2>2. ASSUME NEW d \in DOMAIN f, d # k, NEW i \in Spots(x, f[d])
        PROVE  <<d, i>> \in R
    <3>1. <<d, i>> \in Places(x, f)
      BY PlacesAre
    <3>2. \A j : <<d, i>> # <<k, j>>
      BY <2>2
    <3>3. QED
      BY <3>1, <3>2
  <2>3. QED
    BY <2>1, <2>2
<1>6. Places(x, g) = R \cup B /\ R \cap B = {}
  <2>1. ASSUME NEW r \in Places(x, g) PROVE r \in R \cup B
    <3>1. PICK d \in DOMAIN f : \E i \in Spots(x, g[d]) : r = <<d, i>>
      BY PlacesAre
    <3>2. CASE d = k
      BY <3>1, <3>2
    <3>3. CASE d # k
      BY <1>5, <3>1, <3>3
    <3>4. QED
      BY <3>2, <3>3
  <2>2. B \subseteq Places(x, g)
    BY PlacesAre
  <2>3. R \subseteq Places(x, g)
    BY <1>5, PlacesAre
  <2>4. ASSUME NEW r \in R, r \in B PROVE FALSE
    <3>1. PICK d \in DOMAIN f : d # k /\ \E i \in Spots(x, f[d]) : r = <<d, i>>
      BY <1>5
    <3>2. PICK i : r = <<d, i>>
      BY <3>1
    <3>3. PICK j : r = <<k, j>>
      BY <2>4
    <3>4. QED
      BY <3>1, <3>2, <3>3
  <2>5. QED
    BY <2>1, <2>2, <2>3, <2>4
<1> HIDE DEF A, B
<1>7. Places(x, f) = R \cup A /\ R \cap A = {}
  BY <1>4
<1>8. IsFiniteSet(R)
  <2>1. R \in SUBSET Places(x, f)
    OBVIOUS
  <2>2. QED
    BY <2>1, FS_Subset
<1> HIDE DEF R
<1>9. Cardinality(R) \in Nat /\ Cardinality({}) = 0
  BY <1>8, FS_CardinalityType, FS_EmptySet
<1>10. Cardinality(Places(x, f)) = Cardinality(R) + Cardinality(A) - Cardinality(R \cap A)
  BY <1>3, <1>7, <1>8, FS_Union
<1>11. /\ IsFiniteSet(Places(x, g))
       /\ Cardinality(Places(x, g)) = Cardinality(R) + Cardinality(B) - Cardinality(R \cap B)
  BY <1>3, <1>6, <1>8, FS_Union
<1>12. Cardinality(R \cap A) = 0 /\ Cardinality(R \cap B) = 0
  BY <1>6, <1>7, <1>9
<1>13. /\ Cardinality(Places(x, f)) = Cardinality(R) + Count(x, f[k])
       /\ Cardinality(Places(x, g)) = Cardinality(R) + Count(x, g[k])
  BY <1>1, <1>3, <1>9, <1>10, <1>11, <1>12
<1>14. QED
  BY <1>1, <1>9, <1>11, <1>13 DEF PlacesMove

LEMMA PlacesHas ==
  ASSUME NEW S, NEW f, NEW k \in DOMAIN f, f[k] \in Seq(S), NEW i \in DOMAIN f[k],
         IsFiniteSet(Places(f[k][i], f))
  PROVE  Cardinality(Places(f[k][i], f)) >= 1
<1>1. PICK x : x = f[k][i]
  OBVIOUS
<1>2. Count(x, f[k]) >= 1
  BY <1>1, CountMember
<1>3. /\ Count(x, f[k]) <= Cardinality(Places(x, f)) /\ Count(x, f[k]) \in Nat
      /\ Cardinality(Places(x, f)) \in Nat
  <2>1. \A d \in DOMAIN f : d # k => f[d] = f[d]
    OBVIOUS
  <2>2. QED
    BY <1>1, <2>1, PlacesChange DEF PlacesMove
<1>4. QED
  BY <1>1, <1>2, <1>3

-----------------------------------------------------------------------------
(* Types, the depth of the nested calls, and the calls by depth. *)

DeallocFrames == [kind : {"dealloc"}, obj : Objs, pools : {<<>>}, objects : {<<>>}]
DrainFrames == [kind : {"drain"}, obj : {nil}, pools : Seq(Pools), objects : Seq(Objs)]
Calls == DeallocFrames \cup DrainFrames

LifeTypes ==
  /\ refcount \in [Objs -> Int]
  /\ held \in [Objs -> Nat] /\ leaked \in [Objs -> Nat]
  /\ pool_stacks \in [ObjThreads -> Seq(Pools)]
  /\ pooled \in [Pools -> Seq(Objs) \cup {NoPool}]
  /\ frames \in [ObjThreads -> Seq(Calls)]
  /\ slot \in [Slots -> Objs \cup {nil}] /\ slotInUse \subseteq Slots
  /\ weak_refs \in [Objs -> [Slots -> Nat]]

(* A drain may call dealloc one level deeper than the guest may call. *)
DepthOK ==
  \A t \in ObjThreads : \/ Len(frames[t]) <= MaxNested
                        \/ Len(frames[t]) = MaxNested + 1 /\ ~InHost(t)

ObjectsAt(q, d) == IF d \in DOMAIN q THEN q[d].objects ELSE <<>>
PoolsAt(q, d) == IF d \in DOMAIN q THEN q[d].pools ELSE <<>>
ObjAt(q, d) == IF d \in DOMAIN q THEN q[d].obj ELSE nil

(* The calls of dealloc for o. *)
Running(o) == {d \in Depths : ObjAt(frames[d[1]], d[2]) = o}

DeallocInv == \A o \in Objs :
  IF refcount[o] = Dying THEN \E d : Running(o) = {d} ELSE Running(o) = {}

PoolInv == \A p \in Pools :
  /\ IsFiniteSet(Places(p, pool_stacks)) /\ IsFiniteSet(Places(p, PoolsIn))
  /\ Cardinality(Places(p, pool_stacks)) + Cardinality(Places(p, PoolsIn))
       = IF PoolLive(p) THEN 1 ELSE 0

CallInv == LifeTypes /\ DepthOK /\ DeallocInv /\ PoolInv

LEMMA FramesByDepth ==
  /\ ObjectsIn = [d \in Depths |-> ObjectsAt(frames[d[1]], d[2])]
  /\ PoolsIn = [d \in Depths |-> PoolsAt(frames[d[1]], d[2])]
  BY DEF ObjectsIn, PoolsIn, ObjectsAt, PoolsAt

LEMMA CallTypes ==
  ASSUME NEW f \in Calls
  PROVE  /\ f.kind \in {"dealloc", "drain"} /\ f.pools \in Seq(Pools) /\ f.objects \in Seq(Objs)
         /\ f.kind = "dealloc" => f.obj \in Objs /\ f.pools = <<>> /\ f.objects = <<>>
         /\ f.kind = "drain" => f.obj = nil /\ f \in DrainFrames
<1>1. CASE f \in DeallocFrames
  <2>1. f.kind = "dealloc" /\ f.obj \in Objs /\ f.pools = <<>> /\ f.objects = <<>>
    BY <1>1 DEF DeallocFrames
  <2>2. QED
    BY <2>1
<1>2. CASE f \in DrainFrames
  <2>1. f.kind = "drain" /\ f.obj = nil /\ f.pools \in Seq(Pools) /\ f.objects \in Seq(Objs)
    BY <1>2 DEF DrainFrames
  <2>2. QED
    BY <1>2, <2>1
<1>3. QED
  BY <1>1, <1>2 DEF Calls

LEMMA PushedCall ==
  ASSUME NEW q \in Seq(Calls), NEW f \in Calls
  PROVE  /\ Append(q, f) \in Seq(Calls) /\ Len(Append(q, f)) = Len(q) + 1 /\ Len(q) \in Nat
         /\ Append(q, f) # <<>> /\ Last(Append(q, f)) = f
         /\ \A d \in Nat :
              /\ ObjectsAt(Append(q, f), d) = IF d = Len(q) + 1 THEN f.objects ELSE ObjectsAt(q, d)
              /\ PoolsAt(Append(q, f), d) = IF d = Len(q) + 1 THEN f.pools ELSE PoolsAt(q, d)
              /\ ObjAt(Append(q, f), d) = IF d = Len(q) + 1 THEN f.obj ELSE ObjAt(q, d)
<1> DEFINE a == Append(q, f)
<1>1. /\ a \in Seq(Calls) /\ Len(a) = Len(q) + 1 /\ Len(q) \in Nat /\ a # <<>>
      /\ DOMAIN a = 1 .. Len(q) + 1 /\ DOMAIN q = 1 .. Len(q)
      /\ a[Len(q) + 1] = f /\ \A i \in 1 .. Len(q) : a[i] = q[i]
  OBVIOUS
<1> HIDE DEF a
<1>2. Last(a) = f
  BY <1>1 DEF Last
<1>3. ASSUME NEW d \in Nat
      PROVE  /\ ObjectsAt(a, d) = IF d = Len(q) + 1 THEN f.objects ELSE ObjectsAt(q, d)
             /\ PoolsAt(a, d) = IF d = Len(q) + 1 THEN f.pools ELSE PoolsAt(q, d)
             /\ ObjAt(a, d) = IF d = Len(q) + 1 THEN f.obj ELSE ObjAt(q, d)
  <2>1. CASE d = Len(q) + 1
    BY <1>1, <2>1 DEF ObjectsAt, PoolsAt, ObjAt
  <2>2. CASE d # Len(q) + 1
    <3>1. d \in DOMAIN a <=> d \in DOMAIN q
      BY <1>1, <2>2
    <3>2. d \in DOMAIN q => a[d] = q[d]
      BY <1>1
    <3>3. QED
      BY <2>2, <3>1, <3>2 DEF ObjectsAt, PoolsAt, ObjAt
  <2>3. QED
    BY <2>1, <2>2
<1>4. QED
  BY <1>1, <1>2, <1>3 DEF a

LEMMA PoppedCall ==
  ASSUME NEW q \in Seq(Calls), q # <<>>
  PROVE  /\ Front(q) \in Seq(Calls) /\ Len(Front(q)) = Len(q) - 1
         /\ Len(q) \in Nat /\ Len(q) >= 1 /\ Last(q) \in Calls
         /\ ObjectsAt(q, Len(q)) = Last(q).objects /\ PoolsAt(q, Len(q)) = Last(q).pools
         /\ ObjAt(q, Len(q)) = Last(q).obj
         /\ \A d \in Nat :
              /\ ObjectsAt(Front(q), d) = IF d = Len(q) THEN <<>> ELSE ObjectsAt(q, d)
              /\ PoolsAt(Front(q), d) = IF d = Len(q) THEN <<>> ELSE PoolsAt(q, d)
              /\ ObjAt(Front(q), d) = IF d = Len(q) THEN nil ELSE ObjAt(q, d)
<1> DEFINE a == Front(q)
<1>1. Len(q) \in Nat /\ Len(q) >= 1 /\ DOMAIN q = 1 .. Len(q)
  OBVIOUS
<1>2. /\ a \in Seq(Calls) /\ Len(a) = Len(q) - 1 /\ DOMAIN a = 1 .. Len(q) - 1
      /\ \A i \in 1 .. Len(q) - 1 : a[i] = q[i]
  BY <1>1 DEF Front
<1> HIDE DEF a
<1>3. Last(q) = q[Len(q)] /\ Len(q) \in DOMAIN q /\ Last(q) \in Calls
  BY <1>1 DEF Last
<1>4. ASSUME NEW d \in Nat
      PROVE  /\ ObjectsAt(a, d) = IF d = Len(q) THEN <<>> ELSE ObjectsAt(q, d)
             /\ PoolsAt(a, d) = IF d = Len(q) THEN <<>> ELSE PoolsAt(q, d)
             /\ ObjAt(a, d) = IF d = Len(q) THEN nil ELSE ObjAt(q, d)
  <2>1. CASE d = Len(q)
    BY <1>1, <1>2, <2>1 DEF ObjectsAt, PoolsAt, ObjAt
  <2>2. CASE d # Len(q)
    <3>0. DOMAIN a = 1 .. Len(q) - 1 /\ DOMAIN q = 1 .. Len(q) /\ Len(q) \in Nat
      BY <1>1, <1>2
    <3>1. d \in DOMAIN a <=> d \in DOMAIN q
      <4>1. PICK n \in Nat : n = Len(q)
        BY <3>0
      <4>2. d \in 1 .. n - 1 <=> d \in 1 .. n
        BY <2>2, <4>1
      <4>3. QED
        BY <3>0, <4>1, <4>2
    <3>2. d \in DOMAIN a => a[d] = q[d]
      BY <1>2
    <3>3. QED
      BY <2>2, <3>1, <3>2 DEF ObjectsAt, PoolsAt, ObjAt
  <2>3. QED
    BY <2>1, <2>2
<1>5. QED
  BY <1>1, <1>2, <1>3, <1>4 DEF ObjectsAt, PoolsAt, ObjAt, a

(* The calls of t become q; where q differs at the depth n only, the rest *)
(* stays as it is.                                                         *)
CallsMove(t, n, q) ==
  /\ DOMAIN ObjectsIn = Depths /\ DOMAIN ObjectsIn' = Depths
  /\ DOMAIN PoolsIn = Depths /\ DOMAIN PoolsIn' = Depths /\ <<t, n>> \in Depths
  /\ ObjectsIn[<<t, n>>] = ObjectsAt(frames[t], n) /\ ObjectsIn'[<<t, n>>] = ObjectsAt(q, n)
  /\ PoolsIn[<<t, n>>] = PoolsAt(frames[t], n) /\ PoolsIn'[<<t, n>>] = PoolsAt(q, n)
  /\ (\A d \in Nat : d # n => ObjectsAt(q, d) = ObjectsAt(frames[t], d)) =>
       \A d \in Depths : d # <<t, n>> => ObjectsIn'[d] = ObjectsIn[d]
  /\ (\A d \in Nat : d # n => PoolsAt(q, d) = PoolsAt(frames[t], d)) =>
       \A d \in Depths : d # <<t, n>> => PoolsIn'[d] = PoolsIn[d]
  /\ (\A d \in Nat : d # n => ObjAt(q, d) = ObjAt(frames[t], d)) =>
       \A o : /\ Running(o) \ {<<t, n>>} = Running(o)' \ {<<t, n>>}
              /\ <<t, n>> \in Running(o) <=> ObjAt(frames[t], n) = o
              /\ <<t, n>> \in Running(o)' <=> ObjAt(q, n) = o

LEMMA CallsChange ==
  ASSUME LifeTypes, NEW t \in ObjThreads, NEW n \in 1 .. MaxNested + 1,
         NEW q \in Seq(Calls), frames' = [frames EXCEPT ![t] = q]
  PROVE  CallsMove(t, n, q)
<1>1. /\ frames' \in [ObjThreads -> Seq(Calls)] /\ frames'[t] = q
      /\ \A u \in ObjThreads : u # t => frames'[u] = frames[u]
  BY DEF LifeTypes
<1>2. /\ ObjectsIn = [d \in Depths |-> ObjectsAt(frames[d[1]], d[2])]
      /\ PoolsIn = [d \in Depths |-> PoolsAt(frames[d[1]], d[2])]
      /\ ObjectsIn' = [d \in Depths |-> ObjectsAt(frames'[d[1]], d[2])]
      /\ PoolsIn' = [d \in Depths |-> PoolsAt(frames'[d[1]], d[2])]
  BY FramesByDepth DEF ObjectsIn, PoolsIn, ObjectsAt, PoolsAt
<1>3. <<t, n>> \in Depths /\ <<t, n>>[1] = t /\ <<t, n>>[2] = n
  BY DEF Depths
<1>4. ASSUME NEW d \in Depths, d # <<t, n>>
      PROVE  d[1] \in ObjThreads /\ d[2] \in Nat /\ (d[1] # t \/ d[2] # n)
  <2>1. PICK u \in ObjThreads, m \in 1 .. MaxNested + 1 : d = <<u, m>>
    BY DEF Depths
  <2>2. m \in Nat
    OBVIOUS
  <2>3. u # t \/ m # n
    BY <1>4, <2>1
  <2>4. QED
    BY <2>1, <2>2, <2>3
<1>5. ASSUME \A d \in Nat : d # n => ObjectsAt(q, d) = ObjectsAt(frames[t], d),
             NEW d \in Depths, d # <<t, n>>
      PROVE  ObjectsIn'[d] = ObjectsIn[d]
  <2>1. ObjectsAt(frames'[d[1]], d[2]) = ObjectsAt(frames[d[1]], d[2])
    BY <1>1, <1>4, <1>5
  <2>2. QED
    BY <1>2, <2>1
<1>6. ASSUME \A d \in Nat : d # n => PoolsAt(q, d) = PoolsAt(frames[t], d),
             NEW d \in Depths, d # <<t, n>>
      PROVE  PoolsIn'[d] = PoolsIn[d]
  <2>1. PoolsAt(frames'[d[1]], d[2]) = PoolsAt(frames[d[1]], d[2])
    BY <1>1, <1>4, <1>6
  <2>2. QED
    BY <1>2, <2>1
<1>7. ASSUME \A d \in Nat : d # n => ObjAt(q, d) = ObjAt(frames[t], d), NEW o
      PROVE  /\ Running(o) \ {<<t, n>>} = Running(o)' \ {<<t, n>>}
             /\ <<t, n>> \in Running(o) <=> ObjAt(frames[t], n) = o
             /\ <<t, n>> \in Running(o)' <=> ObjAt(q, n) = o
  <2>1. Running(o)' = {d \in Depths : ObjAt(frames'[d[1]], d[2]) = o}
    BY DEF Running, ObjAt
  <2>2. \A d \in Depths : d # <<t, n>> =>
          ObjAt(frames'[d[1]], d[2]) = ObjAt(frames[d[1]], d[2])
    BY <1>1, <1>4, <1>7
  <2>3. Running(o) \ {<<t, n>>} = Running(o)' \ {<<t, n>>}
    BY <2>1, <2>2 DEF Running
  <2>4. QED
    BY <1>1, <1>3, <2>1, <2>3 DEF Running
<1>8. /\ ObjectsIn[<<t, n>>] = ObjectsAt(frames[t], n) /\ ObjectsIn'[<<t, n>>] = ObjectsAt(q, n)
      /\ PoolsIn[<<t, n>>] = PoolsAt(frames[t], n) /\ PoolsIn'[<<t, n>>] = PoolsAt(q, n)
  BY <1>1, <1>2, <1>3
<1>9. QED
  BY <1>2, <1>3, <1>5, <1>6, <1>7, <1>8 DEF CallsMove

(* The calls of dealloc for o change at <<t, n>> only, where q is called now. *)
RunningMoves(t, n, q, o) ==
  /\ <<t, n>> \in Running(o) <=> ObjAt(frames[t], n) = o
  /\ <<t, n>> \in Running(o)' <=> ObjAt(q, n) = o
  /\ \A e : e # <<t, n>> => (e \in Running(o)' <=> e \in Running(o))

LEMMA RunningChange ==
  ASSUME LifeTypes, NEW t \in ObjThreads, NEW n \in 1 .. MaxNested + 1,
         NEW q \in Seq(Calls), frames' = [frames EXCEPT ![t] = q],
         \A d \in Nat : d # n => ObjAt(q, d) = ObjAt(frames[t], d), NEW o
  PROVE  RunningMoves(t, n, q, o)
<1>1. /\ Running(o) \ {<<t, n>>} = Running(o)' \ {<<t, n>>}
      /\ <<t, n>> \in Running(o) <=> ObjAt(frames[t], n) = o
      /\ <<t, n>> \in Running(o)' <=> ObjAt(q, n) = o
  BY CallsChange DEF CallsMove
<1>2. ASSUME NEW e, e # <<t, n>> PROVE e \in Running(o)' <=> e \in Running(o)
  <2>1. e \in Running(o) \ {<<t, n>>} <=> e \in Running(o)
    BY <1>2
  <2>2. e \in Running(o)' \ {<<t, n>>} <=> e \in Running(o)'
    BY <1>2
  <2>3. QED
    BY <1>1, <2>1, <2>2
<1>3. QED
  BY <1>1, <1>2 DEF RunningMoves

LEMMA CallsKept ==
  ASSUME LifeTypes, NEW t \in ObjThreads, NEW q, frames' = [frames EXCEPT ![t] = q]
  PROVE  /\ (\A d \in Nat : ObjectsAt(q, d) = ObjectsAt(frames[t], d)) => ObjectsIn' = ObjectsIn
         /\ (\A d \in Nat : PoolsAt(q, d) = PoolsAt(frames[t], d)) => PoolsIn' = PoolsIn
         /\ (\A d \in Nat : ObjAt(q, d) = ObjAt(frames[t], d)) => \A o : Running(o)' = Running(o)
<1>1. \A u \in ObjThreads : frames'[u] = IF u = t THEN q ELSE frames[u]
  BY DEF LifeTypes
<1>2. \A d \in Depths : d[1] \in ObjThreads /\ d[2] \in Nat
  BY ObjcAssumption DEF Depths
<1>3. ASSUME \A d \in Nat : ObjectsAt(q, d) = ObjectsAt(frames[t], d)
      PROVE  ObjectsIn' = ObjectsIn
  <2>1. /\ ObjectsIn = [d \in Depths |-> ObjectsAt(frames[d[1]], d[2])]
        /\ ObjectsIn' = [d \in Depths |-> ObjectsAt(frames'[d[1]], d[2])]
    BY DEF ObjectsIn, ObjectsAt
  <2>2. \A d \in Depths : ObjectsAt(frames'[d[1]], d[2]) = ObjectsAt(frames[d[1]], d[2])
    BY <1>1, <1>2, <1>3
  <2>3. QED
    BY <2>1, <2>2
<1>4. ASSUME \A d \in Nat : PoolsAt(q, d) = PoolsAt(frames[t], d)
      PROVE  PoolsIn' = PoolsIn
  <2>1. /\ PoolsIn = [d \in Depths |-> PoolsAt(frames[d[1]], d[2])]
        /\ PoolsIn' = [d \in Depths |-> PoolsAt(frames'[d[1]], d[2])]
    BY DEF PoolsIn, PoolsAt
  <2>2. \A d \in Depths : PoolsAt(frames'[d[1]], d[2]) = PoolsAt(frames[d[1]], d[2])
    BY <1>1, <1>2, <1>4
  <2>3. QED
    BY <2>1, <2>2
<1>5. ASSUME \A d \in Nat : ObjAt(q, d) = ObjAt(frames[t], d), NEW o
      PROVE  Running(o)' = Running(o)
  <2>1. Running(o)' = {d \in Depths : ObjAt(frames'[d[1]], d[2]) = o}
    BY DEF Running, ObjAt
  <2>2. \A d \in Depths : ObjAt(frames'[d[1]], d[2]) = ObjAt(frames[d[1]], d[2])
    BY <1>1, <1>2, <1>5
  <2>3. QED
    BY <2>1, <2>2 DEF Running
<1>6. QED
  BY <1>3, <1>4, <1>5

LEMMA PoolsKept ==
  ASSUME PoolInv, pool_stacks' = pool_stacks, PoolsIn' = PoolsIn,
         \A p \in Pools : PoolLive(p)' <=> PoolLive(p)
  PROVE  PoolInv'
  BY DEF PoolInv

LEMMA CallInit == ObjcInit => CallInv
<1> SUFFICES ASSUME ObjcInit PROVE CallInv
  OBVIOUS
<1>1. LifeTypes
  BY DEF ObjcInit, LifeTypes, NoSlots, Absent
<1>2. DepthOK
  BY ObjcAssumption DEF ObjcInit, DepthOK
<1>3. \A d \in Depths : d[1] \in ObjThreads
  BY DEF Depths
<1>4. ASSUME NEW d \in Depths
      PROVE  /\ ObjectsAt(frames[d[1]], d[2]) = <<>> /\ PoolsAt(frames[d[1]], d[2]) = <<>>
             /\ ObjAt(frames[d[1]], d[2]) = nil
  <2>1. frames[d[1]] = <<>>
    BY <1>3 DEF ObjcInit
  <2>2. d[2] \notin DOMAIN <<>>
    OBVIOUS
  <2>3. QED
    BY <2>1, <2>2 DEF ObjectsAt, PoolsAt, ObjAt
<1>5. DeallocInv
  <2>1. \A o \in Objs : Running(o) = {} /\ refcount[o] # Dying
    BY <1>4, ObjcAssumption DEF Running, ObjcInit, Absent, Dying
  <2>2. QED
    BY <2>1 DEF DeallocInv
<1>6. PoolInv
  <2>1. \A p \in Pools : ~PoolLive(p)
    BY DEF PoolLive, ObjcInit
  <2>2. \A p, i : i \notin Spots(p, <<>>)
    BY DEF Spots
  <2>3. ASSUME NEW p \in Pools PROVE Places(p, pool_stacks) = {} /\ Places(p, PoolsIn) = {}
    <3>1. \A k \in DOMAIN pool_stacks : pool_stacks[k] = <<>>
      BY DEF ObjcInit
    <3>2. \A d \in DOMAIN PoolsIn : PoolsIn[d] = <<>>
      BY <1>4, FramesByDepth
    <3>3. \A r : r \notin Places(p, pool_stacks) /\ r \notin Places(p, PoolsIn)
      BY <2>2, <3>1, <3>2, PlacesAre
    <3>4. QED
      BY <3>3
  <2>4. QED
    BY <2>1, <2>3, FS_EmptySet DEF PoolInv
<1>7. QED
  BY <1>1, <1>2, <1>5, <1>6 DEF CallInv

(* Release: the count goes down, and at 1 dealloc is called, once. *)
LEMMA ReleaseCalls ==
  ASSUME CallInv, NEW t \in ObjThreads, NEW o \in Objs, NEW rcs \in [Objs -> Int],
         \A x \in Objs : rcs[x] = Dying <=> refcount[x] = Dying,
         NEW under \in Seq(Calls), Len(under) <= MaxNested,
         \A d \in Nat : ObjAt(under, d) = ObjAt(frames[t], d),
         \A d \in Nat : PoolsAt(under, d) = PoolsAt(frames[t], d),
         ReleaseOn(t, o, rcs, under), held' \in [Objs -> Nat],
         UNCHANGED <<leaked, pool_stacks, pooled, slot, slotInUse, weak_refs>>
  PROVE  /\ CallInv'
         /\ (\A d \in Nat : ObjectsAt(under, d) = ObjectsAt(frames[t], d)) =>
              ObjectsIn' = ObjectsIn
         /\ \E q \in Seq(Calls) : /\ frames' = [frames EXCEPT ![t] = q]
                                  /\ \A d \in Nat : ObjectsAt(q, d) = ObjectsAt(under, d)
<1> DEFINE q == IF rcs[o] = 1 THEN Append(under, DeallocFrame(o)) ELSE under
           n == Len(under) + 1
<1>0. DeallocFrame(o) \in Calls /\ DeallocFrame(o).obj = o /\ DeallocFrame(o).pools = <<>>
      /\ DeallocFrame(o).objects = <<>> /\ DeallocFrame(o).kind = "dealloc"
  BY DEF DeallocFrame, Calls, DeallocFrames
<1>1. /\ Append(under, DeallocFrame(o)) \in Seq(Calls)
      /\ Len(Append(under, DeallocFrame(o))) = n /\ Len(under) \in Nat
      /\ Append(under, DeallocFrame(o)) # <<>>
      /\ Last(Append(under, DeallocFrame(o))) = DeallocFrame(o)
      /\ \A d \in Nat :
           /\ ObjectsAt(Append(under, DeallocFrame(o)), d) = IF d = n THEN <<>> ELSE ObjectsAt(under, d)
           /\ PoolsAt(Append(under, DeallocFrame(o)), d) = IF d = n THEN <<>> ELSE PoolsAt(under, d)
           /\ ObjAt(Append(under, DeallocFrame(o)), d) = IF d = n THEN o ELSE ObjAt(under, d)
  BY <1>0, PushedCall
<1>2. ObjectsAt(under, n) = <<>> /\ PoolsAt(under, n) = <<>> /\ ObjAt(under, n) = nil
  BY <1>1 DEF ObjectsAt, PoolsAt, ObjAt
<1>3. /\ q \in Seq(Calls)
      /\ \A d \in Nat : ObjectsAt(q, d) = ObjectsAt(under, d) /\ PoolsAt(q, d) = PoolsAt(under, d)
      /\ \A d \in Nat : d # n => ObjAt(q, d) = ObjAt(under, d)
      /\ Len(q) <= MaxNested \/ (Len(q) = MaxNested + 1 /\ Last(q).kind = "dealloc")
      /\ ObjAt(q, n) = IF rcs[o] = 1 THEN o ELSE nil
      /\ n \in 1 .. MaxNested + 1
  <2>1. MaxNested \in Nat /\ Len(under) \in Nat
    BY <1>1, ObjcAssumption
  <2>2. n \in 1 .. MaxNested + 1 /\ n \in Nat
    BY <2>1
  <2>3. CASE rcs[o] = 1
    <3>1. q = Append(under, DeallocFrame(o))
      BY <2>3
    <3> HIDE DEF q, n
    <3>2. /\ q \in Seq(Calls) /\ Last(q).kind = "dealloc"
          /\ \A d \in Nat : ObjectsAt(q, d) = ObjectsAt(under, d) /\ PoolsAt(q, d) = PoolsAt(under, d)
          /\ \A d \in Nat : d # n => ObjAt(q, d) = ObjAt(under, d)
          /\ ObjAt(q, n) = o
      BY <1>0, <1>1, <1>2, <2>2, <3>1
    <3>3. Len(q) <= MaxNested \/ Len(q) = MaxNested + 1
      BY <1>1, <2>1, <3>1 DEF n
    <3>4. QED
      BY <2>2, <2>3, <3>2, <3>3
  <2>4. CASE rcs[o] # 1
    BY <1>2, <2>2, <2>4
  <2>5. QED
    BY <2>3, <2>4
<1>4. /\ refcount' = [rcs EXCEPT ![o] = IF rcs[o] > 0 THEN rcs[o] - 1 ELSE rcs[o]]
      /\ frames' = [frames EXCEPT ![t] = q]
  BY DEF ReleaseOn
<1> HIDE DEF q, n
<1>5. LifeTypes
  BY DEF CallInv
<1>6. /\ refcount' \in [Objs -> Int]
      /\ \A x \in Objs : x # o => refcount'[x] = rcs[x]
      /\ refcount'[o] = IF rcs[o] > 0 THEN rcs[o] - 1 ELSE rcs[o]
  BY <1>4
<1>7. /\ frames' \in [ObjThreads -> Seq(Calls)] /\ frames'[t] = q
      /\ \A u \in ObjThreads : u # t => frames'[u] = frames[u]
  BY <1>3, <1>4, <1>5 DEF LifeTypes
<1>15. ASSUME NEW x
       PROVE  /\ <<t, n>> \in Running(x) <=> ObjAt(frames[t], n) = x
              /\ <<t, n>> \in Running(x)' <=> ObjAt(q, n) = x
              /\ \A e : e # <<t, n>> => (e \in Running(x)' <=> e \in Running(x))
  <2>1. \A d \in Nat : d # n => ObjAt(q, d) = ObjAt(frames[t], d)
    BY <1>3
  <2>2. q \in Seq(Calls) /\ n \in 1 .. MaxNested + 1
    BY <1>3
  <2>3. RunningMoves(t, n, q, x)
    BY <1>4, <1>5, <2>1, <2>2, RunningChange
  <2>4. QED
    BY <2>3 DEF RunningMoves
<1>8. PoolsIn' = PoolsIn
  <2>1. \A d \in Nat : PoolsAt(q, d) = PoolsAt(frames[t], d)
    BY <1>3
  <2>2. QED
    BY <1>4, <1>5, <2>1, CallsKept
<1>9. (\A d \in Nat : ObjectsAt(under, d) = ObjectsAt(frames[t], d)) => ObjectsIn' = ObjectsIn
  <2>1. ASSUME \A d \in Nat : ObjectsAt(under, d) = ObjectsAt(frames[t], d)
        PROVE  ObjectsIn' = ObjectsIn
    <3>1. \A d \in Nat : ObjectsAt(q, d) = ObjectsAt(frames[t], d)
      BY <1>3, <2>1
    <3>2. QED
      BY <1>4, <1>5, <3>1, CallsKept
  <2>2. QED
    BY <2>1
<1>10. LifeTypes'
  BY <1>5, <1>6, <1>7 DEF LifeTypes
<1>11. DepthOK'
  <2>1. ASSUME NEW u \in ObjThreads
        PROVE  Len(frames'[u]) <= MaxNested \/ (Len(frames'[u]) = MaxNested + 1 /\ ~InHost(u)')
    <3>1. CASE u = t
      BY <1>3, <1>7, <3>1 DEF InHost
    <3>2. CASE u # t
      BY <1>7, <3>2 DEF CallInv, DepthOK, InHost
    <3>3. QED
      BY <3>1, <3>2
  <2>2. QED
    BY <2>1 DEF DepthOK
<1>12. DeallocInv'
  <2>1. ObjAt(frames[t], n) = nil
    <3>1. n \in Nat
      BY <1>1 DEF n
    <3>2. QED
      BY <1>2, <3>1
  <2>2. ASSUME NEW x \in Objs
        PROVE  IF refcount'[x] = Dying THEN \E d : Running(x)' = {d} ELSE Running(x)' = {}
    <3>1. nil # x
      BY ObjcAssumption
    <3>2. <<t, n>> \notin Running(x)
      BY <1>15, <2>1, <3>1
    <3>3. IF refcount[x] = Dying THEN \E d : Running(x) = {d} ELSE Running(x) = {}
      BY DEF CallInv, DeallocInv
    <3>4. CASE x = o /\ rcs[o] = 1
      <4>1. refcount'[x] = Dying /\ refcount[x] # Dying
        BY <1>6, <3>4 DEF Dying
      <4>2. <<t, n>> \in Running(x)'
        BY <1>3, <1>15, <3>4
      <4>3. \A e : e # <<t, n>> => e \notin Running(x)'
        BY <1>15, <3>3, <4>1
      <4>4. Running(x)' = {<<t, n>>}
        BY <4>2, <4>3
      <4>5. QED
        BY <4>1, <4>4
    <3>5. CASE ~(x = o /\ rcs[o] = 1)
      <4>1. refcount'[x] = Dying <=> refcount[x] = Dying
        <5>1. CASE x # o
          BY <1>6, <5>1
        <5>2. CASE x = o
          <6>1. rcs[o] \in Int /\ rcs[o] # 1
            BY <3>5, <5>2
          <6>2. refcount'[o] = 0 <=> rcs[o] = 0
            BY <1>6, <6>1
          <6>3. QED
            BY <5>2, <6>2 DEF Dying
        <5>3. QED
          BY <5>1, <5>2
      <4>2. <<t, n>> \notin Running(x)'
        BY <1>3, <1>15, <3>1, <3>5
      <4>3. Running(x)' = Running(x)
        <5>1. \A e : e \in Running(x)' <=> e \in Running(x)
          BY <1>15, <3>2, <4>2
        <5>2. QED
          BY <5>1
      <4>4. QED
        BY <3>3, <4>1, <4>3
    <3>6. QED
      BY <3>4, <3>5
  <2>3. QED
    BY <2>2 DEF DeallocInv
<1>13. PoolInv'
  <2>1. \A p \in Pools : PoolLive(p)' <=> PoolLive(p)
    BY DEF PoolLive
  <2>2. QED
    BY <1>8, <2>1, PoolsKept DEF CallInv
<1>14. QED
  BY <1>3, <1>4, <1>9, <1>10, <1>11, <1>12, <1>13 DEF CallInv

-----------------------------------------------------------------------------
(* Pools that are on a stack, or wait in a drain, are live. *)

LEMMA PoolsFound ==
  ASSUME PoolInv, NEW p \in Pools
  PROVE  /\ Cardinality(Places(p, pool_stacks)) \in Nat /\ Cardinality(Places(p, PoolsIn)) \in Nat
         /\ Cardinality(Places(p, pool_stacks)) >= 1 => PoolLive(p)
         /\ Cardinality(Places(p, PoolsIn)) >= 1 => PoolLive(p)
<1>1. /\ Cardinality(Places(p, pool_stacks)) \in Nat /\ Cardinality(Places(p, PoolsIn)) \in Nat
      /\ Cardinality(Places(p, pool_stacks)) + Cardinality(Places(p, PoolsIn))
           = IF PoolLive(p) THEN 1 ELSE 0
  BY FS_CardinalityType DEF PoolInv
<1>2. CASE PoolLive(p)
  BY <1>1, <1>2
<1>3. CASE ~PoolLive(p)
  BY <1>1, <1>3
<1>4. QED
  BY <1>2, <1>3

LEMMA LiveObjects ==
  ASSUME LifeTypes, NEW p \in Pools
  PROVE  /\ PoolLive(p) <=> pooled[p] \in Seq(Objs)
         /\ pooled[p] \in Seq(Objs \cup {nil})
<1>1. NoPool \notin Seq(Objs)
  <2>1. DOMAIN NoPool = {1} /\ NoPool[1] = nil
    BY DEF NoPool
  <2>2. ASSUME NoPool \in Seq(Objs) PROVE FALSE
    <3>1. \A i \in DOMAIN NoPool : NoPool[i] \in Objs
      BY <2>2
    <3>2. QED
      BY <2>1, <3>1, ObjcAssumption
  <2>3. QED
    BY <2>2
<1>2. pooled[p] \in Seq(Objs) \cup {NoPool}
  BY DEF LifeTypes
<1>3. NoPool \in Seq(Objs \cup {nil})
  BY DEF NoPool
<1>4. \A q \in Seq(Objs) : q \in Seq(Objs \cup {nil})
  <2>1. ASSUME NEW q \in Seq(Objs) PROVE q \in Seq(Objs \cup {nil})
    OBVIOUS
  <2>2. QED
    BY <2>1
<1>5. QED
  BY <1>1, <1>2, <1>3, <1>4 DEF PoolLive

LEMMA StackPools ==
  ASSUME LifeTypes, PoolInv, NEW t \in ObjThreads, NEW i \in DOMAIN pool_stacks[t]
  PROVE  pool_stacks[t][i] \in Pools /\ PoolLive(pool_stacks[t][i])
<1>1. pool_stacks[t] \in Seq(Pools) /\ DOMAIN pool_stacks = ObjThreads
  BY DEF LifeTypes
<1>2. PICK p : p = pool_stacks[t][i]
  OBVIOUS
<1>3. p \in Pools
  BY <1>1, <1>2
<1>4. IsFiniteSet(Places(p, pool_stacks))
  BY <1>3 DEF PoolInv
<1>5. Cardinality(Places(p, pool_stacks)) >= 1
  BY <1>1, <1>2, <1>4, PlacesHas
<1>6. QED
  BY <1>2, <1>3, <1>5, PoolsFound

(* The innermost call of t. *)
LEMMA InnermostCall ==
  ASSUME LifeTypes, DepthOK, NEW t \in ObjThreads, frames[t] # <<>>
  PROVE  /\ Len(frames[t]) \in 1 .. MaxNested + 1 /\ Last(frames[t]) \in Calls
         /\ frames[t] \in Seq(Calls)
         /\ <<t, Len(frames[t])>> \in Depths
         /\ PoolsIn[<<t, Len(frames[t])>>] = Last(frames[t]).pools
         /\ ObjectsIn[<<t, Len(frames[t])>>] = Last(frames[t]).objects
<1>1. frames[t] \in Seq(Calls)
  BY DEF LifeTypes
<1>2. /\ Len(frames[t]) \in Nat /\ Len(frames[t]) >= 1 /\ Last(frames[t]) \in Calls
      /\ ObjectsAt(frames[t], Len(frames[t])) = Last(frames[t]).objects
      /\ PoolsAt(frames[t], Len(frames[t])) = Last(frames[t]).pools
  BY <1>1, PoppedCall
<1>3. Len(frames[t]) \in 1 .. MaxNested + 1
  BY <1>2, ObjcAssumption DEF DepthOK
<1>4. <<t, Len(frames[t])>> \in Depths
  BY <1>3 DEF Depths
<1>5. QED
  BY <1>1, <1>2, <1>3, <1>4, FramesByDepth

LEMMA DrainPools ==
  ASSUME LifeTypes, DepthOK, PoolInv, NEW t \in ObjThreads, frames[t] # <<>>,
         Last(frames[t]).pools # <<>>
  PROVE  Head(Last(frames[t]).pools) \in Pools /\ PoolLive(Head(Last(frames[t]).pools))
<1>1. PICK k : k = <<t, Len(frames[t])>>
  OBVIOUS
<1>2. k \in Depths /\ PoolsIn[k] = Last(frames[t]).pools /\ Last(frames[t]) \in Calls
  BY <1>1, InnermostCall
<1>3. PoolsIn[k] \in Seq(Pools) /\ DOMAIN PoolsIn = Depths /\ PoolsIn[k] # <<>>
  BY <1>2, CallTypes, FramesByDepth
<1>4. 1 \in DOMAIN PoolsIn[k] /\ Head(PoolsIn[k]) = PoolsIn[k][1]
  BY <1>3
<1>5. PICK p : p = PoolsIn[k][1]
  OBVIOUS
<1>6. p \in Pools
  BY <1>3, <1>4, <1>5
<1>7. IsFiniteSet(Places(p, PoolsIn))
  BY <1>6 DEF PoolInv
<1>8. Cardinality(Places(p, PoolsIn)) >= 1
  BY <1>2, <1>3, <1>4, <1>5, <1>7, PlacesHas
<1>9. QED
  BY <1>2, <1>4, <1>5, <1>6, <1>8, PoolsFound

-----------------------------------------------------------------------------
(* The calls and the pools through every action. *)

LEMMA CallsSame ==
  ASSUME CallInv, LifeTypes', UNCHANGED <<frames, pool_stacks>>,
         \A o \in Objs : refcount'[o] = Dying <=> refcount[o] = Dying,
         \A p \in Pools : PoolLive(p)' <=> PoolLive(p)
  PROVE  CallInv'
<1>1. PoolsIn' = PoolsIn /\ \A o : Running(o)' = Running(o)
  BY DEF PoolsIn, Running
<1>2. PoolInv'
  BY <1>1, PoolsKept DEF CallInv
<1>3. DepthOK'
  BY DEF CallInv, DepthOK, InHost
<1>4. DeallocInv'
  BY <1>1 DEF CallInv, DeallocInv
<1>5. QED
  BY <1>2, <1>3, <1>4 DEF CallInv

LEMMA AddToPoolKeeps ==
  ASSUME CallInv, NEW t \in ObjThreads, NEW o \in Objs, AddToPool(t, o)
  PROVE  /\ leaked' \in [Objs -> Nat] /\ pooled' \in [Pools -> Seq(Objs) \cup {NoPool}]
         /\ \A p \in Pools : PoolLive(p)' <=> PoolLive(p)
<1>1. LifeTypes /\ PoolInv
  BY DEF CallInv
<1>2. CASE pool_stacks[t] = <<>>
  BY <1>1, <1>2 DEF AddToPool, LifeTypes, PoolLive
<1>3. CASE pool_stacks[t] # <<>>
  <2>1. PICK p : p = Last(pool_stacks[t])
    OBVIOUS
  <2>2. p \in Pools /\ PoolLive(p)
    <3>1. pool_stacks[t] \in Seq(Pools) /\ Len(pool_stacks[t]) \in DOMAIN pool_stacks[t]
      BY <1>1, <1>3 DEF LifeTypes
    <3>2. QED
      BY <1>1, <2>1, <3>1, StackPools DEF Last
  <2>3. pooled' = [pooled EXCEPT ![p] = Append(pooled[p], o)] /\ leaked' = leaked
    BY <1>3, <2>1 DEF AddToPool
  <2>4. pooled[p] \in Seq(Objs)
    BY <1>1, <2>2, LiveObjects
  <2>5. Append(pooled[p], o) \in Seq(Objs)
    BY <2>4
  <2>6. pooled' \in [Pools -> Seq(Objs) \cup {NoPool}]
    BY <1>1, <2>3, <2>5 DEF LifeTypes
  <2>7. NoPool \notin Seq(Objs)
    <3>1. NoPool[1] = nil /\ 1 \in DOMAIN NoPool
      BY DEF NoPool
    <3>2. QED
      BY <3>1, ObjcAssumption
  <2>8. \A x \in Pools : PoolLive(x)' <=> PoolLive(x)
    BY <1>1, <2>2, <2>3, <2>5, <2>7 DEF PoolLive, LifeTypes
  <2>9. QED
    BY <1>1, <2>3, <2>6, <2>8 DEF LifeTypes
<1>4. QED
  BY <1>2, <1>3

(* What the guest does to counts and slots leaves calls and pools alone. *)
LEMMA CountCalls ==
  ASSUME CallInv, NEW o \in Objs, alloc_object(o) \/ retain(o)
  PROVE  CallInv'
<1>1. LifeTypes
  BY DEF CallInv
<1>2. PICK v \in Int : /\ refcount' = [refcount EXCEPT ![o] = v]
                       /\ v = Dying <=> refcount[o] = Dying
  <2>1. refcount[o] \in Int
    BY <1>1 DEF LifeTypes
  <2>2. CASE alloc_object(o)
    <3>1. refcount' = [refcount EXCEPT ![o] = 1] /\ refcount[o] = -1
      BY <2>2 DEF alloc_object, Absent
    <3>2. 1 \in Int /\ (1 = Dying <=> refcount[o] = Dying)
      BY <3>1 DEF Dying
    <3>3. QED
      BY <3>1, <3>2
  <2>3. CASE retain(o)
    <3>1. refcount' = [refcount EXCEPT ![o] = Incremented(refcount[o])]
      BY <2>3 DEF retain
    <3>2. Incremented(refcount[o]) \in Int /\ (Incremented(refcount[o]) = 0 <=> refcount[o] = 0)
      BY <2>1 DEF Incremented
    <3>3. QED
      BY <3>1, <3>2 DEF Dying
  <2>4. QED
    BY <2>2, <2>3
<1>3. /\ UNCHANGED <<leaked, pool_stacks, pooled, frames, slot, slotInUse, weak_refs>>
      /\ held' = [held EXCEPT ![o] = @ + 1]
  BY DEF alloc_object, retain
<1>4. held' \in [Objs -> Nat]
  BY <1>1, <1>3 DEF LifeTypes
<1>5. LifeTypes'
  BY <1>1, <1>2, <1>3, <1>4 DEF LifeTypes
<1>6. \A x \in Objs : refcount'[x] = Dying <=> refcount[x] = Dying
  BY <1>1, <1>2 DEF LifeTypes
<1>7. \A p \in Pools : PoolLive(p)' <=> PoolLive(p)
  BY <1>3 DEF PoolLive
<1>8. QED
  BY <1>3, <1>5, <1>6, <1>7, CallsSame

LEMMA AutoreleaseCalls ==
  ASSUME CallInv, NEW t \in ObjThreads, NEW o \in Objs, autorelease(t, o)
  PROVE  CallInv'
<1>1. LifeTypes
  BY DEF CallInv
<1>2. /\ held[o] > 0 /\ held' = [held EXCEPT ![o] = @ - 1] /\ AddToPool(t, o)
      /\ UNCHANGED <<refcount, pool_stacks, frames, slot, slotInUse, weak_refs>>
  BY DEF autorelease
<1>3. held' \in [Objs -> Nat]
  BY <1>1, <1>2 DEF LifeTypes
<1>4. /\ leaked' \in [Objs -> Nat] /\ pooled' \in [Pools -> Seq(Objs) \cup {NoPool}]
      /\ \A p \in Pools : PoolLive(p)' <=> PoolLive(p)
  BY <1>2, AddToPoolKeeps
<1>5. LifeTypes'
  BY <1>1, <1>2, <1>3, <1>4 DEF LifeTypes
<1>6. QED
  BY <1>2, <1>4, <1>5, CallsSame

LEMMA RegisterTypes ==
  ASSUME NEW refs \in [Objs -> [Slots -> Nat]], NEW o \in Objs \cup {nil}, NEW s \in Slots
  PROVE  /\ register_weak(refs, o, s) \in [Objs -> [Slots -> Nat]]
         /\ unregister_weak(refs, o, s) \in [Objs -> [Slots -> Nat]]
<1>1. CASE o = nil
  BY <1>1 DEF register_weak, unregister_weak
<1>2. CASE o \in Objs
  <2>1. refs[o] \in [Slots -> Nat] /\ o # nil
    BY <1>2, ObjcAssumption
  <2>2. /\ [refs[o] EXCEPT ![s] = refs[o][s] + 1] \in [Slots -> Nat]
        /\ [refs[o] EXCEPT ![s] = 0] \in [Slots -> Nat]
    BY <2>1
  <2>3. QED
    BY <1>2, <2>1, <2>2 DEF register_weak, unregister_weak
<1>3. QED
  BY <1>1, <1>2

WeakTypes ==
  /\ slot \in [Slots -> Objs \cup {nil}] /\ slotInUse \subseteq Slots
  /\ weak_refs \in [Objs -> [Slots -> Nat]]

WeakStep ==
  \/ \E t \in ObjThreads, s \in Slots, o \in Objs \cup {nil} :
       objc_initWeak(t, s, o) \/ objc_storeWeak(t, s, o)
  \/ \E s \in Slots : \/ objc_destroyWeak(s)
                      \/ \E from \in Slots : objc_copyWeak(s, from) \/ objc_moveWeak(s, from)

LEMMA WeakCalls ==
  ASSUME CallInv, WeakStep
  PROVE  CallInv'
<1>1. LifeTypes
  BY DEF CallInv
<1>2. WeakOnly
  BY DEF WeakStep, objc_initWeak, objc_storeWeak, objc_destroyWeak, objc_copyWeak, objc_moveWeak
<1>3. WeakTypes'
  <2>0. WeakTypes
    BY <1>1 DEF LifeTypes, WeakTypes
  <2>1. ASSUME NEW t \in ObjThreads, NEW s \in Slots, NEW o \in Objs \cup {nil},
               objc_initWeak(t, s, o)
        PROVE  WeakTypes'
    BY <2>0, <2>1, RegisterTypes DEF objc_initWeak, WeakTypes
  <2>2. ASSUME NEW t \in ObjThreads, NEW s \in Slots, NEW o \in Objs \cup {nil},
               objc_storeWeak(t, s, o)
        PROVE  WeakTypes'
    <3>1. unregister_weak(weak_refs, slot[s], s) \in [Objs -> [Slots -> Nat]]
      BY <2>0, RegisterTypes DEF WeakTypes
    <3>2. QED
      BY <2>0, <2>2, <3>1, RegisterTypes DEF objc_storeWeak, WeakTypes
  <2>3. ASSUME NEW s \in Slots, objc_destroyWeak(s) PROVE  WeakTypes'
    BY <2>0, <2>3, RegisterTypes DEF objc_destroyWeak, WeakTypes
  <2>4. ASSUME NEW s \in Slots, NEW from \in Slots, objc_copyWeak(s, from) PROVE  WeakTypes'
    BY <2>0, <2>4, RegisterTypes DEF objc_copyWeak, WeakTypes
  <2>5. ASSUME NEW s \in Slots, NEW from \in Slots, objc_moveWeak(s, from) PROVE  WeakTypes'
    <3>1. unregister_weak(weak_refs, slot[from], from) \in [Objs -> [Slots -> Nat]]
      BY <2>0, RegisterTypes DEF WeakTypes
    <3>2. QED
      BY <2>0, <2>5, <3>1, RegisterTypes DEF objc_moveWeak, WeakTypes
  <2>6. QED
    BY <2>1, <2>2, <2>3, <2>4, <2>5 DEF WeakStep
<1>4. LifeTypes'
  BY <1>1, <1>2, <1>3 DEF LifeTypes, WeakOnly, WeakTypes
<1>5. \A p \in Pools : PoolLive(p)' <=> PoolLive(p)
  BY <1>2 DEF PoolLive, WeakOnly
<1>6. QED
  BY <1>2, <1>4, <1>5, CallsSame DEF WeakOnly

LEMMA LoadCalls ==
  ASSUME CallInv, NEW s \in Slots,
         objc_loadWeakRetained(s) \/ \E t \in ObjThreads : objc_loadWeak(t, s)
  PROVE  CallInv'
<1>1. LifeTypes
  BY DEF CallInv
<1>2. PICK o \in Objs : o = slot[s]
  BY <1>1 DEF LifeTypes, objc_loadWeakRetained, objc_loadWeak, MayLoad
<1>3. /\ refcount' = [refcount EXCEPT ![o] = Incremented(refcount[o])]
      /\ UNCHANGED <<pool_stacks, frames, slot, slotInUse, weak_refs>>
  BY <1>2 DEF objc_loadWeakRetained, objc_loadWeak
<1>4. Incremented(refcount[o]) \in Int /\ (Incremented(refcount[o]) = 0 <=> refcount[o] = 0)
  BY <1>1 DEF Incremented, LifeTypes
<1>5. /\ refcount' \in [Objs -> Int]
      /\ \A x \in Objs : refcount'[x] = Dying <=> refcount[x] = Dying
  BY <1>1, <1>3, <1>4 DEF LifeTypes, Dying
<1>6. /\ held' \in [Objs -> Nat] /\ leaked' \in [Objs -> Nat]
      /\ pooled' \in [Pools -> Seq(Objs) \cup {NoPool}]
      /\ \A p \in Pools : PoolLive(p)' <=> PoolLive(p)
  <2>1. CASE objc_loadWeakRetained(s)
    <3>1. held' = [held EXCEPT ![o] = @ + 1] /\ UNCHANGED <<leaked, pooled>>
      BY <1>2, <2>1 DEF objc_loadWeakRetained
    <3>2. held' \in [Objs -> Nat]
      BY <1>1, <3>1 DEF LifeTypes
    <3>3. QED
      BY <1>1, <3>1, <3>2 DEF LifeTypes, PoolLive
  <2>2. CASE \E t \in ObjThreads : objc_loadWeak(t, s)
    <3>1. PICK t \in ObjThreads : AddToPool(t, o) /\ UNCHANGED held
      BY <1>2, <2>2 DEF objc_loadWeak
    <3>2. QED
      BY <1>1, <3>1, AddToPoolKeeps DEF LifeTypes
  <2>3. QED
    BY <2>1, <2>2
<1>7. LifeTypes'
  BY <1>1, <1>3, <1>5, <1>6 DEF LifeTypes
<1>8. QED
  BY <1>3, <1>5, <1>6, <1>7, CallsSame

LEMMA GuestReleaseCalls ==
  ASSUME CallInv, NEW t \in ObjThreads, NEW o \in Objs, release(t, o)
  PROVE  CallInv' /\ ObjectsIn' = ObjectsIn
<1>1. LifeTypes
  BY DEF CallInv
<1>2. /\ held[o] > 0 /\ MayNest(t) /\ held' = [held EXCEPT ![o] = @ - 1]
      /\ ReleaseOn(t, o, refcount, frames[t])
      /\ UNCHANGED <<leaked, pool_stacks, pooled, slot, slotInUse, weak_refs>>
  BY DEF release
<1>3. held' \in [Objs -> Nat]
  BY <1>1, <1>2 DEF LifeTypes
<1>4. /\ refcount \in [Objs -> Int] /\ frames[t] \in Seq(Calls) /\ Len(frames[t]) <= MaxNested
  BY <1>1, <1>2, ObjcAssumption DEF LifeTypes, MayNest
<1>5. QED
  BY <1>2, <1>3, <1>4, ReleaseCalls

LEMMA StoreStrongCalls ==
  ASSUME CallInv, NEW t \in ObjThreads, NEW prev \in Objs, NEW o \in Objs,
         objc_storeStrong(t, prev, o)
  PROVE  CallInv' /\ ObjectsIn' = ObjectsIn
<1>1. LifeTypes
  BY DEF CallInv
<1>2. PICK rcs : rcs = [refcount EXCEPT ![o] = Incremented(refcount[o])]
  OBVIOUS
<1>3. /\ prev # o /\ held[prev] > 0 /\ MayNest(t)
      /\ held' = [held EXCEPT ![prev] = @ - 1, ![o] = @ + 1]
      /\ ReleaseOn(t, prev, rcs, frames[t])
      /\ UNCHANGED <<leaked, pool_stacks, pooled, slot, slotInUse, weak_refs>>
  BY <1>2 DEF objc_storeStrong
<1>4. held' \in [Objs -> Nat]
  <2>1. held \in [Objs -> Nat] /\ held[prev] - 1 \in Nat /\ held[o] + 1 \in Nat
    BY <1>1, <1>3 DEF LifeTypes
  <2>2. held' = [[held EXCEPT ![prev] = held[prev] - 1] EXCEPT ![o] = held[o] + 1]
    BY <1>3, <2>1
  <2>3. QED
    BY <2>1, <2>2
<1>5. Incremented(refcount[o]) \in Int /\ (Incremented(refcount[o]) = 0 <=> refcount[o] = 0)
  BY <1>1 DEF Incremented, LifeTypes
<1>6. rcs \in [Objs -> Int] /\ \A x \in Objs : rcs[x] = Dying <=> refcount[x] = Dying
  BY <1>1, <1>2, <1>5 DEF LifeTypes, Dying
<1>7. frames[t] \in Seq(Calls) /\ Len(frames[t]) <= MaxNested
  BY <1>1, <1>3, ObjcAssumption DEF LifeTypes, MayNest
<1>8. QED
  BY <1>3, <1>4, <1>6, <1>7, ReleaseCalls

(* The innermost call of t is a drain, and becomes g, so that q is called. *)
DrainMoves(t, g, q) ==
  /\ q \in Seq(Calls) /\ Len(q) = Len(frames[t]) /\ Len(frames[t]) \in 1 .. MaxNested
  /\ Last(q) = g /\ q # <<>>
  /\ \A d \in Nat :
       /\ ObjAt(q, d) = ObjAt(frames[t], d)
       /\ PoolsAt(q, d) = IF d = Len(frames[t]) THEN g.pools ELSE PoolsAt(frames[t], d)
       /\ ObjectsAt(q, d) = IF d = Len(frames[t]) THEN g.objects ELSE ObjectsAt(frames[t], d)

LEMMA DrainStep ==
  ASSUME LifeTypes, DepthOK, NEW t \in ObjThreads, InHost(t), NEW g \in DrainFrames, NEW q,
         q = Append(Front(frames[t]), g)
  PROVE  DrainMoves(t, g, q)
<1>1. frames[t] # <<>> /\ Last(frames[t]).kind = "drain" /\ frames[t] \in Seq(Calls)
  BY DEF InHost, LifeTypes
<1> DEFINE r == Front(frames[t])
<1>2. /\ r \in Seq(Calls) /\ Len(r) = Len(frames[t]) - 1
      /\ Len(frames[t]) \in Nat /\ Len(frames[t]) >= 1 /\ Last(frames[t]) \in Calls
      /\ ObjAt(frames[t], Len(frames[t])) = Last(frames[t]).obj
  BY <1>1, PoppedCall
<1>3. \A d \in Nat :
        /\ ObjectsAt(r, d) = IF d = Len(frames[t]) THEN <<>> ELSE ObjectsAt(frames[t], d)
        /\ PoolsAt(r, d) = IF d = Len(frames[t]) THEN <<>> ELSE PoolsAt(frames[t], d)
        /\ ObjAt(r, d) = IF d = Len(frames[t]) THEN nil ELSE ObjAt(frames[t], d)
  BY <1>1, PoppedCall
<1>4. g \in Calls /\ g.obj = nil
  BY DEF Calls, DrainFrames
<1> HIDE DEF r
<1>5. /\ Append(r, g) \in Seq(Calls) /\ Len(Append(r, g)) = Len(r) + 1
      /\ Append(r, g) # <<>> /\ Last(Append(r, g)) = g
      /\ \A d \in Nat :
           /\ ObjectsAt(Append(r, g), d) = IF d = Len(r) + 1 THEN g.objects ELSE ObjectsAt(r, d)
           /\ PoolsAt(Append(r, g), d) = IF d = Len(r) + 1 THEN g.pools ELSE PoolsAt(r, d)
           /\ ObjAt(Append(r, g), d) = IF d = Len(r) + 1 THEN g.obj ELSE ObjAt(r, d)
  BY <1>2, <1>4, PushedCall
<1>6. Len(r) + 1 = Len(frames[t]) /\ q = Append(r, g)
  BY <1>2 DEF r
<1>7. Last(frames[t]).obj = nil
  BY <1>1, <1>2, CallTypes
<1>8. Len(frames[t]) \in 1 .. MaxNested
  BY <1>2, ObjcAssumption DEF DepthOK
<1>9. ASSUME NEW d \in Nat
      PROVE  /\ ObjAt(q, d) = ObjAt(frames[t], d)
             /\ PoolsAt(q, d) = IF d = Len(frames[t]) THEN g.pools ELSE PoolsAt(frames[t], d)
             /\ ObjectsAt(q, d) = IF d = Len(frames[t]) THEN g.objects ELSE ObjectsAt(frames[t], d)
  <2>1. CASE d = Len(frames[t])
    BY <1>2, <1>4, <1>5, <1>6, <1>7, <2>1
  <2>2. CASE d # Len(frames[t])
    BY <1>3, <1>5, <1>6, <2>2
  <2>3. QED
    BY <2>1, <2>2
<1>10. QED
  BY <1>5, <1>6, <1>8, <1>9 DEF DrainMoves

LEMMA DrainReleasesCalls ==
  ASSUME CallInv, NEW t \in ObjThreads, DrainReleases(t)
  PROVE  CallInv'
<1>1. LifeTypes /\ DepthOK /\ InHost(t)
  BY DEF CallInv, DrainReleases
<1>2. PICK f : f = Last(frames[t])
  OBVIOUS
<1>3. f \in DrainFrames /\ f.objects \in Seq(Objs) /\ f.objects # <<>>
  BY <1>1, <1>2, InnermostCall, CallTypes DEF InHost, DrainReleases
<1>4. PICK g : g = [f EXCEPT !.objects = Tail(f.objects)]
  OBVIOUS
<1>5. Tail(f.objects) \in Seq(Objs) /\ Head(f.objects) \in Objs
  BY <1>3
<1>6. g \in DrainFrames /\ g.pools = f.pools
  BY <1>3, <1>4, <1>5 DEF DrainFrames
<1>7. PICK q : q = Append(Front(frames[t]), g)
  OBVIOUS
<1>8. /\ q \in Seq(Calls) /\ Len(q) = Len(frames[t]) /\ Len(frames[t]) \in 1 .. MaxNested
      /\ \A d \in Nat :
           /\ ObjAt(q, d) = ObjAt(frames[t], d)
           /\ PoolsAt(q, d) = IF d = Len(frames[t]) THEN g.pools ELSE PoolsAt(frames[t], d)
  <2>1. DrainMoves(t, g, q)
    BY <1>1, <1>6, <1>7, DrainStep
  <2>2. QED
    BY <2>1 DEF DrainMoves
<1>9. \A d \in Nat : PoolsAt(q, d) = PoolsAt(frames[t], d)
  <2>1. PoolsAt(frames[t], Len(frames[t])) = f.pools
    BY <1>1, <1>2, PoppedCall DEF InHost, LifeTypes
  <2>2. QED
    BY <1>6, <1>8, <2>1
<1>10. /\ ReleaseOn(t, Head(f.objects), refcount, q)
       /\ UNCHANGED <<held, leaked, pool_stacks, pooled, slot, slotInUse, weak_refs>>
  BY <1>2, <1>4, <1>7 DEF DrainReleases
<1>11. refcount \in [Objs -> Int] /\ held' \in [Objs -> Nat]
  BY <1>1, <1>10 DEF LifeTypes
<1>12. Len(q) <= MaxNested
  BY <1>8, ObjcAssumption
<1>13. QED
  BY <1>5, <1>8, <1>9, <1>10, <1>11, <1>12, ReleaseCalls

LEMMA AtTypes ==
  ASSUME NEW q \in Seq(Calls), NEW d
  PROVE  PoolsAt(q, d) \in Seq(Pools) /\ ObjectsAt(q, d) \in Seq(Objs)
<1>1. CASE d \in DOMAIN q
  <2>1. q[d] \in Calls
    BY <1>1
  <2>2. QED
    BY <1>1, <2>1, CallTypes DEF PoolsAt, ObjectsAt
<1>2. CASE d \notin DOMAIN q
  <2>1. <<>> \in Seq(Pools) /\ <<>> \in Seq(Objs)
    OBVIOUS
  <2>2. QED
    BY <1>2, <2>1 DEF PoolsAt, ObjectsAt
<1>3. QED
  BY <1>1, <1>2

(* How the drains in progress hold x, when t calls q and <<t, n>> changes. *)
PoolsMove(t, n, q, x) ==
  /\ IsFiniteSet(Places(x, PoolsIn'))
  /\ Cardinality(Places(x, PoolsIn')) \in Nat /\ Cardinality(Places(x, PoolsIn)) \in Nat
  /\ Count(x, PoolsAt(frames[t], n)) \in Nat /\ Count(x, PoolsAt(q, n)) \in Nat
  /\ Cardinality(Places(x, PoolsIn')) + Count(x, PoolsAt(frames[t], n))
       = Cardinality(Places(x, PoolsIn)) + Count(x, PoolsAt(q, n))

ObjectsMove(t, n, q, x) ==
  /\ IsFiniteSet(Places(x, ObjectsIn'))
  /\ Cardinality(Places(x, ObjectsIn')) \in Nat /\ Cardinality(Places(x, ObjectsIn)) \in Nat
  /\ Count(x, ObjectsAt(frames[t], n)) \in Nat /\ Count(x, ObjectsAt(q, n)) \in Nat
  /\ Cardinality(Places(x, ObjectsIn')) + Count(x, ObjectsAt(frames[t], n))
       = Cardinality(Places(x, ObjectsIn)) + Count(x, ObjectsAt(q, n))

LEMMA PoolsInChange ==
  ASSUME LifeTypes, NEW t \in ObjThreads, NEW n \in 1 .. MaxNested + 1,
         NEW q \in Seq(Calls), frames' = [frames EXCEPT ![t] = q],
         \A d \in Nat : d # n => PoolsAt(q, d) = PoolsAt(frames[t], d), NEW x,
         IsFiniteSet(Places(x, PoolsIn))
  PROVE  PoolsMove(t, n, q, x)
<1>0. CallsMove(t, n, q)
  BY CallsChange
<1>1. /\ DOMAIN PoolsIn = Depths /\ DOMAIN PoolsIn' = Depths /\ <<t, n>> \in Depths
      /\ PoolsIn[<<t, n>>] = PoolsAt(frames[t], n) /\ PoolsIn'[<<t, n>>] = PoolsAt(q, n)
  BY <1>0 DEF CallsMove
<1>7. \A d \in Depths : d # <<t, n>> => PoolsIn'[d] = PoolsIn[d]
  BY <1>0 DEF CallsMove
<1>2. PoolsAt(frames[t], n) \in Seq(Pools) /\ PoolsAt(q, n) \in Seq(Pools)
  BY AtTypes DEF LifeTypes
<1>3. PICK f, g, k : f = PoolsIn /\ g = PoolsIn' /\ k = <<t, n>>
  OBVIOUS
<1>4. /\ k \in DOMAIN f /\ DOMAIN g = DOMAIN f /\ f[k] \in Seq(Pools) /\ g[k] \in Seq(Pools)
      /\ \A d \in DOMAIN f : d # k => g[d] = f[d]
      /\ IsFiniteSet(Places(x, f))
  BY <1>1, <1>2, <1>3, <1>7
<1>5. PlacesMove(f, g, k, x)
  BY <1>4, PlacesChange
<1>6. QED
  BY <1>1, <1>3, <1>5 DEF PlacesMove, PoolsMove

LEMMA ObjectsInChange ==
  ASSUME LifeTypes, NEW t \in ObjThreads, NEW n \in 1 .. MaxNested + 1,
         NEW q \in Seq(Calls), frames' = [frames EXCEPT ![t] = q],
         \A d \in Nat : d # n => ObjectsAt(q, d) = ObjectsAt(frames[t], d), NEW x,
         IsFiniteSet(Places(x, ObjectsIn))
  PROVE  ObjectsMove(t, n, q, x)
<1>0. CallsMove(t, n, q)
  BY CallsChange
<1>1. /\ DOMAIN ObjectsIn = Depths /\ DOMAIN ObjectsIn' = Depths /\ <<t, n>> \in Depths
      /\ ObjectsIn[<<t, n>>] = ObjectsAt(frames[t], n) /\ ObjectsIn'[<<t, n>>] = ObjectsAt(q, n)
  BY <1>0 DEF CallsMove
<1>7. \A d \in Depths : d # <<t, n>> => ObjectsIn'[d] = ObjectsIn[d]
  BY <1>0 DEF CallsMove
<1>2. ObjectsAt(frames[t], n) \in Seq(Objs) /\ ObjectsAt(q, n) \in Seq(Objs)
  BY AtTypes DEF LifeTypes
<1>3. PICK f, g, k : f = ObjectsIn /\ g = ObjectsIn' /\ k = <<t, n>>
  OBVIOUS
<1>4. /\ k \in DOMAIN f /\ DOMAIN g = DOMAIN f /\ f[k] \in Seq(Objs) /\ g[k] \in Seq(Objs)
      /\ \A d \in DOMAIN f : d # k => g[d] = f[d]
      /\ IsFiniteSet(Places(x, f))
  BY <1>1, <1>2, <1>3, <1>7
<1>5. PlacesMove(f, g, k, x)
  BY <1>4, PlacesChange
<1>6. QED
  BY <1>1, <1>3, <1>5 DEF PlacesMove, ObjectsMove

(* A call returns. *)
LEMMA ReturnDepth ==
  ASSUME LifeTypes, DepthOK, NEW t \in ObjThreads, frames[t] # <<>>,
         frames' = [frames EXCEPT ![t] = Front(@)]
  PROVE  frames' \in [ObjThreads -> Seq(Calls)] /\ DepthOK'
<1>1. frames[t] \in Seq(Calls)
  BY DEF LifeTypes
<1>2. /\ Front(frames[t]) \in Seq(Calls) /\ Len(Front(frames[t])) = Len(frames[t]) - 1
      /\ Len(frames[t]) \in Nat
  BY <1>1, PoppedCall
<1>3. Len(Front(frames[t])) <= MaxNested
  BY <1>2, ObjcAssumption DEF DepthOK
<1>4. frames' \in [ObjThreads -> Seq(Calls)]
  BY <1>2 DEF LifeTypes
<1>5. ASSUME NEW u \in ObjThreads
      PROVE  Len(frames'[u]) <= MaxNested \/ (Len(frames'[u]) = MaxNested + 1 /\ ~InHost(u)')
  <2>1. CASE u = t
    BY <1>3, <2>1 DEF LifeTypes
  <2>2. CASE u # t
    BY <2>2 DEF LifeTypes, DepthOK, InHost
  <2>3. QED
    BY <2>1, <2>2
<1>6. QED
  BY <1>4, <1>5 DEF DepthOK

LEMMA DeallocOfIs ==
  ASSUME LifeTypes, DepthOK, NEW t \in ObjThreads, DeallocOf(t) # nil
  PROVE  /\ frames[t] # <<>> /\ DeallocOf(t) = Last(frames[t]).obj /\ DeallocOf(t) \in Objs
         /\ Last(frames[t]).pools = <<>> /\ Last(frames[t]).objects = <<>>
         /\ <<t, Len(frames[t])>> \in Running(DeallocOf(t))
<1>1. frames[t] # <<>> /\ Last(frames[t]).kind = "dealloc" /\ DeallocOf(t) = Last(frames[t]).obj
  BY DEF DeallocOf
<1>2. frames[t] \in Seq(Calls) /\ Last(frames[t]) \in Calls /\ <<t, Len(frames[t])>> \in Depths
  BY <1>1, InnermostCall
<1>3. Last(frames[t]).obj \in Objs /\ Last(frames[t]).pools = <<>> /\ Last(frames[t]).objects = <<>>
  BY <1>1, <1>2, CallTypes
<1>4. ObjAt(frames[t], Len(frames[t])) = DeallocOf(t)
  BY <1>1, <1>2, PoppedCall
<1>5. QED
  BY <1>1, <1>2, <1>3, <1>4 DEF Running

LEMMA DyingIs ==
  ASSUME CallInv, NEW t \in ObjThreads, DeallocOf(t) # nil
  PROVE  DeallocOf(t) \in Objs /\ refcount[DeallocOf(t)] = Dying
<1>1. DeallocOf(t) \in Objs /\ <<t, Len(frames[t])>> \in Running(DeallocOf(t))
  BY DeallocOfIs DEF CallInv
<1>2. QED
  BY <1>1 DEF CallInv, DeallocInv

LEMMA DeallocCalls ==
  ASSUME CallInv, NEW t \in ObjThreads, dealloc_object(t)
  PROVE  CallInv' /\ ObjectsIn' = ObjectsIn
<1>1. LifeTypes /\ DepthOK /\ DeallocInv /\ PoolInv /\ DeallocOf(t) # nil
  BY DEF CallInv, dealloc_object
<1>2. PICK o, n, q : o = DeallocOf(t) /\ n = Len(frames[t]) /\ q = Front(frames[t])
  OBVIOUS
<1>3. /\ frames[t] # <<>> /\ o = Last(frames[t]).obj /\ o \in Objs
      /\ Last(frames[t]).pools = <<>> /\ Last(frames[t]).objects = <<>>
      /\ <<t, n>> \in Running(o)
  BY <1>1, <1>2, DeallocOfIs
<1>4. /\ refcount' = [refcount EXCEPT ![o] = Absent] /\ frames' = [frames EXCEPT ![t] = q]
      /\ ZeroWeak(o) /\ UNCHANGED <<held, leaked, pool_stacks, pooled, slotInUse>>
  BY <1>2 DEF dealloc_object
<1>5. frames[t] \in Seq(Calls) /\ n \in 1 .. MaxNested + 1
  BY <1>1, <1>2, <1>3, InnermostCall
<1>6. /\ q \in Seq(Calls) /\ ObjectsAt(frames[t], n) = <<>> /\ PoolsAt(frames[t], n) = <<>>
      /\ ObjAt(frames[t], n) = o
      /\ \A d \in Nat : /\ ObjectsAt(q, d) = IF d = n THEN <<>> ELSE ObjectsAt(frames[t], d)
                        /\ PoolsAt(q, d) = IF d = n THEN <<>> ELSE PoolsAt(frames[t], d)
                        /\ ObjAt(q, d) = IF d = n THEN nil ELSE ObjAt(frames[t], d)
  BY <1>2, <1>3, <1>5, PoppedCall
<1>7. /\ \A d \in Nat : ObjectsAt(q, d) = ObjectsAt(frames[t], d)
      /\ \A d \in Nat : PoolsAt(q, d) = PoolsAt(frames[t], d)
      /\ \A d \in Nat : d # n => ObjAt(q, d) = ObjAt(frames[t], d)
      /\ ObjAt(q, n) = nil
  <2>1. n \in Nat
    BY <1>5
  <2>2. QED
    BY <1>6, <2>1
<1>8. ObjectsIn' = ObjectsIn /\ PoolsIn' = PoolsIn
  BY <1>1, <1>4, <1>7, CallsKept
<1>9. frames' \in [ObjThreads -> Seq(Calls)] /\ DepthOK'
  BY <1>1, <1>2, <1>3, <1>4, ReturnDepth
<1>10. LifeTypes'
  <2>1. refcount' \in [Objs -> Int]
    <3>1. Absent \in Int
      BY DEF Absent
    <3>2. QED
      BY <1>1, <1>4, <3>1 DEF LifeTypes
  <2>2. slot' \in [Slots -> Objs \cup {nil}]
    BY <1>1, <1>4 DEF LifeTypes, ZeroWeak
  <2>3. weak_refs' \in [Objs -> [Slots -> Nat]]
    BY <1>1, <1>4 DEF LifeTypes, ZeroWeak, NoSlots
  <2>4. QED
    BY <1>1, <1>4, <1>9, <2>1, <2>2, <2>3 DEF LifeTypes
<1>11. DeallocInv'
  <2>1. ASSUME NEW x \in Objs
        PROVE  IF refcount'[x] = Dying THEN \E d : Running(x)' = {d} ELSE Running(x)' = {}
    <3>1. RunningMoves(t, n, q, x)
      BY <1>1, <1>4, <1>5, <1>6, <1>7, RunningChange
    <3>2. nil # x
      BY ObjcAssumption
    <3>3. /\ <<t, n>> \notin Running(x)' /\ (<<t, n>> \in Running(x) <=> x = o)
          /\ \A e : e # <<t, n>> => (e \in Running(x)' <=> e \in Running(x))
      BY <1>6, <1>7, <3>1, <3>2 DEF RunningMoves
    <3>4. IF refcount[x] = Dying THEN \E d : Running(x) = {d} ELSE Running(x) = {}
      BY <1>1 DEF DeallocInv
    <3>5. CASE x = o
      <4>1. refcount'[x] # Dying
        BY <1>1, <1>4, <3>5 DEF LifeTypes, Absent, Dying
      <4>2. PICK d : Running(x) = {d}
        BY <3>3, <3>4, <3>5
      <4>3. Running(x) = {<<t, n>>}
        BY <3>3, <3>5, <4>2
      <4>4. \A e : e \notin Running(x)'
        BY <3>3, <4>3
      <4>5. QED
        BY <4>1, <4>4
    <3>6. CASE x # o
      <4>1. refcount'[x] = refcount[x]
        BY <1>1, <1>4, <3>6 DEF LifeTypes
      <4>2. \A e : e \in Running(x)' <=> e \in Running(x)
        BY <3>3, <3>6
      <4>3. Running(x)' = Running(x)
        BY <4>2
      <4>4. QED
        BY <3>4, <4>1, <4>3
    <3>7. QED
      BY <3>5, <3>6
  <2>2. QED
    BY <2>1 DEF DeallocInv
<1>12. PoolInv'
  <2>1. \A p \in Pools : PoolLive(p)' <=> PoolLive(p)
    BY <1>4 DEF PoolLive
  <2>2. QED
    BY <1>1, <1>4, <1>8, <2>1, PoolsKept
<1>13. QED
  BY <1>8, <1>9, <1>10, <1>11, <1>12 DEF CallInv

LEMMA DrainEndsCalls ==
  ASSUME CallInv, NEW t \in ObjThreads, DrainEnds(t)
  PROVE  CallInv' /\ ObjectsIn' = ObjectsIn
<1>1. LifeTypes /\ DepthOK /\ DeallocInv /\ PoolInv /\ InHost(t)
  BY DEF CallInv, DrainEnds
<1>2. PICK q : q = Front(frames[t])
  OBVIOUS
<1>3. /\ frames[t] # <<>> /\ Last(frames[t]).kind = "drain"
      /\ Last(frames[t]).pools = <<>> /\ Last(frames[t]).objects = <<>>
      /\ frames' = [frames EXCEPT ![t] = q]
      /\ UNCHANGED <<refcount, held, leaked, pool_stacks, pooled, slot, slotInUse, weak_refs>>
  BY <1>1, <1>2 DEF DrainEnds, InHost
<1>4. frames[t] \in Seq(Calls) /\ Last(frames[t]) \in Calls /\ Len(frames[t]) \in Nat
  <2>1. frames[t] \in Seq(Calls)
    BY <1>1 DEF LifeTypes
  <2>2. QED
    BY <1>3, <2>1, PoppedCall
<1>5. Last(frames[t]).obj = nil
  BY <1>3, <1>4, CallTypes
<1>6. \A d \in Nat : /\ ObjectsAt(q, d) = ObjectsAt(frames[t], d)
                     /\ PoolsAt(q, d) = PoolsAt(frames[t], d)
                     /\ ObjAt(q, d) = ObjAt(frames[t], d)
  BY <1>2, <1>3, <1>4, <1>5, PoppedCall
<1>7. ObjectsIn' = ObjectsIn /\ PoolsIn' = PoolsIn /\ \A o : Running(o)' = Running(o)
  BY <1>1, <1>3, <1>6, CallsKept
<1>8. frames' \in [ObjThreads -> Seq(Calls)] /\ DepthOK'
  BY <1>1, <1>2, <1>3, ReturnDepth
<1>9. LifeTypes'
  BY <1>1, <1>3, <1>8 DEF LifeTypes
<1>10. DeallocInv'
  BY <1>1, <1>3, <1>7 DEF DeallocInv
<1>11. PoolInv'
  <2>1. \A p \in Pools : PoolLive(p)' <=> PoolLive(p)
    BY <1>3 DEF PoolLive
  <2>2. QED
    BY <1>1, <1>3, <1>7, <2>1, PoolsKept
<1>12. QED
  BY <1>7, <1>8, <1>9, <1>10, <1>11 DEF CallInv

LEMMA PushCalls ==
  ASSUME CallInv, NEW t \in ObjThreads, NEW p \in Pools, objc_autoreleasePoolPush(t, p)
  PROVE  CallInv'
<1>1. LifeTypes /\ DepthOK /\ DeallocInv /\ PoolInv
  BY DEF CallInv
<1>2. /\ ~PoolLive(p) /\ pooled' = [pooled EXCEPT ![p] = <<>>]
      /\ pool_stacks' = [pool_stacks EXCEPT ![t] = Append(pool_stacks[t], p)]
      /\ UNCHANGED <<refcount, held, leaked, frames, slot, slotInUse, weak_refs>>
  BY DEF objc_autoreleasePoolPush
<1>3. /\ pool_stacks[t] \in Seq(Pools) /\ Append(pool_stacks[t], p) \in Seq(Pools)
      /\ <<>> \in Seq(Objs)
  BY <1>1 DEF LifeTypes
<1>4. LifeTypes'
  <2>1. pooled' \in [Pools -> Seq(Objs) \cup {NoPool}]
    BY <1>1, <1>2, <1>3 DEF LifeTypes
  <2>2. pool_stacks' \in [ObjThreads -> Seq(Pools)]
    BY <1>1, <1>2, <1>3 DEF LifeTypes
  <2>3. QED
    BY <1>1, <1>2, <2>1, <2>2 DEF LifeTypes
<1>5. PoolsIn' = PoolsIn /\ \A o : Running(o)' = Running(o)
  BY <1>2 DEF PoolsIn, Running
<1>6. DepthOK' /\ DeallocInv'
  BY <1>1, <1>2, <1>5 DEF DepthOK, InHost, DeallocInv
<1>7. ASSUME NEW x \in Pools
      PROVE  /\ IsFiniteSet(Places(x, pool_stacks')) /\ IsFiniteSet(Places(x, PoolsIn'))
             /\ Cardinality(Places(x, pool_stacks')) + Cardinality(Places(x, PoolsIn'))
                  = IF PoolLive(x)' THEN 1 ELSE 0
  <2>1. /\ IsFiniteSet(Places(x, pool_stacks)) /\ IsFiniteSet(Places(x, PoolsIn))
        /\ Cardinality(Places(x, pool_stacks)) + Cardinality(Places(x, PoolsIn))
             = IF PoolLive(x) THEN 1 ELSE 0
        /\ Cardinality(Places(x, PoolsIn)) \in Nat
    BY <1>1, PoolsFound DEF PoolInv
  <2>2. PICK f, g : f = pool_stacks /\ g = pool_stacks'
    OBVIOUS
  <2>3. /\ t \in DOMAIN f /\ DOMAIN g = DOMAIN f /\ f[t] \in Seq(Pools) /\ g[t] \in Seq(Pools)
        /\ \A d \in DOMAIN f : d # t => g[d] = f[d]
        /\ IsFiniteSet(Places(x, f)) /\ g[t] = Append(f[t], p)
    BY <1>1, <1>2, <1>3, <2>1, <2>2 DEF LifeTypes
  <2>4. PlacesMove(f, g, t, x)
    BY <2>3, PlacesChange
  <2>5. Count(x, g[t]) = Count(x, f[t]) + IF p = x THEN 1 ELSE 0
    BY <2>3, CountAppend
  <2>6. Cardinality(Places(x, g)) = Cardinality(Places(x, f)) + IF p = x THEN 1 ELSE 0
    BY <2>4, <2>5 DEF PlacesMove
  <2>7. CASE x = p
    <3>1. PoolLive(x)'
      <4>1. pooled'[x] = <<>>
        BY <1>1, <1>2, <2>7 DEF LifeTypes
      <4>2. <<>> # <<nil>>
        OBVIOUS
      <4>3. QED
        BY <4>1, <4>2 DEF PoolLive, NoPool
    <3>2. QED
      BY <1>2, <1>5, <2>1, <2>2, <2>4, <2>6, <2>7, <3>1 DEF PlacesMove
  <2>8. CASE x # p
    <3>1. PoolLive(x)' <=> PoolLive(x)
      BY <1>1, <1>2, <2>8 DEF LifeTypes, PoolLive
    <3>2. QED
      BY <1>5, <2>1, <2>2, <2>4, <2>6, <2>8, <3>1 DEF PlacesMove
  <2>9. QED
    BY <2>7, <2>8
<1>8. PoolInv'
  BY <1>7 DEF PoolInv
<1>9. QED
  BY <1>4, <1>6, <1>8 DEF CallInv

LEMMA DrainTakesCalls ==
  ASSUME CallInv, NEW t \in ObjThreads, DrainTakes(t)
  PROVE  CallInv'
<1>1. LifeTypes /\ DepthOK /\ DeallocInv /\ PoolInv /\ InHost(t)
  BY DEF CallInv, DrainTakes
<1>2. PICK f, h, n : f = Last(frames[t]) /\ h = Head(f.pools) /\ n = Len(frames[t])
  OBVIOUS
<1>3. frames[t] # <<>> /\ f.kind = "drain" /\ f.pools # <<>>
  BY <1>1, <1>2 DEF DrainTakes, InHost
<1>4. f \in Calls /\ PoolsAt(frames[t], n) = f.pools
  <2>1. frames[t] \in Seq(Calls)
    BY <1>1 DEF LifeTypes
  <2>2. QED
    BY <1>2, <1>3, <2>1, PoppedCall
<1>5. f \in DrainFrames /\ f.pools \in Seq(Pools)
  BY <1>3, <1>4, CallTypes
<1>6. h \in Pools /\ PoolLive(h)
  BY <1>1, <1>2, <1>3, DrainPools
<1>7. pooled[h] \in Seq(Objs) /\ Tail(f.pools) \in Seq(Pools)
  BY <1>1, <1>3, <1>5, <1>6, LiveObjects
<1>8. PICK g : g = [f EXCEPT !.objects = pooled[h], !.pools = Tail(f.pools)]
  OBVIOUS
<1>9. g \in DrainFrames /\ g.pools = Tail(f.pools) /\ g.objects = pooled[h]
  BY <1>5, <1>7, <1>8 DEF DrainFrames
<1>10. PICK q : q = Append(Front(frames[t]), g)
  OBVIOUS
<1>11. DrainMoves(t, g, q)
  BY <1>1, <1>9, <1>10, DrainStep
<1>12. /\ frames' = [frames EXCEPT ![t] = q] /\ pooled' = [pooled EXCEPT ![h] = NoPool]
       /\ UNCHANGED <<refcount, held, leaked, pool_stacks, slot, slotInUse, weak_refs>>
  BY <1>2, <1>8, <1>10 DEF DrainTakes
<1>13. /\ q \in Seq(Calls) /\ Len(q) = n /\ n \in 1 .. MaxNested
       /\ \A d \in Nat : ObjAt(q, d) = ObjAt(frames[t], d)
       /\ \A d \in Nat : d # n => PoolsAt(q, d) = PoolsAt(frames[t], d)
       /\ PoolsAt(q, n) = Tail(f.pools)
  <2>1. n \in Nat /\ n \in 1 .. MaxNested
    BY <1>2, <1>11 DEF DrainMoves
  <2>2. QED
    BY <1>2, <1>9, <1>11, <2>1 DEF DrainMoves
<1>14. \A o : Running(o)' = Running(o)
  BY <1>1, <1>12, <1>13, CallsKept
<1>15. LifeTypes'
  <2>1. frames' \in [ObjThreads -> Seq(Calls)]
    BY <1>1, <1>12, <1>13 DEF LifeTypes
  <2>2. pooled' \in [Pools -> Seq(Objs) \cup {NoPool}]
    BY <1>1, <1>12 DEF LifeTypes
  <2>3. QED
    BY <1>1, <1>12, <2>1, <2>2 DEF LifeTypes
<1>16. DepthOK'
  <2>1. ASSUME NEW u \in ObjThreads
        PROVE  Len(frames'[u]) <= MaxNested \/ (Len(frames'[u]) = MaxNested + 1 /\ ~InHost(u)')
    <3>1. CASE u = t
      <4>1. frames'[u] = q
        BY <1>1, <1>12, <3>1 DEF LifeTypes
      <4>2. Len(q) <= MaxNested
        BY <1>13, ObjcAssumption
      <4>3. QED
        BY <4>1, <4>2
    <3>2. CASE u # t
      BY <1>1, <1>12, <3>2 DEF LifeTypes, DepthOK, InHost
    <3>3. QED
      BY <3>1, <3>2
  <2>2. QED
    BY <2>1 DEF DepthOK
<1>17. DeallocInv'
  BY <1>1, <1>12, <1>14 DEF DeallocInv
<1>18. ASSUME NEW x \in Pools
       PROVE  /\ IsFiniteSet(Places(x, pool_stacks')) /\ IsFiniteSet(Places(x, PoolsIn'))
              /\ Cardinality(Places(x, pool_stacks')) + Cardinality(Places(x, PoolsIn'))
                   = IF PoolLive(x)' THEN 1 ELSE 0
  <2>1. /\ IsFiniteSet(Places(x, pool_stacks)) /\ IsFiniteSet(Places(x, PoolsIn))
        /\ Cardinality(Places(x, pool_stacks)) + Cardinality(Places(x, PoolsIn))
             = IF PoolLive(x) THEN 1 ELSE 0
        /\ Cardinality(Places(x, pool_stacks)) \in Nat
    BY <1>1, PoolsFound DEF PoolInv
  <2>2. n \in 1 .. MaxNested + 1
    BY <1>13, ObjcAssumption
  <2>3. PoolsMove(t, n, q, x)
    BY <1>1, <1>12, <1>13, <2>1, <2>2, PoolsInChange
  <2>4. Count(x, Tail(f.pools)) = Count(x, f.pools) - IF h = x THEN 1 ELSE 0
    BY <1>2, <1>3, <1>5, CountTail
  <2>5. PICK a \in Nat, b \in Nat, c \in Nat, d \in Nat :
          /\ a = Cardinality(Places(x, PoolsIn')) /\ b = Cardinality(Places(x, PoolsIn))
          /\ c = Count(x, f.pools) /\ d = Count(x, Tail(f.pools)) /\ a + c = b + d
    BY <1>4, <1>13, <2>3 DEF PoolsMove
  <2>6. a = b - IF h = x THEN 1 ELSE 0
    BY <2>4, <2>5
  <2>7. IsFiniteSet(Places(x, PoolsIn'))
    BY <2>3 DEF PoolsMove
  <2>8. CASE x = h
    <3>1. ~PoolLive(x)' /\ PoolLive(x)
      BY <1>1, <1>6, <1>12, <2>8 DEF PoolLive, LifeTypes
    <3>2. QED
      BY <1>12, <2>1, <2>5, <2>6, <2>7, <2>8, <3>1
  <2>9. CASE x # h
    <3>1. PoolLive(x)' <=> PoolLive(x)
      BY <1>1, <1>12, <2>9 DEF PoolLive, LifeTypes
    <3>2. QED
      BY <1>12, <2>1, <2>5, <2>6, <2>7, <2>9, <3>1
  <2>10. QED
    BY <2>8, <2>9
<1>19. PoolInv'
  BY <1>18 DEF PoolInv
<1>20. QED
  BY <1>15, <1>16, <1>17, <1>19 DEF CallInv

(* The pool is on the stack of its owner. *)
LEMMA OwnerIs ==
  ASSUME LifeTypes, NEW p, \E u \in ObjThreads : p \in ToSet(pool_stacks[u])
  PROVE  OwnerOf(p) \in ObjThreads /\ IndexOf(p) \in DOMAIN pool_stacks[OwnerOf(p)]
<1>1. OwnerOf(p) \in ObjThreads /\ p \in ToSet(pool_stacks[OwnerOf(p)])
  BY DEF OwnerOf
<1>2. \E i \in DOMAIN pool_stacks[OwnerOf(p)] : pool_stacks[OwnerOf(p)][i] = p
  BY <1>1 DEF ToSet
<1>3. QED
  BY <1>1, <1>2 DEF IndexOf

LEMMA PopCalls ==
  ASSUME CallInv, NEW t \in ObjThreads, NEW p \in Pools, objc_autoreleasePoolPop(t, p)
  PROVE  CallInv' /\ ObjectsIn' = ObjectsIn
<1>1. LifeTypes /\ DepthOK /\ DeallocInv /\ PoolInv
  BY DEF CallInv
<1>2. PICK w, k, stack : w = OwnerOf(p) /\ k = IndexOf(p) /\ stack = pool_stacks[w]
  OBVIOUS
<1>3. w \in ObjThreads /\ k \in DOMAIN stack
  BY <1>1, <1>2, OwnerIs DEF objc_autoreleasePoolPop
<1>4. stack \in Seq(Pools) /\ k \in 1 .. Len(stack)
  BY <1>1, <1>2, <1>3 DEF LifeTypes
<1>5. PICK low, high : low = SubSeq(stack, 1, k - 1) /\ high = Reverse(SubSeq(stack, k, Len(stack)))
  OBVIOUS
<1>6. low \in Seq(Pools) /\ high \in Seq(Pools)
  BY <1>4, <1>5, CountSplit
<1>7. PICK g, q, n : g = DrainFrame(high) /\ q = Append(frames[t], g) /\ n = Len(frames[t]) + 1
  OBVIOUS
<1>8. /\ MayNest(t) /\ pool_stacks' = [pool_stacks EXCEPT ![w] = low]
      /\ frames' = [frames EXCEPT ![t] = q]
      /\ UNCHANGED <<refcount, held, leaked, pooled, slot, slotInUse, weak_refs>>
  BY <1>2, <1>5, <1>7 DEF objc_autoreleasePoolPop, BelowPool
<1>9. /\ g \in Calls /\ g.pools = high /\ g.objects = <<>> /\ g.obj = nil
  BY <1>6, <1>7 DEF DrainFrame, Calls, DrainFrames
<1>10. frames[t] \in Seq(Calls)
  BY <1>1 DEF LifeTypes
<1>11. /\ q \in Seq(Calls) /\ Len(q) = n /\ Len(frames[t]) \in Nat
       /\ \A d \in Nat : /\ ObjectsAt(q, d) = IF d = n THEN <<>> ELSE ObjectsAt(frames[t], d)
                         /\ PoolsAt(q, d) = IF d = n THEN high ELSE PoolsAt(frames[t], d)
                         /\ ObjAt(q, d) = IF d = n THEN nil ELSE ObjAt(frames[t], d)
  BY <1>7, <1>9, <1>10, PushedCall
<1>12. n \in Nat /\ n \in 1 .. MaxNested + 1 /\ n <= MaxNested
  BY <1>7, <1>8, <1>11, ObjcAssumption DEF MayNest
<1>13. n \notin DOMAIN frames[t]
  BY <1>7, <1>10
<1>14. ObjectsAt(frames[t], n) = <<>> /\ PoolsAt(frames[t], n) = <<>> /\ ObjAt(frames[t], n) = nil
  BY <1>13 DEF ObjectsAt, PoolsAt, ObjAt
<1>15. /\ \A d \in Nat : ObjectsAt(q, d) = ObjectsAt(frames[t], d)
       /\ \A d \in Nat : ObjAt(q, d) = ObjAt(frames[t], d)
       /\ \A d \in Nat : d # n => PoolsAt(q, d) = PoolsAt(frames[t], d)
       /\ PoolsAt(q, n) = high
  BY <1>11, <1>12, <1>14
<1>16. ObjectsIn' = ObjectsIn /\ \A o : Running(o)' = Running(o)
  BY <1>1, <1>8, <1>15, CallsKept
<1>17. LifeTypes'
  <2>1. frames' \in [ObjThreads -> Seq(Calls)]
    BY <1>1, <1>8, <1>11 DEF LifeTypes
  <2>2. pool_stacks' \in [ObjThreads -> Seq(Pools)]
    BY <1>1, <1>6, <1>8 DEF LifeTypes
  <2>3. QED
    BY <1>1, <1>8, <2>1, <2>2 DEF LifeTypes
<1>18. DepthOK'
  <2>1. ASSUME NEW u \in ObjThreads
        PROVE  Len(frames'[u]) <= MaxNested \/ (Len(frames'[u]) = MaxNested + 1 /\ ~InHost(u)')
    <3>1. CASE u = t
      <4>1. frames'[u] = q
        BY <1>1, <1>8, <3>1 DEF LifeTypes
      <4>2. QED
        BY <1>11, <1>12, <4>1
    <3>2. CASE u # t
      BY <1>1, <1>8, <3>2 DEF LifeTypes, DepthOK, InHost
    <3>3. QED
      BY <3>1, <3>2
  <2>2. QED
    BY <2>1 DEF DepthOK
<1>19. DeallocInv'
  BY <1>1, <1>8, <1>16 DEF DeallocInv
<1>20. ASSUME NEW x \in Pools
       PROVE  /\ IsFiniteSet(Places(x, pool_stacks')) /\ IsFiniteSet(Places(x, PoolsIn'))
              /\ Cardinality(Places(x, pool_stacks')) + Cardinality(Places(x, PoolsIn'))
                   = IF PoolLive(x)' THEN 1 ELSE 0
  <2>1. /\ IsFiniteSet(Places(x, pool_stacks)) /\ IsFiniteSet(Places(x, PoolsIn))
        /\ Cardinality(Places(x, pool_stacks)) + Cardinality(Places(x, PoolsIn))
             = IF PoolLive(x) THEN 1 ELSE 0
    BY <1>1 DEF PoolInv
  <2>2. PICK f, g2 : f = pool_stacks /\ g2 = pool_stacks'
    OBVIOUS
  <2>3. /\ w \in DOMAIN f /\ DOMAIN g2 = DOMAIN f /\ f[w] \in Seq(Pools) /\ g2[w] \in Seq(Pools)
        /\ \A d \in DOMAIN f : d # w => g2[d] = f[d]
        /\ IsFiniteSet(Places(x, f)) /\ g2[w] = low /\ f[w] = stack
    BY <1>1, <1>2, <1>3, <1>6, <1>8, <2>1, <2>2 DEF LifeTypes
  <2>4. PlacesMove(f, g2, w, x)
    BY <2>3, PlacesChange
  <2>5. PoolsMove(t, n, q, x)
    BY <1>1, <1>8, <1>11, <1>12, <1>15, <2>1, PoolsInChange
  <2>6. Count(x, stack) = Count(x, low) + Count(x, high)
    BY <1>4, <1>5, CountSplit
  <2>7. Count(x, PoolsAt(frames[t], n)) = 0 /\ PoolsAt(q, n) = high
    BY <1>14, <1>15, CountEmpty
  <2>8. /\ Cardinality(Places(x, g2)) \in Nat /\ Cardinality(Places(x, f)) \in Nat
        /\ Count(x, stack) \in Nat /\ Count(x, low) \in Nat
        /\ Cardinality(Places(x, g2)) + Count(x, stack) = Cardinality(Places(x, f)) + Count(x, low)
    BY <2>3, <2>4 DEF PlacesMove
  <2>9. /\ Cardinality(Places(x, PoolsIn')) \in Nat /\ Cardinality(Places(x, PoolsIn)) \in Nat
        /\ Count(x, high) \in Nat
        /\ Cardinality(Places(x, PoolsIn')) = Cardinality(Places(x, PoolsIn)) + Count(x, high)
    BY <2>5, <2>7 DEF PoolsMove
  <2>10. Cardinality(Places(x, g2)) + Cardinality(Places(x, PoolsIn'))
           = Cardinality(Places(x, f)) + Cardinality(Places(x, PoolsIn))
    BY <2>6, <2>8, <2>9
  <2>11. PoolLive(x)' <=> PoolLive(x)
    BY <1>8 DEF PoolLive
  <2>12. IsFiniteSet(Places(x, g2)) /\ IsFiniteSet(Places(x, PoolsIn'))
    BY <2>4, <2>5 DEF PlacesMove, PoolsMove
  <2>13. QED
    BY <2>1, <2>2, <2>10, <2>11, <2>12
<1>21. PoolInv'
  BY <1>20 DEF PoolInv
<1>22. QED
  BY <1>16, <1>17, <1>18, <1>19, <1>21 DEF CallInv

LEMMA CallStep ==
  ASSUME CallInv, [ObjcNext]_objcVars
  PROVE  CallInv'
<1>1. ASSUME NEW o \in Objs, alloc_object(o) \/ retain(o) PROVE CallInv'
  BY <1>1, CountCalls
<1>2. ASSUME NEW t \in ObjThreads, NEW o \in Objs, release(t, o) PROVE CallInv'
  BY <1>2, GuestReleaseCalls
<1>3. ASSUME NEW t \in ObjThreads, NEW o \in Objs, autorelease(t, o) PROVE CallInv'
  BY <1>3, AutoreleaseCalls
<1>4. ASSUME NEW t \in ObjThreads, NEW o \in Objs, NEW prev \in Objs, objc_storeStrong(t, prev, o)
      PROVE  CallInv'
  BY <1>4, StoreStrongCalls
<1>5. ASSUME NEW t \in ObjThreads, dealloc_object(t) PROVE CallInv'
  BY <1>5, DeallocCalls
<1>6. ASSUME NEW t \in ObjThreads, DrainTakes(t) \/ DrainReleases(t) \/ DrainEnds(t) PROVE CallInv'
  BY <1>6, DrainTakesCalls, DrainReleasesCalls, DrainEndsCalls
<1>7. ASSUME NEW t \in ObjThreads, NEW p \in Pools,
             objc_autoreleasePoolPush(t, p) \/ objc_autoreleasePoolPop(t, p)
      PROVE  CallInv'
  BY <1>7, PushCalls, PopCalls
<1>8. ASSUME WeakStep PROVE CallInv'
  BY <1>8, WeakCalls
<1>9. ASSUME NEW s \in Slots, NEW t \in ObjThreads, objc_loadWeak(t, s) PROVE CallInv'
  BY <1>9, LoadCalls
<1>10. ASSUME NEW s \in Slots, objc_loadWeakRetained(s) PROVE CallInv'
  BY <1>10, LoadCalls
<1>11. ASSUME UNCHANGED objcVars PROVE CallInv'
  <2>1. LifeTypes'
    BY <1>11 DEF CallInv, LifeTypes, objcVars
  <2>2. QED
    BY <1>11, <2>1, CallsSame DEF objcVars, PoolLive
<1>12. QED
  BY <1>1, <1>2, <1>3, <1>4, <1>5, <1>6, <1>7, <1>8, <1>9, <1>10, <1>11 DEF ObjcNext, WeakStep

LEMMA CallsInvariant == ObjcSpec => []CallInv
<1>1. CallInv /\ [ObjcNext]_objcVars => CallInv'
  BY CallStep
<1>2. QED
  BY <1>1, CallInit, PTL DEF ObjcSpec

(* An object is in dealloc exactly while one thread runs its dealloc       *)
(* method, once: dealloc is sent when the count reaches zero               *)
(* (objc/objects.rs) and never again, whatever the guest does in it.       *)
THEOREM DeallocRunsOnce == ObjcSpec => []DeallocOnce
<1>1. ASSUME CallInv, NEW o \in Objs
      PROVE  Cardinality({d \in Depths :
                            d[2] \in DOMAIN frames[d[1]] /\ frames[d[1]][d[2]].obj = o})
               = IF refcount[o] = Dying THEN 1 ELSE 0
  <2>1. Running(o) = {d \in Depths :
                        d[2] \in DOMAIN frames[d[1]] /\ frames[d[1]][d[2]].obj = o}
    <3>1. o # nil
      BY ObjcAssumption
    <3>2. QED
      BY <3>1 DEF Running, ObjAt
  <2>2. IF refcount[o] = Dying THEN \E d : Running(o) = {d} ELSE Running(o) = {}
    BY <1>1 DEF CallInv, DeallocInv
  <2>3. Cardinality(Running(o)) = IF refcount[o] = Dying THEN 1 ELSE 0
    BY <2>2, FS_EmptySet, FS_Singleton
  <2>4. QED
    BY <2>1, <2>3
<1>2. CallInv => DeallocOnce
  BY <1>1 DEF DeallocOnce
<1>3. QED
  BY <1>2, CallsInvariant, PTL

(* A live pool is on one stack, once, or waits in one drain, so that       *)
(* -[NSAutoreleasePool dealloc] empties every pool once, whichever thread  *)
(* drains it or a pool below it (foundation/ns_autorelease_pool.rs).       *)
THEOREM PoolsEmptiedOnce == ObjcSpec => []PoolsOwnedOnce
<1>1. CallInv => PoolsOwnedOnce
  BY DEF CallInv, PoolInv, PoolsOwnedOnce
<1>2. QED
  BY <1>1, CallsInvariant, PTL

-----------------------------------------------------------------------------
(* The references to an object, and the weak slots that hold it.  A weak   *)
(* load takes a reference to an object that is there and not in dealloc    *)
(* (unless LoadsWhileDying), so the two invariants go together.            *)

Refs(rc) == IF rc > 0 THEN rc ELSE 0

RefOK(o) ==
  /\ refcount[o] >= Absent
  /\ IsFiniteSet(Places(o, pooled)) /\ IsFiniteSet(Places(o, ObjectsIn))
  /\ held[o] + leaked[o] + (Cardinality(Places(o, pooled)) + Cardinality(Places(o, ObjectsIn)))
       = Refs(refcount[o])

RefInv == \A o \in Objs : RefOK(o)

WeakInv ==
  /\ \A s \in Slots, o \in Objs : weak_refs[o][s] = IF slot[s] = o THEN 1 ELSE 0
  /\ \A s \in Slots, o \in Objs : slot[s] = o => refcount[o] # Absent
  /\ \A s \in Slots : s \notin slotInUse => slot[s] = nil

LEMMA RefParts ==
  ASSUME LifeTypes, NEW o \in Objs, RefOK(o)
  PROVE  /\ held[o] \in Nat /\ leaked[o] \in Nat /\ refcount[o] \in Int
         /\ Cardinality(Places(o, pooled)) \in Nat /\ Cardinality(Places(o, ObjectsIn)) \in Nat
         /\ held[o] > 0 => refcount[o] > 0
         /\ Cardinality(Places(o, ObjectsIn)) > 0 => refcount[o] > 0
<1>1. held[o] \in Nat /\ leaked[o] \in Nat /\ refcount[o] \in Int
  BY DEF LifeTypes
<1>2. Cardinality(Places(o, pooled)) \in Nat /\ Cardinality(Places(o, ObjectsIn)) \in Nat
  BY FS_CardinalityType DEF RefOK
<1>3. refcount[o] > 0 \/ Refs(refcount[o]) = 0
  BY DEF Refs
<1>4. held[o] + leaked[o] + (Cardinality(Places(o, pooled)) + Cardinality(Places(o, ObjectsIn)))
        = Refs(refcount[o])
  BY DEF RefOK
<1>5. QED
  BY <1>1, <1>2, <1>3, <1>4

(* What stays of x, and what is added to each side of the equation. *)
LEMMA RefSame ==
  ASSUME NEW x \in Objs, RefOK(x), refcount'[x] = refcount[x], held'[x] = held[x],
         leaked'[x] = leaked[x], Places(x, pooled') = Places(x, pooled),
         Places(x, ObjectsIn') = Places(x, ObjectsIn)
  PROVE  RefOK(x)'
  BY DEF RefOK

LEMMA RefAdded ==
  ASSUME LifeTypes, NEW x \in Objs, RefOK(x), refcount'[x] \in Int, held'[x] \in Nat,
         leaked'[x] \in Nat,
         IsFiniteSet(Places(x, pooled')), IsFiniteSet(Places(x, ObjectsIn')),
         refcount'[x] >= 0, refcount[x] >= 0,
         held'[x] + leaked'[x]
           + (Cardinality(Places(x, pooled')) + Cardinality(Places(x, ObjectsIn'))) + refcount[x]
           = held[x] + leaked[x]
             + (Cardinality(Places(x, pooled)) + Cardinality(Places(x, ObjectsIn))) + refcount'[x]
  PROVE  RefOK(x)'
<1>1. /\ held[x] \in Nat /\ leaked[x] \in Nat /\ refcount[x] \in Int
      /\ Cardinality(Places(x, pooled)) \in Nat /\ Cardinality(Places(x, ObjectsIn)) \in Nat
  BY RefParts
<1>2. Cardinality(Places(x, pooled')) \in Nat /\ Cardinality(Places(x, ObjectsIn')) \in Nat
  BY FS_CardinalityType
<1>3. Refs(refcount[x]) = refcount[x] /\ Refs(refcount'[x]) = refcount'[x]
  BY <1>1 DEF Refs
<1>4. held[x] + leaked[x] + (Cardinality(Places(x, pooled)) + Cardinality(Places(x, ObjectsIn)))
        = refcount[x]
  BY <1>3 DEF RefOK
<1>5. held'[x] + leaked'[x]
        + (Cardinality(Places(x, pooled')) + Cardinality(Places(x, ObjectsIn'))) = refcount'[x]
  <2>1. PICK a \in Int, b \in Int :
          /\ a = held'[x] + leaked'[x]
                 + (Cardinality(Places(x, pooled')) + Cardinality(Places(x, ObjectsIn')))
          /\ b = held[x] + leaked[x]
                 + (Cardinality(Places(x, pooled)) + Cardinality(Places(x, ObjectsIn)))
    BY <1>1, <1>2
  <2>2. a + refcount[x] = b + refcount'[x] /\ b = refcount[x]
    BY <1>4, <2>1
  <2>3. PICK c \in Int, d \in Int : c = refcount[x] /\ d = refcount'[x]
    BY <1>1
  <2>4. a + c = b + d /\ b = c
    BY <2>2, <2>3
  <2>5. a = d
    BY ONLY a \in Int, b \in Int, c \in Int, d \in Int, <2>4
  <2>6. QED
    BY <2>1, <2>3, <2>5
<1>6. refcount'[x] >= Absent
  BY DEF Absent
<1>7. QED
  BY <1>3, <1>5, <1>6 DEF RefOK

(* A reference goes to the innermost pool, or is leaked. *)
Pooled(o, x) ==
  /\ IsFiniteSet(Places(x, pooled')) /\ leaked'[x] \in Nat
  /\ Cardinality(Places(x, pooled')) \in Nat /\ Cardinality(Places(x, pooled)) \in Nat
  /\ leaked'[x] + Cardinality(Places(x, pooled'))
       = leaked[x] + Cardinality(Places(x, pooled)) + IF o = x THEN 1 ELSE 0

LEMMA AddToPoolRefs ==
  ASSUME CallInv, NEW t \in ObjThreads, NEW o \in Objs, AddToPool(t, o),
         NEW x \in Objs, RefOK(x)
  PROVE  Pooled(o, x)
<1>1. LifeTypes /\ PoolInv
  BY DEF CallInv
<1>2. /\ leaked[x] \in Nat /\ Cardinality(Places(x, pooled)) \in Nat
      /\ IsFiniteSet(Places(x, pooled))
  BY <1>1, RefParts DEF RefOK
<1>3. CASE pool_stacks[t] = <<>>
  <2>1. leaked' = [leaked EXCEPT ![o] = @ + 1] /\ pooled' = pooled
    BY <1>3 DEF AddToPool
  <2>2. leaked'[x] = leaked[x] + IF o = x THEN 1 ELSE 0
    BY <1>1, <1>2, <2>1 DEF LifeTypes
  <2>3. QED
    BY <1>2, <2>1, <2>2 DEF Pooled
<1>4. CASE pool_stacks[t] # <<>>
  <2>1. PICK p : p = Last(pool_stacks[t])
    OBVIOUS
  <2>2. p \in Pools /\ PoolLive(p)
    <3>1. pool_stacks[t] \in Seq(Pools) /\ Len(pool_stacks[t]) \in DOMAIN pool_stacks[t]
      BY <1>1, <1>4 DEF LifeTypes
    <3>2. QED
      BY <1>1, <2>1, <3>1, StackPools DEF Last
  <2>3. pooled' = [pooled EXCEPT ![p] = Append(pooled[p], o)] /\ leaked' = leaked
    BY <1>4, <2>1 DEF AddToPool
  <2>4. pooled[p] \in Seq(Objs) /\ Append(pooled[p], o) \in Seq(Objs)
    BY <1>1, <2>2, LiveObjects
  <2>5. PICK f, g : f = pooled /\ g = pooled'
    OBVIOUS
  <2>6. /\ p \in DOMAIN f /\ DOMAIN g = DOMAIN f /\ f[p] \in Seq(Objs) /\ g[p] \in Seq(Objs)
        /\ \A d \in DOMAIN f : d # p => g[d] = f[d]
        /\ IsFiniteSet(Places(x, f)) /\ g[p] = Append(f[p], o)
    BY <1>1, <1>2, <2>2, <2>3, <2>4, <2>5 DEF LifeTypes
  <2>7. PlacesMove(f, g, p, x)
    BY <2>6, PlacesChange
  <2>8. Count(x, g[p]) = Count(x, f[p]) + IF o = x THEN 1 ELSE 0
    BY <2>6, CountAppend
  <2>9. /\ IsFiniteSet(Places(x, g)) /\ Cardinality(Places(x, g)) \in Nat
        /\ Cardinality(Places(x, g)) = Cardinality(Places(x, f)) + IF o = x THEN 1 ELSE 0
    BY <2>7, <2>8 DEF PlacesMove
  <2>10. QED
    BY <1>2, <2>3, <2>5, <2>9 DEF Pooled
<1>5. QED
  BY <1>3, <1>4

LEMMA CountRefs ==
  ASSUME CallInv, RefInv, NEW o \in Objs, alloc_object(o) \/ retain(o)
  PROVE  RefInv'
<1>1. LifeTypes
  BY DEF CallInv
<1>2. /\ UNCHANGED <<leaked, pooled, frames>> /\ held' = [held EXCEPT ![o] = @ + 1]
  BY DEF alloc_object, retain
<1>3. ObjectsIn' = ObjectsIn
  BY <1>2 DEF ObjectsIn
<1>4. ASSUME NEW x \in Objs PROVE RefOK(x)'
  <2>1. RefOK(x)
    BY DEF RefInv
  <2>2. /\ held[x] \in Nat /\ leaked[x] \in Nat /\ refcount[x] \in Int
        /\ Cardinality(Places(x, pooled)) \in Nat /\ Cardinality(Places(x, ObjectsIn)) \in Nat
        /\ held[x] > 0 => refcount[x] > 0
    BY <1>1, <2>1, RefParts
  <2>3. CASE x # o
    <3>1. refcount'[x] = refcount[x] /\ held'[x] = held[x]
      BY <1>1, <1>2, <2>3 DEF LifeTypes, alloc_object, retain
    <3>2. QED
      BY <1>2, <1>3, <2>1, <3>1, RefSame
  <2>4. CASE x = o
    <3>1. held'[x] = held[x] + 1 /\ leaked'[x] = leaked[x]
      BY <1>1, <1>2, <2>4 DEF LifeTypes
    <3>2. CASE alloc_object(o)
      <4>1. refcount[x] = -1 /\ refcount'[x] = 1
        BY <1>1, <2>4, <3>2 DEF alloc_object, LifeTypes, Absent
      <4>2. Refs(refcount[x]) = 0 /\ Refs(refcount'[x]) = 1 /\ refcount'[x] >= Absent
        BY <4>1 DEF Refs, Absent
      <4>3. held[x] + leaked[x]
              + (Cardinality(Places(x, pooled)) + Cardinality(Places(x, ObjectsIn))) = 0
        BY <2>1, <4>2 DEF RefOK
      <4>4. held'[x] + leaked'[x]
              + (Cardinality(Places(x, pooled')) + Cardinality(Places(x, ObjectsIn'))) = 1
        BY <1>2, <1>3, <2>2, <3>1, <4>3
      <4>5. IsFiniteSet(Places(x, pooled')) /\ IsFiniteSet(Places(x, ObjectsIn'))
        BY <1>2, <1>3, <2>1 DEF RefOK
      <4>6. QED
        BY <4>2, <4>4, <4>5 DEF RefOK
    <3>3. CASE retain(o)
      <4>1. held[x] > 0 /\ refcount' = [refcount EXCEPT ![o] = Incremented(refcount[o])]
        BY <2>4, <3>3 DEF retain
      <4>2. refcount[x] > 0
        BY <2>2, <4>1
      <4>3. refcount'[x] = refcount[x] + 1
        BY <1>1, <2>4, <4>1, <4>2 DEF LifeTypes, Incremented
      <4>4. IsFiniteSet(Places(x, pooled')) /\ IsFiniteSet(Places(x, ObjectsIn'))
        BY <1>2, <1>3, <2>1 DEF RefOK
      <4>5. held'[x] + leaked'[x]
              + (Cardinality(Places(x, pooled')) + Cardinality(Places(x, ObjectsIn'))) + refcount[x]
              = held[x] + leaked[x]
                + (Cardinality(Places(x, pooled)) + Cardinality(Places(x, ObjectsIn)))
                + refcount'[x]
        BY <1>2, <1>3, <2>2, <3>1, <4>3
      <4>6. /\ refcount'[x] \in Int /\ held'[x] \in Nat /\ leaked'[x] \in Nat
            /\ refcount'[x] >= 0 /\ refcount[x] >= 0
        BY <2>2, <3>1, <4>2, <4>3
      <4>7. QED
        BY <1>1, <2>1, <4>4, <4>5, <4>6, RefAdded
    <3>4. QED
      BY <3>2, <3>3
  <2>5. QED
    BY <2>3, <2>4
<1>5. QED
  BY <1>4 DEF RefInv

(* A strong reference of the guest comes or goes, and is counted. *)
LEMMA RefHeld ==
  ASSUME LifeTypes, NEW x \in Objs, RefOK(x), NEW k \in {-1, 1}, refcount[x] > 0,
         refcount'[x] = refcount[x] + k, held'[x] = held[x] + k, held'[x] \in Nat,
         leaked'[x] = leaked[x],
         Places(x, pooled') = Places(x, pooled), Places(x, ObjectsIn') = Places(x, ObjectsIn)
  PROVE  RefOK(x)'
<1>1. /\ held[x] \in Nat /\ leaked[x] \in Nat /\ refcount[x] \in Int
      /\ Cardinality(Places(x, pooled)) \in Nat /\ Cardinality(Places(x, ObjectsIn)) \in Nat
  BY RefParts
<1>2. IsFiniteSet(Places(x, pooled')) /\ IsFiniteSet(Places(x, ObjectsIn'))
  BY DEF RefOK
<1>3. /\ refcount'[x] \in Int /\ leaked'[x] \in Nat /\ refcount'[x] >= 0 /\ refcount[x] >= 0
  BY <1>1
<1>4. held'[x] + leaked'[x]
        + (Cardinality(Places(x, pooled')) + Cardinality(Places(x, ObjectsIn'))) + refcount[x]
        = held[x] + leaked[x]
          + (Cardinality(Places(x, pooled)) + Cardinality(Places(x, ObjectsIn))) + refcount'[x]
  BY <1>1
<1>5. QED
  BY <1>2, <1>3, <1>4, RefAdded

LEMMA GuestReleaseRefs ==
  ASSUME CallInv, RefInv, NEW t \in ObjThreads, NEW o \in Objs, release(t, o)
  PROVE  RefInv'
<1>1. LifeTypes /\ ObjectsIn' = ObjectsIn
  BY GuestReleaseCalls DEF CallInv
<1>2. /\ held[o] > 0 /\ held' = [held EXCEPT ![o] = held[o] - 1]
      /\ refcount' = [refcount EXCEPT ![o] = IF refcount[o] > 0 THEN refcount[o] - 1 ELSE refcount[o]]
      /\ UNCHANGED <<leaked, pooled>>
  BY DEF release, ReleaseOn
<1>3. ASSUME NEW x \in Objs PROVE RefOK(x)'
  <2>1. RefOK(x)
    BY DEF RefInv
  <2>2. CASE x # o
    <3>1. refcount'[x] = refcount[x] /\ held'[x] = held[x]
      BY <1>1, <1>2, <2>2 DEF LifeTypes
    <3>2. QED
      BY <1>1, <1>2, <2>1, <3>1, RefSame
  <2>3. CASE x = o
    <3>1. refcount[x] > 0 /\ refcount[x] \in Int /\ held[x] \in Nat
      BY <1>1, <1>2, <2>1, <2>3, RefParts
    <3>2. refcount'[x] = refcount[x] + -1
      BY <1>1, <1>2, <2>3, <3>1 DEF LifeTypes
    <3>3. held'[x] = held[x] + -1 /\ held'[x] \in Nat
      BY <1>1, <1>2, <2>3, <3>1 DEF LifeTypes
    <3>4. -1 \in {-1, 1}
      OBVIOUS
    <3>5. QED
      BY <1>1, <1>2, <2>1, <3>1, <3>2, <3>3, <3>4, RefHeld
  <2>4. QED
    BY <2>2, <2>3
<1>4. QED
  BY <1>3 DEF RefInv

LEMMA StoreStrongRefs ==
  ASSUME CallInv, RefInv, NEW t \in ObjThreads, NEW prev \in Objs, NEW o \in Objs,
         objc_storeStrong(t, prev, o)
  PROVE  RefInv'
<1>1. LifeTypes /\ ObjectsIn' = ObjectsIn
  BY StoreStrongCalls DEF CallInv
<1>2. PICK rcs : rcs = [refcount EXCEPT ![o] = Incremented(refcount[o])]
  OBVIOUS
<1>3. /\ prev # o /\ held[prev] > 0 /\ held[o] > 0
      /\ held' = [held EXCEPT ![prev] = @ - 1, ![o] = @ + 1]
      /\ refcount' = [rcs EXCEPT ![prev] = IF rcs[prev] > 0 THEN rcs[prev] - 1 ELSE rcs[prev]]
      /\ UNCHANGED <<leaked, pooled>>
  BY <1>2 DEF objc_storeStrong, ReleaseOn
<1>4. /\ rcs[o] = Incremented(refcount[o]) /\ DOMAIN rcs = Objs
      /\ \A x \in Objs : x # o => rcs[x] = refcount[x]
  BY <1>1, <1>2 DEF LifeTypes
<1>5. /\ refcount'[o] = Incremented(refcount[o])
      /\ refcount'[prev] = IF refcount[prev] > 0 THEN refcount[prev] - 1 ELSE refcount[prev]
      /\ \A x \in Objs : x # o /\ x # prev => refcount'[x] = refcount[x]
  BY <1>3, <1>4
<1>6. /\ held'[o] = held[o] + 1 /\ held'[prev] = held[prev] - 1
      /\ \A x \in Objs : x # o /\ x # prev => held'[x] = held[x]
  BY <1>1, <1>3 DEF LifeTypes
<1>7. ASSUME NEW x \in Objs PROVE RefOK(x)'
  <2>1. RefOK(x)
    BY DEF RefInv
  <2>2. /\ refcount[x] \in Int /\ held[x] \in Nat
        /\ held[x] > 0 => refcount[x] > 0
    BY <1>1, <2>1, RefParts
  <2>3. CASE x # o /\ x # prev
    BY <1>1, <1>3, <1>5, <1>6, <2>1, <2>3, RefSame
  <2>4. CASE x = prev
    <3>1. refcount[x] > 0
      BY <1>3, <2>2, <2>4
    <3>2. refcount'[x] = refcount[x] + -1 /\ held'[x] = held[x] + -1 /\ held'[x] \in Nat
      BY <1>3, <1>5, <1>6, <2>2, <2>4, <3>1
    <3>3. -1 \in {-1, 1}
      OBVIOUS
    <3>4. QED
      BY <1>1, <1>3, <2>1, <3>1, <3>2, <3>3, RefHeld
  <2>5. CASE x = o
    <3>1. refcount[x] > 0
      BY <1>3, <2>2, <2>5
    <3>2. refcount'[x] = refcount[x] + 1
      BY <1>5, <2>2, <2>5, <3>1 DEF Incremented
    <3>3. held'[x] = held[x] + 1 /\ held'[x] \in Nat
      BY <1>6, <2>2, <2>5
    <3>4. 1 \in {-1, 1}
      OBVIOUS
    <3>5. QED
      BY <1>1, <1>3, <2>1, <3>1, <3>2, <3>3, <3>4, RefHeld
  <2>6. QED
    BY <2>3, <2>4, <2>5
<1>8. QED
  BY <1>7 DEF RefInv

LEMMA AutoreleaseRefs ==
  ASSUME CallInv, RefInv, NEW t \in ObjThreads, NEW o \in Objs, autorelease(t, o)
  PROVE  RefInv'
<1>1. LifeTypes
  BY DEF CallInv
<1>2. /\ held[o] > 0 /\ held' = [held EXCEPT ![o] = held[o] - 1] /\ AddToPool(t, o)
      /\ UNCHANGED <<refcount, frames>>
  BY DEF autorelease
<1>3. ObjectsIn' = ObjectsIn
  BY <1>2 DEF ObjectsIn
<1>4. ASSUME NEW x \in Objs PROVE RefOK(x)'
  <2>1. RefOK(x)
    BY DEF RefInv
  <2>2. /\ held[x] \in Nat /\ leaked[x] \in Nat /\ refcount[x] \in Int
        /\ Cardinality(Places(x, pooled)) \in Nat /\ Cardinality(Places(x, ObjectsIn)) \in Nat
    BY <1>1, <2>1, RefParts
  <2>3. Pooled(o, x)
    BY <1>2, <2>1, AddToPoolRefs
  <2>4. held'[x] = held[x] - (IF o = x THEN 1 ELSE 0) /\ held'[x] \in Nat
    BY <1>1, <1>2, <2>2 DEF LifeTypes
  <2>5. PICK a \in Nat, b \in Nat, c \in Nat, d \in Nat :
          /\ a = leaked'[x] /\ b = Cardinality(Places(x, pooled'))
          /\ c = leaked[x] /\ d = Cardinality(Places(x, pooled))
          /\ a + b = c + d + IF o = x THEN 1 ELSE 0
    BY <2>2, <2>3 DEF Pooled
  <2>6. PICK h \in Nat, k \in Nat, e \in Nat :
          /\ h = held[x] /\ k = held'[x] /\ e = Cardinality(Places(x, ObjectsIn))
          /\ k = h - IF o = x THEN 1 ELSE 0
    BY <2>2, <2>4
  <2>7. k + a + (b + e) = h + c + (d + e)
    BY <2>5, <2>6
  <2>8. held'[x] + leaked'[x]
          + (Cardinality(Places(x, pooled')) + Cardinality(Places(x, ObjectsIn')))
          = held[x] + leaked[x]
            + (Cardinality(Places(x, pooled)) + Cardinality(Places(x, ObjectsIn)))
    BY <1>3, <2>5, <2>6, <2>7
  <2>9. IsFiniteSet(Places(x, pooled')) /\ IsFiniteSet(Places(x, ObjectsIn'))
    BY <1>3, <2>1, <2>3 DEF RefOK, Pooled
  <2>10. QED
    BY <1>2, <2>1, <2>8, <2>9 DEF RefOK
<1>5. QED
  BY <1>4 DEF RefInv

LEMMA LoadRefs ==
  ASSUME CallInv, RefInv, WeakInv, ~LoadsWhileDying, NEW s \in Slots,
         objc_loadWeakRetained(s) \/ \E t \in ObjThreads : objc_loadWeak(t, s)
  PROVE  RefInv'
<1>1. LifeTypes
  BY DEF CallInv
<1>2. PICK o \in Objs : o = slot[s]
  BY <1>1 DEF LifeTypes, objc_loadWeakRetained, objc_loadWeak, MayLoad
<1>3. /\ refcount' = [refcount EXCEPT ![o] = Incremented(refcount[o])] /\ UNCHANGED frames
      /\ refcount[o] # Dying
  BY <1>2 DEF objc_loadWeakRetained, objc_loadWeak, MayLoad
<1>4. ObjectsIn' = ObjectsIn
  BY <1>3 DEF ObjectsIn
<1>5. refcount[o] \in Int /\ refcount[o] > 0
  <2>1. refcount[o] # Absent
    BY <1>2 DEF WeakInv
  <2>2. refcount[o] >= Absent /\ refcount[o] \in Int
    BY <1>1 DEF RefInv, RefOK, LifeTypes
  <2>3. QED
    BY <1>3, <2>1, <2>2 DEF Absent, Dying
<1>6. /\ refcount'[o] = refcount[o] + 1
      /\ \A x \in Objs : x # o => refcount'[x] = refcount[x]
  BY <1>1, <1>3, <1>5 DEF LifeTypes, Incremented
<1>7. ASSUME NEW x \in Objs PROVE RefOK(x)'
  <2>1. RefOK(x)
    BY DEF RefInv
  <2>2. /\ held[x] \in Nat /\ leaked[x] \in Nat /\ refcount[x] \in Int
        /\ Cardinality(Places(x, pooled)) \in Nat /\ Cardinality(Places(x, ObjectsIn)) \in Nat
    BY <1>1, <2>1, RefParts
  <2>3. CASE objc_loadWeakRetained(s)
    <3>1. held' = [held EXCEPT ![o] = @ + 1] /\ UNCHANGED <<leaked, pooled>>
      BY <1>2, <2>3 DEF objc_loadWeakRetained
    <3>2. CASE x # o
      <4>1. held'[x] = held[x] /\ refcount'[x] = refcount[x]
        BY <1>1, <1>6, <3>1, <3>2 DEF LifeTypes
      <4>2. QED
        BY <1>4, <2>1, <3>1, <4>1, RefSame
    <3>3. CASE x = o
      <4>1. held'[x] = held[x] + 1 /\ held'[x] \in Nat
        BY <1>1, <2>2, <3>1, <3>3 DEF LifeTypes
      <4>2. refcount'[x] = refcount[x] + 1 /\ refcount[x] > 0
        BY <1>5, <1>6, <3>3
      <4>3. 1 \in {-1, 1}
        OBVIOUS
      <4>4. QED
        BY <1>1, <1>4, <2>1, <3>1, <4>1, <4>2, <4>3, RefHeld
    <3>4. QED
      BY <3>2, <3>3
  <2>4. CASE \E t \in ObjThreads : objc_loadWeak(t, s)
    <3>1. PICK t \in ObjThreads : AddToPool(t, o) /\ UNCHANGED held
      BY <1>2, <2>4 DEF objc_loadWeak
    <3>2. Pooled(o, x)
      BY <2>1, <3>1, AddToPoolRefs
    <3>3. IsFiniteSet(Places(x, pooled')) /\ IsFiniteSet(Places(x, ObjectsIn'))
      BY <1>4, <2>1, <3>2 DEF RefOK, Pooled
    <3>4. PICK a \in Nat, b \in Nat, c \in Nat, d \in Nat :
            /\ a = leaked'[x] /\ b = Cardinality(Places(x, pooled'))
            /\ c = leaked[x] /\ d = Cardinality(Places(x, pooled))
            /\ a + b = c + d + IF o = x THEN 1 ELSE 0
      BY <2>2, <3>2 DEF Pooled
    <3>5. PICK h \in Nat, e \in Nat : h = held[x] /\ e = Cardinality(Places(x, ObjectsIn))
      BY <2>2
    <3>6. CASE x # o
      <4>1. h + a + (b + e) = h + c + (d + e)
        BY <3>4, <3>5, <3>6
      <4>2. held'[x] + leaked'[x]
              + (Cardinality(Places(x, pooled')) + Cardinality(Places(x, ObjectsIn')))
              = held[x] + leaked[x]
                + (Cardinality(Places(x, pooled)) + Cardinality(Places(x, ObjectsIn)))
        BY <1>4, <3>1, <3>4, <3>5, <4>1
      <4>3. refcount'[x] = refcount[x]
        BY <1>6, <3>6
      <4>4. QED
        BY <2>1, <3>3, <4>2, <4>3 DEF RefOK
    <3>7. CASE x = o
      <4>1. PICK r \in Nat : r = refcount[x] /\ refcount'[x] = r + 1
        BY <1>5, <1>6, <3>7
      <4>2. h + a + (b + e) + r = h + c + (d + e) + (r + 1)
        <5>1. a + b = c + d + 1
          BY <3>4, <3>7
        <5>2. QED
          BY ONLY a \in Nat, b \in Nat, c \in Nat, d \in Nat, h \in Nat, e \in Nat, r \in Nat, <5>1
      <4>3. held'[x] + leaked'[x]
              + (Cardinality(Places(x, pooled')) + Cardinality(Places(x, ObjectsIn'))) + refcount[x]
              = held[x] + leaked[x]
                + (Cardinality(Places(x, pooled)) + Cardinality(Places(x, ObjectsIn)))
                + refcount'[x]
        BY <1>4, <3>1, <3>4, <3>5, <4>1, <4>2
      <4>4. /\ refcount'[x] \in Int /\ held'[x] \in Nat /\ leaked'[x] \in Nat
            /\ refcount'[x] >= 0 /\ refcount[x] >= 0
        BY <2>2, <3>1, <3>4, <4>1
      <4>5. QED
        BY <1>1, <2>1, <3>3, <4>3, <4>4, RefAdded
    <3>8. QED
      BY <3>6, <3>7
  <2>5. QED
    BY <2>3, <2>4
<1>8. QED
  BY <1>7 DEF RefInv

(* Steps that move no reference. *)
LEMMA RefsKept ==
  ASSUME RefInv, refcount' = refcount, held' = held, leaked' = leaked, pooled' = pooled,
         ObjectsIn' = ObjectsIn
  PROVE  RefInv'
<1>1. ASSUME NEW x \in Objs PROVE RefOK(x)'
  BY RefSame DEF RefInv
<1>2. QED
  BY <1>1 DEF RefInv

LEMMA DeallocRefs ==
  ASSUME CallInv, RefInv, NEW t \in ObjThreads, dealloc_object(t)
  PROVE  RefInv'
<1>1. LifeTypes /\ ObjectsIn' = ObjectsIn
  BY DeallocCalls DEF CallInv
<1>2. PICK o \in Objs : o = DeallocOf(t) /\ refcount[o] = Dying
  BY DyingIs DEF dealloc_object
<1>3. refcount' = [refcount EXCEPT ![o] = Absent] /\ UNCHANGED <<held, leaked, pooled>>
  BY <1>2 DEF dealloc_object
<1>4. ASSUME NEW x \in Objs PROVE RefOK(x)'
  <2>1. RefOK(x)
    BY DEF RefInv
  <2>2. CASE x # o
    <3>1. refcount'[x] = refcount[x]
      BY <1>1, <1>3, <2>2 DEF LifeTypes
    <3>2. QED
      BY <1>1, <1>3, <2>1, <3>1, RefSame
  <2>3. CASE x = o
    <3>1. refcount'[x] = -1 /\ refcount[x] = 0
      BY <1>1, <1>2, <1>3, <2>3 DEF LifeTypes, Absent, Dying
    <3>2. Refs(refcount'[x]) = Refs(refcount[x]) /\ refcount'[x] >= Absent
      BY <3>1 DEF Refs, Absent
    <3>3. QED
      BY <1>1, <1>3, <2>1, <3>2 DEF RefOK
  <2>4. QED
    BY <2>2, <2>3
<1>5. QED
  BY <1>4 DEF RefInv

LEMMA NoPoolEmpty ==
  ASSUME NEW x \in Objs
  PROVE  Count(x, NoPool) = 0
<1>1. \A i \in DOMAIN NoPool : NoPool[i] # x
  <2>1. DOMAIN NoPool = {1} /\ NoPool[1] = nil
    BY DEF NoPool
  <2>2. QED
    BY <2>1, ObjcAssumption
<1>2. QED
  BY <1>1, CountNone

(* One pool takes the contents q. *)
LEMMA PooledChange ==
  ASSUME LifeTypes, NEW p \in Pools, NEW q \in Seq(Objs) \cup {NoPool},
         pooled' = [pooled EXCEPT ![p] = q], NEW x \in Objs, RefOK(x)
  PROVE  /\ PlacesMove(pooled, pooled', p, x) /\ pooled'[p] = q
<1>1. q \in Seq(Objs \cup {nil})
  <2>1. NoPool \in Seq(Objs \cup {nil})
    BY DEF NoPool
  <2>2. CASE q \in Seq(Objs)
    BY <2>2
  <2>3. QED
    BY <2>1, <2>2
<1>2. pooled[p] \in Seq(Objs \cup {nil})
  BY LiveObjects
<1>3. PICK f, g : f = pooled /\ g = pooled'
  OBVIOUS
<1>4. /\ p \in DOMAIN f /\ DOMAIN g = DOMAIN f
      /\ f[p] \in Seq(Objs \cup {nil}) /\ g[p] \in Seq(Objs \cup {nil})
      /\ \A d \in DOMAIN f : d # p => g[d] = f[d]
      /\ IsFiniteSet(Places(x, f)) /\ g[p] = q
  BY <1>1, <1>2, <1>3 DEF LifeTypes, RefOK
<1>5. PlacesMove(f, g, p, x)
  BY <1>4, PlacesChange
<1>6. QED
  BY <1>3, <1>4, <1>5

LEMMA PushRefs ==
  ASSUME CallInv, RefInv, NEW t \in ObjThreads, NEW p \in Pools, objc_autoreleasePoolPush(t, p)
  PROVE  RefInv'
<1>1. LifeTypes
  BY DEF CallInv
<1>2. /\ pooled[p] = NoPool /\ pooled' = [pooled EXCEPT ![p] = <<>>]
      /\ UNCHANGED <<refcount, held, leaked, frames>>
  BY DEF objc_autoreleasePoolPush, PoolLive
<1>3. ObjectsIn' = ObjectsIn
  BY <1>2 DEF ObjectsIn
<1>4. ASSUME NEW x \in Objs PROVE RefOK(x)'
  <2>1. RefOK(x)
    BY DEF RefInv
  <2>2. <<>> \in Seq(Objs) \cup {NoPool}
    OBVIOUS
  <2>3. PlacesMove(pooled, pooled', p, x) /\ pooled'[p] = <<>>
    BY <1>1, <1>2, <2>1, <2>2, PooledChange
  <2>4. Count(x, pooled[p]) = 0 /\ Count(x, pooled'[p]) = 0
    BY <1>2, <2>3, NoPoolEmpty, CountEmpty
  <2>5. /\ Cardinality(Places(x, pooled')) = Cardinality(Places(x, pooled))
        /\ IsFiniteSet(Places(x, pooled'))
    BY <2>3, <2>4 DEF PlacesMove
  <2>6. QED
    BY <1>2, <1>3, <2>1, <2>5 DEF RefOK
<1>5. QED
  BY <1>4 DEF RefInv

LEMMA DrainTakesRefs ==
  ASSUME CallInv, RefInv, NEW t \in ObjThreads, DrainTakes(t)
  PROVE  RefInv'
<1>1. LifeTypes /\ DepthOK /\ PoolInv /\ InHost(t)
  BY DEF CallInv, DrainTakes
<1>2. PICK f, h, n : f = Last(frames[t]) /\ h = Head(f.pools) /\ n = Len(frames[t])
  OBVIOUS
<1>3. frames[t] # <<>> /\ f.kind = "drain" /\ f.pools # <<>> /\ f.objects = <<>>
  BY <1>1, <1>2 DEF DrainTakes, InHost
<1>4. f \in Calls /\ ObjectsAt(frames[t], n) = <<>>
  <2>1. frames[t] \in Seq(Calls)
    BY <1>1 DEF LifeTypes
  <2>2. QED
    BY <1>2, <1>3, <2>1, PoppedCall
<1>5. f \in DrainFrames /\ f.pools \in Seq(Pools)
  BY <1>3, <1>4, CallTypes
<1>6. h \in Pools /\ PoolLive(h)
  BY <1>1, <1>2, <1>3, DrainPools
<1>7. pooled[h] \in Seq(Objs) /\ Tail(f.pools) \in Seq(Pools)
  BY <1>1, <1>3, <1>5, <1>6, LiveObjects
<1>8. PICK g : g = [f EXCEPT !.objects = pooled[h], !.pools = Tail(f.pools)]
  OBVIOUS
<1>9. g \in DrainFrames /\ g.objects = pooled[h]
  BY <1>5, <1>7, <1>8 DEF DrainFrames
<1>10. PICK q : q = Append(Front(frames[t]), g)
  OBVIOUS
<1>11. DrainMoves(t, g, q)
  BY <1>1, <1>9, <1>10, DrainStep
<1>12. /\ frames' = [frames EXCEPT ![t] = q] /\ pooled' = [pooled EXCEPT ![h] = NoPool]
       /\ UNCHANGED <<refcount, held, leaked>>
  BY <1>2, <1>8, <1>10 DEF DrainTakes
<1>13. /\ q \in Seq(Calls) /\ n \in 1 .. MaxNested + 1
       /\ \A d \in Nat : d # n => ObjectsAt(q, d) = ObjectsAt(frames[t], d)
       /\ ObjectsAt(q, n) = pooled[h]
  <2>1. n \in Nat /\ n \in 1 .. MaxNested + 1
    BY <1>2, <1>11, ObjcAssumption DEF DrainMoves
  <2>2. QED
    BY <1>2, <1>9, <1>11, <2>1 DEF DrainMoves
<1>14. ASSUME NEW x \in Objs PROVE RefOK(x)'
  <2>1. RefOK(x) /\ IsFiniteSet(Places(x, ObjectsIn))
    BY DEF RefInv, RefOK
  <2>2. ObjectsMove(t, n, q, x)
    BY <1>1, <1>12, <1>13, <2>1, ObjectsInChange
  <2>3. PlacesMove(pooled, pooled', h, x) /\ pooled'[h] = NoPool
    BY <1>1, <1>6, <1>12, <2>1, PooledChange
  <2>4. Count(x, pooled'[h]) = 0 /\ Count(x, ObjectsAt(frames[t], n)) = 0
    BY <1>4, <2>3, NoPoolEmpty, CountEmpty
  <2>5. PICK a \in Nat, b \in Nat, c \in Nat :
          /\ a = Cardinality(Places(x, pooled')) /\ b = Cardinality(Places(x, pooled))
          /\ c = Count(x, pooled[h]) /\ a + c = b
    BY <2>3, <2>4 DEF PlacesMove
  <2>6. PICK d \in Nat, e \in Nat :
          /\ d = Cardinality(Places(x, ObjectsIn')) /\ e = Cardinality(Places(x, ObjectsIn))
          /\ d = e + c
    BY <1>13, <2>2, <2>4, <2>5 DEF ObjectsMove
  <2>7. a + d = b + e
    BY <2>5, <2>6
  <2>8. IsFiniteSet(Places(x, pooled')) /\ IsFiniteSet(Places(x, ObjectsIn'))
    BY <2>2, <2>3 DEF PlacesMove, ObjectsMove
  <2>9. Cardinality(Places(x, pooled')) + Cardinality(Places(x, ObjectsIn'))
          = Cardinality(Places(x, pooled)) + Cardinality(Places(x, ObjectsIn))
    BY <2>5, <2>6, <2>7
  <2>10. QED
    BY <1>12, <2>1, <2>8, <2>9 DEF RefOK
<1>15. QED
  BY <1>14 DEF RefInv

LEMMA DrainReleasesRefs ==
  ASSUME CallInv, RefInv, NEW t \in ObjThreads, DrainReleases(t)
  PROVE  RefInv'
<1>1. LifeTypes /\ DepthOK /\ InHost(t)
  BY DEF CallInv, DrainReleases
<1>2. PICK f, n : f = Last(frames[t]) /\ n = Len(frames[t])
  OBVIOUS
<1>3. f \in DrainFrames /\ f.objects \in Seq(Objs) /\ f.objects # <<>>
  BY <1>1, <1>2, InnermostCall, CallTypes DEF InHost, DrainReleases
<1>4. PICK g, o : g = [f EXCEPT !.objects = Tail(f.objects)] /\ o = Head(f.objects)
  OBVIOUS
<1>5. Tail(f.objects) \in Seq(Objs) /\ o \in Objs
  BY <1>3, <1>4
<1>6. g \in DrainFrames /\ g.objects = Tail(f.objects)
  BY <1>3, <1>4, <1>5 DEF DrainFrames
<1>7. PICK under : under = Append(Front(frames[t]), g)
  OBVIOUS
<1>8. DrainMoves(t, g, under)
  BY <1>1, <1>6, <1>7, DrainStep
<1>9. n \in Nat /\ n \in 1 .. MaxNested + 1 /\ under \in Seq(Calls)
  BY <1>2, <1>8, ObjcAssumption DEF DrainMoves
<1>10. /\ \A d \in Nat : d # n => ObjectsAt(under, d) = ObjectsAt(frames[t], d)
       /\ ObjectsAt(under, n) = Tail(f.objects)
  BY <1>2, <1>6, <1>8, <1>9 DEF DrainMoves
<1>11. ObjectsAt(frames[t], n) = f.objects
  <2>1. frames[t] \in Seq(Calls) /\ frames[t] # <<>>
    BY <1>1 DEF LifeTypes, InHost
  <2>2. QED
    BY <1>2, <2>1, PoppedCall
<1>12. /\ refcount' = [refcount EXCEPT ![o] =
                         IF refcount[o] > 0 THEN refcount[o] - 1 ELSE refcount[o]]
       /\ frames' = [frames EXCEPT ![t] =
                       IF refcount[o] = 1 THEN Append(under, DeallocFrame(o)) ELSE under]
       /\ UNCHANGED <<held, leaked, pooled>>
  BY <1>2, <1>4, <1>7 DEF DrainReleases, ReleaseOn
<1>13. PICK q \in Seq(Calls) : /\ frames' = [frames EXCEPT ![t] = q]
                               /\ \A d \in Nat : ObjectsAt(q, d) = ObjectsAt(under, d)
  <2>1. DeallocFrame(o) \in Calls /\ DeallocFrame(o).objects = <<>>
    BY <1>5 DEF DeallocFrame, Calls, DeallocFrames
  <2>2. ASSUME NEW d \in Nat
        PROVE  ObjectsAt(Append(under, DeallocFrame(o)), d) = ObjectsAt(under, d)
    <3>1. ObjectsAt(Append(under, DeallocFrame(o)), d)
            = IF d = Len(under) + 1 THEN <<>> ELSE ObjectsAt(under, d)
      BY <1>9, <2>1, PushedCall
    <3>2. ObjectsAt(under, Len(under) + 1) = <<>>
      BY <1>9 DEF ObjectsAt
    <3>3. QED
      BY <3>1, <3>2
  <2>3. Append(under, DeallocFrame(o)) \in Seq(Calls)
    BY <1>9, <2>1
  <2>4. QED
    BY <1>9, <1>12, <2>2, <2>3
<1>14. /\ \A d \in Nat : d # n => ObjectsAt(q, d) = ObjectsAt(frames[t], d)
       /\ ObjectsAt(q, n) = Tail(f.objects)
  BY <1>9, <1>10, <1>13
<1>15. ASSUME NEW x \in Objs PROVE RefOK(x)'
  <2>1. RefOK(x) /\ IsFiniteSet(Places(x, ObjectsIn))
    BY DEF RefInv, RefOK
  <2>2. ObjectsMove(t, n, q, x)
    BY <1>1, <1>9, <1>13, <1>14, <2>1, ObjectsInChange
  <2>3. Count(x, Tail(f.objects)) = Count(x, f.objects) - IF o = x THEN 1 ELSE 0
    BY <1>3, <1>4, CountTail
  <2>4. PICK a \in Nat, b \in Nat, c \in Nat, d \in Nat :
          /\ a = Cardinality(Places(x, ObjectsIn')) /\ b = Cardinality(Places(x, ObjectsIn))
          /\ c = Count(x, f.objects) /\ d = Count(x, Tail(f.objects)) /\ a + c = b + d
    BY <1>11, <1>14, <2>2 DEF ObjectsMove
  <2>5. a = b - IF o = x THEN 1 ELSE 0
    BY <2>3, <2>4
  <2>6. IsFiniteSet(Places(x, ObjectsIn'))
    BY <2>2 DEF ObjectsMove
  <2>7. CASE x # o
    <3>1. refcount'[x] = refcount[x]
      BY <1>1, <1>12, <2>7 DEF LifeTypes
    <3>2. Cardinality(Places(x, ObjectsIn')) = Cardinality(Places(x, ObjectsIn))
      BY <2>4, <2>5, <2>7
    <3>3. QED
      BY <1>12, <2>1, <2>6, <3>1, <3>2 DEF RefOK
  <2>8. CASE x = o
    <3>1. a = b - 1
      BY <2>5, <2>8
    <3>2. b > 0
      BY <2>4, <3>1
    <3>3. /\ held[x] \in Nat /\ leaked[x] \in Nat /\ refcount[x] \in Int
          /\ Cardinality(Places(x, pooled)) \in Nat /\ refcount[x] > 0
      BY <1>1, <2>1, <2>4, <3>2, RefParts
    <3>4. refcount'[x] = refcount[x] - 1
      BY <1>1, <1>12, <2>8, <3>3 DEF LifeTypes
    <3>5. PICK h \in Nat, l \in Nat, e \in Nat, r \in Nat :
            /\ h = held[x] /\ l = leaked[x] /\ e = Cardinality(Places(x, pooled))
            /\ r = refcount[x]
      BY <3>3
    <3>6. h + l + (e + a) + r = h + l + (e + b) + (r - 1)
      BY ONLY a \in Nat, b \in Nat, h \in Nat, l \in Nat, e \in Nat, r \in Nat, <3>1
    <3>7. held'[x] + leaked'[x]
            + (Cardinality(Places(x, pooled')) + Cardinality(Places(x, ObjectsIn'))) + refcount[x]
            = held[x] + leaked[x]
              + (Cardinality(Places(x, pooled)) + Cardinality(Places(x, ObjectsIn)))
              + refcount'[x]
      BY <1>12, <2>4, <3>4, <3>5, <3>6
    <3>8. /\ refcount'[x] \in Int /\ held'[x] \in Nat /\ leaked'[x] \in Nat
          /\ refcount'[x] >= 0 /\ refcount[x] >= 0 /\ IsFiniteSet(Places(x, pooled'))
      BY <1>12, <2>1, <3>3, <3>4 DEF RefOK
    <3>9. QED
      BY <1>1, <2>1, <2>6, <3>7, <3>8, RefAdded
  <2>9. QED
    BY <2>7, <2>8
<1>16. QED
  BY <1>15 DEF RefInv

(* The count of an object that is there stays above Absent, but in dealloc. *)
LEMMA WeakKept ==
  ASSUME WeakInv, UNCHANGED <<slot, slotInUse, weak_refs>>,
         \A o \in Objs : refcount[o] # Absent => refcount'[o] # Absent
  PROVE  WeakInv'
  BY DEF WeakInv

LEMMA ReleaseStays ==
  ASSUME NEW o \in Objs, NEW rcs \in [Objs -> Int], NEW t, NEW under, ReleaseOn(t, o, rcs, under)
  PROVE  \A x \in Objs : rcs[x] # Absent => refcount'[x] # Absent
<1>1. refcount' = [rcs EXCEPT ![o] = IF rcs[o] > 0 THEN rcs[o] - 1 ELSE rcs[o]]
  BY DEF ReleaseOn
<1>2. rcs[o] \in Int
  OBVIOUS
<1>3. rcs[o] # -1 => (IF rcs[o] > 0 THEN rcs[o] - 1 ELSE rcs[o]) # -1
  BY <1>2
<1>4. QED
  BY <1>1, <1>3 DEF Absent

LEMMA IncrementStays ==
  ASSUME NEW rc \in Int, rc # Absent
  PROVE  Incremented(rc) # Absent
  BY DEF Incremented, Absent

(* A slot registers for an object: its entry, where there was none, is 1. *)
RegisterAt(refs, o, s, x, y) ==
  /\ register_weak(refs, o, s)[x][y] = IF x = o /\ y = s THEN refs[x][y] + 1 ELSE refs[x][y]
  /\ unregister_weak(refs, o, s)[x][y] = IF x = o /\ y = s THEN 0 ELSE refs[x][y]

LEMMA Registered ==
  ASSUME NEW refs \in [Objs -> [Slots -> Nat]], NEW o \in Objs \cup {nil}, NEW s \in Slots,
         NEW x \in Objs, NEW y \in Slots
  PROVE  RegisterAt(refs, o, s, x, y)
<1>0. nil \notin Objs
  BY ObjcAssumption
<1>1. CASE o = nil
  BY <1>0, <1>1 DEF register_weak, unregister_weak, RegisterAt
<1>2. CASE o \in Objs
  <2>1. o # nil /\ refs[o] \in [Slots -> Nat]
    BY <1>0, <1>2
  <2>2. CASE x = o
    <3>1. /\ register_weak(refs, o, s)[x] = [refs[o] EXCEPT ![s] = refs[o][s] + 1]
          /\ unregister_weak(refs, o, s)[x] = [refs[o] EXCEPT ![s] = 0]
      BY <1>2, <2>1, <2>2 DEF register_weak, unregister_weak
    <3>2. QED
      BY <2>1, <2>2, <3>1 DEF RegisterAt
  <2>3. CASE x # o
    BY <1>2, <2>1, <2>3 DEF register_weak, unregister_weak, RegisterAt
  <2>4. QED
    BY <2>2, <2>3
<1>3. QED
  BY <1>1, <1>2

(* The slot s takes the object o, when it held `old` and is registered for *)
(* nothing but that.                                                       *)
LEMMA SlotTakes ==
  ASSUME LifeTypes, WeakInv, NEW s \in Slots, NEW o \in Objs \cup {nil},
         o # nil => refcount[o] # Absent, refcount' = refcount,
         slot' = [slot EXCEPT ![s] = o],
         weak_refs' = register_weak(unregister_weak(weak_refs, slot[s], s), o, s),
         \A y \in Slots : y \notin slotInUse' => slot'[y] = nil
  PROVE  WeakInv'
<1>1. /\ weak_refs \in [Objs -> [Slots -> Nat]] /\ slot \in [Slots -> Objs \cup {nil}]
      /\ slot[s] \in Objs \cup {nil} /\ nil \notin Objs
  BY ObjcAssumption DEF LifeTypes
<1>2. PICK refs : refs = unregister_weak(weak_refs, slot[s], s)
  OBVIOUS
<1>3. refs \in [Objs -> [Slots -> Nat]]
  BY <1>1, <1>2, RegisterTypes
<1>4. ASSUME NEW y \in Slots, NEW x \in Objs
      PROVE  /\ weak_refs'[x][y] = IF slot'[y] = x THEN 1 ELSE 0
             /\ slot'[y] = x => refcount'[x] # Absent
  <2>1. weak_refs[x][y] = IF slot[y] = x THEN 1 ELSE 0
    BY DEF WeakInv
  <2>2. slot[y] = x => refcount[x] # Absent
    BY DEF WeakInv
  <2>3. refs[x][y] = IF x = slot[s] /\ y = s THEN 0 ELSE weak_refs[x][y]
    <3>1. RegisterAt(weak_refs, slot[s], s, x, y)
      BY <1>1, Registered
    <3>2. QED
      BY <1>2, <3>1 DEF RegisterAt
  <2>4. weak_refs'[x][y] = IF x = o /\ y = s THEN refs[x][y] + 1 ELSE refs[x][y]
    <3>1. RegisterAt(refs, o, s, x, y)
      BY <1>3, Registered
    <3>2. QED
      BY <1>2, <3>1 DEF RegisterAt
  <2>5. CASE y = s
    <3>1. slot'[y] = o
      BY <1>1, <2>5
    <3>2. refs[x][y] = 0
      BY <2>1, <2>3, <2>5
    <3>3. QED
      BY <1>1, <2>4, <2>5, <3>1, <3>2
  <2>6. CASE y # s
    <3>1. slot'[y] = slot[y]
      BY <1>1, <2>6
    <3>2. weak_refs'[x][y] = weak_refs[x][y]
      BY <2>3, <2>4, <2>6
    <3>3. QED
      BY <2>1, <2>2, <3>1, <3>2
  <2>7. QED
    BY <2>5, <2>6
<1>5. QED
  BY <1>4 DEF WeakInv

(* What the guest may store is there. *)
LEMMA StoredExists ==
  ASSUME CallInv, RefInv, NEW t \in ObjThreads, NEW o \in Objs \cup {nil}, MayStore(t, o), o # nil
  PROVE  refcount[o] # Absent
<1>1. LifeTypes /\ o \in Objs /\ RefOK(o)
  BY DEF CallInv, RefInv
<1>2. CASE held[o] > 0
  <2>1. refcount[o] > 0
    BY <1>1, <1>2, RefParts
  <2>2. QED
    BY <2>1 DEF Absent
<1>3. CASE DeallocOf(t) = o
  <2>1. refcount[o] = Dying
    BY <1>3, DyingIs
  <2>2. QED
    BY <2>1 DEF Absent, Dying
<1>4. QED
  BY <1>2, <1>3 DEF MayStore

(* Registering for nil, or unregistering a slot that holds nil, is nothing. *)
LEMMA NilNothing ==
  ASSUME NEW refs, NEW s
  PROVE  unregister_weak(refs, nil, s) = refs /\ register_weak(refs, nil, s) = refs
  BY DEF unregister_weak, register_weak

LEMMA WeakWeak ==
  ASSUME CallInv, RefInv, WeakInv, WeakStep
  PROVE  WeakInv'
<1>1. LifeTypes /\ WeakTypes /\ nil \in Objs \cup {nil} /\ nil \notin Objs
  BY ObjcAssumption DEF CallInv, LifeTypes, WeakTypes
<1>2. refcount' = refcount
  BY DEF WeakStep, WeakOnly, objc_initWeak, objc_storeWeak, objc_destroyWeak, objc_copyWeak,
         objc_moveWeak
<1>3. ASSUME NEW t \in ObjThreads, NEW s \in Slots, NEW o \in Objs \cup {nil}, objc_initWeak(t, s, o)
      PROVE  WeakInv'
  <2>1. /\ s \notin slotInUse /\ MayStore(t, o) /\ slot' = [slot EXCEPT ![s] = o]
        /\ weak_refs' = register_weak(weak_refs, o, s) /\ slotInUse' = slotInUse \cup {s}
    BY <1>3 DEF objc_initWeak
  <2>2. slot[s] = nil
    BY <2>1 DEF WeakInv
  <2>3. weak_refs' = register_weak(unregister_weak(weak_refs, slot[s], s), o, s)
    BY <2>1, <2>2, NilNothing
  <2>4. o # nil => refcount[o] # Absent
    BY <2>1, StoredExists
  <2>5. \A y \in Slots : y \notin slotInUse' => slot'[y] = nil
    BY <1>1, <2>1 DEF WeakInv, WeakTypes
  <2>6. QED
    BY <1>1, <1>2, <2>1, <2>3, <2>4, <2>5, SlotTakes
<1>4. ASSUME NEW t \in ObjThreads, NEW s \in Slots, NEW o \in Objs \cup {nil}, objc_storeWeak(t, s, o)
      PROVE  WeakInv'
  <2>1. /\ s \in slotInUse /\ MayStore(t, o) /\ slot' = [slot EXCEPT ![s] = o]
        /\ weak_refs' = register_weak(unregister_weak(weak_refs, slot[s], s), o, s)
        /\ slotInUse' = slotInUse
    BY <1>4 DEF objc_storeWeak
  <2>2. o # nil => refcount[o] # Absent
    BY <2>1, StoredExists
  <2>3. \A y \in Slots : y \notin slotInUse' => slot'[y] = nil
    BY <1>1, <2>1 DEF WeakInv, WeakTypes
  <2>4. QED
    BY <1>1, <1>2, <2>1, <2>2, <2>3, SlotTakes
<1>5. ASSUME NEW s \in Slots, objc_destroyWeak(s) PROVE WeakInv'
  <2>1. /\ s \in slotInUse /\ slot' = [slot EXCEPT ![s] = nil]
        /\ weak_refs' = unregister_weak(weak_refs, slot[s], s) /\ slotInUse' = slotInUse \ {s}
    BY <1>5 DEF objc_destroyWeak
  <2>2. weak_refs' = register_weak(unregister_weak(weak_refs, slot[s], s), nil, s)
    BY <2>1, NilNothing
  <2>3. \A y \in Slots : y \notin slotInUse' => slot'[y] = nil
    BY <1>1, <2>1 DEF WeakInv, WeakTypes
  <2>4. QED
    BY <1>1, <1>2, <2>1, <2>2, <2>3, SlotTakes
<1>6. ASSUME NEW s \in Slots, NEW from \in Slots, objc_copyWeak(s, from) PROVE WeakInv'
  <2>1. /\ s \notin slotInUse /\ slot' = [slot EXCEPT ![s] = slot[from]]
        /\ weak_refs' = register_weak(weak_refs, slot[from], s) /\ slotInUse' = slotInUse \cup {s}
    BY <1>6 DEF objc_copyWeak
  <2>2. slot[s] = nil
    BY <2>1 DEF WeakInv
  <2>3. weak_refs' = register_weak(unregister_weak(weak_refs, slot[s], s), slot[from], s)
    BY <2>1, <2>2, NilNothing
  <2>4. PICK o \in Objs \cup {nil} : o = slot[from]
    BY <1>1 DEF WeakTypes
  <2>5. o # nil => refcount[o] # Absent
    BY <2>4 DEF WeakInv
  <2>6. \A y \in Slots : y \notin slotInUse' => slot'[y] = nil
    BY <1>1, <2>1 DEF WeakInv, WeakTypes
  <2>7. QED
    BY <1>1, <1>2, <2>1, <2>3, <2>4, <2>5, <2>6, SlotTakes
<1>7. ASSUME NEW s \in Slots, NEW from \in Slots, objc_moveWeak(s, from) PROVE WeakInv'
  <2>1. /\ from \in slotInUse /\ s \notin slotInUse
        /\ slot' = [slot EXCEPT ![s] = slot[from], ![from] = nil]
        /\ weak_refs' =
             register_weak(unregister_weak(weak_refs, slot[from], from), slot[from], s)
        /\ slotInUse' = (slotInUse \cup {s}) \ {from}
    BY <1>7 DEF objc_moveWeak
  <2>2. slot[s] = nil /\ s # from
    BY <2>1 DEF WeakInv
  <2>3. PICK o, refs : /\ o = slot[from] /\ o \in Objs \cup {nil}
                       /\ refs = unregister_weak(weak_refs, slot[from], from)
    BY <1>1 DEF WeakTypes
  <2>4. /\ weak_refs \in [Objs -> [Slots -> Nat]] /\ refs \in [Objs -> [Slots -> Nat]]
        /\ weak_refs' = register_weak(refs, o, s)
    BY <1>1, <2>1, <2>3, RegisterTypes DEF WeakTypes
  <2>5. /\ slot'[s] = o /\ slot'[from] = nil
        /\ \A y \in Slots : y # s /\ y # from => slot'[y] = slot[y]
    BY <1>1, <2>1, <2>2, <2>3 DEF WeakTypes
  <2>6. ASSUME NEW y \in Slots, NEW x \in Objs
        PROVE  /\ weak_refs'[x][y] = IF slot'[y] = x THEN 1 ELSE 0
               /\ slot'[y] = x => refcount'[x] # Absent
    <3>1. weak_refs[x][y] = IF slot[y] = x THEN 1 ELSE 0
      BY DEF WeakInv
    <3>2. \A z \in Slots : slot[z] = x => refcount[x] # Absent
      BY DEF WeakInv
    <3>3. refs[x][y] = IF x = o /\ y = from THEN 0 ELSE weak_refs[x][y]
      <4>1. RegisterAt(weak_refs, o, from, x, y)
        BY <2>3, <2>4, Registered
      <4>2. QED
        BY <2>3, <4>1 DEF RegisterAt
    <3>4. weak_refs'[x][y] = IF x = o /\ y = s THEN refs[x][y] + 1 ELSE refs[x][y]
      <4>1. RegisterAt(refs, o, s, x, y)
        BY <2>3, <2>4, Registered
      <4>2. QED
        BY <2>4, <4>1 DEF RegisterAt
    <3>5. nil # x
      BY <1>1
    <3>6. CASE y = s
      <4>1. weak_refs[x][y] = 0 /\ refs[x][y] = 0
        BY <2>2, <3>1, <3>3, <3>5, <3>6
      <4>2. QED
        BY <1>2, <2>3, <2>5, <3>2, <3>4, <3>6, <4>1
    <3>7. CASE y = from
      <4>1. refs[x][y] = 0
        BY <2>3, <3>1, <3>3, <3>7
      <4>2. QED
        BY <2>2, <2>5, <3>4, <3>5, <3>7, <4>1
    <3>8. CASE y # s /\ y # from
      BY <1>2, <2>5, <3>1, <3>2, <3>3, <3>4, <3>8
    <3>9. QED
      BY <3>6, <3>7, <3>8
  <2>7. \A y \in Slots : y \notin slotInUse' => slot'[y] = nil
    BY <2>1, <2>5 DEF WeakInv
  <2>8. QED
    BY <2>6, <2>7 DEF WeakInv
<1>8. QED
  BY <1>3, <1>4, <1>5, <1>6, <1>7 DEF WeakStep

LEMMA DeallocWeak ==
  ASSUME CallInv, WeakInv, NEW t \in ObjThreads, dealloc_object(t)
  PROVE  WeakInv'
<1>1. LifeTypes
  BY DEF CallInv
<1>2. PICK o \in Objs : o = DeallocOf(t)
  BY DyingIs DEF dealloc_object
<1>3. /\ refcount' = [refcount EXCEPT ![o] = Absent] /\ slotInUse' = slotInUse
      /\ slot' = [s \in Slots |-> IF weak_refs[o][s] > 0 /\ slot[s] = o THEN nil ELSE slot[s]]
      /\ weak_refs' = [weak_refs EXCEPT ![o] = NoSlots]
  BY <1>2 DEF dealloc_object, ZeroWeak
<1>4. \A s \in Slots : slot'[s] = IF slot[s] = o THEN nil ELSE slot[s]
  <2>1. \A s \in Slots : slot[s] = o => weak_refs[o][s] > 0
    BY DEF WeakInv
  <2>2. QED
    BY <1>3, <2>1
<1>5. nil \notin Objs
  BY ObjcAssumption
<1>6. ASSUME NEW y \in Slots, NEW x \in Objs
      PROVE  /\ weak_refs'[x][y] = IF slot'[y] = x THEN 1 ELSE 0
             /\ slot'[y] = x => refcount'[x] # Absent
  <2>1. /\ weak_refs[x][y] = IF slot[y] = x THEN 1 ELSE 0
        /\ slot[y] = x => refcount[x] # Absent
    BY DEF WeakInv
  <2>2. CASE x = o
    <3>1. slot'[y] # x
      BY <1>4, <1>5, <2>2
    <3>2. weak_refs'[x][y] = 0
      BY <1>1, <1>3, <2>2 DEF LifeTypes, NoSlots
    <3>3. QED
      BY <3>1, <3>2
  <2>3. CASE x # o
    <3>1. weak_refs'[x] = weak_refs[x] /\ refcount'[x] = refcount[x]
      BY <1>1, <1>3, <2>3 DEF LifeTypes
    <3>2. slot'[y] = x <=> slot[y] = x
      BY <1>4, <1>5, <2>3
    <3>3. QED
      BY <2>1, <3>1, <3>2
  <2>4. QED
    BY <2>2, <2>3
<1>7. \A s \in Slots : s \notin slotInUse' => slot'[s] = nil
  BY <1>3, <1>4 DEF WeakInv
<1>8. QED
  BY <1>6, <1>7 DEF WeakInv

-----------------------------------------------------------------------------
(* Both invariants through every action. *)

LEMMA RefInit ==
  ASSUME ObjcInit
  PROVE  RefInv /\ WeakInv
<1>1. CallInv /\ LifeTypes
  BY CallInit DEF CallInv
<1>2. WeakInv
  BY ObjcAssumption DEF ObjcInit, WeakInv, NoSlots
<1>3. ASSUME NEW x \in Objs PROVE RefOK(x)
  <2>1. Places(x, pooled) = {}
    <3>1. \A p \in DOMAIN pooled : \A i : i \notin Spots(x, pooled[p])
      <4>1. DOMAIN NoPool = {1} /\ NoPool[1] = nil
        BY DEF NoPool
      <4>2. QED
        BY <4>1, ObjcAssumption DEF ObjcInit, Spots
    <3>2. \A r : r \notin Places(x, pooled)
      BY <3>1, PlacesAre
    <3>3. QED
      BY <3>2
  <2>2. Places(x, ObjectsIn) = {}
    <3>1. \A d \in Depths : d[1] \in ObjThreads
      BY DEF Depths
    <3>2. \A d \in DOMAIN ObjectsIn : ObjectsIn[d] = <<>>
      BY <3>1 DEF ObjectsIn, ObjcInit
    <3>3. \A i : i \notin Spots(x, <<>>)
      BY DEF Spots
    <3>4. \A r : r \notin Places(x, ObjectsIn)
      BY <3>2, <3>3, PlacesAre
    <3>5. QED
      BY <3>4
  <2>3. refcount[x] = -1 /\ held[x] = 0 /\ leaked[x] = 0
    BY DEF ObjcInit, Absent
  <2>4. Refs(refcount[x]) = 0 /\ refcount[x] >= Absent
    BY <2>3 DEF Refs, Absent
  <2>5. QED
    BY <2>1, <2>2, <2>3, <2>4, FS_EmptySet DEF RefOK
<1>4. QED
  BY <1>2, <1>3 DEF RefInv

LEMMA RefStep ==
  ASSUME ~LoadsWhileDying, CallInv, RefInv, WeakInv, [ObjcNext]_objcVars
  PROVE  RefInv' /\ WeakInv'
<1>0. LifeTypes /\ refcount \in [Objs -> Int]
  BY DEF CallInv, LifeTypes
<1>1. ASSUME NEW o \in Objs, alloc_object(o) \/ retain(o) PROVE RefInv' /\ WeakInv'
  <2>1. \A x \in Objs : refcount[x] # Absent => refcount'[x] # Absent
    <3>1. refcount[o] \in Int /\ 1 # Absent
      BY <1>0 DEF Absent
    <3>2. refcount[o] # Absent => Incremented(refcount[o]) # Absent
      BY <3>1, IncrementStays
    <3>3. QED
      BY <1>0, <1>1, <3>1, <3>2 DEF alloc_object, retain
  <2>2. UNCHANGED <<slot, slotInUse, weak_refs>>
    BY <1>1 DEF alloc_object, retain
  <2>3. QED
    BY <1>1, <2>1, <2>2, CountRefs, WeakKept
<1>2. ASSUME NEW t \in ObjThreads, NEW o \in Objs, release(t, o) PROVE RefInv' /\ WeakInv'
  <2>1. ReleaseOn(t, o, refcount, frames[t]) /\ UNCHANGED <<slot, slotInUse, weak_refs>>
    BY <1>2 DEF release
  <2>2. \A x \in Objs : refcount[x] # Absent => refcount'[x] # Absent
    BY <1>0, <2>1, ReleaseStays
  <2>3. QED
    BY <1>2, <2>1, <2>2, GuestReleaseRefs, WeakKept
<1>3. ASSUME NEW t \in ObjThreads, NEW o \in Objs, autorelease(t, o) PROVE RefInv' /\ WeakInv'
  <2>1. UNCHANGED <<refcount, slot, slotInUse, weak_refs>>
    BY <1>3 DEF autorelease
  <2>2. QED
    BY <1>3, <2>1, AutoreleaseRefs, WeakKept
<1>4. ASSUME NEW t \in ObjThreads, NEW o \in Objs, NEW prev \in Objs, objc_storeStrong(t, prev, o)
      PROVE  RefInv' /\ WeakInv'
  <2>1. PICK rcs : rcs = [refcount EXCEPT ![o] = Incremented(refcount[o])]
    OBVIOUS
  <2>2. ReleaseOn(t, prev, rcs, frames[t]) /\ UNCHANGED <<slot, slotInUse, weak_refs>>
    BY <1>4, <2>1 DEF objc_storeStrong
  <2>3. refcount[o] \in Int /\ Incremented(refcount[o]) \in Int
    BY <1>0 DEF Incremented
  <2>4. rcs \in [Objs -> Int]
    BY <1>0, <2>1, <2>3
  <2>5. \A x \in Objs : refcount[x] # Absent => rcs[x] # Absent
    BY <1>0, <2>1, <2>3, IncrementStays
  <2>6. \A x \in Objs : rcs[x] # Absent => refcount'[x] # Absent
    BY <2>2, <2>4, ReleaseStays
  <2>7. QED
    BY <1>4, <2>2, <2>5, <2>6, StoreStrongRefs, WeakKept
<1>5. ASSUME NEW t \in ObjThreads, dealloc_object(t) PROVE RefInv' /\ WeakInv'
  BY <1>5, DeallocRefs, DeallocWeak
<1>6. ASSUME NEW t \in ObjThreads, DrainTakes(t) PROVE RefInv' /\ WeakInv'
  <2>1. UNCHANGED <<refcount, slot, slotInUse, weak_refs>>
    BY <1>6 DEF DrainTakes
  <2>2. QED
    BY <1>6, <2>1, DrainTakesRefs, WeakKept
<1>7. ASSUME NEW t \in ObjThreads, DrainReleases(t) PROVE RefInv' /\ WeakInv'
  <2>1. PICK o, under : ReleaseOn(t, o, refcount, under) /\ o = Head(Last(frames[t]).objects)
    BY <1>7 DEF DrainReleases
  <2>2. UNCHANGED <<slot, slotInUse, weak_refs>>
    BY <1>7 DEF DrainReleases
  <2>3. o \in Objs
    <3>1. frames[t] # <<>> /\ Last(frames[t]).objects # <<>>
      BY <1>7 DEF DrainReleases, InHost
    <3>2. Last(frames[t]) \in Calls
      BY <3>1, InnermostCall DEF CallInv
    <3>3. Last(frames[t]).objects \in Seq(Objs)
      BY <3>2, CallTypes
    <3>4. QED
      BY <2>1, <3>1, <3>3
  <2>4. \A x \in Objs : refcount[x] # Absent => refcount'[x] # Absent
    BY <1>0, <2>1, <2>3, ReleaseStays
  <2>5. QED
    BY <1>7, <2>2, <2>4, DrainReleasesRefs, WeakKept
<1>8. ASSUME NEW t \in ObjThreads, DrainEnds(t) PROVE RefInv' /\ WeakInv'
  <2>1. UNCHANGED <<refcount, held, leaked, pooled, slot, slotInUse, weak_refs>>
    BY <1>8 DEF DrainEnds
  <2>2. ObjectsIn' = ObjectsIn
    BY <1>8, DrainEndsCalls
  <2>3. QED
    BY <2>1, <2>2, RefsKept, WeakKept
<1>9. ASSUME NEW t \in ObjThreads, NEW p \in Pools, objc_autoreleasePoolPush(t, p)
      PROVE  RefInv' /\ WeakInv'
  <2>1. UNCHANGED <<refcount, slot, slotInUse, weak_refs>>
    BY <1>9 DEF objc_autoreleasePoolPush
  <2>2. QED
    BY <1>9, <2>1, PushRefs, WeakKept
<1>10. ASSUME NEW t \in ObjThreads, NEW p \in Pools, objc_autoreleasePoolPop(t, p)
       PROVE  RefInv' /\ WeakInv'
  <2>1. UNCHANGED <<refcount, held, leaked, pooled, slot, slotInUse, weak_refs>>
    BY <1>10 DEF objc_autoreleasePoolPop
  <2>2. ObjectsIn' = ObjectsIn
    BY <1>10, PopCalls
  <2>3. QED
    BY <2>1, <2>2, RefsKept, WeakKept
<1>11. ASSUME WeakStep PROVE RefInv' /\ WeakInv'
  <2>1. WeakOnly
    BY <1>11 DEF WeakStep, objc_initWeak, objc_storeWeak, objc_destroyWeak, objc_copyWeak,
                 objc_moveWeak
  <2>2. UNCHANGED <<refcount, held, leaked, pooled>> /\ ObjectsIn' = ObjectsIn
    BY <2>1 DEF WeakOnly, ObjectsIn
  <2>3. QED
    BY <1>11, <2>2, RefsKept, WeakWeak
<1>12. ASSUME NEW s \in Slots,
              objc_loadWeakRetained(s) \/ \E t \in ObjThreads : objc_loadWeak(t, s)
       PROVE  RefInv' /\ WeakInv'
  <2>1. /\ refcount' = [refcount EXCEPT ![slot[s]] = Incremented(refcount[slot[s]])]
        /\ UNCHANGED <<slot, slotInUse, weak_refs>> /\ slot[s] # nil
    BY <1>12 DEF objc_loadWeakRetained, objc_loadWeak, MayLoad
  <2>2. slot[s] \in Objs
    BY <1>0, <2>1 DEF LifeTypes
  <2>3. \A x \in Objs : refcount[x] # Absent => refcount'[x] # Absent
    BY <1>0, <2>1, <2>2, IncrementStays
  <2>4. QED
    BY <1>12, <2>1, <2>3, LoadRefs, WeakKept
<1>13. ASSUME UNCHANGED objcVars PROVE RefInv' /\ WeakInv'
  <2>1. ObjectsIn' = ObjectsIn
    BY <1>13 DEF objcVars, ObjectsIn
  <2>2. QED
    BY <1>13, <2>1, RefsKept, WeakKept DEF objcVars
<1>14. QED
  BY <1>1, <1>2, <1>3, <1>4, <1>5, <1>6, <1>7, <1>8, <1>9, <1>10, <1>11, <1>12, <1>13
     DEF ObjcNext, WeakStep

LEMMA RefsInvariant ==
  ASSUME ~LoadsWhileDying
  PROVE  ObjcSpec => [](CallInv /\ RefInv /\ WeakInv)
<1>1. ObjcInit => CallInv /\ RefInv /\ WeakInv
  BY CallInit, RefInit
<1>2. CallInv /\ RefInv /\ WeakInv /\ [ObjcNext]_objcVars => (CallInv /\ RefInv /\ WeakInv)'
  BY CallStep, RefStep
<1>3. QED
  BY <1>1, <1>2, PTL DEF ObjcSpec

(* The count of an object is the number of references to it: none is lost, *)
(* and none released twice, by retain, release, objc_storeStrong,          *)
(* autorelease, weak loads and drains on any threads (objc/objects.rs,     *)
(* objc/classes.rs, foundation/ns_autorelease_pool.rs), as long as the     *)
(* guest does not load an object through a weak slot during its dealloc.   *)
THEOREM CountsAreExact ==
  ASSUME ~LoadsWhileDying
  PROVE  ObjcSpec => []RefcountExact
<1>1. CallInv /\ RefInv /\ WeakInv => RefcountExact
  <2>1. ASSUME RefInv, NEW o \in Objs
        PROVE  held[o] + leaked[o] + OwnedByPools(o) = IF refcount[o] > 0 THEN refcount[o] ELSE 0
    BY <2>1 DEF RefInv, RefOK, Refs, OwnedByPools
  <2>2. QED
    BY <2>1 DEF RefcountExact
<1>2. QED
  BY <1>1, RefsInvariant, PTL

(* The weak side table lists every slot once, under the object it holds,   *)
(* and no slot holds an object that is gone: zero_weak_references_for      *)
(* (objc/weak.rs) finds all of them, under the same condition.             *)
THEOREM WeakSlotsAreExact ==
  ASSUME ~LoadsWhileDying
  PROVE  ObjcSpec => []WeakTableExact
<1>1. CallInv /\ RefInv /\ WeakInv => WeakTableExact
  BY DEF WeakInv, WeakTableExact
<1>2. QED
  BY <1>1, RefsInvariant, PTL

(* What a weak load returned, or the guest holds otherwise, stays          *)
(* allocated while it is held (what objc/weak.rs:112 rests on), as long as *)
(* the guest does not load an object through a weak slot in its dealloc.   *)
THEOREM HeldObjectsStay ==
  ASSUME ~LoadsWhileDying
  PROVE  ObjcSpec => []HeldObjectsExist
<1>1. CallInv /\ RefInv /\ WeakInv => HeldObjectsExist
  <2>1. ASSUME CallInv, RefInv, NEW o \in Objs, held[o] > 0 PROVE refcount[o] # Absent
    <3>1. refcount[o] > 0
      BY <2>1, RefParts DEF CallInv, RefInv
    <3>2. QED
      BY <3>1 DEF Absent
  <2>2. QED
    BY <2>1 DEF HeldObjectsExist
<1>2. QED
  BY <1>1, RefsInvariant, PTL
=============================================================================
