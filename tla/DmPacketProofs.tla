------------------------- MODULE DmPacketProofs -------------------------
(***************************************************************************)
(* Proofs about DmPacket and the allocator under it, for every set of       *)
(* threads, blocks, streams and sizes.                                      *)
(***************************************************************************)
EXTENDS DmPacket, Integers, FiniteSetTheorems, SequenceTheorems, WellFoundedInduction, TLAPS

----------------------------------------------------------------------------
(* The list, read along its links.                                          *)

\* What stands at a place of the ring that begins and ends at the head.
At(s, i) == IF i \in 1..Len(s) THEN s[i] ELSE new_ptr_list

\* The links from each place to the next, and back.
Forward(nx, s)  == \A i \in 0..Len(s) : nx[At(s, i)] = At(s, i + 1)
Backward(pv, s) == \A i \in 0..Len(s) : pv[At(s, i + 1)] = At(s, i)

\* A sequence of different blocks.
Once(s) == s \in Seq(Block) /\ \A i, j \in 1..Len(s) : s[i] = s[j] => i = j

\* What check_leaks reads in k steps, from any node.
Walked(nx, w, k) ==
  IF k = 0 THEN [n \in Node |-> <<>>]
  ELSE [n \in Node |-> IF n = new_ptr_list THEN <<>> ELSE <<n>> \o w[k - 1][nx[n]]]

Walk(nx) == CHOOSE w : w = [k \in 0..Cardinality(Block) |-> Walked(nx, w, k)]

\* A set of naturals with an element has a least one.
LEMMA LeastExists ==
  ASSUME NEW T, T \subseteq Nat, T # {}
  PROVE  \E m \in T : \A x \in T : m =< x
<1> DEFINE R == OpToRel(<, Nat)
<1>1. \A x, y \in Nat : x < y => <<x, y>> \in R
  BY DEF OpToRel
<1>2. IsWellFoundedOn(R, Nat)
  BY NatLessThanWellFounded
<1> HIDE DEF R
<1>3. PICK m \in T : \A x \in T : ~(<<x, m>> \in R)
  BY <1>2, WFMin
<1>4. ASSUME NEW x \in T PROVE m =< x
  <2>1. x \in Nat /\ m \in Nat
    OBVIOUS
  <2>2. ~(x < m)
    BY <1>1, <1>3, <2>1
  <2> QED
    BY <2>1, <2>2
<1> QED
  BY <1>4

\* Chain is the walk of Cardinality(Block) steps from the head.
LEMMA ChainIsWalk ==
  /\ Chain = Walk(next)[Cardinality(Block)][next[new_ptr_list]]
  /\ Chain' = Walk(next')[Cardinality(Block)][next'[new_ptr_list]]
<1>1. Chain = Walk(next)[Cardinality(Block)][next[new_ptr_list]]
  BY DEF Chain, Walk, Walked
<1>2. Chain' = Walk(next')[Cardinality(Block)][next'[new_ptr_list]]
  BY DEF Chain, Walk, Walked
<1> QED
  BY <1>1, <1>2

\* The recursion has a solution.
LEMMA WalkExists ==
  ASSUME NEW nx, Cardinality(Block) \in Nat
  PROVE  Walk(nx) = [k \in 0..Cardinality(Block) |-> Walked(nx, Walk(nx), k)]
<1> DEFINE Solved(m) == \E w : w = [k \in 0..m |-> Walked(nx, w, k)]
           Unsolved  == {m \in Nat : ~Solved(m)}
<1>1. Unsolved = {}
  <2> SUFFICES ASSUME Unsolved # {} PROVE FALSE
    OBVIOUS
  <2>1. PICK m \in Unsolved : \A x \in Unsolved : m =< x
    <3>1. Unsolved \subseteq Nat
      OBVIOUS
    <3> HIDE DEF Unsolved
    <3> QED
      BY <3>1, LeastExists
  <2>2. m \in Nat /\ ~Solved(m)
    OBVIOUS
  <2>3. CASE m = 0
    <3> DEFINE w == [k \in 0..0 |-> [n \in Node |-> <<>>]]
    <3>1. w = [k \in 0..0 |-> Walked(nx, w, k)]
      BY DEF Walked
    <3> QED
      BY <2>2, <2>3, <3>1
  <2>4. CASE m # 0
    <3>1. m - 1 \in Nat /\ m - 1 \notin Unsolved
      BY <2>1, <2>2, <2>4
    <3>2. Solved(m - 1)
      BY <3>1
    <3>3. PICK v : v = [k \in 0..m - 1 |-> Walked(nx, v, k)]
      BY <3>2
    <3> DEFINE w == [k \in 0..m |-> Walked(nx, v, k)]
    <3>4. \A k \in 0..m - 1 : w[k] = v[k]
      BY <2>2, <3>3
    <3>5. \A k \in 0..m : Walked(nx, w, k) = Walked(nx, v, k)
      <4>1. ASSUME NEW k \in 0..m, k # 0 PROVE w[k - 1] = v[k - 1]
        <5>1. k - 1 \in 0..m - 1
          BY <2>2, <4>1
        <5> HIDE DEF w
        <5> QED
          BY <3>4, <5>1
      <4> HIDE DEF w
      <4> QED
        BY <4>1 DEF Walked
    <3>6. w = [k \in 0..m |-> Walked(nx, w, k)]
      BY <3>5
    <3> QED
      BY <2>2, <3>6
  <2> QED
    BY <2>3, <2>4
<1>2. Solved(Cardinality(Block))
  BY <1>1
<1> QED
  BY <1>2 DEF Walk

\* Its equations, step by step.
LEMMA WalkSteps ==
  ASSUME NEW nx
  PROVE  /\ Cardinality(Block) \in Nat
         /\ \A n \in Node : Walk(nx)[0][n] = <<>>
         /\ \A k \in 0..Cardinality(Block) : Walk(nx)[k][new_ptr_list] = <<>>
         /\ \A k \in 1..Cardinality(Block), b \in Block :
              Walk(nx)[k][b] = <<b>> \o Walk(nx)[k - 1][nx[b]]
<1>1. Cardinality(Block) \in Nat
  BY BlocksAssumption, FS_CardinalityType
<1>2. \A k \in 0..Cardinality(Block) : Walk(nx)[k] = Walked(nx, Walk(nx), k)
  BY <1>1, WalkExists
<1>3. new_ptr_list \in Node /\ \A b \in Block : b \in Node /\ b # new_ptr_list
  BY BlocksAssumption DEF Node
<1>4. \A n \in Node : Walked(nx, Walk(nx), 0)[n] = <<>>
  BY DEF Walked
<1>5. \A k \in Nat : Walked(nx, Walk(nx), k)[new_ptr_list] = <<>>
  BY <1>3 DEF Walked
<1>6. \A k \in Nat, b \in Block :
        k # 0 => Walked(nx, Walk(nx), k)[b] = <<b>> \o Walk(nx)[k - 1][nx[b]]
  BY <1>3 DEF Walked
<1>7. ASSUME NEW k \in 0..Cardinality(Block)
      PROVE  /\ Walk(nx)[k][new_ptr_list] = <<>>
             /\ k = 0 => \A n \in Node : Walk(nx)[k][n] = <<>>
             /\ k # 0 => \A b \in Block : Walk(nx)[k][b] = <<b>> \o Walk(nx)[k - 1][nx[b]]
  <2>1. Walk(nx)[k] = Walked(nx, Walk(nx), k) /\ k \in Nat
    BY <1>1, <1>2, <1>7
  <2> QED
    BY <2>1, <1>4, <1>5, <1>6
<1> QED
  BY <1>1, <1>7

\* A list has no more blocks than there are.
LEMMA OnceBounded ==
  ASSUME NEW s, Once(s)
  PROVE  Len(s) \in Nat /\ Len(s) =< Cardinality(Block)
<1>1. s \in [1..Len(s) -> Block] /\ Len(s) \in Nat
  BY LenProperties DEF Once
<1>2. s \in Injection(1..Len(s), Block)
  BY <1>1 DEF Once, Injection, IsInjective
<1>3. Cardinality(1..Len(s)) =< Cardinality(Block)
  BY <1>2, BlocksAssumption, FS_Injection
<1>4. Cardinality(1..Len(s)) = Len(s)
  <2>1. 1 \in Int /\ Len(s) \in Int
    BY <1>1
  <2>2. Cardinality(1..Len(s)) = IF 1 > Len(s) THEN 0 ELSE Len(s) - 1 + 1
    BY <2>1, FS_Interval
  <2> QED
    BY <1>1, <2>2
<1> QED
  BY <1>1, <1>3, <1>4

\* A sequence without its first element.
LEMMA SubSeqFront ==
  ASSUME NEW s \in Seq(Block), NEW i \in 1..Len(s)
  PROVE  <<s[i]>> \o SubSeq(s, i + 1, Len(s)) = SubSeq(s, i, Len(s))
  OBVIOUS

\* The walk reads the sequence along which the links lead.
LEMMA WalkReads ==
  ASSUME NEW nx, NEW s, Once(s), Forward(nx, s)
  PROVE  Walk(nx)[Cardinality(Block)][nx[new_ptr_list]] = s
<1> DEFINE W == Walk(nx)
           N == Cardinality(Block)
           Reads(k) == \A i \in 1..Len(s) + 1 :
                         Len(s) + 1 - i =< k => W[k][At(s, i)] = SubSeq(s, i, Len(s))
           Wrong == {k \in Nat : k =< N /\ ~Reads(k)}
<1>0. N \in Nat /\ Len(s) \in Nat /\ Len(s) =< N /\ s \in Seq(Block)
  BY WalkSteps, OnceBounded DEF Once
<1>1. Wrong = {}
  <2> SUFFICES ASSUME Wrong # {} PROVE FALSE
    OBVIOUS
  <2>1. PICK k \in Wrong : \A x \in Wrong : k =< x
    <3>1. Wrong \subseteq Nat
      OBVIOUS
    <3> HIDE DEF Wrong
    <3> QED
      BY <3>1, LeastExists
  <2>2. k \in 0..N
    BY <1>0
  <2>3. ASSUME NEW i \in 1..Len(s) + 1, Len(s) + 1 - i =< k
        PROVE  W[k][At(s, i)] = SubSeq(s, i, Len(s))
    <3>1. CASE i = Len(s) + 1
      <4>1. At(s, i) = new_ptr_list /\ SubSeq(s, i, Len(s)) = <<>>
        BY <1>0, <3>1 DEF At
      <4> QED
        BY <2>2, <4>1, WalkSteps
    <3>2. CASE i # Len(s) + 1
      <4>1. i \in 1..Len(s) /\ k \in 1..N
        BY <1>0, <2>2, <2>3, <3>2
      <4>2. At(s, i) = s[i] /\ s[i] \in Block /\ nx[s[i]] = At(s, i + 1)
        <5>1. At(s, i) = s[i] /\ s[i] \in Block
          BY <1>0, <4>1 DEF At
        <5>2. nx[At(s, i)] = At(s, i + 1)
          BY <1>0, <4>1 DEF Forward
        <5> QED
          BY <5>1, <5>2
      <4>3. k - 1 \in Nat /\ k - 1 =< N /\ k - 1 \notin Wrong
        <5>1. k - 1 \in Nat /\ k - 1 =< N /\ ~(k =< k - 1)
          BY <1>0, <4>1
        <5> HIDE DEF Wrong
        <5> QED
          BY <2>1, <5>1
      <4>4. Reads(k - 1)
        BY <4>3
      <4>5. W[k - 1][At(s, i + 1)] = SubSeq(s, i + 1, Len(s))
        <5>1. i + 1 \in 1..Len(s) + 1 /\ Len(s) + 1 - (i + 1) =< k - 1
          BY <1>0, <2>2, <2>3, <4>1
        <5> HIDE DEF W, N
        <5> QED
          BY <4>4, <5>1
      <4>6. W[k][s[i]] = <<s[i]>> \o W[k - 1][nx[s[i]]]
        BY <4>1, <4>2, WalkSteps
      <4> QED
        BY <1>0, <4>1, <4>2, <4>5, <4>6, SubSeqFront
    <3> QED
      BY <3>1, <3>2
  <2> QED
    BY <2>1, <2>3
<1>2. Reads(N)
  BY <1>0, <1>1
<1>3. W[N][At(s, 1)] = SubSeq(s, 1, Len(s))
  BY <1>0, <1>2
<1>4. nx[new_ptr_list] = At(s, 1)
  BY <1>0 DEF Forward, At
<1> QED
  BY <1>0, <1>3, <1>4

\* Chain is the sequence along which the links lead.
LEMMA ChainReads ==
  /\ \A s : Once(s) /\ Forward(next, s) => Chain = s
  /\ \A s : Once(s) /\ Forward(next', s) => Chain' = s
  BY ChainIsWalk, WalkReads

----------------------------------------------------------------------------
(* Places of the ring.                                                      *)

\* The head stands at both ends, and no block twice.
LEMMA PlacesDiffer ==
  ASSUME NEW s, Once(s)
  PROVE  /\ \A i, j \in 0..Len(s) : At(s, i) = At(s, j) => i = j
         /\ \A i, j \in 1..Len(s) + 1 : At(s, i) = At(s, j) => i = j
         /\ \A i \in 0..Len(s) + 1 : At(s, i) \in Node
         /\ \A i \in 1..Len(s) : At(s, i) \in Block
<1>1. Len(s) \in Nat /\ \A i \in 1..Len(s) : s[i] \in Block
  BY DEF Once
<1>2. new_ptr_list \notin Block
  BY BlocksAssumption
<1> QED
  BY <1>1, <1>2 DEF Once, At, Node

\* A block that is added stands before the head.
LEMMA PlacesOfAppend ==
  ASSUME NEW s, Once(s), NEW d \in Block, d \notin ToSet(s)
  PROVE  /\ Once(Append(s, d))
         /\ Len(Append(s, d)) = Len(s) + 1
         /\ \A i \in 0..Len(s) : At(Append(s, d), i) = At(s, i)
         /\ At(Append(s, d), Len(s) + 1) = d
         /\ At(Append(s, d), Len(s) + 2) = new_ptr_list
         /\ ToSet(Append(s, d)) = ToSet(s) \cup {d}
<1>1. s \in Seq(Block) /\ Len(s) \in Nat
  BY DEF Once
<1>2. /\ Append(s, d) \in Seq(Block) /\ Len(Append(s, d)) = Len(s) + 1
      /\ \A i \in 1..Len(s) : Append(s, d)[i] = s[i]
      /\ Append(s, d)[Len(s) + 1] = d
  BY <1>1
<1>3. \A i \in 1..Len(s) : s[i] # d
  BY <1>1 DEF ToSet
<1>4. Once(Append(s, d))
  BY <1>1, <1>2, <1>3 DEF Once
<1>5. ToSet(Append(s, d)) = ToSet(s) \cup {d}
  <2>1. DOMAIN Append(s, d) = 1..Len(s) + 1 /\ DOMAIN s = 1..Len(s)
    BY <1>1, <1>2
  <2> QED
    BY <1>1, <1>2, <2>1 DEF ToSet
<1> QED
  BY <1>1, <1>2, <1>4, <1>5 DEF At

\* Those behind a block that is taken out move up.
LEMMA PlacesOfRemoveAt ==
  ASSUME NEW s, Once(s), NEW j \in 1..Len(s)
  PROVE  /\ Once(RemoveAt(s, j))
         /\ Len(RemoveAt(s, j)) = Len(s) - 1
         /\ \A i \in 0..Len(s) : At(RemoveAt(s, j), i) = IF i < j THEN At(s, i) ELSE At(s, i + 1)
         /\ ToSet(RemoveAt(s, j)) = ToSet(s) \ {s[j]}
<1> DEFINE r == RemoveAt(s, j)
<1>1. s \in Seq(Block) /\ Len(s) \in Nat \ {0} /\ j \in Nat
  BY DEF Once
<1>2. /\ r \in Seq(Block) /\ Len(r) = Len(s) - 1
      /\ \A i \in 1..Len(r) : r[i] = IF i < j THEN s[i] ELSE s[i + 1]
  <2> DEFINE front == SubSeq(s, 1, j - 1)
             back  == SubSeq(s, j + 1, Len(s))
  <2>1. /\ front \in Seq(Block) /\ Len(front) = j - 1
        /\ \A i \in 1..j - 1 : front[i] = s[i]
    BY <1>1
  <2>2. /\ back \in Seq(Block) /\ Len(back) = Len(s) - j
        /\ \A i \in 1..Len(s) - j : back[i] = s[j + i]
    BY <1>1
  <2>3. r = front \o back
    BY DEF RemoveAt
  <2> HIDE DEF front, back, r
  <2>4. /\ r \in Seq(Block) /\ Len(r) = Len(s) - 1
        /\ \A i \in 1..Len(r) : r[i] = IF i =< j - 1 THEN front[i] ELSE back[i - (j - 1)]
    <3>1. /\ front \o back \in Seq(Block)
          /\ Len(front \o back) = Len(front) + Len(back)
          /\ \A i \in 1..Len(front) + Len(back) :
               (front \o back)[i] = IF i =< Len(front) THEN front[i] ELSE back[i - Len(front)]
      BY <2>1, <2>2, ConcatProperties
    <3>2. Len(front) + Len(back) = Len(s) - 1
      BY <1>1, <2>1, <2>2
    <3> QED
      BY <2>1, <2>3, <3>1, <3>2
  <2>5. ASSUME NEW i \in 1..Len(r) PROVE r[i] = IF i < j THEN s[i] ELSE s[i + 1]
    <3>1. CASE i < j
      BY <1>1, <2>1, <2>4, <3>1
    <3>2. CASE ~(i < j)
      <4>1. i - (j - 1) \in 1..Len(s) - j /\ j + (i - (j - 1)) = i + 1
        BY <1>1, <2>4, <3>2
      <4> QED
        BY <1>1, <2>2, <2>4, <3>2, <4>1
    <3> QED
      BY <3>1, <3>2
  <2> QED
    BY <2>4, <2>5
<1> HIDE DEF r
<1>3. Once(r)
  BY <1>1, <1>2 DEF Once
<1>4. \A i \in 0..Len(s) : At(r, i) = IF i < j THEN At(s, i) ELSE At(s, i + 1)
  BY <1>1, <1>2 DEF At
<1>5. ToSet(r) = ToSet(s) \ {s[j]}
  <2>1. DOMAIN r = 1..Len(s) - 1 /\ DOMAIN s = 1..Len(s)
    BY <1>1, <1>2
  <2>2. \A i \in 1..Len(r) : r[i] \in ToSet(s) \ {s[j]}
    BY <1>1, <1>2, <2>1 DEF ToSet, Once
  <2>3. \A i \in 1..Len(s) : i # j => s[i] \in ToSet(r)
    <3>1. ASSUME NEW i \in 1..Len(s), i < j PROVE s[i] \in ToSet(r)
      BY <1>1, <1>2, <2>1, <3>1 DEF ToSet
    <3>2. ASSUME NEW i \in 1..Len(s), i > j PROVE s[i] \in ToSet(r)
      <4>1. i - 1 \in DOMAIN r /\ r[i - 1] = s[i]
        BY <1>1, <1>2, <2>1, <3>2
      <4> QED
        BY <4>1 DEF ToSet
    <3> QED
      BY <1>1, <3>1, <3>2
  <2> QED
    BY <2>1, <1>2, <2>2, <2>3 DEF ToSet
<1> QED
  BY <1>2, <1>3, <1>4, <1>5 DEF r

----------------------------------------------------------------------------
(* The invariant of the allocator.                                          *)

InNew    == {"new", "link", "link_next", "link_prev", "add", "added"}
InDelete == {"delete", "subtract", "subtracted", "unlink", "unlink_prev"}
Locked   == {"link", "link_next", "link_prev", "subtract", "subtracted", "unlink", "unlink_prev"}
Unlisted == {"new", "link", "link_next", "unlink_prev"}

\* A call has a block, which is given out and no other call's, and holds the
\* lock from link to link_prev and from subtract to unlink_prev.
Calls ==
  /\ \A t \in Thread : InCall(t) <=> dptr[t] # Nil
  /\ \A t \in Thread : dptr[t] # Nil => dptr[t] \in used
  /\ \A t, u \in Thread : dptr[t] = dptr[u] /\ dptr[t] # Nil => t = u
  /\ \A t \in Thread : lock = t <=> dpc[t] \in Locked

\* What prev will be when the call that is changing the links is done.
PrevToBe ==
  IF lock # Nil /\ dpc[lock] = "link_prev"
  THEN [prev EXCEPT ![new_ptr_list] = dptr[lock]]
  ELSE IF lock # Nil /\ dpc[lock] = "unlink_prev"
  THEN [prev EXCEPT ![next[dptr[lock]]] = prev[dptr[lock]]]
  ELSE prev

\* The blocks given out whose call of new has linked them and whose call of
\* delete has not taken them out.
Members == {b \in used : \A t \in Thread : dptr[t] = b => dpc[t] \notin Unlisted}

\* Chain is a list of these, along next and, but for the call that holds the
\* lock, along prev.
List ==
  /\ Once(Chain)
  /\ Forward(next, Chain)
  /\ Backward(PrevToBe, Chain)
  /\ ToSet(Chain) = Members
  /\ \A t \in Thread : dpc[t] = "link_next" =>
       prev[dptr[t]] = prev[new_ptr_list] /\ next[dptr[t]] = new_ptr_list

Alloc == DebugTypeOK /\ Calls /\ List

\* A step of BlockList, or none.
ListStep == [Blocks!Next]_(Blocks!vars)

----------------------------------------------------------------------------
(* The types.                                                               *)

\* Only check_leaks needs the list: it counts no more than there is.
LEMMA CallTypes ==
  ASSUME DebugTypeOK, Calls, NEW t \in Thread,
         \/ CallStep(t)
         \/ \E b \in Block, arr \in BOOLEAN : Delete(t, b, arr)
         \/ \E b \in Block, n \in Nat, arr \in BOOLEAN : New(t, b, n, arr)
  PROVE  DebugTypeOK'
<1> USE BlocksAssumption DEF DebugTypeOK
<1>0. Nil \notin Thread /\ Node = Block \cup {new_ptr_list} /\ TotalRange \in Nat \ {0}
  BY DEF Node
<1>1. ASSUME NEW b \in Block, NEW n \in Nat, NEW arr \in BOOLEAN, New(t, b, n, arr)
      PROVE  DebugTypeOK'
  <2>1. /\ used' = used \cup {b} /\ size' = [size EXCEPT ![b] = n]
        /\ array' = [array EXCEPT ![b] = arr] /\ magic' = [magic EXCEPT ![b] = TRUE]
        /\ dptr' = [dptr EXCEPT ![t] = b] /\ dpc' = [dpc EXCEPT ![t] = "new"]
        /\ UNCHANGED <<reg, next, prev, lock, total, leaks, aborted, counted, torn>>
    BY <1>1 DEF New, Goto, links
  <2>2. /\ size' \in [Block -> Nat] /\ array' \in [Block -> BOOLEAN]
        /\ magic' \in [Block -> BOOLEAN] /\ dptr' \in [Thread -> Block \cup {Nil}]
        /\ used' \in SUBSET Block
    BY <2>1
  <2> QED
    BY <2>1, <2>2
<1>2. ASSUME NEW b \in Block, NEW arr \in BOOLEAN, Delete(t, b, arr) PROVE DebugTypeOK'
  <2>1. UNCHANGED <<reg, next, prev, size, array, magic, used, lock, total, leaks, counted, torn>>
    BY <1>2 DEF Delete, links, header
  <2>2. CASE dpc' = [dpc EXCEPT ![t] = "delete"] /\ dptr' = [dptr EXCEPT ![t] = b] /\ UNCHANGED aborted
    BY <2>1, <2>2
  <2>3. CASE aborted' = TRUE /\ UNCHANGED <<dpc, dptr>>
    BY <2>1, <2>3
  <2> QED
    BY <1>2, <2>2, <2>3 DEF Delete, Goto
<1>3. dpc[t] # "out" => dptr[t] \in Block
  BY DEF Calls, InCall
<1>4. CASE Lock(t)
  BY <1>4 DEF Lock, Goto, links, header
<1>5. CASE Link(t)
  BY <1>0, <1>3, <1>5 DEF Link, Goto, header
<1>6. CASE LinkNext(t)
  BY <1>0, <1>3, <1>6 DEF LinkNext, Goto, header
<1>7. CASE LinkPrev(t)
  BY <1>0, <1>3, <1>7 DEF LinkPrev, Goto, header
<1>8. CASE ReadTotal(t)
  BY <1>8 DEF ReadTotal, Goto, links, header
<1>9. CASE AddTotal(t)
  <2>1. size[dptr[t]] \in Nat /\ reg[t] \in Nat
    BY <1>3, <1>9 DEF AddTotal
  <2>2. total' \in 0..TotalRange - 1
    BY <1>0, <1>9, <2>1 DEF AddTotal
  <2> QED
    BY <1>0, <1>3, <1>9, <2>2 DEF AddTotal, Goto, links, header
<1>10. CASE SubtractTotal(t)
  <2>1. size[dptr[t]] \in Nat /\ reg[t] \in Nat
    BY <1>3, <1>10 DEF SubtractTotal
  <2>2. total' \in 0..TotalRange - 1
    BY <1>0, <1>10, <2>1 DEF SubtractTotal
  <2> QED
    BY <1>0, <1>10, <2>2 DEF SubtractTotal, Goto, links, header
<1>11. CASE Unlink(t)
  BY <1>0, <1>3, <1>11 DEF Unlink, Goto, header
<1>12. CASE UnlinkPrev(t)
  BY <1>0, <1>3, <1>12 DEF UnlinkPrev, Goto, header
<1> QED
  BY <1>1, <1>2, <1>4, <1>5, <1>6, <1>7, <1>8, <1>9, <1>10, <1>11, <1>12 DEF CallStep

----------------------------------------------------------------------------
(* The calls and the lock.                                                  *)

\* A call that moves on inside, as all do but those below.
LEMMA CallsMove ==
  ASSUME DebugTypeOK, Calls, NEW t \in Thread, NEW p, Goto(t, p), p # "out", InCall(t),
         UNCHANGED <<dptr, used>>,
         \/ lock' = lock /\ (p \in Locked <=> dpc[t] \in Locked)
         \/ lock = Nil /\ lock' = t /\ p \in Locked
         \/ lock = t /\ lock' = Nil /\ p \notin Locked
  PROVE  Calls'
<1>1. \A u \in Thread : dpc'[u] = IF u = t THEN p ELSE dpc[u]
  BY DEF DebugTypeOK, Goto
<1>2. Nil \notin Thread
  BY BlocksAssumption
<1> QED
  BY <1>1, <1>2 DEF Calls, InCall

LEMMA CallsStep ==
  ASSUME DebugTypeOK, Calls, NEW t \in Thread,
         \/ CallStep(t)
         \/ \E b, arr : Delete(t, b, arr) /\ b \in used /\ \A u \in Thread : dptr[u] # b
         \/ \E b, n, arr : New(t, b, n, arr)
  PROVE  Calls'
<1>0. Nil \notin Thread /\ Nil \notin Block /\ used \subseteq Block
  BY BlocksAssumption DEF DebugTypeOK
<1>c. lock = t <=> dpc[t] \in Locked
  BY DEF Calls
<1>1. ASSUME NEW b, NEW n, NEW arr, New(t, b, n, arr) PROVE Calls'
  <2>1. /\ b \in Block \ used /\ used' = used \cup {b} /\ lock' = lock /\ ~InCall(t)
        /\ dptr' = [dptr EXCEPT ![t] = b] /\ Goto(t, "new")
    BY <1>1 DEF New
  <2>2. \A u \in Thread : /\ dpc'[u] = IF u = t THEN "new" ELSE dpc[u]
                         /\ dptr'[u] = IF u = t THEN b ELSE dptr[u]
    BY <2>1 DEF DebugTypeOK, Goto
  <2>3. b # Nil /\ \A u \in Thread : dptr[u] # b
    BY <1>0, <2>1 DEF Calls
  <2> QED
    BY <1>0, <1>c, <2>1, <2>2, <2>3 DEF Calls, InCall, Locked
<1>2. ASSUME NEW b \in used, NEW arr, Delete(t, b, arr), \A u \in Thread : dptr[u] # b
      PROVE  Calls'
  <2>1. UNCHANGED <<used, lock>> /\ ~InCall(t)
    BY <1>2 DEF Delete
  <2>2. CASE Goto(t, "delete") /\ dptr' = [dptr EXCEPT ![t] = b]
    <3>1. \A u \in Thread : /\ dpc'[u] = IF u = t THEN "delete" ELSE dpc[u]
                           /\ dptr'[u] = IF u = t THEN b ELSE dptr[u]
      BY <2>2 DEF DebugTypeOK, Goto
    <3> QED
      BY <1>0, <1>2, <1>c, <2>1, <3>1 DEF Calls, InCall, Locked
  <2>3. CASE UNCHANGED <<dpc, dptr>>
    BY <2>1, <2>3 DEF Calls, InCall
  <2> QED
    BY <1>2, <2>2, <2>3 DEF Delete
<1>3. CASE Lock(t)
  <2>1. dpc[t] # "out" /\ (IF dpc[t] = "new" THEN "link" ELSE "subtract") \in Locked
    BY <1>3 DEF Lock, Locked
  <2> QED
    BY <1>3, <2>1, CallsMove DEF Lock, InCall, Locked
<1>4. CASE Link(t)
  BY <1>4, CallsMove DEF Link, InCall, Locked
<1>5. CASE LinkNext(t)
  BY <1>5, CallsMove DEF LinkNext, InCall, Locked
<1>6. CASE LinkPrev(t)
  BY <1>6, <1>c, CallsMove DEF LinkPrev, InCall, Locked
<1>7. CASE ReadTotal(t)
  <2>1. CASE dpc[t] = "add"
    BY <1>7, <2>1, CallsMove DEF ReadTotal, InCall, Locked
  <2>2. CASE dpc[t] = "subtract"
    BY <1>7, <2>2, CallsMove DEF ReadTotal, InCall, Locked
  <2> QED
    BY <1>7, <2>1, <2>2 DEF ReadTotal
<1>8. CASE AddTotal(t)
  <2>1. \A u \in Thread : /\ dpc'[u] = IF u = t THEN "out" ELSE dpc[u]
                         /\ dptr'[u] = IF u = t THEN Nil ELSE dptr[u]
    BY <1>8 DEF DebugTypeOK, Goto, AddTotal
  <2>2. dpc[t] = "added" /\ UNCHANGED <<used, lock>>
    BY <1>8 DEF AddTotal
  <2> QED
    BY <1>0, <1>c, <2>1, <2>2 DEF Calls, InCall, Locked
<1>9. CASE SubtractTotal(t)
  BY <1>9, CallsMove DEF SubtractTotal, InCall, Locked
<1>10. CASE Unlink(t)
  BY <1>10, CallsMove DEF Unlink, InCall, Locked
<1>11. CASE UnlinkPrev(t)
  <2>1. \A u \in Thread : /\ dpc'[u] = IF u = t THEN "out" ELSE dpc[u]
                         /\ dptr'[u] = IF u = t THEN Nil ELSE dptr[u]
    BY <1>11 DEF DebugTypeOK, Goto, UnlinkPrev
  <2>2. dpc[t] = "unlink_prev" /\ used' = used \ {dptr[t]} /\ lock' = Nil
    BY <1>11 DEF UnlinkPrev
  <2> QED
    BY <1>0, <1>c, <2>1, <2>2 DEF Calls, InCall, Locked
<1> QED
  BY <1>1, <1>2, <1>3, <1>4, <1>5, <1>6, <1>7, <1>8, <1>9, <1>10, <1>11 DEF CallStep

----------------------------------------------------------------------------
(* The list, step by step.                                                  *)

LEMMA ListFrame ==
  ASSUME List, UNCHANGED links, PrevToBe' = PrevToBe, Members' = Members,
         \A t \in Thread : dpc'[t] = "link_next" => dpc[t] = "link_next" /\ dptr'[t] = dptr[t]
  PROVE  List' /\ Chain' = Chain
<1>1. next' = next /\ prev' = prev
  BY DEF links
<1>2. Chain' = Chain
  BY <1>1, ChainReads DEF List
<1>3. Once(Chain') /\ Forward(next', Chain') /\ Backward(PrevToBe', Chain')
  BY <1>1, <1>2 DEF List
<1>4. ToSet(Chain') = Members'
  BY <1>2 DEF List
<1>5. \A t \in Thread : dpc'[t] = "link_next" =>
        prev'[dptr'[t]] = prev'[new_ptr_list] /\ next'[dptr'[t]] = new_ptr_list
  BY <1>1 DEF List
<1> QED
  BY <1>2, <1>3, <1>4, <1>5 DEF List

\* What a caller does elsewhere does not touch what prev will be.
LEMMA PrevFrame ==
  ASSUME Calls, lock \in Thread \cup {Nil}, NEW t \in Thread, UNCHANGED links,
         \A u \in Thread : u # t => dpc'[u] = dpc[u] /\ dptr'[u] = dptr[u],
         dpc[t] \notin {"link_prev", "unlink_prev"}, dpc'[t] \notin {"link_prev", "unlink_prev"},
         lock' = lock \/ (lock = Nil /\ lock' = t)
  PROVE  PrevToBe' = PrevToBe
<1>1. next' = next /\ prev' = prev
  BY DEF links
<1>2. CASE lock \in Thread /\ lock # t /\ lock' = lock
  BY <1>1, <1>2 DEF PrevToBe
<1>3. CASE lock = t /\ lock' = t
  BY <1>1, <1>3 DEF PrevToBe
<1>4. CASE lock = Nil
  BY <1>1, <1>4 DEF PrevToBe
<1> QED
  BY <1>2, <1>3, <1>4

\* Nor which blocks are listed, if its own stays listed or unlisted.
LEMMA MembersFrame ==
  ASSUME Calls, NEW t \in Thread, used' = used,
         \A u \in Thread : u # t => dpc'[u] = dpc[u] /\ dptr'[u] = dptr[u],
         \A b \in used : (dptr[t] = b => dpc[t] \notin Unlisted)
                           <=> (dptr'[t] = b => dpc'[t] \notin Unlisted)
  PROVE  Members' = Members
  BY DEF Members

\* The steps that change no link.
LEMMA ListKept ==
  ASSUME Alloc, NEW t \in Thread,
         \/ Lock(t) \/ ReadTotal(t) \/ AddTotal(t) \/ SubtractTotal(t)
         \/ \E b, arr : Delete(t, b, arr) /\ b \in used /\ \A u \in Thread : dptr[u] # b
         \/ \E b, n, arr : New(t, b, n, arr)
  PROVE  List' /\ Chain' = Chain
<1>0. /\ lock \in Thread \cup {Nil} /\ Nil \notin Block /\ used \subseteq Block
      /\ dpc \in [Thread -> {"out"} \cup InNew \cup InDelete]
      /\ dptr \in [Thread -> Block \cup {Nil}] /\ Calls /\ List
  BY BlocksAssumption DEF Alloc, DebugTypeOK, InNew, InDelete
<1> DEFINE Rest == \A u \in Thread : u # t => dpc'[u] = dpc[u] /\ dptr'[u] = dptr[u]
<1>1. ASSUME NEW b, NEW n, NEW arr, New(t, b, n, arr) PROVE List' /\ Chain' = Chain
  <2>1. /\ b \in Block \ used /\ used' = used \cup {b} /\ lock' = lock /\ dpc[t] = "out"
        /\ dptr' = [dptr EXCEPT ![t] = b] /\ dpc' = [dpc EXCEPT ![t] = "new"] /\ UNCHANGED links
    BY <1>1 DEF New, Goto, InCall
  <2>2. Rest /\ dpc'[t] = "new" /\ dptr'[t] = b
    BY <1>0, <2>1
  <2>3. PrevToBe' = PrevToBe
    BY <1>0, <2>1, <2>2, PrevFrame
  <2>4. dptr[t] = Nil /\ \A u \in Thread : dptr[u] # b
    BY <1>0, <2>1 DEF Calls, InCall
  <2>5. Members' = Members
    <3>1. \A c \in used : c # Nil /\ c # b
      BY <1>0, <2>1
    <3> QED
      BY <2>1, <2>2, <2>4, <3>1 DEF Members, Unlisted
  <2> QED
    BY <1>0, <2>1, <2>2, <2>3, <2>5, ListFrame
<1>2. ASSUME NEW b \in used, NEW arr, Delete(t, b, arr), \A u \in Thread : dptr[u] # b
      PROVE  List' /\ Chain' = Chain
  <2>1. UNCHANGED <<used, lock>> /\ UNCHANGED links /\ dpc[t] = "out" /\ dptr[t] = Nil
    BY <1>0, <1>2 DEF Delete, Calls, InCall
  <2>2. Rest /\ dpc'[t] \in {"out", "delete"}
    BY <1>0, <1>2, <2>1 DEF Delete, Goto
  <2>3. PrevToBe' = PrevToBe
    BY <1>0, <2>1, <2>2, PrevFrame
  <2>4. Members' = Members
    BY <1>0, <2>1, <2>2, MembersFrame DEF Unlisted
  <2> QED
    BY <1>0, <2>1, <2>2, <2>3, <2>4, ListFrame
<1>3. CASE Lock(t)
  <2>1. UNCHANGED <<used, dptr>> /\ UNCHANGED links /\ lock = Nil /\ lock' = t
    BY <1>3 DEF Lock
  <2>2. /\ Rest /\ dpc[t] \in {"new", "delete"}
        /\ dpc'[t] = IF dpc[t] = "new" THEN "link" ELSE "subtract"
    BY <1>0, <1>3 DEF Lock, Goto
  <2>3. PrevToBe' = PrevToBe
    BY <1>0, <2>1, <2>2, PrevFrame
  <2>4. Members' = Members
    BY <1>0, <2>1, <2>2, MembersFrame DEF Unlisted
  <2> QED
    BY <1>0, <2>1, <2>2, <2>3, <2>4, ListFrame
<1>4. CASE ReadTotal(t)
  <2>1. UNCHANGED <<used, dptr, lock>> /\ UNCHANGED links
    BY <1>4 DEF ReadTotal
  <2>2. Rest /\ dpc[t] \in {"add", "subtract"} /\ dpc'[t] \in {"added", "subtracted"}
    BY <1>0, <1>4 DEF ReadTotal, Goto
  <2>3. PrevToBe' = PrevToBe
    BY <1>0, <2>1, <2>2, PrevFrame
  <2>4. Members' = Members
    BY <1>0, <2>1, <2>2, MembersFrame DEF Unlisted
  <2> QED
    BY <1>0, <2>1, <2>2, <2>3, <2>4, ListFrame
<1>5. CASE AddTotal(t)
  <2>1. UNCHANGED <<used, lock>> /\ UNCHANGED links
    BY <1>5 DEF AddTotal
  <2>2. Rest /\ dpc[t] = "added" /\ dpc'[t] = "out" /\ dptr'[t] = Nil
    BY <1>0, <1>5 DEF AddTotal, Goto
  <2>3. PrevToBe' = PrevToBe
    BY <1>0, <2>1, <2>2, PrevFrame
  <2>4. Members' = Members
    BY <1>0, <2>1, <2>2, MembersFrame DEF Unlisted
  <2> QED
    BY <1>0, <2>1, <2>2, <2>3, <2>4, ListFrame
<1>6. CASE SubtractTotal(t)
  <2>1. UNCHANGED <<used, dptr, lock>> /\ UNCHANGED links
    BY <1>6 DEF SubtractTotal
  <2>2. Rest /\ dpc[t] = "subtracted" /\ dpc'[t] = "unlink"
    BY <1>0, <1>6 DEF SubtractTotal, Goto
  <2>3. PrevToBe' = PrevToBe
    BY <1>0, <2>1, <2>2, PrevFrame
  <2>4. Members' = Members
    BY <1>0, <2>1, <2>2, MembersFrame DEF Unlisted
  <2> QED
    BY <1>0, <2>1, <2>2, <2>3, <2>4, ListFrame
<1> QED
  BY <1>1, <1>2, <1>3, <1>4, <1>5, <1>6

\* A thread at one of the places that change links: it alone has the lock.
LEMMA Linking ==
  ASSUME Alloc, NEW t \in Thread, dpc[t] \in Locked
  PROVE  /\ lock = t /\ t # Nil /\ dptr[t] \in Block /\ dptr[t] \in used
         /\ \A u \in Thread : u # t => dpc[u] \notin Locked /\ dptr[u] # dptr[t]
         /\ next \in [Node -> Node] /\ prev \in [Node -> Node]
         /\ dptr[t] \in Node /\ new_ptr_list \in Node /\ dptr[t] # new_ptr_list
         /\ Once(Chain) /\ Forward(next, Chain) /\ ToSet(Chain) = Members
         /\ Len(Chain) \in Nat /\ \A i \in 0..Len(Chain) + 1 : At(Chain, i) \in Node
         /\ Backward(PrevToBe, Chain)
<1>1. Calls /\ DebugTypeOK /\ List
  BY DEF Alloc
<1>2. lock = t /\ t # Nil /\ dpc[t] # "out"
  BY <1>1, BlocksAssumption DEF Calls, Locked
<1>3. dptr[t] \in Block /\ dptr[t] \in used
  BY <1>1, <1>2 DEF Calls, DebugTypeOK, InCall
<1>4. \A u \in Thread : u # t => dpc[u] \notin Locked /\ dptr[u] # dptr[t]
  BY <1>1, <1>2, <1>3, BlocksAssumption DEF Calls
<1>5. next \in [Node -> Node] /\ prev \in [Node -> Node]
  BY <1>1 DEF DebugTypeOK
<1>6. dptr[t] \in Node /\ new_ptr_list \in Node /\ dptr[t] # new_ptr_list
  BY <1>3, BlocksAssumption DEF Node
<1>7. Once(Chain) /\ Forward(next, Chain) /\ ToSet(Chain) = Members /\ Backward(PrevToBe, Chain)
  BY <1>1 DEF List
<1> QED
  BY <1>2, <1>3, <1>4, <1>5, <1>6, <1>7, PlacesDiffer DEF Once

\* A block the list has not yet, or no more, stands at none of its places.
LEMMA Outside ==
  ASSUME Alloc, NEW t \in Thread, dpc[t] \in Locked \cap Unlisted
  PROVE  /\ dptr[t] \notin ToSet(Chain)
         /\ \A i \in 0..Len(Chain) + 1 : At(Chain, i) # dptr[t]
<1>1. dpc[t] \in Locked
  OBVIOUS
<1>2. dptr[t] \notin ToSet(Chain)
  BY <1>1, Linking DEF Members
<1>3. \A i \in 1..Len(Chain) : Chain[i] \in ToSet(Chain)
  BY <1>1, Linking DEF Once, ToSet
<1> QED
  BY <1>1, <1>2, <1>3, Linking DEF At

LEMMA LinkList ==
  ASSUME Alloc, NEW t \in Thread, Link(t)
  PROVE  List' /\ Chain' = Chain
<1> DEFINE d == dptr[t]
           s == Chain
<1>1. /\ dpc[t] = "link" /\ dpc[t] \in Locked \cap Unlisted
      /\ prev' = [prev EXCEPT ![d] = prev[new_ptr_list]]
      /\ next' = [next EXCEPT ![d] = new_ptr_list]
      /\ dpc' = [dpc EXCEPT ![t] = "link_next"] /\ UNCHANGED <<dptr, used, lock>>
  BY DEF Link, Goto, Locked, Unlisted
<1>2. \A u \in Thread : dpc'[u] = IF u = t THEN "link_next" ELSE dpc[u]
  BY <1>1 DEF Alloc, DebugTypeOK
<1>3. PrevToBe = prev /\ PrevToBe' = prev'
  BY <1>1, <1>2, Linking DEF PrevToBe
<1>4. \A i \in 0..Len(s) + 1 : At(s, i) # d /\ At(s, i) \in Node
  BY <1>1, Outside, Linking
<1>5. Len(s) \in Nat /\ Once(s)
  BY <1>1, Linking
<1> HIDE DEF s
<1>6. Forward(next', s)
  <2>1. ASSUME NEW i \in 0..Len(s) PROVE next'[At(s, i)] = At(s, i + 1)
    <3>1. next[At(s, i)] = At(s, i + 1)
      BY <1>1, Linking DEF Forward, s
    <3>2. At(s, i) # d /\ At(s, i) \in Node
      BY <1>4, <1>5
    <3> QED
      BY <1>1, <3>1, <3>2, Linking
  <2> QED
    BY <2>1 DEF Forward
<1>7. Backward(PrevToBe', s)
  <2>1. ASSUME NEW i \in 0..Len(s) PROVE prev'[At(s, i + 1)] = At(s, i)
    <3>1. prev[At(s, i + 1)] = At(s, i)
      BY <1>1, <1>3, Linking DEF Backward, s
    <3>2. At(s, i + 1) # d /\ At(s, i + 1) \in Node
      BY <1>4, <1>5
    <3> QED
      BY <1>1, <3>1, <3>2, Linking
  <2> QED
    BY <1>3, <2>1 DEF Backward
<1>8. Chain' = s
  BY <1>5, <1>6, ChainReads
<1>9. Members' = Members
  BY <1>1, <1>2, MembersFrame DEF Alloc, Unlisted
<1>10. ToSet(Chain') = Members'
  BY <1>1, <1>8, <1>9, Linking DEF s
<1>11. \A u \in Thread : dpc'[u] = "link_next" =>
         prev'[dptr'[u]] = prev'[new_ptr_list] /\ next'[dptr'[u]] = new_ptr_list
  <2>1. \A u \in Thread : dpc'[u] = "link_next" => u = t
    BY <1>1, <1>2, Linking DEF Locked
  <2>2. prev'[d] = prev'[new_ptr_list] /\ next'[d] = new_ptr_list
    BY <1>1, Linking
  <2> QED
    BY <1>1, <2>1, <2>2
<1> QED
  BY <1>5, <1>6, <1>7, <1>8, <1>10, <1>11 DEF List, s

LEMMA LinkNextList ==
  ASSUME Alloc, NEW t \in Thread, LinkNext(t)
  PROVE  List' /\ Blocks!Add(dptr[t])
<1> DEFINE d == dptr[t]
           s == Chain
           r == Append(Chain, d)
<1>1. /\ dpc[t] = "link_next" /\ dpc[t] \in Locked \cap Unlisted
      /\ next' = [next EXCEPT ![prev[new_ptr_list]] = d]
      /\ dpc' = [dpc EXCEPT ![t] = "link_prev"] /\ UNCHANGED <<dptr, used, lock, prev, leaks>>
  BY DEF LinkNext, Goto, Locked, Unlisted
<1>2. \A u \in Thread : dpc'[u] = IF u = t THEN "link_prev" ELSE dpc[u]
  BY <1>1 DEF Alloc, DebugTypeOK
<1>3. PrevToBe = prev /\ PrevToBe' = [prev EXCEPT ![new_ptr_list] = d]
  BY <1>1, <1>2, Linking DEF PrevToBe
<1>4. /\ d \notin ToSet(s) /\ d \in Block /\ d \in Node /\ d # new_ptr_list /\ new_ptr_list \in Node
      /\ Once(s) /\ Len(s) \in Nat /\ prev \in [Node -> Node] /\ next \in [Node -> Node]
      /\ \A i \in 0..Len(s) + 1 : At(s, i) # d /\ At(s, i) \in Node
  BY <1>1, Outside, Linking
<1>5. /\ \A i \in 0..Len(s) : next[At(s, i)] = At(s, i + 1) /\ prev[At(s, i + 1)] = At(s, i)
      /\ At(s, Len(s) + 1) = new_ptr_list /\ At(s, 0) = new_ptr_list
  BY <1>1, <1>3, <1>4, Linking DEF Forward, Backward, At
<1>6. prev[new_ptr_list] = At(s, Len(s)) /\ prev[d] = At(s, Len(s)) /\ next[d] = new_ptr_list
  BY <1>1, <1>4, <1>5 DEF Alloc, List
<1>7. /\ Once(r) /\ Len(r) = Len(s) + 1 /\ ToSet(r) = ToSet(s) \cup {d}
      /\ \A i \in 0..Len(s) : At(r, i) = At(s, i)
      /\ At(r, Len(s) + 1) = d /\ At(r, Len(s) + 2) = new_ptr_list
  BY <1>4, PlacesOfAppend
<1>8. /\ \A i, j \in 0..Len(s) : At(s, i) = At(s, j) => i = j
      /\ \A i, j \in 1..Len(s) + 1 : At(s, i) = At(s, j) => i = j
  BY <1>4, PlacesDiffer
<1> HIDE DEF s, r, d
<1>9. Forward(next', r)
  <2>1. ASSUME NEW i \in 0..Len(r) PROVE next'[At(r, i)] = At(r, i + 1)
    <3>1. CASE i \in 0..Len(s) - 1
      <4>1. /\ i \in 0..Len(s) /\ i + 1 \in 0..Len(s) /\ Len(s) \in 0..Len(s) /\ i # Len(s)
        BY <1>4, <3>1
      <4>2. At(s, i) # At(s, Len(s)) /\ At(s, i) \in Node
        BY <1>4, <1>8, <4>1
      <4>3. next'[At(s, i)] = next[At(s, i)]
        BY <1>1, <1>4, <1>6, <4>2
      <4> QED
        BY <1>5, <1>7, <4>1, <4>3
    <3>2. CASE i = Len(s)
      <4>1. next'[At(s, i)] = d
        BY <1>1, <1>4, <1>6, <3>2
      <4> QED
        BY <1>4, <1>7, <3>2, <4>1
    <3>3. CASE i = Len(s) + 1
      <4>1. next'[d] = new_ptr_list
        BY <1>1, <1>4, <1>6
      <4> QED
        BY <1>4, <1>7, <3>3, <4>1
    <3> QED
      BY <1>4, <1>7, <3>1, <3>2, <3>3
  <2> QED
    BY <2>1 DEF Forward
<1>10. Backward(PrevToBe', r)
  <2>1. ASSUME NEW i \in 0..Len(r) PROVE PrevToBe'[At(r, i + 1)] = At(r, i)
    <3>1. CASE i \in 0..Len(s) - 1
      <4>1. /\ i \in 0..Len(s) /\ i + 1 \in 0..Len(s) /\ i + 1 \in 1..Len(s) + 1
            /\ Len(s) + 1 \in 1..Len(s) + 1 /\ i + 1 # Len(s) + 1
        BY <1>4, <3>1
      <4>2. At(s, i + 1) # new_ptr_list /\ At(s, i + 1) \in Node
        BY <1>4, <1>5, <1>8, <4>1
      <4>3. PrevToBe'[At(s, i + 1)] = prev[At(s, i + 1)]
        BY <1>3, <1>4, <4>2
      <4> QED
        BY <1>5, <1>7, <4>1, <4>3
    <3>2. CASE i = Len(s)
      <4>1. PrevToBe'[d] = At(s, Len(s))
        BY <1>3, <1>4, <1>6
      <4> QED
        BY <1>4, <1>7, <3>2, <4>1
    <3>3. CASE i = Len(s) + 1
      <4>1. PrevToBe'[new_ptr_list] = d
        BY <1>3, <1>4
      <4>2. At(r, i + 1) = new_ptr_list /\ At(r, i) = d
        BY <1>4, <1>7, <3>3
      <4> QED
        BY <4>1, <4>2
    <3> QED
      BY <1>4, <1>7, <3>1, <3>2, <3>3
  <2> QED
    BY <2>1 DEF Backward
<1>11. Chain' = r
  BY <1>7, <1>9, ChainReads
<1>12. ToSet(r) = Members'
  <2>1. Members' = Members \cup {d}
    BY <1>1, <1>2, Linking DEF Members, Unlisted, d
  <2> QED
    BY <1>1, <1>7, <2>1, Linking DEF s
<1>13. \A u \in Thread : dpc'[u] # "link_next"
  BY <1>1, <1>2, Linking DEF Locked
<1>14. Blocks!Add(d)
  BY <1>1, <1>4, <1>11 DEF Blocks!Add, Blocks!ToSet, ToSet, s, r
<1> QED
  BY <1>7, <1>9, <1>10, <1>11, <1>12, <1>13, <1>14 DEF List, d

\* The last write of either call: what prev will be, it is.
LEMMA PrevWritten ==
  ASSUME Alloc, NEW t \in Thread, LinkPrev(t) \/ UnlinkPrev(t)
  PROVE  List' /\ Chain' = Chain
<1>1. CASE LinkPrev(t)
  <2>1. /\ dpc[t] = "link_prev" /\ dpc[t] \in Locked /\ lock' = Nil
        /\ prev' = [prev EXCEPT ![new_ptr_list] = dptr[t]]
        /\ dpc' = [dpc EXCEPT ![t] = "add"] /\ UNCHANGED <<dptr, used, next>>
    BY <1>1 DEF LinkPrev, Goto, Locked
  <2>2. \A u \in Thread : dpc'[u] = IF u = t THEN "add" ELSE dpc[u]
    BY <2>1 DEF Alloc, DebugTypeOK
  <2>3. PrevToBe' = prev' /\ PrevToBe = prev'
    BY <2>1, Linking DEF PrevToBe
  <2>4. Members' = Members
    BY <2>1, <2>2, MembersFrame DEF Alloc, Unlisted
  <2>5. \A u \in Thread : dpc'[u] # "link_next"
    BY <2>1, <2>2, Linking DEF Locked
  <2>6. Chain' = Chain
    BY <2>1, Linking, ChainReads
  <2> QED
    BY <2>1, <2>3, <2>4, <2>5, <2>6, Linking DEF List
<1>2. CASE UnlinkPrev(t)
  <2>1. /\ dpc[t] = "unlink_prev" /\ dpc[t] \in Locked /\ lock' = Nil
        /\ prev' = [prev EXCEPT ![next[dptr[t]]] = prev[dptr[t]]]
        /\ dpc' = [dpc EXCEPT ![t] = "out"] /\ dptr' = [dptr EXCEPT ![t] = Nil]
        /\ used' = used \ {dptr[t]} /\ UNCHANGED next
    BY <1>2 DEF UnlinkPrev, Goto, Locked
  <2>2. \A u \in Thread : /\ dpc'[u] = IF u = t THEN "out" ELSE dpc[u]
                         /\ dptr'[u] = IF u = t THEN Nil ELSE dptr[u]
    BY <2>1 DEF Alloc, DebugTypeOK
  <2>3. PrevToBe' = prev' /\ PrevToBe = prev'
    BY <2>1, Linking DEF PrevToBe
  <2>4. Members' = Members
    <3>1. dptr[t] \notin Members
      BY <2>1 DEF Members, Unlisted
    <3>2. \A b \in used : b # dptr[t] =>
            ((\A u \in Thread : dptr'[u] = b => dpc'[u] \notin Unlisted)
              <=> (\A u \in Thread : dptr[u] = b => dpc[u] \notin Unlisted))
      <4>1. Nil \notin used
        BY BlocksAssumption DEF Alloc, DebugTypeOK
      <4> QED
        BY <2>2, <4>1
    <3> QED
      BY <2>1, <3>1, <3>2 DEF Members
  <2>5. \A u \in Thread : dpc'[u] # "link_next"
    BY <2>1, <2>2, Linking DEF Locked
  <2>6. Chain' = Chain
    BY <2>1, Linking, ChainReads
  <2> QED
    BY <2>1, <2>3, <2>4, <2>5, <2>6, Linking DEF List
<1> QED
  BY <1>1, <1>2

LEMMA UnlinkList ==
  ASSUME Alloc, NEW t \in Thread, Unlink(t)
  PROVE  List' /\ Blocks!Drop(dptr[t])
<1> DEFINE d == dptr[t]
           s == Chain
<1>1. /\ dpc[t] = "unlink" /\ dpc[t] \in Locked
      /\ next' = [next EXCEPT ![prev[d]] = next[d]]
      /\ dpc' = [dpc EXCEPT ![t] = "unlink_prev"] /\ UNCHANGED <<dptr, used, lock, prev, leaks>>
  BY DEF Unlink, Goto, Locked
<1>2. \A u \in Thread : dpc'[u] = IF u = t THEN "unlink_prev" ELSE dpc[u]
  BY <1>1 DEF Alloc, DebugTypeOK
<1>3. /\ d \in Block /\ d \in Node /\ Once(s) /\ Len(s) \in Nat
      /\ prev \in [Node -> Node] /\ next \in [Node -> Node] /\ s \in Seq(Block)
      /\ \A i \in 0..Len(s) + 1 : At(s, i) \in Node
  BY <1>1, Linking DEF Once
<1>4. d \in Members
  BY <1>1, Linking DEF Members, Unlisted
<1>5. PICK j \in 1..Len(s) : s[j] = d
  BY <1>1, <1>3, <1>4, Linking DEF ToSet
<1> DEFINE r == RemoveAt(s, j)
<1>6. PrevToBe = prev
  BY <1>1, Linking DEF PrevToBe
<1>7. \A i \in 0..Len(s) : next[At(s, i)] = At(s, i + 1) /\ prev[At(s, i + 1)] = At(s, i)
  BY <1>1, <1>6, Linking DEF Forward, Backward
<1>8. next[d] = At(s, j + 1) /\ prev[d] = At(s, j - 1)
  <2>1. At(s, j) = d /\ j \in 0..Len(s) /\ j - 1 \in 0..Len(s) /\ (j - 1) + 1 = j
    BY <1>3, <1>5 DEF At
  <2> QED
    BY <1>7, <2>1
<1>9. PrevToBe' = [prev EXCEPT ![At(s, j + 1)] = At(s, j - 1)]
  <2>1. next'[d] = next[d]
    <3>1. At(s, j) = d /\ j \in 0..Len(s) /\ j - 1 \in 0..Len(s) /\ j - 1 # j
      BY <1>3, <1>5 DEF At
    <3>2. At(s, j - 1) # d
      BY <1>3, <3>1, PlacesDiffer
    <3> QED
      BY <1>1, <1>3, <1>8, <3>2
  <2>2. /\ lock' = t /\ t # Nil /\ dpc'[t] = "unlink_prev" /\ dptr'[t] = d /\ prev' = prev
    BY <1>1, <1>2, Linking
  <2>3. PrevToBe' = [prev EXCEPT ![next'[d]] = prev[d]]
    BY <2>2 DEF PrevToBe
  <2> QED
    BY <1>8, <2>1, <2>3
<1>10. /\ Once(r) /\ Len(r) = Len(s) - 1 /\ ToSet(r) = ToSet(s) \ {d}
       /\ \A i \in 0..Len(s) : At(r, i) = IF i < j THEN At(s, i) ELSE At(s, i + 1)
  BY <1>3, <1>5, PlacesOfRemoveAt
<1>11. /\ \A i, k \in 0..Len(s) : At(s, i) = At(s, k) => i = k
       /\ \A i, k \in 1..Len(s) + 1 : At(s, i) = At(s, k) => i = k
  BY <1>3, PlacesDiffer
<1> HIDE DEF s, r, d
<1>12. Forward(next', r)
  <2>1. ASSUME NEW i \in 0..Len(r) PROVE next'[At(r, i)] = At(r, i + 1)
    <3>0. /\ i \in 0..Len(s) /\ i + 1 \in 0..Len(s) /\ j - 1 \in 0..Len(s) /\ j + 1 \in 0..Len(s) + 1
          /\ i \in Nat /\ j \in Nat /\ Len(s) \in Nat
      BY <1>3, <1>5, <1>10
    <3>1. CASE i < j - 1
      <4>1. At(r, i) = At(s, i) /\ At(r, i + 1) = At(s, i + 1)
        BY <1>10, <3>0, <3>1
      <4>2. At(s, i) # At(s, j - 1) /\ At(s, i) \in Node
        BY <1>3, <1>11, <3>0, <3>1
      <4> QED
        BY <1>1, <1>3, <1>7, <1>8, <3>0, <4>1, <4>2
    <3>2. CASE i = j - 1
      <4>1. At(r, i) = At(s, j - 1) /\ At(r, i + 1) = At(s, j + 1)
        <5>1. i < j /\ i + 1 = j /\ ~(j < j) /\ j \in 0..Len(s)
          BY <3>0, <3>2
        <5> QED
          BY <1>10, <3>0, <3>2, <5>1
      <4>2. At(s, j - 1) \in Node
        BY <1>3, <3>0
      <4> QED
        BY <1>1, <1>3, <1>8, <4>1, <4>2
    <3>3. CASE i > j - 1
      <4>1. At(r, i) = At(s, i + 1) /\ At(r, i + 1) = At(s, i + 1 + 1)
        BY <1>10, <3>0, <3>3
      <4>2. At(s, i + 1) # At(s, j - 1) /\ At(s, i + 1) \in Node
        BY <1>3, <1>11, <3>0, <3>3
      <4> QED
        BY <1>1, <1>3, <1>7, <1>8, <3>0, <4>1, <4>2
    <3> QED
      BY <3>0, <3>1, <3>2, <3>3
  <2> QED
    BY <2>1 DEF Forward
<1>13. Backward(PrevToBe', r)
  <2>1. ASSUME NEW i \in 0..Len(r) PROVE PrevToBe'[At(r, i + 1)] = At(r, i)
    <3>0. /\ i \in 0..Len(s) /\ i + 1 \in 0..Len(s) /\ j - 1 \in 0..Len(s) /\ j + 1 \in 1..Len(s) + 1
          /\ i + 1 \in 1..Len(s) + 1 /\ i + 1 + 1 \in 1..Len(s) + 1
          /\ i \in Nat /\ j \in Nat /\ Len(s) \in Nat
      BY <1>3, <1>5, <1>10
    <3>1. CASE i < j - 1
      <4>1. At(r, i) = At(s, i) /\ At(r, i + 1) = At(s, i + 1)
        BY <1>10, <3>0, <3>1
      <4>2. At(s, i + 1) # At(s, j + 1) /\ At(s, i + 1) \in Node
        <5>1. i + 1 # j + 1
          BY <3>0, <3>1
        <5> QED
          BY <1>3, <1>11, <3>0, <5>1
      <4> QED
        BY <1>3, <1>7, <1>9, <3>0, <4>1, <4>2
    <3>2. CASE i = j - 1
      <4>1. At(r, i) = At(s, j - 1) /\ At(r, i + 1) = At(s, j + 1)
        <5>1. i < j /\ i + 1 = j /\ ~(j < j) /\ j \in 0..Len(s)
          BY <3>0, <3>2
        <5> QED
          BY <1>10, <3>0, <3>2, <5>1
      <4>2. At(s, j + 1) \in Node
        BY <1>3, <3>0
      <4> QED
        BY <1>3, <1>9, <4>1, <4>2
    <3>3. CASE i > j - 1
      <4>1. At(r, i) = At(s, i + 1) /\ At(r, i + 1) = At(s, i + 1 + 1)
        BY <1>10, <3>0, <3>3
      <4>2. At(s, i + 1 + 1) # At(s, j + 1) /\ At(s, i + 1 + 1) \in Node
        <5>1. i + 1 + 1 # j + 1
          BY <3>0, <3>3
        <5> QED
          BY <1>3, <1>11, <3>0, <5>1
      <4>3. prev[At(s, i + 1 + 1)] = At(s, i + 1)
        BY <1>7, <3>0
      <4> QED
        BY <1>3, <1>9, <4>1, <4>2, <4>3
    <3> QED
      BY <3>0, <3>1, <3>2, <3>3
  <2> QED
    BY <2>1 DEF Backward
<1>14. Chain' = r
  BY <1>10, <1>12, ChainReads
<1>15. ToSet(r) = Members'
  <2>1. Members' = Members \ {d}
    <3>1. \A b \in used : b # d =>
            ((\A u \in Thread : dptr'[u] = b => dpc'[u] \notin Unlisted)
              <=> (\A u \in Thread : dptr[u] = b => dpc[u] \notin Unlisted))
      BY <1>1, <1>2 DEF d
    <3>2. d \notin Members'
      BY <1>1, <1>2 DEF Members, Unlisted, d
    <3> QED
      BY <1>1, <3>1, <3>2 DEF Members
  <2> QED
    BY <1>1, <1>10, <2>1, Linking DEF s
<1>16. \A u \in Thread : dpc'[u] # "link_next"
  BY <1>1, <1>2, Linking DEF Locked
<1>17. Blocks!Drop(d)
  <2>1. j \in DOMAIN s
    BY <1>3, <1>5
  <2> QED
    BY <1>1, <1>5, <1>14, <2>1 DEF Blocks!Drop, Blocks!RemoveAt, RemoveAt, s, r
<1> QED
  BY <1>10, <1>12, <1>13, <1>14, <1>15, <1>16, <1>17 DEF List, d

\* A call keeps the allocator's invariant, and its client's as BlockList has it.
LEMMA CallKeepsList ==
  ASSUME Alloc, NEW t \in Thread, CallStep(t)
  PROVE  Alloc' /\ ListStep
<1>1. DebugTypeOK' /\ Calls'
  BY CallTypes, CallsStep DEF Alloc
<1>2. CASE Lock(t) \/ ReadTotal(t) \/ AddTotal(t) \/ SubtractTotal(t)
  <2>1. List' /\ Chain' = Chain
    BY <1>2, ListKept
  <2>2. leaks' = leaks
    BY <1>2 DEF Lock, ReadTotal, AddTotal, SubtractTotal
  <2> QED
    BY <1>1, <2>1, <2>2 DEF Alloc, ListStep, Blocks!vars
<1>3. CASE Link(t)
  <2>1. leaks' = leaks
    BY <1>3 DEF Link
  <2> QED
    BY <1>1, <1>3, <2>1, LinkList DEF Alloc, ListStep, Blocks!vars
<1>4. CASE LinkPrev(t) \/ UnlinkPrev(t)
  <2>1. leaks' = leaks
    BY <1>4 DEF LinkPrev, UnlinkPrev
  <2> QED
    BY <1>1, <1>4, <2>1, PrevWritten DEF Alloc, ListStep, Blocks!vars
<1>5. CASE LinkNext(t)
  <2>1. dptr[t] \in Block
    BY <1>5, Linking DEF LinkNext, Locked
  <2> QED
    BY <1>1, <1>5, <2>1, LinkNextList DEF Alloc, ListStep, Blocks!Next
<1>6. CASE Unlink(t)
  <2>1. dptr[t] \in Block
    BY <1>6, Linking DEF Unlink, Locked
  <2> QED
    BY <1>1, <1>6, <2>1, UnlinkList DEF Alloc, ListStep, Blocks!Next
<1> QED
  BY <1>2, <1>3, <1>4, <1>5, <1>6 DEF CallStep

\* So do steps of others, the beginnings of calls, and the leak report.
LEMMA StillKeepsList ==
  ASSUME Alloc, UNCHANGED debugVars
  PROVE  Alloc' /\ ListStep
<1>1. DebugTypeOK' /\ Calls'
  BY DEF Alloc, debugVars, DebugTypeOK, Calls, InCall
<1>2. PrevToBe' = PrevToBe /\ Members' = Members /\ UNCHANGED links
  BY DEF debugVars, PrevToBe, Members, links
<1>3. List' /\ Chain' = Chain
  BY <1>2, ListFrame DEF Alloc, debugVars
<1> QED
  BY <1>1, <1>3 DEF Alloc, ListStep, Blocks!vars, debugVars

LEMMA ClientKeepsList ==
  ASSUME Alloc, NEW t \in Thread,
         \/ UNCHANGED debugVars
         \/ \E b \in used, arr \in BOOLEAN : Delete(t, b, arr) /\ \A u \in Thread : dptr[u] # b
         \/ \E b \in Block, n \in Nat, arr \in BOOLEAN : New(t, b, n, arr)
  PROVE  Alloc' /\ ListStep
<1>1. CASE UNCHANGED debugVars
  BY <1>1, StillKeepsList
<1>2. ASSUME NEW b \in used, NEW arr \in BOOLEAN, Delete(t, b, arr), \A u \in Thread : dptr[u] # b
      PROVE  Alloc' /\ ListStep
  <2>1. b \in Block
    BY DEF Alloc, DebugTypeOK
  <2>2. DebugTypeOK' /\ Calls'
    BY <1>2, <2>1, CallTypes, CallsStep DEF Alloc
  <2>3. List' /\ Chain' = Chain
    BY <1>2, ListKept
  <2>4. leaks' = leaks
    BY <1>2 DEF Delete
  <2> QED
    BY <2>2, <2>3, <2>4 DEF Alloc, ListStep, Blocks!vars
<1>3. ASSUME NEW b \in Block, NEW n \in Nat, NEW arr \in BOOLEAN, New(t, b, n, arr)
      PROVE  Alloc' /\ ListStep
  <2>1. DebugTypeOK' /\ Calls'
    BY <1>3, CallTypes, CallsStep DEF Alloc
  <2>2. List' /\ Chain' = Chain
    BY <1>3, ListKept
  <2>3. leaks' = leaks
    BY <1>3 DEF New
  <2> QED
    BY <2>1, <2>2, <2>3 DEF Alloc, ListStep, Blocks!vars
<1> QED
  BY <1>1, <1>2, <1>3

LEMMA ReportKeepsList ==
  ASSUME Alloc, CheckLeaks
  PROVE  Alloc' /\ ListStep
<1>1. /\ UNCHANGED <<dpc, dptr, used, lock>> /\ UNCHANGED links /\ leaks' = Len(Chain)
      /\ UNCHANGED <<reg, header, magic, total, aborted, counted, torn>>
  BY DEF CheckLeaks
<1>2. PrevToBe' = PrevToBe /\ Members' = Members
  BY <1>1 DEF PrevToBe, Members, links
<1>3. List' /\ Chain' = Chain
  BY <1>1, <1>2, ListFrame DEF Alloc
<1>4. leaks' \in 0..Cardinality(Block)
  <2>1. Len(Chain) \in Nat /\ Len(Chain) =< Cardinality(Block)
    BY OnceBounded DEF Alloc, List
  <2>2. Cardinality(Block) \in Nat
    BY BlocksAssumption, FS_CardinalityType
  <2> QED
    BY <1>1, <2>1, <2>2
<1>5. DebugTypeOK' /\ Calls'
  BY <1>1, <1>4 DEF Alloc, DebugTypeOK, Calls, InCall, links, header
<1>6. Blocks!Count
  BY <1>1, <1>3 DEF Blocks!Count
<1> QED
  BY <1>3, <1>5, <1>6 DEF Alloc, ListStep, Blocks!Next

LEMMA AllocInit == DebugInit => Alloc /\ Blocks!Init
<1> SUFFICES ASSUME DebugInit PROVE Alloc /\ Blocks!Init
  OBVIOUS
<1>1. /\ Nil \notin Thread /\ Nil \notin Block /\ new_ptr_list \in Node /\ Node = Block \cup {new_ptr_list}
      /\ new_ptr_list \notin Block /\ TotalRange \in Nat \ {0} /\ Cardinality(Block) \in Nat
  BY BlocksAssumption, FS_CardinalityType DEF Node
<1>2. /\ next = [n \in Node |-> new_ptr_list] /\ prev = [n \in Node |-> new_ptr_list]
      /\ dpc = [t \in Thread |-> "out"] /\ dptr = [t \in Thread |-> Nil]
      /\ used = {} /\ lock = Nil /\ leaks = 0
  BY DEF DebugInit
<1>3. Once(<<>>) /\ Len(<<>>) = 0 /\ ToSet(<<>>) = {}
  BY DEF Once, ToSet
<1>4. Forward(next, <<>>) /\ Backward(prev, <<>>)
  BY <1>1, <1>2, <1>3 DEF Forward, Backward, At
<1>5. Chain = <<>>
  BY <1>3, <1>4, ChainReads
<1>6. List
  <2>1. PrevToBe = prev /\ Members = {}
    BY <1>2 DEF PrevToBe, Members
  <2> QED
    BY <1>2, <1>3, <1>4, <1>5, <2>1 DEF List
<1>7. Calls
  BY <1>1, <1>2 DEF Calls, InCall, Locked
<1>8. DebugTypeOK
  <2>1. 0 \in 0..TotalRange - 1 /\ 0 \in 0..Cardinality(Block)
    BY <1>1
  <2>2. /\ dptr \in [Thread -> Block \cup {Nil}] /\ reg \in [Thread -> 0..TotalRange - 1]
        /\ next \in [Node -> Node] /\ prev \in [Node -> Node]
    BY <1>1, <2>1 DEF DebugInit
  <2>3. /\ size \in [Block -> Nat] /\ array \in [Block -> BOOLEAN] /\ magic \in [Block -> BOOLEAN]
        /\ used \in SUBSET Block /\ lock \in Thread \cup {Nil}
    BY DEF DebugInit
  <2>4. /\ total \in 0..TotalRange - 1 /\ leaks \in 0..Cardinality(Block)
        /\ aborted \in BOOLEAN /\ counted \in SUBSET Block /\ torn \in BOOLEAN
    BY <2>1 DEF DebugInit
  <2>5. dpc \in [Thread -> {"out", "new", "delete", "link", "link_next", "link_prev", "add",
                           "added", "subtract", "subtracted", "unlink", "unlink_prev"}]
    BY <1>2
  <2> QED
    BY <2>2, <2>3, <2>4, <2>5 DEF DebugTypeOK
<1>9. Blocks!Init
  BY <1>2, <1>5 DEF Blocks!Init
<1> QED
  BY <1>6, <1>7, <1>8, <1>9 DEF Alloc

\* Each place of the ring has the right neighbours, both ways.
LEMMA ListAgrees == Alloc => LinksAgree
<1> SUFFICES ASSUME Alloc, lock = Nil,
                    NEW n \in {new_ptr_list} \cup
                        {b \in used : \A t \in Thread : ~(dpc[t] = "new" /\ dptr[t] = b)}
             PROVE  prev[next[n]] = n /\ next[prev[n]] = n
  BY DEF LinksAgree
<1>1. \A t \in Thread : dpc[t] \notin Locked
  BY BlocksAssumption DEF Alloc, Calls
<1>2. PrevToBe = prev
  BY DEF PrevToBe
<1>3. n = new_ptr_list \/ n \in ToSet(Chain)
  <2>1. ASSUME n \in used, \A t \in Thread : ~(dpc[t] = "new" /\ dptr[t] = n) PROVE n \in Members
    BY <1>1, <2>1 DEF Members, Unlisted, Locked
  <2> QED
    BY <2>1 DEF Alloc, List
<1> DEFINE s == Chain
<1>4. s \in Seq(Block) /\ Len(s) \in Nat
  BY DEF Alloc, List, Once
<1>5. \A i \in 0..Len(s) : next[At(s, i)] = At(s, i + 1) /\ prev[At(s, i + 1)] = At(s, i)
  BY <1>2 DEF Alloc, List, Forward, Backward
<1> HIDE DEF s
<1>6. CASE n = new_ptr_list
  <2>1. At(s, 0) = n /\ At(s, Len(s) + 1) = n /\ 0 \in 0..Len(s) /\ Len(s) \in 0..Len(s)
    BY <1>4, <1>6 DEF At
  <2>2. next[n] = At(s, 0 + 1) /\ prev[At(s, 0 + 1)] = n
    BY <1>5, <2>1
  <2>3. prev[n] = At(s, Len(s)) /\ next[At(s, Len(s))] = n
    BY <1>5, <2>1
  <2> QED
    BY <2>2, <2>3
<1>7. CASE n \in ToSet(s)
  <2>1. PICK i \in 1..Len(s) : s[i] = n
    BY <1>4, <1>7 DEF ToSet
  <2>2. At(s, i) = n /\ i \in 0..Len(s) /\ i - 1 \in 0..Len(s) /\ (i - 1) + 1 = i
    BY <1>4, <2>1 DEF At
  <2>3. next[n] = At(s, i + 1) /\ prev[At(s, i + 1)] = n
    BY <1>5, <2>2
  <2>4. prev[n] = At(s, i - 1) /\ next[At(s, i - 1)] = n
    BY <1>5, <2>2
  <2> QED
    BY <2>3, <2>4
<1> QED
  BY <1>3, <1>6, <1>7 DEF s

----------------------------------------------------------------------------
(* The owners of blocks.                                                    *)

\* What a thread has: the buffer of its packet, or the objects it allocated;
\* and the block of its call.
Holding(t) == IF t \in Reader THEN {p_buf_[t]} \ {Nil} ELSE held[t]
Has(t)     == Holding(t) \cup ({dptr[t]} \ {Nil})

\* Each block given out is one thread's, who keeps it through new and has
\* given it up for delete; what a thread holds was allocated by the operator
\* that goes with its delete.
Owned ==
  /\ \A b \in Block : b \in used <=> \E t \in Thread : b \in Has(t)
  /\ \A t, u \in Thread, b \in Block : b \in Has(t) /\ b \in Has(u) => t = u
  /\ \A t \in Thread : Holding(t) \subseteq Block
  /\ \A t \in Thread : dpc[t] \in InNew => dptr[t] \in Holding(t)
  /\ \A t \in Thread : dpc[t] \in InDelete => dptr[t] \notin Holding(t)
  /\ \A t \in Thread : \A b \in Holding(t) : magic[b] /\ (array[b] <=> t \in Reader)
  /\ ~aborted

\* Steps that change nothing of this, the leak report among them.
LEMMA OwnedFrame ==
  ASSUME Owned, UNCHANGED <<used, dpc, dptr, magic, array, aborted>>,
         \A t \in Thread : Holding(t)' = Holding(t)
  PROVE  Owned'
<1>1. \A t \in Thread : Has(t)' = Has(t)
  BY DEF Has
<1> QED
  BY <1>1 DEF Owned

LEMMA OwnedNew ==
  ASSUME Alloc, Owned, NEW t \in Thread, NEW b \in Block, NEW n, NEW arr \in BOOLEAN,
         New(t, b, n, arr), arr <=> t \in Reader, Holding(t)' = Holding(t) \cup {b},
         \A u \in Thread : u # t => Holding(u)' = Holding(u)
  PROVE  Owned'
<1>1. /\ b \notin used /\ used' = used \cup {b} /\ dpc[t] = "out" /\ dptr[t] = Nil /\ b # Nil
      /\ dptr' = [dptr EXCEPT ![t] = b] /\ dpc' = [dpc EXCEPT ![t] = "new"]
      /\ magic' = [magic EXCEPT ![b] = TRUE] /\ array' = [array EXCEPT ![b] = arr]
      /\ UNCHANGED aborted
  BY BlocksAssumption DEF New, Goto, InCall, Alloc, Calls
<1>2. \A u \in Thread : /\ dpc'[u] = IF u = t THEN "new" ELSE dpc[u]
                       /\ dptr'[u] = IF u = t THEN b ELSE dptr[u]
  BY <1>1 DEF Alloc, DebugTypeOK
<1>3. \A c \in Block : /\ magic'[c] = IF c = b THEN TRUE ELSE magic[c]
                      /\ array'[c] = IF c = b THEN arr ELSE array[c]
  BY <1>1 DEF Alloc, DebugTypeOK
<1>4. Has(t)' = Has(t) \cup {b} /\ \A u \in Thread : u # t => Has(u)' = Has(u)
  BY <1>1, <1>2 DEF Has
<1>5. \A u \in Thread : b \notin Has(u) /\ b \notin Holding(u)
  BY <1>1 DEF Owned, Has
<1>6. /\ \A c \in Block : c \in used' <=> \E u \in Thread : c \in Has(u)'
      /\ \A u, v \in Thread, c \in Block : c \in Has(u)' /\ c \in Has(v)' => u = v
  BY <1>1, <1>4, <1>5 DEF Owned
<1>7. /\ \A u \in Thread : dpc'[u] \in InNew => dptr'[u] \in Holding(u)'
      /\ \A u \in Thread : dpc'[u] \in InDelete => dptr'[u] \notin Holding(u)'
      /\ \A u \in Thread : Holding(u)' \subseteq Block
  BY <1>2 DEF Owned, InDelete
<1>8. \A u \in Thread : \A c \in Holding(u)' : magic'[c] /\ (array'[c] <=> u \in Reader)
  <2>1. ASSUME NEW u \in Thread, NEW c \in Holding(u), c # b
        PROVE  magic'[c] /\ (array'[c] <=> u \in Reader)
    <3>1. c \in Block /\ magic[c] /\ (array[c] <=> u \in Reader)
      BY DEF Owned
    <3> QED
      BY <1>3, <2>1, <3>1
  <2>2. magic'[b] /\ (array'[b] <=> t \in Reader)
    BY <1>3
  <2> QED
    BY <1>5, <2>1, <2>2
<1> QED
  BY <1>1, <1>6, <1>7, <1>8 DEF Owned

LEMMA OwnedDelete ==
  ASSUME Alloc, Owned, NEW t \in Thread, NEW b \in Holding(t), NEW arr \in BOOLEAN,
         Delete(t, b, arr), arr <=> t \in Reader, Holding(t)' = Holding(t) \ {b},
         \A u \in Thread : u # t => Holding(u)' = Holding(u)
  PROVE  /\ Owned'
         /\ b \in used /\ \A u \in Thread : dptr[u] # b
<1>1. /\ b \in Block /\ magic[b] /\ (array[b] <=> arr) /\ b # Nil /\ dpc[t] = "out" /\ dptr[t] = Nil
      /\ b \in Has(t) /\ b \in used
  BY BlocksAssumption DEF Owned, Delete, InCall, Alloc, Calls, Has
<1>2. array[b] = arr
  BY <1>1 DEF Alloc, DebugTypeOK
<1>3. /\ dptr' = [dptr EXCEPT ![t] = b] /\ dpc' = [dpc EXCEPT ![t] = "delete"]
      /\ UNCHANGED <<used, magic, array, aborted>>
  BY <1>1, <1>2 DEF Delete, Goto, header
<1>4. \A u \in Thread : /\ dpc'[u] = IF u = t THEN "delete" ELSE dpc[u]
                       /\ dptr'[u] = IF u = t THEN b ELSE dptr[u]
  BY <1>3 DEF Alloc, DebugTypeOK
<1>5. \A u \in Thread : Has(u)' = Has(u)
  BY <1>1, <1>4 DEF Has
<1>6. \A u \in Thread : dptr[u] # b
  BY <1>1 DEF Owned, Has
<1>7. /\ \A u \in Thread : dpc'[u] \in InNew => dptr'[u] \in Holding(u)'
      /\ \A u \in Thread : dpc'[u] \in InDelete => dptr'[u] \notin Holding(u)'
  BY <1>4 DEF Owned, InNew
<1>8. \A u \in Thread : Holding(u)' \subseteq Holding(u)
  OBVIOUS
<1> QED
  BY <1>1, <1>3, <1>5, <1>6, <1>7, <1>8 DEF Owned

LEMMA OwnedCall ==
  ASSUME Alloc, Owned, NEW t \in Thread, CallStep(t),
         \A u \in Thread : Holding(u)' = Holding(u)
  PROVE  Owned'
<1>0. /\ dpc \in [Thread -> {"out"} \cup InNew \cup InDelete] /\ dptr \in [Thread -> Block \cup {Nil}]
      /\ magic \in [Block -> BOOLEAN] /\ Nil \notin Block
  BY BlocksAssumption DEF Alloc, DebugTypeOK, InNew, InDelete
<1>1. ASSUME NEW p, (dpc[t] \in InNew /\ p \in InNew) \/ (dpc[t] \in InDelete /\ p \in InDelete),
             Goto(t, p), UNCHANGED <<used, dptr, magic, array, aborted>>
      PROVE  Owned'
  <2>1. \A u \in Thread : dpc'[u] = IF u = t THEN p ELSE dpc[u]
    BY <1>0, <1>1 DEF Goto
  <2>2. \A u \in Thread : Has(u)' = Has(u)
    BY <1>1 DEF Has
  <2>3. InNew \cap InDelete = {}
    BY DEF InNew, InDelete
  <2>4. /\ \A u \in Thread : dpc'[u] \in InNew => dptr'[u] \in Holding(u)'
        /\ \A u \in Thread : dpc'[u] \in InDelete => dptr'[u] \notin Holding(u)'
    BY <1>1, <2>1, <2>3 DEF Owned
  <2> QED
    BY <1>1, <2>2, <2>4 DEF Owned
<1>2. CASE Lock(t)
  BY <1>1, <1>2 DEF Lock, header, InNew, InDelete
<1>3. CASE Link(t) \/ LinkNext(t) \/ LinkPrev(t)
  BY <1>1, <1>3 DEF Link, LinkNext, LinkPrev, header, InNew
<1>4. CASE ReadTotal(t)
  BY <1>1, <1>4 DEF ReadTotal, header, InNew, InDelete
<1>5. CASE SubtractTotal(t)
  BY <1>1, <1>5 DEF SubtractTotal, header, InDelete
<1>6. CASE AddTotal(t)
  <2>1. /\ dpc[t] = "added" /\ dpc' = [dpc EXCEPT ![t] = "out"] /\ dptr' = [dptr EXCEPT ![t] = Nil]
        /\ UNCHANGED <<used, magic, array, aborted>>
    BY <1>6 DEF AddTotal, Goto, header
  <2>2. \A u \in Thread : /\ dpc'[u] = IF u = t THEN "out" ELSE dpc[u]
                         /\ dptr'[u] = IF u = t THEN Nil ELSE dptr[u]
    BY <1>0, <2>1
  <2>3. dptr[t] \in Holding(t)
    BY <2>1 DEF Owned, InNew
  <2>4. \A u \in Thread : Has(u)' = Has(u)
    BY <2>2, <2>3 DEF Has
  <2>5. /\ \A u \in Thread : dpc'[u] \in InNew => dptr'[u] \in Holding(u)'
        /\ \A u \in Thread : dpc'[u] \in InDelete => dptr'[u] \notin Holding(u)'
    BY <2>2 DEF Owned, InNew, InDelete
  <2> QED
    BY <2>1, <2>4, <2>5 DEF Owned
<1>7. CASE Unlink(t)
  <2>1. /\ dpc[t] = "unlink" /\ dpc' = [dpc EXCEPT ![t] = "unlink_prev"]
        /\ magic' = [magic EXCEPT ![dptr[t]] = FALSE] /\ UNCHANGED <<used, dptr, array, aborted>>
    BY <1>7 DEF Unlink, Goto, header
  <2>2. \A u \in Thread : dpc'[u] = IF u = t THEN "unlink_prev" ELSE dpc[u]
    BY <1>0, <2>1
  <2>3. dptr[t] \in Block /\ dptr[t] \in Has(t) /\ dptr[t] \notin Holding(t)
    BY <1>0, <2>1 DEF Alloc, Calls, InCall, Has, Owned, InDelete
  <2>4. \A u \in Thread : dptr[t] \notin Holding(u)
    BY <2>3 DEF Owned, Has
  <2>5. \A u \in Thread : \A b \in Holding(u) : magic'[b] /\ (array'[b] <=> u \in Reader)
    <3> SUFFICES ASSUME NEW u \in Thread, NEW b \in Holding(u)
                 PROVE  magic'[b] /\ (array'[b] <=> u \in Reader)
      OBVIOUS
    <3>1. b \in Block /\ b # dptr[t] /\ magic[b] /\ (array[b] <=> u \in Reader)
      BY <2>4 DEF Owned
    <3>2. magic'[b] = magic[b] /\ array' = array
      BY <1>0, <2>1, <3>1
    <3> QED
      BY <3>1, <3>2
  <2>6. \A u \in Thread : Has(u)' = Has(u)
    BY <2>1 DEF Has
  <2>7. /\ \A u \in Thread : dpc'[u] \in InNew => dptr'[u] \in Holding(u)'
        /\ \A u \in Thread : dpc'[u] \in InDelete => dptr'[u] \notin Holding(u)'
    BY <2>1, <2>2, <2>3 DEF Owned, InNew
  <2>8. /\ \A b \in Block : b \in used' <=> \E u \in Thread : b \in Has(u)'
        /\ \A u, v \in Thread, b \in Block : b \in Has(u)' /\ b \in Has(v)' => u = v
        /\ \A u \in Thread : Holding(u)' \subseteq Block
        /\ ~aborted'
    BY <2>1, <2>6 DEF Owned
  <2>9. \A u \in Thread : \A b \in Holding(u)' : magic'[b] /\ (array'[b] <=> u \in Reader)
    BY <2>5
  <2> QED
    BY <2>7, <2>8, <2>9 DEF Owned
<1>8. CASE UnlinkPrev(t)
  <2>1. /\ dpc[t] = "unlink_prev" /\ dpc' = [dpc EXCEPT ![t] = "out"]
        /\ dptr' = [dptr EXCEPT ![t] = Nil] /\ used' = used \ {dptr[t]}
        /\ UNCHANGED <<magic, array, aborted>>
    BY <1>8 DEF UnlinkPrev, Goto, header
  <2>2. \A u \in Thread : /\ dpc'[u] = IF u = t THEN "out" ELSE dpc[u]
                         /\ dptr'[u] = IF u = t THEN Nil ELSE dptr[u]
    BY <1>0, <2>1
  <2>3. dptr[t] \in Block /\ dptr[t] \in Has(t) /\ dptr[t] \notin Holding(t)
    BY <1>0, <2>1 DEF Alloc, Calls, InCall, Has, Owned, InDelete
  <2>4. Has(t)' = Has(t) \ {dptr[t]} /\ \A u \in Thread : u # t => Has(u)' = Has(u)
    BY <2>2, <2>3 DEF Has
  <2>5. /\ \A b \in Block : b \in used' <=> \E u \in Thread : b \in Has(u)'
        /\ \A u, v \in Thread, b \in Block : b \in Has(u)' /\ b \in Has(v)' => u = v
    <3>1. \A u \in Thread : u # t => dptr[t] \notin Has(u)
      BY <2>3 DEF Owned
    <3> QED
      BY <2>1, <2>4, <3>1 DEF Owned
  <2>6. /\ \A u \in Thread : dpc'[u] \in InNew => dptr'[u] \in Holding(u)'
        /\ \A u \in Thread : dpc'[u] \in InDelete => dptr'[u] \notin Holding(u)'
    BY <2>2 DEF Owned, InNew, InDelete
  <2> QED
    BY <2>1, <2>5, <2>6 DEF Owned
<1> QED
  BY <1>2, <1>3, <1>4, <1>5, <1>6, <1>7, <1>8 DEF CallStep

----------------------------------------------------------------------------
(* The packets.                                                             *)

PacketTypes ==
  /\ stream \in [Reader -> Stream]
  /\ got \in [Reader -> Nat] /\ rx_len \in [Reader -> Nat]
  /\ pos_ \in [Reader -> Nat] /\ len_ \in [Reader -> Nat] /\ remain_len_ \in [Reader -> Nat]
  /\ header_buf_ \in [Reader -> Seq(Byte)] /\ data \in [Reader -> Seq(Byte)]
  /\ p_buf_ \in [Reader -> Block \cup {Nil}]
  /\ frames \in [Reader -> Seq(Int)]
  /\ held \in [Other -> SUBSET Block]

\* A packet has a buffer from its ninth byte on, of the length it announced,
\* and the bytes read and to be read are this length.
PacketOK(r) ==
  /\ got[r] + rx_len[r] =< Len(stream[r])
  /\ Len(frames[r]) =< got[r]
  /\ Len(header_buf_[r]) =< DataPos
  /\ len_[r] = 0 \/ LengthAllowed(len_[r])
  /\ p_buf_[r] = Nil =>
       /\ pos_[r] < DataPos /\ pos_[r] =< Len(header_buf_[r])
       /\ remain_len_[r] = 0 /\ data[r] = <<>>
  /\ p_buf_[r] # Nil =>
       /\ pos_[r] >= DataPos /\ Len(data[r]) = pos_[r]
       /\ pos_[r] + remain_len_[r] = size[p_buf_[r]] /\ size[p_buf_[r]] < MaxOfMsgSize

Packets == PacketTypes /\ \A r \in Reader : PacketOK(r)

\* What an iteration may copy, and what it has then.
LEMMA CopiedIs ==
  ASSUME Packets, NEW r \in Reader, NEW n \in Nat
  PROVE  /\ Taken(r, n) \in Nat /\ Taken(r, n) =< n /\ Taken(r, n) =< rx_len[r]
         /\ n > 0 /\ rx_len[r] > 0 => Taken(r, n) > 0
         /\ Copied(r, n) \in Seq(Byte) /\ Len(Copied(r, n)) = Taken(r, n)
<1>1. got[r] \in Nat /\ rx_len[r] \in Nat /\ stream[r] \in Seq(Byte) /\ Len(stream[r]) \in Nat
  BY StreamsAssumption DEF Packets, PacketTypes, Byte
<1>2. /\ Taken(r, n) \in Nat /\ Taken(r, n) =< n /\ Taken(r, n) =< rx_len[r]
      /\ n > 0 /\ rx_len[r] > 0 => Taken(r, n) > 0
  BY <1>1 DEF Taken, LeastOf
<1>3. got[r] + rx_len[r] =< Len(stream[r])
  BY DEF Packets, PacketOK
<1>4. /\ got[r] + 1 \in 1..Len(stream[r]) + 1
      /\ got[r] + Taken(r, n) \in (got[r] + 1) - 1..Len(stream[r])
  <2>1. ASSUME NEW k \in Nat, k =< rx_len[r] PROVE got[r] + k \in (got[r] + 1) - 1..Len(stream[r])
    BY <1>1, <1>3, <2>1
  <2>2. got[r] + 1 \in 1..Len(stream[r]) + 1
    BY <1>1, <1>3
  <2> QED
    BY <1>2, <2>1, <2>2
<1>5. /\ Copied(r, n) \in Seq(Byte)
      /\ Len(Copied(r, n)) = (got[r] + Taken(r, n)) - (got[r] + 1) + 1
  BY <1>1, <1>4, SubSeqProperties DEF Copied
<1> QED
  BY <1>1, <1>2, <1>5

\* Bytes put at pos_ of a buffer that has been filled to there.
LEMMA PutAtPos ==
  ASSUME NEW s \in Seq(Byte), NEW p \in Nat, p =< Len(s), NEW c \in Seq(Byte)
  PROVE  /\ SubSeq(s, 1, p) \o c \in Seq(Byte)
         /\ Len(SubSeq(s, 1, p) \o c) = p + Len(c)
<1>1. SubSeq(s, 1, p) \in Seq(Byte) /\ Len(SubSeq(s, 1, p)) = p
  BY SubSeqProperties
<1> QED
  BY <1>1

LEMMA HeaderIs ==
  ASSUME Packets, NEW r \in Reader, p_buf_[r] = Nil, NEW n \in Nat
  PROVE  /\ HeaderWith(r, n) \in Seq(Byte)
         /\ Len(HeaderWith(r, n)) = pos_[r] + Taken(r, n)
<1>1. header_buf_[r] \in Seq(Byte) /\ pos_[r] \in Nat /\ pos_[r] =< Len(header_buf_[r])
  BY DEF Packets, PacketTypes, PacketOK
<1>2. Copied(r, n) \in Seq(Byte) /\ Len(Copied(r, n)) = Taken(r, n)
  BY CopiedIs
<1> QED
  BY <1>1, <1>2, PutAtPos DEF HeaderWith

LEMMA DataIs ==
  ASSUME Packets, NEW r \in Reader, p_buf_[r] # Nil
  PROVE  /\ DataWith(r) \in Seq(Byte)
         /\ Len(DataWith(r)) = pos_[r] + Taken(r, remain_len_[r])
<1>1. /\ data[r] \in Seq(Byte) /\ pos_[r] \in Nat /\ pos_[r] =< Len(data[r])
      /\ remain_len_[r] \in Nat
  BY DEF Packets, PacketTypes, PacketOK
<1>2. /\ Copied(r, remain_len_[r]) \in Seq(Byte)
      /\ Len(Copied(r, remain_len_[r])) = Taken(r, remain_len_[r])
  BY <1>1, CopiedIs
<1> QED
  BY <1>1, <1>2, PutAtPos DEF DataWith

LEMMA WordIsNat ==
  ASSUME NEW s, s[1] \in Nat, s[2] \in Nat, s[3] \in Nat, s[4] \in Nat
  PROVE  LengthOf(s) \in Nat
  BY DEF LengthOf

LEMMA ElementsAreIn ==
  ASSUME NEW S, NEW s \in Seq(S)
  PROVE  \A i \in 1..Len(s) : s[i] \in S
  OBVIOUS

LEMMA LengthIsNat ==
  ASSUME NEW h \in Seq(Byte), Len(h) = DataPos
  PROVE  LengthOf(SubSeq(h, 5, 8)) \in Nat
<1> DEFINE s == SubSeq(h, 5, 8)
<1>2. \A i \in 1..Len(h) : h[i] \in Byte
  OBVIOUS
<1>3. \A i \in 5..8 : i \in 1..Len(h)
  BY DEF DataPos
<1>4. s \in Seq(Byte) /\ Len(s) = 4
  BY <1>2, <1>3, SubSeqProperties
<1> HIDE DEF s
<1>5. \A i \in 1..Len(s) : s[i] \in Byte
  BY <1>4, ElementsAreIn
<1>6. 1 \in 1..4 /\ 2 \in 1..4 /\ 3 \in 1..4 /\ 4 \in 1..4
  OBVIOUS
<1>7. s[1] \in Byte /\ s[2] \in Byte /\ s[3] \in Byte /\ s[4] \in Byte
  BY <1>4, <1>5, <1>6
<1>8. Byte \subseteq Nat
  BY DEF Byte
<1>9. s[1] \in Nat /\ s[2] \in Nat /\ s[3] \in Nat /\ s[4] \in Nat
  BY <1>7, <1>8
<1> QED
  BY <1>9, WordIsNat DEF s

\* The blocks given out keep their size.
LEMMA SizesStay ==
  ASSUME Alloc, NEW t \in Thread,
         \/ CallStep(t) \/ CheckLeaks \/ UNCHANGED debugVars
         \/ \E b, arr : Delete(t, b, arr)
         \/ \E b, n, arr : New(t, b, n, arr)
  PROVE  \A b \in used : size'[b] = size[b]
<1>1. CASE CallStep(t)
  BY <1>1 DEF CallStep, Lock, Link, LinkNext, LinkPrev, ReadTotal, AddTotal, SubtractTotal,
              Unlink, UnlinkPrev, header
<1>2. CASE CheckLeaks \/ UNCHANGED debugVars \/ \E b, arr : Delete(t, b, arr)
  BY <1>2 DEF CheckLeaks, Delete, debugVars, header
<1>3. ASSUME NEW b, NEW n, NEW arr, New(t, b, n, arr) PROVE \A c \in used : size'[c] = size[c]
  <2>1. size' = [size EXCEPT ![b] = n] /\ b \notin used /\ used \subseteq Block
    BY <1>3 DEF New, Alloc, DebugTypeOK
  <2> QED
    BY <2>1 DEF Alloc, DebugTypeOK
<1> QED
  BY <1>1, <1>2, <1>3

\* A step of one reader leaves the packets of the others as they are.
LEMMA PacketsOf ==
  ASSUME Packets, Owned, NEW r \in Reader, PacketTypes', PacketOK(r)',
         \A b \in used : size'[b] = size[b],
         stream' = stream,
         \A q \in Reader : q # r => PacketOf(q)' = PacketOf(q) /\ rx_len'[q] = rx_len[q]
                                    /\ frames'[q] = frames[q]
  PROVE  Packets'
<1> SUFFICES ASSUME NEW q \in Reader, q # r PROVE PacketOK(q)'
  BY DEF Packets
<1>1. /\ pos_'[q] = pos_[q] /\ len_'[q] = len_[q] /\ remain_len_'[q] = remain_len_[q]
      /\ header_buf_'[q] = header_buf_[q] /\ p_buf_'[q] = p_buf_[q] /\ data'[q] = data[q]
      /\ got'[q] = got[q] /\ rx_len'[q] = rx_len[q] /\ frames'[q] = frames[q]
  BY DEF PacketOf
<1>2. p_buf_[q] # Nil => size'[p_buf_[q]] = size[p_buf_[q]]
  <2>1. ASSUME p_buf_[q] # Nil PROVE p_buf_[q] \in used
    BY <2>1, StreamsAssumption DEF Owned, Has, Holding, Packets, PacketTypes
  <2> QED
    BY <2>1
<1> QED
  BY <1>1, <1>2 DEF Packets, PacketOK

----------------------------------------------------------------------------
(* The steps of a reader.                                                   *)

IInv == Alloc /\ Owned /\ Packets

\* What the steps below have to show of the allocator.
AllocKept == Alloc' /\ Owned' /\ ListStep /\ \A b \in used : size'[b] = size[b]

LEMMA ReadersAre == \A r \in Reader : r \in Thread /\ r \notin Other /\ Nil \notin Block
  BY BlocksAssumption, StreamsAssumption DEF Other

\* Steps that do not call new or delete.
LEMMA NoCall ==
  ASSUME IInv, NEW r \in Reader, UNCHANGED debugVars, p_buf_' = p_buf_, held' = held
  PROVE  AllocKept
<1>1. r \in Thread
  BY ReadersAre
<1>2. Alloc' /\ ListStep /\ \A b \in used : size'[b] = size[b]
  BY <1>1, ClientKeepsList, SizesStay DEF IInv
<1>3. Owned'
  <2>1. \A t \in Thread : Holding(t)' = Holding(t)
    BY DEF Holding
  <2> QED
    BY <2>1, OwnedFrame DEF IInv, debugVars, header
<1> QED
  BY <1>2, <1>3 DEF AllocKept

\* Reset frees the buffer, if there is one.
LEMMA ResetFrees ==
  ASSUME IInv, NEW r \in Reader, Reset(r), held' = held
  PROVE  /\ AllocKept
         /\ p_buf_' = [p_buf_ EXCEPT ![r] = Nil]
         /\ data' = [data EXCEPT ![r] = <<>>]
<1>0. r \in Thread /\ Nil \notin Block
  BY ReadersAre
<1>t. /\ p_buf_ \in [Reader -> Block \cup {Nil}] /\ data \in [Reader -> Seq(Byte)]
      /\ p_buf_[r] = Nil => data[r] = <<>>
  BY DEF IInv, Packets, PacketTypes, PacketOK
<1>1. CASE p_buf_[r] = Nil
  <2>1. UNCHANGED <<p_buf_, data, debugVars>>
    BY <1>1 DEF Reset
  <2>2. AllocKept
    BY <2>1, NoCall
  <2>3. p_buf_' = [p_buf_ EXCEPT ![r] = Nil]
    BY <1>1, <1>t, <2>1
  <2>4. data' = [data EXCEPT ![r] = <<>>]
    BY <1>1, <1>t, <2>1
  <2> QED
    BY <2>2, <2>3, <2>4
<1>2. CASE p_buf_[r] # Nil
  <2>1. /\ Delete(r, p_buf_[r], TRUE)
        /\ p_buf_' = [p_buf_ EXCEPT ![r] = Nil] /\ data' = [data EXCEPT ![r] = <<>>]
    BY <1>2 DEF Reset
  <2>2. /\ p_buf_[r] \in Holding(r) /\ Holding(r)' = Holding(r) \ {p_buf_[r]}
        /\ \A u \in Thread : u # r => Holding(u)' = Holding(u)
    BY <1>t, <1>2, <2>1 DEF Holding
  <2>3. Owned' /\ p_buf_[r] \in used /\ \A u \in Thread : dptr[u] # p_buf_[r]
    BY <1>0, <2>1, <2>2, OwnedDelete DEF IInv
  <2>4. Alloc' /\ ListStep
    BY <1>0, <2>1, <2>3, ClientKeepsList DEF IInv
  <2>5. \A b \in used : size'[b] = size[b]
    BY <1>0, <2>1, SizesStay DEF IInv
  <2> QED
    BY <2>1, <2>3, <2>4, <2>5 DEF AllocKept
<1> QED
  BY <1>1, <1>2

\* A step that has the packet dropped keeps the invariant.
LEMMA DropKeeps ==
  ASSUME IInv, NEW r \in Reader, Reset(r), UNCHANGED <<stream, frames, held>>,
         header_buf_' \in [Reader -> Seq(Byte)], Len(header_buf_'[r]) =< DataPos,
         got' \in [Reader -> Nat], rx_len' \in [Reader -> Nat],
         got'[r] + rx_len'[r] = got[r] + rx_len[r], got'[r] >= got[r],
         \A q \in Reader : q # r => header_buf_'[q] = header_buf_[q] /\ got'[q] = got[q]
                                    /\ rx_len'[q] = rx_len[q]
  PROVE  IInv' /\ ListStep
<1>1. AllocKept /\ p_buf_' = [p_buf_ EXCEPT ![r] = Nil] /\ data' = [data EXCEPT ![r] = <<>>]
  BY ResetFrees
<1>2. /\ pos_' = [pos_ EXCEPT ![r] = 0] /\ len_' = [len_ EXCEPT ![r] = 0]
      /\ remain_len_' = [remain_len_ EXCEPT ![r] = 0]
  BY DEF Reset
<1>3. PacketTypes
  BY DEF IInv, Packets
<1>4. PacketTypes'
  <2>1. /\ pos_' \in [Reader -> Nat] /\ len_' \in [Reader -> Nat]
        /\ remain_len_' \in [Reader -> Nat]
    BY <1>2, <1>3 DEF PacketTypes
  <2>2. p_buf_' \in [Reader -> Block \cup {Nil}] /\ data' \in [Reader -> Seq(Byte)]
    BY <1>1, <1>3 DEF PacketTypes
  <2> QED
    BY <1>3, <2>1, <2>2 DEF PacketTypes
<1>5. /\ pos_'[r] = 0 /\ len_'[r] = 0 /\ remain_len_'[r] = 0 /\ p_buf_'[r] = Nil
      /\ data'[r] = <<>>
  BY <1>1, <1>2, <1>3 DEF PacketTypes
<1>6. PacketOK(r)'
  <2>1. /\ got[r] \in Nat /\ rx_len[r] \in Nat /\ got'[r] \in Nat /\ rx_len'[r] \in Nat
        /\ frames[r] \in Seq(Int) /\ stream[r] \in Seq(Byte) /\ header_buf_'[r] \in Seq(Byte)
    BY <1>3, StreamsAssumption DEF PacketTypes, Byte
  <2>2. got[r] + rx_len[r] =< Len(stream[r]) /\ Len(frames[r]) =< got[r]
    BY DEF IInv, Packets, PacketOK
  <2>3. Len(stream[r]) \in Nat /\ Len(frames[r]) \in Nat /\ Len(header_buf_'[r]) \in Nat
    BY <2>1
  <2>4. got'[r] + rx_len'[r] =< Len(stream'[r]) /\ Len(frames'[r]) =< got'[r]
    BY <2>1, <2>2, <2>3
  <2>5. 0 =< Len(header_buf_'[r]) /\ 0 < DataPos
    BY <2>3 DEF DataPos
  <2> QED
    BY <1>5, <2>4, <2>5 DEF PacketOK
<1>7. \A q \in Reader : q # r => PacketOf(q)' = PacketOf(q) /\ rx_len'[q] = rx_len[q]
                                 /\ frames'[q] = frames[q]
  BY <1>1, <1>2, <1>3 DEF PacketOf, PacketTypes
<1>8. Packets'
  BY <1>1, <1>4, <1>6, <1>7, PacketsOf DEF IInv, AllocKept
<1> QED
  BY <1>1, <1>8 DEF IInv, AllocKept

\* What Consume does.
LEMMA ConsumeIs ==
  ASSUME Packets, NEW r \in Reader, NEW n \in Nat, Consume(r, n)
  PROVE  /\ got' \in [Reader -> Nat] /\ rx_len' \in [Reader -> Nat]
         /\ got'[r] = got[r] + Taken(r, n) /\ rx_len'[r] = rx_len[r] - Taken(r, n)
         /\ got'[r] + rx_len'[r] = got[r] + rx_len[r] /\ got'[r] >= got[r]
         /\ \A q \in Reader : q # r => got'[q] = got[q] /\ rx_len'[q] = rx_len[q]
<1>1. got \in [Reader -> Nat] /\ rx_len \in [Reader -> Nat]
  BY DEF Packets, PacketTypes
<1>2. Taken(r, n) \in Nat /\ Taken(r, n) =< rx_len[r]
  BY CopiedIs
<1>3. /\ got' = [got EXCEPT ![r] = got[r] + Taken(r, n)]
      /\ rx_len' = [rx_len EXCEPT ![r] = rx_len[r] - Taken(r, n)]
  BY DEF Consume
<1> DEFINE k == Taken(r, n)
<1> HIDE DEF k
<1>4. k \in Nat /\ k =< rx_len[r]
  BY <1>2 DEF k
<1>5. got' = [got EXCEPT ![r] = got[r] + k] /\ rx_len' = [rx_len EXCEPT ![r] = rx_len[r] - k]
  BY <1>3 DEF k
<1>6. got[r] + k \in Nat /\ rx_len[r] - k \in Nat
  BY <1>1, <1>4
<1>7. /\ got' \in [Reader -> Nat] /\ rx_len' \in [Reader -> Nat]
      /\ got'[r] = got[r] + k /\ rx_len'[r] = rx_len[r] - k
      /\ \A q \in Reader : q # r => got'[q] = got[q] /\ rx_len'[q] = rx_len[q]
  BY <1>1, <1>5, <1>6
<1>8. got'[r] + rx_len'[r] = got[r] + rx_len[r] /\ got'[r] >= got[r]
  BY <1>1, <1>4, <1>7
<1> QED
  BY <1>7, <1>8 DEF k

LEMMA ReadHeaderKeeps ==
  ASSUME IInv, NEW r \in Reader, ReadHeader(r)
  PROVE  IInv' /\ ListStep
<1> DEFINE n == HeaderSize - pos_[r]
           h == HeaderWith(r, n)
<1>0. /\ header_buf_' = [header_buf_ EXCEPT ![r] = h] /\ Consume(r, n)
      /\ pos_[r] < HeaderSize /\ UNCHANGED <<stream, frames, held>>
  BY DEF ReadHeader
<1>1. PacketTypes /\ PacketOK(r) /\ pos_[r] \in Nat
  BY DEF IInv, Packets, PacketTypes
<1>2. p_buf_[r] = Nil
  BY <1>0, <1>1 DEF PacketOK, HeaderSize, DataPos
<1>3. n \in Nat /\ pos_[r] + n = HeaderSize
  BY <1>0, <1>1 DEF HeaderSize
<1> HIDE DEF n
<1>4. /\ Taken(r, n) \in Nat /\ Taken(r, n) =< n
      /\ h \in Seq(Byte) /\ Len(h) = pos_[r] + Taken(r, n)
  BY <1>2, <1>3, HeaderIs, CopiedIs DEF IInv
<1>5. /\ got' \in [Reader -> Nat] /\ rx_len' \in [Reader -> Nat]
      /\ got'[r] + rx_len'[r] = got[r] + rx_len[r] /\ got'[r] >= got[r]
      /\ \A q \in Reader : q # r => got'[q] = got[q] /\ rx_len'[q] = rx_len[q]
  BY <1>0, <1>3, ConsumeIs DEF IInv
<1> HIDE DEF h
<1>6. /\ header_buf_' \in [Reader -> Seq(Byte)] /\ header_buf_'[r] = h
      /\ \A q \in Reader : q # r => header_buf_'[q] = header_buf_[q]
  BY <1>0, <1>1, <1>4 DEF PacketTypes
<1>7. Len(h) =< HeaderSize /\ Len(h) =< DataPos
  BY <1>1, <1>3, <1>4 DEF HeaderSize, DataPos
<1>8. CASE Reset(r)
  BY <1>0, <1>5, <1>6, <1>7, <1>8, DropKeeps
<1>9. CASE Advance(r, n) /\ UNCHANGED <<len_, remain_len_, p_buf_, data, debugVars>>
  <2>1. AllocKept
    BY <1>0, <1>9, NoCall
  <2>2. pos_' = [pos_ EXCEPT ![r] = pos_[r] + Taken(r, n)] /\ pos_[r] + Taken(r, n) \in Nat
    BY <1>1, <1>4, <1>9 DEF Advance
  <2>3. PacketTypes'
    BY <1>0, <1>1, <1>5, <1>6, <1>9, <2>2 DEF PacketTypes
  <2>4. pos_'[r] = Len(h) /\ Len(h) \in Nat
    BY <1>1, <1>4, <2>2 DEF PacketTypes
  <2>5. PacketOK(r)'
    <3>1. got'[r] + rx_len'[r] =< Len(stream'[r]) /\ Len(frames'[r]) =< got'[r]
      <4>1. /\ got[r] \in Nat /\ got'[r] \in Nat /\ Len(frames[r]) \in Nat
            /\ got[r] + rx_len[r] =< Len(stream[r]) /\ Len(frames[r]) =< got[r]
        BY <1>1, <1>5 DEF PacketTypes, PacketOK
      <4> QED
        BY <1>0, <1>5, <4>1
    <3>2. pos_'[r] < DataPos /\ pos_'[r] =< Len(header_buf_'[r]) /\ Len(header_buf_'[r]) =< DataPos
      BY <1>6, <1>7, <2>4 DEF HeaderSize, DataPos
    <3> QED
      BY <1>1, <1>2, <1>9, <3>1, <3>2 DEF PacketOK
  <2>6. \A q \in Reader : q # r => PacketOf(q)' = PacketOf(q) /\ rx_len'[q] = rx_len[q]
                                   /\ frames'[q] = frames[q]
    BY <1>0, <1>1, <1>5, <1>6, <1>9, <2>2 DEF PacketOf, PacketTypes
  <2>7. Packets'
    BY <1>0, <2>1, <2>3, <2>5, <2>6, PacketsOf DEF IInv, AllocKept
  <2> QED
    BY <2>1, <2>7 DEF IInv, AllocKept
<1> QED
  BY <1>8, <1>9 DEF ReadHeader, n

\* The same for the length, where new may be called.
LEMMA ReadLengthKeeps ==
  ASSUME IInv, NEW r \in Reader, ReadLength(r)
  PROVE  IInv' /\ ListStep
<1> DEFINE n == DataPos - pos_[r]
           h == HeaderWith(r, n)
           msg_len == LengthOf(SubSeq(h, 5, 8))
<1>0. /\ header_buf_' = [header_buf_ EXCEPT ![r] = h] /\ Consume(r, n)
      /\ pos_[r] < DataPos /\ UNCHANGED <<stream, frames, held>> /\ ~InCall(r)
  BY DEF ReadLength, Looping
<1>1. PacketTypes /\ PacketOK(r) /\ pos_[r] \in Nat
  BY DEF IInv, Packets, PacketTypes
<1>2. p_buf_[r] = Nil
  BY <1>0, <1>1 DEF PacketOK, DataPos
<1>3. n \in Nat /\ pos_[r] + n = DataPos
  BY <1>0, <1>1 DEF DataPos
<1>s. \/ /\ Len(h) < DataPos /\ Advance(r, n)
         /\ UNCHANGED <<len_, remain_len_, p_buf_, data, debugVars>>
      \/ Reset(r)
      \/ /\ Len(h) = DataPos /\ LengthAllowed(msg_len)
         /\ \E b \in Block : New(r, b, msg_len, TRUE) /\ p_buf_' = [p_buf_ EXCEPT ![r] = b]
         /\ len_' = [len_ EXCEPT ![r] = msg_len]
         /\ remain_len_' = [remain_len_ EXCEPT ![r] = msg_len - DataPos]
         /\ data' = [data EXCEPT ![r] = h]
         /\ Advance(r, n)
  BY DEF ReadLength
<1> HIDE DEF n
<1>4. /\ Taken(r, n) \in Nat /\ Taken(r, n) =< n
      /\ h \in Seq(Byte) /\ Len(h) = pos_[r] + Taken(r, n)
  BY <1>2, <1>3, HeaderIs, CopiedIs DEF IInv
<1>5. /\ got' \in [Reader -> Nat] /\ rx_len' \in [Reader -> Nat]
      /\ got'[r] + rx_len'[r] = got[r] + rx_len[r] /\ got'[r] >= got[r]
      /\ \A q \in Reader : q # r => got'[q] = got[q] /\ rx_len'[q] = rx_len[q]
  BY <1>0, <1>3, ConsumeIs DEF IInv
<1>m. Len(h) = DataPos => msg_len \in Nat
  BY <1>4, LengthIsNat
<1> HIDE DEF h, msg_len
<1>6. /\ header_buf_' \in [Reader -> Seq(Byte)] /\ header_buf_'[r] = h
      /\ \A q \in Reader : q # r => header_buf_'[q] = header_buf_[q]
  BY <1>0, <1>1, <1>4 DEF PacketTypes
<1>7. Len(h) =< DataPos /\ Len(h) \in Nat
  BY <1>1, <1>3, <1>4 DEF DataPos
<1>a. got'[r] + rx_len'[r] =< Len(stream'[r]) /\ Len(frames'[r]) =< got'[r]
  <2>1. /\ got[r] \in Nat /\ got'[r] \in Nat /\ Len(frames[r]) \in Nat
        /\ got[r] + rx_len[r] =< Len(stream[r]) /\ Len(frames[r]) =< got[r]
    BY <1>1, <1>5 DEF PacketTypes, PacketOK
  <2> QED
    BY <1>0, <1>5, <2>1
<1>8. CASE Reset(r)
  BY <1>0, <1>5, <1>6, <1>7, <1>8, DropKeeps
<1>9. CASE /\ Len(h) < DataPos /\ Advance(r, n)
           /\ UNCHANGED <<len_, remain_len_, p_buf_, data, debugVars>>
  <2>1. AllocKept
    BY <1>0, <1>9, NoCall
  <2>2. pos_' = [pos_ EXCEPT ![r] = pos_[r] + Taken(r, n)] /\ pos_[r] + Taken(r, n) \in Nat
    BY <1>1, <1>4, <1>9 DEF Advance
  <2>3. PacketTypes'
    BY <1>0, <1>1, <1>5, <1>6, <1>9, <2>2 DEF PacketTypes
  <2>4. pos_'[r] = Len(h)
    BY <1>1, <1>4, <2>2 DEF PacketTypes
  <2>5. PacketOK(r)'
    <3>1. pos_'[r] < DataPos /\ pos_'[r] =< Len(header_buf_'[r]) /\ Len(header_buf_'[r]) =< DataPos
      BY <1>6, <1>7, <1>9, <2>4
    <3> QED
      BY <1>1, <1>2, <1>9, <1>a, <3>1 DEF PacketOK
  <2>6. \A q \in Reader : q # r => PacketOf(q)' = PacketOf(q) /\ rx_len'[q] = rx_len[q]
                                   /\ frames'[q] = frames[q]
    BY <1>0, <1>1, <1>5, <1>6, <1>9, <2>2 DEF PacketOf, PacketTypes
  <2>7. Packets'
    BY <1>0, <2>1, <2>3, <2>5, <2>6, PacketsOf DEF IInv, AllocKept
  <2> QED
    BY <2>1, <2>7 DEF IInv, AllocKept
<1>10. ASSUME Len(h) = DataPos, LengthAllowed(msg_len),
              NEW b \in Block, New(r, b, msg_len, TRUE), p_buf_' = [p_buf_ EXCEPT ![r] = b],
              len_' = [len_ EXCEPT ![r] = msg_len],
              remain_len_' = [remain_len_ EXCEPT ![r] = msg_len - DataPos],
              data' = [data EXCEPT ![r] = h], Advance(r, n)
       PROVE  IInv' /\ ListStep
  <2>0. /\ msg_len \in Nat /\ msg_len - DataPos \in Nat /\ msg_len < MaxOfMsgSize
        /\ DataPos + (msg_len - DataPos) = msg_len
    BY <1>m, <1>10 DEF LengthAllowed, MinLength, DataPos
  <2>1. r \in Thread /\ Nil \notin Block
    BY ReadersAre
  <2>2. AllocKept
    <3>1. /\ Holding(r)' = Holding(r) \cup {b}
          /\ \A u \in Thread : u # r => Holding(u)' = Holding(u)
      BY <1>0, <1>1, <1>2, <1>10, <2>1 DEF Holding, PacketTypes
    <3>2. Owned'
      BY <1>10, <2>1, <3>1, OwnedNew DEF IInv
    <3>3. Alloc' /\ ListStep
      BY <1>10, <2>0, <2>1, ClientKeepsList DEF IInv
    <3>4. \A c \in used : size'[c] = size[c]
      BY <1>10, <2>1, SizesStay DEF IInv
    <3> QED
      BY <3>2, <3>3, <3>4 DEF AllocKept
  <2>3. size'[b] = msg_len
    BY <1>10 DEF New, IInv, Alloc, DebugTypeOK
  <2>4. pos_' = [pos_ EXCEPT ![r] = DataPos] /\ DataPos \in Nat
    BY <1>4, <1>10 DEF Advance, DataPos
  <2>5. PacketTypes'
    BY <1>0, <1>1, <1>4, <1>5, <1>6, <1>10, <2>0, <2>4 DEF PacketTypes
  <2>6. /\ pos_'[r] = DataPos /\ len_'[r] = msg_len /\ remain_len_'[r] = msg_len - DataPos
        /\ p_buf_'[r] = b /\ data'[r] = h
    BY <1>1, <1>10, <2>4 DEF PacketTypes
  <2>7. PacketOK(r)'
    <3>1. b # Nil /\ DataPos >= DataPos
      BY <2>1 DEF DataPos
    <3>2. LengthAllowed(len_[r])'
      BY <1>10, <2>6 DEF LengthAllowed
    <3> QED
      BY <1>6, <1>7, <1>10, <1>a, <2>0, <2>3, <2>6, <3>1, <3>2 DEF PacketOK
  <2>8. \A q \in Reader : q # r => PacketOf(q)' = PacketOf(q) /\ rx_len'[q] = rx_len[q]
                                   /\ frames'[q] = frames[q]
    BY <1>0, <1>1, <1>5, <1>6, <1>10, <2>4 DEF PacketOf, PacketTypes
  <2>9. Packets'
    BY <1>0, <2>2, <2>5, <2>7, <2>8, PacketsOf DEF IInv, AllocKept
  <2> QED
    BY <2>2, <2>9 DEF IInv, AllocKept
<1> QED
  BY <1>8, <1>9, <1>10, <1>s

\* A reader with data to read has a buffer for it.
LEMMA HasBuffer ==
  ASSUME IInv, NEW r \in Reader, pos_[r] >= DataPos
  PROVE  p_buf_[r] # Nil
<1>1. pos_[r] \in Nat
  BY DEF IInv, Packets, PacketTypes
<1> QED
  BY <1>1 DEF IInv, Packets, PacketOK, DataPos

LEMMA ReadDataPartKeeps ==
  ASSUME IInv, NEW r \in Reader, ReadDataPart(r)
  PROVE  IInv' /\ ListStep
<1> DEFINE n == remain_len_[r]
           k == Taken(r, n)
           d == DataWith(r)
<1>0. /\ data' = [data EXCEPT ![r] = d] /\ Consume(r, n) /\ Advance(r, n)
      /\ remain_len_' = [remain_len_ EXCEPT ![r] = n - rx_len[r]]
      /\ pos_[r] >= DataPos /\ n > rx_len[r]
      /\ UNCHANGED <<len_, header_buf_, p_buf_, debugVars, stream, frames, held>>
  BY DEF ReadDataPart
<1>1. PacketTypes /\ PacketOK(r)
  BY DEF IInv, Packets
<1>2. p_buf_[r] # Nil
  BY <1>0, HasBuffer
<1>3. n \in Nat /\ pos_[r] \in Nat /\ rx_len[r] \in Nat
  BY <1>1 DEF PacketTypes
<1>4. k = rx_len[r]
  BY <1>0, <1>3 DEF Taken, LeastOf
<1>5. d \in Seq(Byte) /\ Len(d) = pos_[r] + k
  BY <1>2, DataIs DEF IInv
<1>6. /\ got' \in [Reader -> Nat] /\ rx_len' \in [Reader -> Nat]
      /\ got'[r] + rx_len'[r] = got[r] + rx_len[r] /\ got'[r] >= got[r]
      /\ \A q \in Reader : q # r => got'[q] = got[q] /\ rx_len'[q] = rx_len[q]
  BY <1>0, <1>3, ConsumeIs DEF IInv
<1>7. pos_' = [pos_ EXCEPT ![r] = pos_[r] + k]
  BY <1>0 DEF Advance
<1> HIDE DEF n, k, d
<1>8. /\ n - rx_len[r] \in Nat /\ pos_[r] + k \in Nat
      /\ (pos_[r] + k) + (n - rx_len[r]) = pos_[r] + n /\ pos_[r] + k >= DataPos
  BY <1>0, <1>3, <1>4 DEF DataPos
<1>9. PacketTypes'
  BY <1>0, <1>1, <1>5, <1>6, <1>7, <1>8 DEF PacketTypes
<1>10. pos_'[r] = pos_[r] + k /\ remain_len_'[r] = n - rx_len[r] /\ data'[r] = d
  BY <1>0, <1>1, <1>7 DEF PacketTypes
<1>11. AllocKept
  BY <1>0, NoCall
<1>12. PacketOK(r)'
  <2>1. got'[r] + rx_len'[r] =< Len(stream'[r]) /\ Len(frames'[r]) =< got'[r]
    <3>1. /\ got[r] \in Nat /\ got'[r] \in Nat /\ Len(frames[r]) \in Nat
          /\ got[r] + rx_len[r] =< Len(stream[r]) /\ Len(frames[r]) =< got[r]
      BY <1>1, <1>6 DEF PacketTypes, PacketOK
    <3> QED
      BY <1>0, <1>6, <3>1
  <2>2. /\ pos_[r] + n = size[p_buf_[r]] /\ size[p_buf_[r]] < MaxOfMsgSize
        /\ Len(header_buf_[r]) =< DataPos /\ (len_[r] = 0 \/ LengthAllowed(len_[r]))
    BY <1>1, <1>2 DEF PacketOK, n
  <2>3. size' = size /\ p_buf_' = p_buf_
    BY <1>0 DEF debugVars, header
  <2> QED
    BY <1>0, <1>2, <1>5, <1>8, <1>10, <2>1, <2>2, <2>3 DEF PacketOK
<1>13. \A q \in Reader : q # r => PacketOf(q)' = PacketOf(q) /\ rx_len'[q] = rx_len[q]
                                  /\ frames'[q] = frames[q]
  BY <1>0, <1>1, <1>6, <1>7 DEF PacketOf, PacketTypes
<1>14. Packets'
  BY <1>0, <1>9, <1>11, <1>12, <1>13, PacketsOf DEF IInv, AllocKept
<1> QED
  BY <1>11, <1>14 DEF IInv, AllocKept

LEMMA ReturnPacketKeeps ==
  ASSUME IInv, NEW r \in Reader, ReturnPacket(r)
  PROVE  IInv' /\ ListStep
<1> DEFINE n == remain_len_[r]
           d == DataWith(r)
           at == got[r] - pos_[r]
<1>0. /\ data' = [data EXCEPT ![r] = d] /\ Advance(r, n)
      /\ got' = [got EXCEPT ![r] = got[r] + n] /\ rx_len' = [rx_len EXCEPT ![r] = 0]
      /\ remain_len_' = [remain_len_ EXCEPT ![r] = 0]
      /\ frames' = [frames EXCEPT ![r] = Append(frames[r], at)]
      /\ pos_[r] >= DataPos /\ n \in 1..rx_len[r]
      /\ UNCHANGED <<len_, header_buf_, p_buf_, debugVars, stream, held>>
  BY DEF ReturnPacket
<1>1. PacketTypes /\ PacketOK(r)
  BY DEF IInv, Packets
<1>2. p_buf_[r] # Nil
  BY <1>0, HasBuffer
<1>3. n \in Nat /\ pos_[r] \in Nat /\ rx_len[r] \in Nat /\ got[r] \in Nat /\ frames[r] \in Seq(Int)
  BY <1>1 DEF PacketTypes
<1>4. Taken(r, n) = n
  BY <1>0, <1>3 DEF Taken, LeastOf
<1>5. d \in Seq(Byte) /\ Len(d) = pos_[r] + n
  BY <1>2, <1>4, DataIs DEF IInv
<1>6. pos_' = [pos_ EXCEPT ![r] = pos_[r] + n]
  BY <1>0, <1>4 DEF Advance
<1>7. at \in Int
  BY <1>3
<1> HIDE DEF n, d, at
<1>8. /\ pos_[r] + n \in Nat /\ got[r] + n \in Nat /\ pos_[r] + n >= DataPos
      /\ Append(frames[r], at) \in Seq(Int) /\ Len(Append(frames[r], at)) = Len(frames[r]) + 1
  BY <1>0, <1>3, <1>7 DEF DataPos
<1>9. PacketTypes'
  BY <1>0, <1>1, <1>5, <1>6, <1>8 DEF PacketTypes
<1>10. /\ pos_'[r] = pos_[r] + n /\ remain_len_'[r] = 0 /\ data'[r] = d /\ got'[r] = got[r] + n
       /\ rx_len'[r] = 0 /\ frames'[r] = Append(frames[r], at)
  BY <1>0, <1>1, <1>6 DEF PacketTypes
<1>11. AllocKept
  BY <1>0, NoCall
<1>12. PacketOK(r)'
  <2>1. got'[r] + rx_len'[r] =< Len(stream'[r]) /\ Len(frames'[r]) =< got'[r]
    <3>1. /\ Len(frames[r]) \in Nat /\ stream[r] \in Seq(Byte)
          /\ got[r] + rx_len[r] =< Len(stream[r]) /\ Len(frames[r]) =< got[r]
      BY <1>1, <1>3, StreamsAssumption DEF PacketTypes, PacketOK, Byte
    <3> QED
      BY <1>0, <1>3, <1>8, <1>10, <3>1
  <2>2. /\ pos_[r] + n = size[p_buf_[r]] /\ size[p_buf_[r]] < MaxOfMsgSize
        /\ Len(header_buf_[r]) =< DataPos /\ (len_[r] = 0 \/ LengthAllowed(len_[r]))
    BY <1>1, <1>2 DEF PacketOK, n
  <2>3. size' = size /\ p_buf_' = p_buf_
    BY <1>0 DEF debugVars, header
  <2>4. pos_'[r] + remain_len_'[r] = pos_[r] + n
    BY <1>8, <1>10
  <2> QED
    BY <1>0, <1>2, <1>5, <1>8, <1>10, <2>1, <2>2, <2>3, <2>4 DEF PacketOK
<1>13. \A q \in Reader : q # r => PacketOf(q)' = PacketOf(q) /\ rx_len'[q] = rx_len[q]
                                  /\ frames'[q] = frames[q]
  BY <1>0, <1>1, <1>6 DEF PacketOf, PacketTypes
<1>14. Packets'
  BY <1>0, <1>9, <1>11, <1>12, <1>13, PacketsOf DEF IInv, AllocKept
<1> QED
  BY <1>11, <1>14 DEF IInv, AllocKept

\* The packet is dropped: damaged, or returned by an earlier call.
LEMMA DropPacketKeeps ==
  ASSUME IInv, NEW r \in Reader, DropPacket(r) \/ ReadNext(r) \/ CallerResets(r)
  PROVE  IInv' /\ ListStep
<1>1. PacketTypes /\ PacketOK(r)
  BY DEF IInv, Packets
<1>2. header_buf_ \in [Reader -> Seq(Byte)] /\ Len(header_buf_[r]) =< DataPos
  BY <1>1 DEF PacketTypes, PacketOK
<1>3. CASE DropPacket(r)
  <2>1. /\ Consume(r, remain_len_[r]) /\ remain_len_[r] \in Nat /\ Reset(r)
        /\ UNCHANGED <<header_buf_, stream, frames, held>>
    BY <1>1, <1>3 DEF DropPacket, PacketTypes
  <2>2. /\ got' \in [Reader -> Nat] /\ rx_len' \in [Reader -> Nat]
        /\ got'[r] + rx_len'[r] = got[r] + rx_len[r] /\ got'[r] >= got[r]
        /\ \A q \in Reader : q # r => got'[q] = got[q] /\ rx_len'[q] = rx_len[q]
    BY <2>1, ConsumeIs DEF IInv
  <2> QED
    BY <1>2, <2>1, <2>2, DropKeeps
<1>4. CASE ReadNext(r) \/ CallerResets(r)
  <2>1. Reset(r) /\ UNCHANGED <<header_buf_, stream, got, rx_len, frames, held>>
    BY <1>4 DEF ReadNext, CallerResets
  <2>2. /\ got' \in [Reader -> Nat] /\ rx_len' \in [Reader -> Nat]
        /\ got'[r] + rx_len'[r] = got[r] + rx_len[r] /\ got'[r] >= got[r]
    BY <1>1, <2>1 DEF PacketTypes
  <2> QED
    BY <1>2, <2>1, <2>2, DropKeeps
<1> QED
  BY <1>3, <1>4

LEMMA DmPacketReadKeeps ==
  ASSUME IInv, NEW r \in Reader, NEW n \in ReadSize, DmPacketRead(r, n)
  PROVE  IInv' /\ ListStep
<1>1. /\ rx_len' = [rx_len EXCEPT ![r] = LeastOf(n, Unread(r))] /\ Unread(r) > 0 /\ rx_len[r] = 0
      /\ UNCHANGED <<debugVars, stream, got, packet, frames, held>>
  BY DEF DmPacketRead
<1>2. PacketTypes /\ PacketOK(r) /\ n \in Nat
  BY StreamsAssumption DEF IInv, Packets
<1>3. /\ LeastOf(n, Unread(r)) \in Nat /\ got[r] + LeastOf(n, Unread(r)) =< Len(stream[r])
  <2>1. got[r] \in Nat /\ stream[r] \in Seq(Byte) /\ Len(stream[r]) \in Nat
    BY <1>2, StreamsAssumption DEF PacketTypes, Byte
  <2> QED
    BY <1>1, <1>2, <2>1 DEF LeastOf, Unread
<1> DEFINE k == LeastOf(n, Unread(r))
<1> HIDE DEF k
<1>4. rx_len' = [rx_len EXCEPT ![r] = k] /\ k \in Nat /\ got[r] + k =< Len(stream[r])
  BY <1>1, <1>3 DEF k
<1>5. PacketTypes'
  BY <1>1, <1>2, <1>4 DEF PacketTypes, packet
<1>6. rx_len'[r] = k
  BY <1>2, <1>4 DEF PacketTypes
<1>7. AllocKept
  BY <1>1, NoCall DEF packet
<1>8. PacketOK(r)'
  BY <1>1, <1>2, <1>4, <1>6 DEF PacketOK, packet, debugVars, header
<1>9. \A q \in Reader : q # r => PacketOf(q)' = PacketOf(q) /\ rx_len'[q] = rx_len[q]
                                 /\ frames'[q] = frames[q]
  BY <1>1, <1>2, <1>4 DEF PacketOf, PacketTypes, packet
<1>10. Packets'
  BY <1>1, <1>5, <1>7, <1>8, <1>9, PacketsOf DEF IInv, AllocKept
<1> QED
  BY <1>7, <1>10 DEF IInv, AllocKept

----------------------------------------------------------------------------
(* The steps of other threads, of the calls, and the leak report.           *)

LEMMA PacketsElse ==
  ASSUME Packets, Owned, UNCHANGED reader, held' \in [Other -> SUBSET Block],
         \A b \in used : size'[b] = size[b]
  PROVE  Packets'
<1>0. UNCHANGED <<stream, got, rx_len, frames, pos_, len_, remain_len_, header_buf_, p_buf_, data>>
  BY DEF reader, packet
<1>1. PacketTypes'
  BY <1>0 DEF Packets, PacketTypes
<1>2. ASSUME NEW r \in Reader PROVE PacketOK(r)'
  <2>1. p_buf_[r] # Nil => size'[p_buf_[r]] = size[p_buf_[r]]
    BY ReadersAre DEF Owned, Has, Holding, Packets, PacketTypes
  <2> QED
    BY <1>0, <2>1 DEF Packets, PacketOK
<1> QED
  BY <1>1, <1>2 DEF Packets

LEMMA OthersAre ==
  ASSUME IInv, NEW t \in Other
  PROVE  t \in Thread /\ t \notin Reader /\ held[t] = Holding(t) /\ held \in [Other -> SUBSET Block]
  BY DEF Other, Holding, IInv, Packets, PacketTypes

LEMMA OtherNewKeeps ==
  ASSUME IInv, NEW t \in Other, NEW b \in Block, NEW n \in OtherSize, OtherNew(t, b, n)
  PROVE  IInv' /\ ListStep
<1>1. t \in Thread /\ t \notin Reader /\ n \in Nat /\ held[t] = Holding(t)
  BY OthersAre, StreamsAssumption
<1>2. /\ New(t, b, n, FALSE) /\ held' = [held EXCEPT ![t] = held[t] \cup {b}] /\ UNCHANGED reader
  BY DEF OtherNew
<1>3. held' \in [Other -> SUBSET Block] /\ held'[t] = held[t] \cup {b}
      /\ \A u \in Other : u # t => held'[u] = held[u]
  BY <1>2, OthersAre
<1>4. Holding(t)' = Holding(t) \cup {b} /\ \A u \in Thread : u # t => Holding(u)' = Holding(u)
  BY <1>1, <1>2, <1>3 DEF Holding, Other, reader, packet
<1>5. Owned'
  BY <1>1, <1>2, <1>4, OwnedNew DEF IInv
<1>6. Alloc' /\ ListStep
  BY <1>1, <1>2, ClientKeepsList DEF IInv
<1>7. Packets'
  BY <1>1, <1>2, <1>3, SizesStay, PacketsElse DEF IInv
<1> QED
  BY <1>5, <1>6, <1>7 DEF IInv

LEMMA OtherDeleteKeeps ==
  ASSUME IInv, NEW t \in Other, NEW b \in Block, OtherDelete(t, b)
  PROVE  IInv' /\ ListStep
<1>1. t \in Thread /\ t \notin Reader /\ held[t] = Holding(t)
  BY OthersAre
<1>2. /\ Delete(t, b, FALSE) /\ b \in held[t] /\ held' = [held EXCEPT ![t] = held[t] \ {b}]
      /\ UNCHANGED reader
  BY DEF OtherDelete
<1>3. held' \in [Other -> SUBSET Block] /\ held'[t] = held[t] \ {b}
      /\ \A u \in Other : u # t => held'[u] = held[u]
  BY <1>2, OthersAre
<1>4. Holding(t)' = Holding(t) \ {b} /\ \A u \in Thread : u # t => Holding(u)' = Holding(u)
  BY <1>1, <1>2, <1>3 DEF Holding, Other, reader, packet
<1>5. Owned' /\ b \in used /\ \A u \in Thread : dptr[u] # b
  BY <1>1, <1>2, <1>4, OwnedDelete DEF IInv
<1>6. Alloc' /\ ListStep
  BY <1>1, <1>2, <1>5, ClientKeepsList DEF IInv
<1>7. Packets'
  BY <1>1, <1>2, <1>3, SizesStay, PacketsElse DEF IInv
<1> QED
  BY <1>5, <1>6, <1>7 DEF IInv

LEMMA AllocatorKeeps ==
  ASSUME IInv, NEW t \in Thread, AllocatorStep(t)
  PROVE  IInv' /\ ListStep
<1>1. CallStep(t) /\ UNCHANGED <<reader, held>>
  BY DEF AllocatorStep
<1>2. \A u \in Thread : Holding(u)' = Holding(u)
  BY <1>1 DEF Holding, reader, packet
<1>3. Owned'
  BY <1>1, <1>2, OwnedCall DEF IInv
<1>4. Alloc' /\ ListStep
  BY <1>1, CallKeepsList DEF IInv
<1>5. Packets'
  BY <1>1, SizesStay, PacketsElse DEF IInv, Packets, PacketTypes
<1> QED
  BY <1>3, <1>4, <1>5 DEF IInv

\* The leak report, and steps that change nothing.
LEMMA ReportKeeps ==
  ASSUME IInv, CheckLeaks \/ UNCHANGED debugVars, UNCHANGED <<reader, held>>
  PROVE  IInv' /\ ListStep
<1>1. UNCHANGED <<used, dpc, dptr, magic, array, aborted, size>>
  BY DEF CheckLeaks, debugVars, header
<1>2. \A u \in Thread : Holding(u)' = Holding(u)
  BY DEF Holding, reader, packet
<1>3. Owned'
  BY <1>1, <1>2, OwnedFrame DEF IInv
<1>4. Packets'
  BY <1>1, PacketsElse DEF IInv, Packets, PacketTypes
<1>5. Alloc' /\ ListStep
  <2>1. CASE CheckLeaks
    BY <2>1, ReportKeepsList DEF IInv
  <2>2. CASE UNCHANGED debugVars
    BY <2>2, StillKeepsList DEF IInv
  <2> QED
    BY <2>1, <2>2
<1> QED
  BY <1>3, <1>4, <1>5 DEF IInv

----------------------------------------------------------------------------
(* The invariant.                                                           *)

LEMMA IInvInit == Init => IInv /\ Blocks!Init
<1> SUFFICES ASSUME Init PROVE IInv /\ Blocks!Init
  OBVIOUS
<1>1. Alloc /\ Blocks!Init
  BY AllocInit DEF Init
<1>2. /\ dpc = [t \in Thread |-> "out"] /\ dptr = [t \in Thread |-> Nil]
      /\ used = {} /\ aborted = FALSE
  BY DEF Init, DebugInit
<1>3. /\ stream \in [Reader -> Stream] /\ got = [r \in Reader |-> 0]
      /\ rx_len = [r \in Reader |-> 0] /\ pos_ = [r \in Reader |-> 0]
      /\ len_ = [r \in Reader |-> 0] /\ remain_len_ = [r \in Reader |-> 0]
      /\ header_buf_ = [r \in Reader |-> <<>>] /\ p_buf_ = [r \in Reader |-> Nil]
      /\ data = [r \in Reader |-> <<>>] /\ frames = [r \in Reader |-> <<>>]
      /\ held = [t \in Other |-> {}]
  BY DEF Init
<1>4. \A t \in Thread : Holding(t) = {} /\ Has(t) = {}
  BY <1>2, <1>3 DEF Holding, Has, Other
<1>5. Owned
  BY <1>2, <1>4 DEF Owned, InNew, InDelete
<1>6. PacketTypes
  BY <1>3 DEF PacketTypes
<1>7. ASSUME NEW r \in Reader PROVE PacketOK(r)
  <2>1. stream[r] \in Seq(Byte) /\ Len(stream[r]) \in Nat
    BY <1>3, StreamsAssumption DEF Byte
  <2>2. /\ got[r] = 0 /\ rx_len[r] = 0 /\ pos_[r] = 0 /\ len_[r] = 0 /\ remain_len_[r] = 0
        /\ header_buf_[r] = <<>> /\ p_buf_[r] = Nil /\ data[r] = <<>> /\ frames[r] = <<>>
    BY <1>3
  <2>3. Len(<<>>) = 0 /\ 0 =< DataPos /\ 0 < DataPos /\ 0 + 0 =< Len(stream[r])
    BY <2>1 DEF DataPos
  <2> QED
    BY <2>2, <2>3 DEF PacketOK
<1> QED
  BY <1>1, <1>5, <1>6, <1>7 DEF IInv, Packets

LEMMA IInvStep == IInv /\ [Next]_vars => IInv' /\ ListStep
<1> SUFFICES ASSUME IInv, [Next]_vars PROVE IInv' /\ ListStep
  OBVIOUS
<1>1. ASSUME NEW r \in Reader, ReaderStep(r) \/ CallerResets(r) PROVE IInv' /\ ListStep
  BY <1>1, ReadHeaderKeeps, ReadLengthKeeps, ReadDataPartKeeps, ReturnPacketKeeps,
     DropPacketKeeps DEF ReaderStep
<1>2. ASSUME NEW r \in Reader, NEW n \in ReadSize, DmPacketRead(r, n) PROVE IInv' /\ ListStep
  BY <1>2, DmPacketReadKeeps
<1>3. ASSUME NEW t \in Other, NEW b \in Block, NEW n \in OtherSize, OtherNew(t, b, n)
      PROVE  IInv' /\ ListStep
  BY <1>3, OtherNewKeeps
<1>4. ASSUME NEW t \in Other, NEW b \in Block, OtherDelete(t, b) PROVE IInv' /\ ListStep
  BY <1>4, OtherDeleteKeeps
<1>5. ASSUME NEW t \in Thread, AllocatorStep(t) PROVE IInv' /\ ListStep
  BY <1>5, AllocatorKeeps
<1>6. CASE AtExit
  BY <1>6, ReportKeeps DEF AtExit
<1>7. CASE UNCHANGED vars
  <2>1. UNCHANGED <<reader, held, debugVars>>
    BY <1>7 DEF vars, reader, packet
  <2> QED
    BY <2>1, ReportKeeps
<1> QED
  BY <1>1, <1>2, <1>3, <1>4, <1>5, <1>6, <1>7 DEF Next

LEMMA AlwaysIInv == Spec => []IInv
<1>1. Init => IInv
  BY IInvInit
<1>2. IInv /\ [Next]_vars => IInv'
  BY IInvStep
<1> QED
  BY <1>1, <1>2, PTL DEF Spec

----------------------------------------------------------------------------
(* The theorems.                                                            *)

\* Every variable keeps its type, and a packet is never longer than the
\* buffer DmPacketRead allocated for the length it announced.
THEOREM TypeCorrect == Spec => []TypeOK
<1>1. IInv => TypeOK
  <2> SUFFICES ASSUME IInv PROVE TypeOK
    OBVIOUS
  <2>1. DebugTypeOK /\ PacketTypes /\ (\A r \in Reader : PacketOK(r))
    BY DEF IInv, Alloc, Packets
  <2>2. ASSUME NEW r \in Reader
        PROVE  /\ got[r] + rx_len[r] \in 0..Len(stream[r])
               /\ pos_[r] + remain_len_[r] \in 0..MaxOfMsgSize
               /\ len_[r] \in {0} \cup MinLength..MaxOfMsgSize - 1
               /\ p_buf_[r] # Nil => pos_[r] + remain_len_[r] = size[p_buf_[r]]
               /\ Len(header_buf_[r]) =< DataPos
               /\ p_buf_[r] \in Block \cup {Nil}
               /\ Len(data[r]) =< MaxOfMsgSize
               /\ Len(frames[r]) =< Len(stream[r])
    <3>1. /\ stream[r] \in Seq(Byte) /\ Len(stream[r]) \in Nat /\ Len(frames[r]) \in Nat
          /\ got[r] \in Nat /\ rx_len[r] \in Nat /\ pos_[r] \in Nat /\ len_[r] \in Nat
          /\ remain_len_[r] \in Nat /\ p_buf_[r] \in Block \cup {Nil}
      BY <2>1, StreamsAssumption DEF PacketTypes, Byte
    <3>2. got[r] + rx_len[r] =< Len(stream[r]) /\ Len(frames[r]) =< got[r]
      BY <2>1 DEF PacketOK
    <3>3. got[r] + rx_len[r] \in 0..Len(stream[r]) /\ Len(frames[r]) =< Len(stream[r])
      BY <3>1, <3>2
    <3>4. len_[r] \in {0} \cup MinLength..MaxOfMsgSize - 1
      BY <2>1, <3>1, StreamsAssumption DEF PacketOK, LengthAllowed, MinLength
    <3>5. Len(header_buf_[r]) =< DataPos
      BY <2>1 DEF PacketOK
    <3>6. CASE p_buf_[r] = Nil
      <4>1. pos_[r] < DataPos /\ remain_len_[r] = 0 /\ Len(data[r]) = 0
        BY <2>1, <3>6 DEF PacketOK
      <4> QED
        BY <3>1, <3>3, <3>4, <3>5, <3>6, <4>1, StreamsAssumption DEF DataPos
    <3>7. CASE p_buf_[r] # Nil
      <4>1. /\ Len(data[r]) = pos_[r] /\ pos_[r] + remain_len_[r] = size[p_buf_[r]]
            /\ size[p_buf_[r]] < MaxOfMsgSize
        BY <2>1, <3>7 DEF PacketOK
      <4>2. pos_[r] + remain_len_[r] \in 0..MaxOfMsgSize /\ Len(data[r]) =< MaxOfMsgSize
        <5>1. MaxOfMsgSize \in Nat /\ pos_[r] + remain_len_[r] < MaxOfMsgSize
          BY <4>1, StreamsAssumption
        <5>2. /\ pos_[r] \in Nat /\ remain_len_[r] \in Nat
          BY <3>1
        <5>3. pos_[r] + remain_len_[r] \in 0..MaxOfMsgSize /\ pos_[r] =< MaxOfMsgSize
          BY <5>1, <5>2
        <5> QED
          BY <4>1, <5>3
      <4> QED
        BY <3>1, <3>3, <3>4, <3>5, <4>1, <4>2
    <3> QED
      BY <3>6, <3>7
  <2> QED
    BY <2>1, <2>2 DEF TypeOK, PacketTypes
<1> QED
  BY <1>1, AlwaysIInv, PTL

\* Each block given out has one owner: no buffer of DmPacketRead leaks, and
\* none is freed twice or by the wrong operator.
THEOREM EachBlockIsOwned == Spec => []BuffersOwned
<1>1. IInv => BuffersOwned
  <2> SUFFICES ASSUME IInv PROVE BuffersOwned
    OBVIOUS
  <2>1. /\ used \subseteq Block /\ dptr \in [Thread -> Block \cup {Nil}]
        /\ p_buf_ \in [Reader -> Block \cup {Nil}] /\ held \in [Other -> SUBSET Block]
        /\ Nil \notin Block /\ Reader \subseteq Thread /\ Other = Thread \ Reader
    BY BlocksAssumption, StreamsAssumption
    DEF IInv, Alloc, DebugTypeOK, Packets, PacketTypes, Other
  <2>2. \A t \in Thread : Has(t) \subseteq Block
    BY <2>1 DEF IInv, Owned, Has
  <2>3. ASSUME NEW b \in Owners, b # Nil PROVE b \in used
    <3>1. \E t \in Thread : b \in Has(t)
      <4>1. CASE \E r \in Reader : b = p_buf_[r]
        BY <2>1, <2>3, <4>1 DEF Has, Holding
      <4>2. CASE \E t \in Other : b \in held[t]
        <5>1. PICK t \in Other : b \in held[t]
          BY <4>2
        <5>2. t \in Thread /\ Holding(t) = held[t]
          BY <2>1, <5>1 DEF Holding
        <5> QED
          BY <5>1, <5>2 DEF Has
      <4>3. CASE \E t \in Thread : b = dptr[t]
        BY <2>3, <4>3 DEF Has
      <4> QED
        BY <4>1, <4>2, <4>3 DEF Owners
    <3> QED
      BY <2>2, <3>1 DEF IInv, Owned
  <2>4. ASSUME NEW b \in used PROVE b \in Owners \ {Nil}
    <3>1. b \in Block /\ b # Nil
      BY <2>1
    <3>2. PICK t \in Thread : b \in Has(t)
      BY <3>1 DEF IInv, Owned
    <3>3. CASE b = dptr[t]
      BY <3>1, <3>3 DEF Owners
    <3>4. CASE b \in Holding(t) /\ t \in Reader
      BY <3>1, <3>4 DEF Owners, Holding
    <3>5. CASE b \in Holding(t) /\ t \notin Reader
      <4>1. t \in Other /\ b \in held[t]
        BY <2>1, <3>5 DEF Holding
      <4> QED
        BY <3>1, <4>1 DEF Owners
    <3> QED
      BY <3>2, <3>3, <3>4, <3>5 DEF Has
  <2>5. \A r \in Reader : p_buf_[r] # Nil <=> pos_[r] >= DataPos
    <3>1. \A r \in Reader : pos_[r] \in Nat
      BY DEF IInv, Packets, PacketTypes
    <3> QED
      BY <3>1 DEF IInv, Packets, PacketOK, DataPos
  <2>6. ASSUME NEW r1 \in Reader, NEW r2 \in Reader, p_buf_[r1] = p_buf_[r2], p_buf_[r1] # Nil
        PROVE  r1 = r2
    BY <2>1, <2>6 DEF IInv, Owned, Has, Holding
  <2>7. ~aborted
    BY DEF IInv, Owned
  <2> QED
    BY <2>3, <2>4, <2>5, <2>6, <2>7 DEF BuffersOwned
<1> QED
  BY <1>1, AlwaysIInv, PTL

\* Whenever new_ptr_lock is free, next and prev of the list agree.
THEOREM LinksStayPaired == Spec => []LinksAgree
<1>1. IInv => LinksAgree
  BY ListAgrees DEF IInv
<1> QED
  BY <1>1, AlwaysIInv, PTL

\* The list check_leaks reads is at every moment the sequence of the blocks
\* allocated and not freed, and what it reports is their number.
THEOREM ListImplemented == Spec => ListIsBlocks
<1>1. Init => Blocks!Init
  BY IInvInit
<1>2. IInv /\ [Next]_vars => [Blocks!Next]_(Blocks!vars)
  BY IInvStep DEF ListStep
<1> QED
  BY <1>1, <1>2, AlwaysIInv, PTL DEF Spec, ListIsBlocks, Blocks!Spec

\* A step of one reader leaves what the others have.
LEMMA OtherReaders ==
  ASSUME PacketTypes, NEW q \in Reader,
         \/ ReaderStep(q) \/ CallerResets(q)
         \/ \E n \in ReadSize : DmPacketRead(q, n),
         NEW r \in Reader, r # q
  PROVE  /\ PacketOf(r)' = PacketOf(r) /\ stream'[r] = stream[r]
         /\ frames'[r] = frames[r]
<1>1. CASE ReaderStep(q) \/ CallerResets(q)
  <2> USE <1>1 DEF PacketOf, PacketTypes, Consume, Advance
  <2>r. ASSUME Reset(q)
        PROVE  /\ pos_'[r] = pos_[r] /\ len_'[r] = len_[r] /\ remain_len_'[r] = remain_len_[r]
               /\ p_buf_'[r] = p_buf_[r] /\ data'[r] = data[r]
    BY <2>r DEF Reset
  <2>1. CASE ReadHeader(q)
    BY <2>r, <2>1 DEF ReadHeader
  <2>2. CASE ReadLength(q)
    BY <2>r, <2>2 DEF ReadLength
  <2>3. CASE ReadDataPart(q)
    BY <2>3 DEF ReadDataPart
  <2>4. CASE ReturnPacket(q)
    BY <2>4 DEF ReturnPacket
  <2>5. CASE DropPacket(q)
    BY <2>r, <2>5 DEF DropPacket
  <2>6. CASE ReadNext(q) \/ CallerResets(q)
    BY <2>r, <2>6 DEF ReadNext, CallerResets
  <2> QED
    BY <2>1, <2>2, <2>3, <2>4, <2>5, <2>6 DEF ReaderStep
<1>2. CASE \E n \in ReadSize : DmPacketRead(q, n)
  BY <1>2 DEF DmPacketRead, PacketOf, packet
<1> QED
  BY <1>1, <1>2

\* Each iteration of the loop of DmPacketRead consumes a byte, or consumes none
\* and leaves a packet of which the next one does: the loop ends.
THEOREM IterationsMove == Spec => IterationsAdvance
<1>1. ASSUME IInv, [Next]_vars, NEW r \in Reader, Looping(r), PacketOf(r)' # PacketOf(r)
      PROVE  Measure(r)' < Measure(r)
  <2>t. /\ PacketTypes /\ PacketOK(r) /\ rx_len[r] \in Nat /\ rx_len[r] > 0 /\ pos_[r] \in Nat
        /\ got[r] \in Nat /\ remain_len_[r] \in Nat /\ Len(stream[r]) \in Nat
        /\ got \in [Reader -> Nat] /\ pos_ \in [Reader -> Nat]
    <3>1. PacketTypes /\ PacketOK(r) /\ rx_len[r] > 0
      BY <1>1 DEF IInv, Packets, Looping
    <3>2. stream[r] \in Seq(Byte)
      BY <3>1, StreamsAssumption DEF PacketTypes, Byte
    <3>3. Len(stream[r]) \in Nat
      BY <3>2
    <3>4. /\ rx_len[r] \in Nat /\ pos_[r] \in Nat /\ got[r] \in Nat /\ remain_len_[r] \in Nat
          /\ got \in [Reader -> Nat] /\ pos_ \in [Reader -> Nat]
      BY <3>1 DEF PacketTypes
    <3> QED
      BY <3>1, <3>3, <3>4
  <2>0. PICK q \in Reader : ReaderStep(q) \/ CallerResets(q) \/ \E n \in ReadSize : DmPacketRead(q, n)
    <3>1. PacketOf(r)' = PacketOf(r) \/ ~UNCHANGED reader
      BY DEF PacketOf, reader, packet
    <3>2. \/ UNCHANGED reader
          \/ \E q \in Reader : \/ ReaderStep(q) \/ CallerResets(q)
                               \/ \E n \in ReadSize : DmPacketRead(q, n)
      BY <1>1 DEF Next, OtherNew, OtherDelete, AllocatorStep, AtExit, vars, reader, packet
    <3> QED
      BY <1>1, <3>1, <3>2
  <2>1. q = r
    <3> SUFFICES ASSUME q # r PROVE FALSE
      OBVIOUS
    <3>1. PacketOf(r)' = PacketOf(r)
      BY <2>0, <2>t, OtherReaders
    <3> QED
      BY <1>1, <3>1
  <2>2. ReaderStep(r)
    BY <1>1, <2>0, <2>1, <2>t DEF CallerResets, DmPacketRead, Looping
  <2>3. ASSUME NEW k \in Nat, k > 0, got' = [got EXCEPT ![r] = got[r] + k], stream' = stream
        PROVE  Unread(r)' = Unread(r) - k /\ Unread(r) \in Int
    BY <2>t, <2>3 DEF Unread
  <2>4. ASSUME NEW k \in Nat, k > 0, got' = [got EXCEPT ![r] = got[r] + k], stream' = stream
        PROVE  Measure(r)' < Measure(r)
    <3>1. Unread(r)' = Unread(r) - k /\ Unread(r) \in Int
      BY <2>3, <2>4
    <3>2. 2 * Unread(r)' + 1 < 2 * Unread(r)
      BY <2>4, <3>1
    <3>3. Unread(r)' \in Int
      BY <2>4, <3>1
    <3> QED
      BY <3>1, <3>2, <3>3 DEF Measure
  <2>5. ASSUME NEW n \in Nat, n > 0, Consume(r, n), stream' = stream
        PROVE  Measure(r)' < Measure(r)
    <3>1. Taken(r, n) \in Nat /\ Taken(r, n) > 0
      BY <1>1, <2>5, <2>t, CopiedIs DEF IInv
    <3>2. got' = [got EXCEPT ![r] = got[r] + Taken(r, n)]
      BY <2>5 DEF Consume
    <3> QED
      BY <2>4, <2>5, <3>1, <3>2
  <2>6. CASE ReadHeader(r)
    <3>1. HeaderSize - pos_[r] \in Nat /\ HeaderSize - pos_[r] > 0
      BY <2>6, <2>t DEF ReadHeader, HeaderSize
    <3> QED
      BY <2>5, <2>6, <3>1 DEF ReadHeader
  <2>7. CASE ReadLength(r)
    <3>1. DataPos - pos_[r] \in Nat /\ DataPos - pos_[r] > 0
      BY <2>7, <2>t DEF ReadLength, DataPos
    <3> QED
      BY <2>5, <2>7, <3>1 DEF ReadLength
  <2>8. CASE ReadDataPart(r)
    BY <2>5, <2>8, <2>t DEF ReadDataPart
  <2>9. CASE ReturnPacket(r)
    <3>1. /\ got' = [got EXCEPT ![r] = got[r] + remain_len_[r]] /\ stream' = stream
          /\ remain_len_[r] > 0
      BY <2>9, <2>t DEF ReturnPacket
    <3> QED
      BY <2>4, <2>t, <3>1
  <2>10. CASE DropPacket(r)
    BY <2>5, <2>10, <2>t DEF DropPacket
  <2>11. CASE ReadNext(r)
    <3>1. /\ pos_[r] >= DataPos /\ pos_' = [pos_ EXCEPT ![r] = 0] /\ UNCHANGED <<stream, got>>
      BY <2>11 DEF ReadNext, Reset
    <3>2. pos_'[r] = 0 /\ ~(pos_'[r] >= DataPos)
      BY <2>t, <3>1 DEF DataPos
    <3>3. Unread(r)' = Unread(r) /\ Unread(r) \in Int
      BY <2>t, <3>1 DEF Unread
    <3> QED
      BY <3>1, <3>2, <3>3 DEF Measure
  <2> QED
    BY <2>2, <2>6, <2>7, <2>8, <2>9, <2>10, <2>11 DEF ReaderStep
<1>2. IInv /\ [Next]_vars => [\A r \in Reader : Iterates(r) => Measure(r)' < Measure(r)]_vars
  BY <1>1 DEF Iterates
<1> QED
  BY <1>2, AlwaysIInv, PTL DEF Spec, IterationsAdvance

----------------------------------------------------------------------------
(* Sums of sizes.                                                           *)

\* The sum TotalTracks speaks of, with the sizes as an argument: a recursion
\* on the set.
Total(sz, S) == MapThenSumSet(LAMBDA b : sz[b], S)

First(s) == CHOOSE x \in s : TRUE

Summed(sz, f, s) == IF s = {} THEN 0 ELSE sz[First(s)] + f[s \ {First(s)}]

Sums(sz, S) == CHOOSE f : f = [s \in SUBSET S |-> Summed(sz, f, s)]

LEMMA TotalIs ==
  ASSUME NEW sz, NEW S
  PROVE  Total(sz, S) = Sums(sz, S)[S]
BY DEF Total, Sums, Summed, First, MapThenSumSet, MapThenFoldSet

\* Subsets of a finite set, and one element less.
LEMMA OneLess ==
  ASSUME NEW S, IsFiniteSet(S), NEW s \in SUBSET S
  PROVE  /\ IsFiniteSet(s) /\ Cardinality(s) \in Nat
         /\ Cardinality(s) = 0 <=> s = {}
         /\ \A x \in s : /\ s \ {x} \in SUBSET S
                         /\ Cardinality(s \ {x}) = Cardinality(s) - 1
<1>1. IsFiniteSet(s)
  BY FS_Subset
<1>2. Cardinality(s) \in Nat /\ (Cardinality(s) = 0 <=> s = {})
  BY <1>1, FS_CardinalityType, FS_EmptySet
<1>3. ASSUME NEW x \in s PROVE Cardinality(s \ {x}) = Cardinality(s) - 1
  BY <1>1, FS_RemoveElement
<1> QED
  BY <1>1, <1>2, <1>3

\* Of the sets with a property one has it without any of those one smaller.
LEMMA SmallestExists ==
  ASSUME NEW S, IsFiniteSet(S), NEW T, T \subseteq SUBSET S, T # {}
  PROVE  \E s \in T : \A x \in s : s \ {x} \notin T
<1> DEFINE N == {Cardinality(s) : s \in T}
<1>1. N \subseteq Nat /\ N # {}
  BY OneLess
<1>2. PICK m \in N : \A k \in N : m =< k
  <2> HIDE DEF N
  <2> QED
    BY <1>1, LeastExists
<1>3. PICK s \in T : m = Cardinality(s)
  OBVIOUS
<1>4. ASSUME NEW x \in s, s \ {x} \in T PROVE FALSE
  <2>1. Cardinality(s) \in Nat /\ Cardinality(s \ {x}) = Cardinality(s) - 1
    BY OneLess
  <2>2. Cardinality(s) =< Cardinality(s \ {x})
    BY <1>2, <1>3, <1>4
  <2> QED
    BY <2>1, <2>2
<1> QED
  BY <1>4

LEMMA FirstIsIn ==
  ASSUME NEW s, s # {}
  PROVE  First(s) \in s
BY DEF First

\* The recursion has a solution.
LEMMA SumsExist ==
  ASSUME NEW sz, NEW S, IsFiniteSet(S)
  PROVE  \A s \in SUBSET S : Sums(sz, S)[s] = Summed(sz, Sums(sz, S), s)
<1> DEFINE Small(m)  == {s \in SUBSET S : Cardinality(s) =< m}
           Solved(m) == \E f : f = [s \in Small(m) |-> Summed(sz, f, s)]
           Unsolved  == {m \in Nat : ~Solved(m)}
<1>1. Unsolved = {}
  <2> SUFFICES ASSUME Unsolved # {} PROVE FALSE
    OBVIOUS
  <2>1. PICK m \in Unsolved : \A x \in Unsolved : m =< x
    <3>1. Unsolved \subseteq Nat
      OBVIOUS
    <3> HIDE DEF Unsolved
    <3> QED
      BY <3>1, LeastExists
  <2>2. m \in Nat /\ ~Solved(m)
    OBVIOUS
  <2>3. CASE m = 0
    <3> DEFINE f == [s \in Small(0) |-> 0]
    <3>1. \A s \in Small(0) : s = {}
      BY OneLess
    <3>2. f = [s \in Small(0) |-> Summed(sz, f, s)]
      BY <3>1 DEF Summed
    <3> QED
      BY <2>2, <2>3, <3>2
  <2>4. CASE m # 0
    <3>1. m - 1 \in Nat /\ m - 1 \notin Unsolved
      <4>1. m - 1 \in Nat /\ ~(m =< m - 1)
        BY <2>2, <2>4
      <4> HIDE DEF Unsolved
      <4> QED
        BY <2>1, <4>1
    <3>2. Solved(m - 1)
      BY <3>1
    <3>3. PICK g : g = [s \in Small(m - 1) |-> Summed(sz, g, s)]
      BY <3>2
    <3> DEFINE f == [s \in Small(m) |-> Summed(sz, g, s)]
    <3>4. \A s \in Small(m - 1) : s \in Small(m) /\ f[s] = g[s]
      <4>1. ASSUME NEW s \in Small(m - 1) PROVE s \in Small(m)
        BY <2>2, OneLess
      <4>2. ASSUME NEW s \in Small(m - 1) PROVE f[s] = Summed(sz, g, s)
        BY <4>1
      <4>3. ASSUME NEW s \in Small(m - 1) PROVE g[s] = Summed(sz, g, s)
        BY <3>3
      <4> HIDE DEF f, Small
      <4> QED
        BY <4>1, <4>2, <4>3
    <3>5. ASSUME NEW s \in Small(m) PROVE Summed(sz, f, s) = Summed(sz, g, s)
      <4>1. CASE s = {}
        BY <4>1 DEF Summed
      <4>2. CASE s # {}
        <5>1. s \ {First(s)} \in Small(m - 1)
          BY <2>2, <4>2, FirstIsIn, OneLess
        <5>2. f[s \ {First(s)}] = g[s \ {First(s)}]
          BY <3>4, <5>1
        <5> HIDE DEF f
        <5> QED
          BY <5>2 DEF Summed
      <4> QED
        BY <4>1, <4>2
    <3>6. f = [s \in Small(m) |-> Summed(sz, f, s)]
      BY <3>5
    <3> QED
      BY <2>2, <3>6
  <2> QED
    BY <2>3, <2>4
<1>2. Cardinality(S) \in Nat /\ Solved(Cardinality(S))
  <2>1. Cardinality(S) \in Nat
    BY FS_CardinalityType
  <2>2. Cardinality(S) \notin Unsolved
    BY <1>1
  <2> QED
    BY <2>1, <2>2
<1>3. Small(Cardinality(S)) = SUBSET S
  BY FS_Subset
<1>4. \E f : f = [s \in SUBSET S |-> Summed(sz, f, s)]
  BY <1>2, <1>3
<1>5. Sums(sz, S) = [s \in SUBSET S |-> Summed(sz, Sums(sz, S), s)]
  BY <1>4 DEF Sums
<1> DEFINE f == Sums(sz, S)
<1> HIDE DEF f
<1>6. f = [s \in SUBSET S |-> Summed(sz, f, s)]
  BY <1>5 DEF f
<1>7. \A s \in SUBSET S : f[s] = Summed(sz, f, s)
  BY <1>6
<1> QED
  BY <1>7 DEF f

\* The value of a subset is its own sum.
LEMMA SumsAgree ==
  ASSUME NEW sz, NEW S, IsFiniteSet(S), NEW T \in SUBSET S
  PROVE  Sums(sz, S)[T] = Total(sz, T)
<1> DEFINE f == Sums(sz, S)
           g == Sums(sz, T)
           Bad == {s \in SUBSET T : f[s] # g[s]}
<1>1. IsFiniteSet(T)
  BY FS_Subset
<1>2. /\ \A s \in SUBSET S : f[s] = Summed(sz, f, s)
      /\ \A s \in SUBSET T : g[s] = Summed(sz, g, s)
  BY <1>1, SumsExist
<1> HIDE DEF f, g
<1>3. Bad = {}
  <2> SUFFICES ASSUME Bad # {} PROVE FALSE
    OBVIOUS
  <2>1. PICK s \in Bad : \A x \in s : s \ {x} \notin Bad
    <3>1. Bad \subseteq SUBSET T
      OBVIOUS
    <3> HIDE DEF Bad
    <3> QED
      BY <1>1, <3>1, SmallestExists
  <2>2. s \in SUBSET T /\ s \in SUBSET S /\ f[s] # g[s]
    OBVIOUS
  <2>3. s # {}
    BY <1>2, <2>2 DEF Summed
  <2>4. f[s \ {First(s)}] = g[s \ {First(s)}]
    BY <2>1, <2>2, <2>3, FirstIsIn
  <2>5. Summed(sz, f, s) = Summed(sz, g, s)
    BY <2>4 DEF Summed
  <2> QED
    BY <1>2, <2>2, <2>5
<1>4. f[T] = g[T]
  BY <1>3
<1> QED
  BY <1>4, TotalIs DEF f, g

\* The sum of no sizes, and of those of a set by its chosen element.
LEMMA TotalOf ==
  ASSUME NEW sz, NEW S, IsFiniteSet(S)
  PROVE  Total(sz, S) = IF S = {} THEN 0 ELSE sz[First(S)] + Total(sz, S \ {First(S)})
<1> DEFINE f == Sums(sz, S)
<1>1. f[S] = Summed(sz, f, S)
  BY SumsExist
<1>2. Total(sz, S) = f[S]
  BY TotalIs
<1>3. f[S \ {First(S)}] = Total(sz, S \ {First(S)})
  BY SumsAgree
<1> HIDE DEF f
<1> QED
  BY <1>1, <1>2, <1>3 DEF Summed

\* It is a natural number, is the same by any element, and depends on the
\* sizes of the set only.
LEMMA TotalIsNat ==
  ASSUME NEW sz, NEW S, IsFiniteSet(S), \A b \in S : sz[b] \in Nat
  PROVE  \A s \in SUBSET S : Total(sz, s) \in Nat
<1> DEFINE Bad == {s \in SUBSET S : Total(sz, s) \notin Nat}
<1> SUFFICES ASSUME Bad # {} PROVE FALSE
  OBVIOUS
<1>1. PICK s \in Bad : \A x \in s : s \ {x} \notin Bad
  <2>1. Bad \subseteq SUBSET S
    OBVIOUS
  <2> HIDE DEF Bad
  <2> QED
    BY <2>1, SmallestExists
<1>2. s \in SUBSET S /\ Total(sz, s) \notin Nat /\ IsFiniteSet(s)
  BY FS_Subset
<1>3. s # {}
  <2>1. s = {} => Total(sz, s) = 0
    BY <1>2, TotalOf
  <2> QED
    BY <1>2, <2>1
<1>4. First(s) \in s /\ Total(sz, s \ {First(s)}) \in Nat /\ sz[First(s)] \in Nat
  BY <1>1, <1>2, <1>3, FirstIsIn
<1>5. Total(sz, s) = sz[First(s)] + Total(sz, s \ {First(s)})
  BY <1>2, <1>3, TotalOf
<1> QED
  BY <1>2, <1>4, <1>5

LEMMA TotalByAny ==
  ASSUME NEW sz, NEW S, IsFiniteSet(S), \A b \in S : sz[b] \in Nat
  PROVE  \A s \in SUBSET S : \A x \in s : Total(sz, s) = sz[x] + Total(sz, s \ {x})
<1> DEFINE Bad == {s \in SUBSET S : \E x \in s : Total(sz, s) # sz[x] + Total(sz, s \ {x})}
<1> SUFFICES ASSUME Bad # {} PROVE FALSE
  OBVIOUS
<1>1. PICK s \in Bad : \A x \in s : s \ {x} \notin Bad
  <2>1. Bad \subseteq SUBSET S
    OBVIOUS
  <2> HIDE DEF Bad
  <2> QED
    BY <2>1, SmallestExists
<1>2. PICK x \in s : Total(sz, s) # sz[x] + Total(sz, s \ {x})
  OBVIOUS
<1> DEFINE y == First(s)
           t == s \ {x}
           u == s \ {y}
           v == (s \ {x}) \ {y}
<1>3. s \in SUBSET S /\ IsFiniteSet(s) /\ y \in s
  BY FS_Subset, FirstIsIn
<1> HIDE DEF y
<1>4. Total(sz, s) = sz[y] + Total(sz, u)
  BY <1>3, TotalOf DEF y
<1>5. x # y
  BY <1>2, <1>4
<1>6. Total(sz, t) = sz[y] + Total(sz, v)
  <2>1. t \in SUBSET S /\ t \notin Bad /\ y \in t
    BY <1>1, <1>3, <1>5
  <2> QED
    BY <2>1
<1>7. Total(sz, u) = sz[x] + Total(sz, v)
  <2>1. u \in SUBSET S /\ u \notin Bad /\ x \in u /\ u \ {x} = v
    BY <1>1, <1>3, <1>5
  <2> QED
    BY <2>1
<1>8. sz[x] \in Nat /\ sz[y] \in Nat /\ Total(sz, v) \in Nat
  BY <1>3, TotalIsNat
<1> HIDE DEF t, u, v
<1>9. Total(sz, s) = sz[x] + Total(sz, t)
  BY <1>4, <1>6, <1>7, <1>8
<1> QED
  BY <1>2, <1>9 DEF t

LEMMA TotalReads ==
  ASSUME NEW sz, NEW tz, NEW S, IsFiniteSet(S), \A b \in S : sz[b] = tz[b]
  PROVE  Total(sz, S) = Total(tz, S)
<1> DEFINE Bad == {s \in SUBSET S : Total(sz, s) # Total(tz, s)}
<1> SUFFICES ASSUME Bad # {} PROVE FALSE
  OBVIOUS
<1>1. PICK s \in Bad : \A x \in s : s \ {x} \notin Bad
  <2>1. Bad \subseteq SUBSET S
    OBVIOUS
  <2> HIDE DEF Bad
  <2> QED
    BY <2>1, SmallestExists
<1>2. s \in SUBSET S /\ IsFiniteSet(s) /\ Total(sz, s) # Total(tz, s)
  BY FS_Subset
<1>3. /\ Total(sz, s) = IF s = {} THEN 0 ELSE sz[First(s)] + Total(sz, s \ {First(s)})
      /\ Total(tz, s) = IF s = {} THEN 0 ELSE tz[First(s)] + Total(tz, s \ {First(s)})
  BY <1>2, TotalOf
<1>4. s # {}
  BY <1>2, <1>3
<1>5. First(s) \in s /\ Total(sz, s \ {First(s)}) = Total(tz, s \ {First(s)})
  BY <1>1, <1>2, <1>4, FirstIsIn
<1> QED
  BY <1>2, <1>3, <1>4, <1>5

\* Arithmetic modulo a number.
LEMMA RestIs ==
  ASSUME NEW x \in Int, NEW R \in Nat \ {0}
  PROVE  x % R \in 0..R - 1 /\ \E k \in Int : x = k * R + (x % R)
<1>1. x % R \in 0..R - 1
  OBVIOUS
<1>2. x \div R \in Int /\ x = R * (x \div R) + (x % R)
  OBVIOUS
<1>3. R * (x \div R) = (x \div R) * R
  BY <1>2
<1> QED
  BY <1>1, <1>2, <1>3

LEMMA NoMultiple ==
  ASSUME NEW k \in Int, NEW R \in Nat, R > 0, k * R < R, k * R > -R
  PROVE  k = 0
<1>1. CASE k >= 1
  <2>1. (k - 1) * R >= 0
    BY <1>1
  <2>2. (k - 1) * R = k * R - R
    OBVIOUS
  <2> QED
    BY <2>1, <2>2
<1>2. CASE k =< -1
  <2>1. (-1 - k) * R >= 0
    BY <1>2
  <2>2. (-1 - k) * R = -R - k * R
    OBVIOUS
  <2> QED
    BY <2>1, <2>2
<1> QED
  BY <1>1, <1>2

LEMMA RestUnique ==
  ASSUME NEW x \in Int, NEW y \in Int, NEW k \in Int, NEW R \in Nat \ {0}, x = y + k * R
  PROVE  x % R = y % R
<1>1. PICK i \in Int : x = i * R + (x % R)
  BY RestIs
<1>2. PICK j \in Int : y = j * R + (y % R)
  BY RestIs
<1>3. x % R \in 0..R - 1 /\ y % R \in 0..R - 1
  BY RestIs
<1> DEFINE a == x % R
           b == y % R
           d == j + k - i
<1> HIDE DEF a, b
<1>4. x = i * R + a /\ y = j * R + b /\ a \in 0..R - 1 /\ b \in 0..R - 1
  BY <1>1, <1>2, <1>3 DEF a, b
<1>5. d * R = j * R + k * R - i * R
  OBVIOUS
<1>6. d * R = a - b
  BY <1>4, <1>5
<1>7. d \in Int /\ d * R < R /\ d * R > -R
  BY <1>4, <1>6
<1>8. d = 0
  BY <1>7, NoMultiple
<1>9. d * R = 0
  BY <1>8
<1> HIDE DEF d
<1>10. a = b
  BY <1>4, <1>6, <1>9
<1> QED
  BY <1>10 DEF a, b

\* What AddTotal and SubtractTotal make of a sum.
LEMMA AddedMod ==
  ASSUME NEW s \in Nat, NEW n \in Nat, NEW R \in Nat \ {0}
  PROVE  ((s % R) + n) % R = (n + s) % R
<1>1. s \in Int /\ n + s \in Int
  OBVIOUS
<1>2. PICK k \in Int : s = k * R + (s % R)
  BY <1>1, RestIs
<1>3. s % R \in 0..R - 1
  BY <1>1, RestIs
<1> DEFINE a == s % R
<1> HIDE DEF a
<1>4. s = k * R + a /\ a \in Nat
  BY <1>2, <1>3 DEF a
<1>5. n + s = (a + n) + k * R /\ a + n \in Int
  BY <1>4
<1>6. (n + s) % R = (a + n) % R
  BY <1>1, <1>5, RestUnique
<1> QED
  BY <1>6 DEF a

LEMMA SubtractedMod ==
  ASSUME NEW s \in Nat, NEW n \in Nat, NEW R \in Nat \ {0}
  PROVE  (((n + s) % R) + R - n) % R = s % R
<1>1. s \in Int /\ n + s \in Int
  OBVIOUS
<1>2. PICK k \in Int : n + s = k * R + ((n + s) % R)
  BY <1>1, RestIs
<1>r. (n + s) % R \in 0..R - 1
  BY <1>1, RestIs
<1> DEFINE a == (n + s) % R
           j == k - 1
<1> HIDE DEF a
<1>3. j \in Int /\ j * R = k * R - R
  OBVIOUS
<1> HIDE DEF j
<1>4. n + s = k * R + a /\ a \in Nat /\ k * R \in Int
  BY <1>2, <1>r DEF a
<1>5. s = (a + R - n) + j * R /\ a + R - n \in Int
  BY <1>3, <1>4
<1>6. s % R = (a + R - n) % R
  BY <1>1, <1>3, <1>5, RestUnique
<1> QED
  BY <1>6 DEF a

----------------------------------------------------------------------------
(* The total.                                                               *)

\* The blocks given out whose call of new has added its size and whose call
\* of delete has not subtracted it.
Added == {b \in used : \A t \in Thread :
            dptr[t] = b => dpc[t] \notin InNew \cup {"unlink", "unlink_prev"}}

Tracked == counted = Added /\ TotalTracks

\* The sums before and after a step.
LEMMA TracksIs ==
  /\ TotalTracks = (~torn => total = Total(size, counted) % TotalRange)
  /\ TotalTracks' = (~torn' => total' = Total(size', counted') % TotalRange)
<1>1. TotalTracks = (~torn => total = Total(size, counted) % TotalRange)
  BY DEF TotalTracks, Total, MapThenSumSet, MapThenFoldSet
<1>2. TotalTracks' = (~torn' => total' = Total(size', counted') % TotalRange)
  BY DEF TotalTracks, Total, MapThenSumSet, MapThenFoldSet
<1> QED
  BY <1>1, <1>2

\* A call of another thread has another block.
LEMMA AddedIs ==
  ASSUME Alloc, NEW t \in Thread, InCall(t)
  PROVE  /\ dptr[t] \in Block /\ dptr[t] \in used /\ size[dptr[t]] \in Nat
         /\ \A u \in Thread : u # t => dptr[u] # dptr[t]
         /\ dptr[t] \in Added <=> dpc[t] \notin InNew \cup {"unlink", "unlink_prev"}
         /\ IsFiniteSet(Added) /\ \A b \in Added : size[b] \in Nat
<1>1. used \subseteq Block /\ size \in [Block -> Nat]
  BY DEF Alloc, DebugTypeOK
<1>2. dptr[t] \in used /\ \A u \in Thread : u # t => dptr[u] # dptr[t]
  BY DEF Alloc, Calls
<1>3. dptr[t] \in Added <=> dpc[t] \notin InNew \cup {"unlink", "unlink_prev"}
  BY <1>2 DEF Added
<1>4. Added \subseteq Block
  BY <1>1 DEF Added
<1>5. IsFiniteSet(Added)
  BY <1>4, BlocksAssumption, FS_Subset
<1> QED
  BY <1>1, <1>2, <1>3, <1>4, <1>5

\* Steps that change neither the total nor what is added to it.
LEMMA TrackedFrame ==
  ASSUME Alloc, Tracked, UNCHANGED <<total, counted, torn>>, Added' = Added,
         \A b \in used : size'[b] = size[b]
  PROVE  Tracked'
<1>1. counted = Added /\ Added \subseteq used /\ used \subseteq Block
  BY DEF Tracked, Added, Alloc, DebugTypeOK
<1>2. IsFiniteSet(counted)
  BY <1>1, BlocksAssumption, FS_Subset
<1>3. Total(size', counted) = Total(size, counted)
  BY <1>1, <1>2, TotalReads
<1>4. TotalTracks'
  BY <1>3, TracksIs DEF Tracked
<1> QED
  BY <1>1, <1>4 DEF Tracked

\* The allocator's steps.
LEMMA AddTotalTracks ==
  ASSUME Alloc, Tracked, NEW t \in Thread, AddTotal(t)
  PROVE  Tracked'
<1> DEFINE d == dptr[t]
<1>1. /\ dpc[t] = "added" /\ dpc' = [dpc EXCEPT ![t] = "out"]
      /\ dptr' = [dptr EXCEPT ![t] = Nil]
      /\ total' = (reg[t] + size[d]) % TotalRange /\ torn' = (torn \/ reg[t] # total)
      /\ counted' = counted \cup {d} /\ UNCHANGED <<size, used>>
  BY DEF AddTotal, Goto, header
<1>2. InCall(t) /\ dpc[t] \in InNew
  BY <1>1 DEF InCall, InNew
<1>3. /\ d \in Block /\ d \in used /\ size[d] \in Nat /\ d \notin Added
      /\ \A u \in Thread : u # t => dptr[u] # d
      /\ IsFiniteSet(Added) /\ \A b \in Added : size[b] \in Nat
  BY <1>2, AddedIs
<1>4. counted = Added /\ Nil \notin Block /\ TotalRange \in Nat \ {0} /\ torn \in BOOLEAN
  BY BlocksAssumption DEF Tracked, Alloc, DebugTypeOK
<1>5. \A u \in Thread : /\ dpc'[u] = IF u = t THEN "out" ELSE dpc[u]
                       /\ dptr'[u] = IF u = t THEN Nil ELSE dptr[u]
  BY <1>1 DEF Alloc, DebugTypeOK
<1> HIDE DEF d
<1>6. Added' = Added \cup {d}
  <2>1. \A b \in used : b # d => (b \in Added' <=> b \in Added)
    <3>1. dptr[t] = d /\ dptr'[t] = Nil /\ used' = used /\ Nil \notin used
      BY <1>1, <1>4, <1>5 DEF d, Alloc, DebugTypeOK
    <3> QED
      BY <1>5, <3>1 DEF Added
  <2>2. d \in Added'
    BY <1>1, <1>3, <1>4, <1>5 DEF Added
  <2>3. Added \subseteq used /\ Added' \subseteq used
    BY <1>1 DEF Added
  <2> QED
    BY <1>3, <2>1, <2>2, <2>3
<1> DEFINE S == counted \cup {d}
<1>7. /\ IsFiniteSet(S) /\ \A b \in S : size[b] \in Nat
      /\ S \in SUBSET S /\ d \in S /\ S \ {d} = counted /\ counted \in SUBSET S
  BY <1>3, <1>4, FS_AddElement
<1>8. Total(size, S) = size[d] + Total(size, counted) /\ Total(size, counted) \in Nat
  <2> HIDE DEF S
  <2>1. Total(size, S) = size[d] + Total(size, S \ {d})
    BY <1>7, TotalByAny
  <2> QED
    BY <1>7, <2>1, TotalIsNat
<1>9. ASSUME ~torn' PROVE total' = Total(size, S) % TotalRange
  <2>1. ~torn /\ reg[t] = total /\ total = Total(size, counted) % TotalRange
    BY <1>1, <1>4, <1>9, TracksIs DEF Tracked
  <2>2. total' = ((Total(size, counted) % TotalRange) + size[d]) % TotalRange
    BY <1>1, <2>1
  <2> DEFINE s == Total(size, counted)
             n == size[d]
  <2> HIDE DEF s, n, S
  <2>3. s \in Nat /\ n \in Nat /\ Total(size, S) = n + s
    BY <1>3, <1>8 DEF s, n
  <2>4. total' = ((s % TotalRange) + n) % TotalRange
    BY <2>2 DEF s, n
  <2>5. ((s % TotalRange) + n) % TotalRange = (n + s) % TotalRange
    BY <1>4, <2>3, AddedMod
  <2> QED
    BY <2>3, <2>4, <2>5
<1>10. TotalTracks'
  BY <1>1, <1>9, TracksIs
<1> QED
  BY <1>1, <1>4, <1>6, <1>10 DEF Tracked

LEMMA SubtractTotalTracks ==
  ASSUME Alloc, Tracked, NEW t \in Thread, SubtractTotal(t)
  PROVE  Tracked'
<1> DEFINE d == dptr[t]
           S == counted \ {d}
<1>1. /\ dpc[t] = "subtracted" /\ dpc' = [dpc EXCEPT ![t] = "unlink"]
      /\ total' = (reg[t] + TotalRange - size[d]) % TotalRange
      /\ torn' = (torn \/ reg[t] # total)
      /\ counted' = S /\ UNCHANGED <<size, used, dptr>>
  BY DEF SubtractTotal, Goto, header
<1>2. InCall(t) /\ dpc[t] \notin InNew \cup {"unlink", "unlink_prev"}
  BY <1>1 DEF InCall, InNew
<1>3. /\ d \in Block /\ d \in used /\ size[d] \in Nat /\ d \in Added
      /\ \A u \in Thread : u # t => dptr[u] # d
      /\ IsFiniteSet(Added) /\ \A b \in Added : size[b] \in Nat
  BY <1>2, AddedIs
<1>4. counted = Added /\ TotalRange \in Nat \ {0} /\ torn \in BOOLEAN
  BY BlocksAssumption DEF Tracked, Alloc, DebugTypeOK
<1>5. \A u \in Thread : dpc'[u] = IF u = t THEN "unlink" ELSE dpc[u]
  BY <1>1 DEF Alloc, DebugTypeOK
<1>6. Added' = Added \ {d}
  <2>1. \A b \in used : b # d => (b \in Added' <=> b \in Added)
    BY <1>1, <1>5 DEF Added
  <2>2. d \notin Added'
    BY <1>1, <1>3, <1>5 DEF Added
  <2>3. Added \subseteq used /\ Added' \subseteq used
    BY <1>1 DEF Added
  <2> QED
    BY <1>3, <2>1, <2>2, <2>3
<1>7. Total(size, counted) = size[d] + Total(size, S) /\ Total(size, S) \in Nat
  <2>1. d \in counted /\ counted \in SUBSET counted /\ S \in SUBSET counted
    BY <1>3, <1>4
  <2> QED
    BY <1>3, <1>4, <2>1, TotalByAny, TotalIsNat
<1> HIDE DEF d, S
<1>8. ASSUME ~torn' PROVE total' = Total(size, S) % TotalRange
  <2>1. ~torn /\ reg[t] = total /\ total = Total(size, counted) % TotalRange
    BY <1>1, <1>4, <1>8, TracksIs DEF Tracked
  <2>2. total' = (((size[d] + Total(size, S)) % TotalRange) + TotalRange - size[d]) % TotalRange
    BY <1>1, <1>7, <2>1
  <2> DEFINE s == Total(size, S)
             n == size[d]
  <2> HIDE DEF s, n
  <2>3. s \in Nat /\ n \in Nat
    BY <1>3, <1>7 DEF s, n
  <2>4. total' = (((n + s) % TotalRange) + TotalRange - n) % TotalRange
    BY <2>2 DEF s, n
  <2>5. (((n + s) % TotalRange) + TotalRange - n) % TotalRange = s % TotalRange
    BY <1>4, <2>3, SubtractedMod
  <2> QED
    BY <2>4, <2>5 DEF s
<1>9. TotalTracks'
  BY <1>1, <1>8, TracksIs
<1> QED
  BY <1>1, <1>4, <1>6, <1>9 DEF Tracked, S

\* A step of a call that has its block stay added, or not added.
LEMMA TrackedMove ==
  ASSUME Alloc, Tracked, NEW t \in Thread, InCall(t), NEW p, Goto(t, p),
         UNCHANGED <<dptr, used, size, total, counted, torn>>,
         p \in InNew \cup {"unlink", "unlink_prev"}
           <=> dpc[t] \in InNew \cup {"unlink", "unlink_prev"}
  PROVE  Tracked'
<1>1. \A u \in Thread : dpc'[u] = IF u = t THEN p ELSE dpc[u]
  BY DEF Alloc, DebugTypeOK, Goto
<1>2. Added' = Added
  BY <1>1 DEF Added
<1> QED
  BY <1>2, TrackedFrame

LEMMA TrackedCall ==
  ASSUME Alloc, Tracked, NEW t \in Thread, CallStep(t)
  PROVE  Tracked'
<1>1. CASE Lock(t)
  BY <1>1, TrackedMove DEF Lock, InCall, InNew, header
<1>2. CASE Link(t) \/ LinkNext(t) \/ LinkPrev(t)
  BY <1>2, TrackedMove DEF Link, LinkNext, LinkPrev, InCall, InNew, header
<1>3. CASE ReadTotal(t)
  BY <1>3, TrackedMove DEF ReadTotal, InCall, InNew, header
<1>4. CASE Unlink(t)
  BY <1>4, TrackedMove DEF Unlink, InCall, header
<1>5. CASE UnlinkPrev(t)
  <2>1. /\ dpc[t] = "unlink_prev" /\ dpc' = [dpc EXCEPT ![t] = "out"]
        /\ dptr' = [dptr EXCEPT ![t] = Nil] /\ used' = used \ {dptr[t]}
        /\ UNCHANGED <<size, total, counted, torn>>
    BY <1>5 DEF UnlinkPrev, Goto, header
  <2>2. \A u \in Thread : /\ dpc'[u] = IF u = t THEN "out" ELSE dpc[u]
                         /\ dptr'[u] = IF u = t THEN Nil ELSE dptr[u]
    BY <2>1 DEF Alloc, DebugTypeOK
  <2>3. dptr[t] \notin Added /\ Nil \notin used
    BY <2>1, BlocksAssumption, AddedIs DEF InCall, Alloc, DebugTypeOK
  <2>4. Added' = Added
    BY <2>1, <2>2, <2>3 DEF Added
  <2> QED
    BY <2>1, <2>4, TrackedFrame
<1> QED
  BY <1>1, <1>2, <1>3, <1>4, <1>5, AddTotalTracks, SubtractTotalTracks DEF CallStep

\* The beginnings of calls.
LEMMA TrackedNew ==
  ASSUME Alloc, Tracked, NEW t \in Thread, NEW b, NEW n, NEW arr, New(t, b, n, arr)
  PROVE  Tracked'
<1>1. /\ dpc' = [dpc EXCEPT ![t] = "new"] /\ dptr' = [dptr EXCEPT ![t] = b]
      /\ dptr[t] = Nil /\ b \in Block \ used /\ used' = used \cup {b}
      /\ UNCHANGED <<total, counted, torn>>
  BY DEF New, Goto, Alloc, Calls
<1>2. \A u \in Thread : /\ dpc'[u] = IF u = t THEN "new" ELSE dpc[u]
                       /\ dptr'[u] = IF u = t THEN b ELSE dptr[u]
  BY <1>1 DEF Alloc, DebugTypeOK
<1>3. Nil \notin used
  BY BlocksAssumption DEF Alloc, DebugTypeOK
<1>4. Added' = Added
  BY <1>1, <1>2, <1>3 DEF Added, InNew
<1>5. \A c \in used : size'[c] = size[c]
  BY SizesStay
<1> QED
  BY <1>1, <1>4, <1>5, TrackedFrame

LEMMA TrackedDelete ==
  ASSUME Alloc, Tracked, NEW t \in Thread, NEW b, NEW arr, Delete(t, b, arr),
         b \in used, \A u \in Thread : dptr[u] # b
  PROVE  Tracked'
<1>1. dptr[t] = Nil /\ UNCHANGED <<used, size, total, counted, torn>>
  BY DEF Delete, Alloc, Calls, header
<1>2. CASE dpc' = [dpc EXCEPT ![t] = "delete"] /\ dptr' = [dptr EXCEPT ![t] = b]
  <2>1. \A u \in Thread : /\ dpc'[u] = IF u = t THEN "delete" ELSE dpc[u]
                         /\ dptr'[u] = IF u = t THEN b ELSE dptr[u]
    BY <1>2 DEF Alloc, DebugTypeOK
  <2>2. Nil \notin used
    BY BlocksAssumption DEF Alloc, DebugTypeOK
  <2>3. Added' = Added
    BY <1>1, <2>1, <2>2 DEF Added, InNew
  <2> QED
    BY <1>1, <2>3, TrackedFrame
<1>3. CASE UNCHANGED <<dpc, dptr>>
  <2>1. Added' = Added
    BY <1>1, <1>3 DEF Added
  <2> QED
    BY <1>1, <2>1, TrackedFrame
<1> QED
  BY <1>2, <1>3 DEF Delete, Goto

LEMMA TrackedElse ==
  ASSUME Alloc, Tracked, CheckLeaks \/ UNCHANGED debugVars
  PROVE  Tracked'
<1>1. UNCHANGED <<dpc, dptr, used, size, total, counted, torn>>
  BY DEF CheckLeaks, debugVars, header
<1>2. Added' = Added
  BY <1>1 DEF Added
<1> QED
  BY <1>1, <1>2, TrackedFrame

LEMMA TrackedInit == DebugInit => Tracked
<1> SUFFICES ASSUME DebugInit PROVE Tracked
  OBVIOUS
<1>1. used = {} /\ counted = {} /\ total = 0 /\ torn = FALSE
  BY DEF DebugInit
<1>2. counted = Added
  BY <1>1 DEF Added
<1>3. Total(size, counted) = 0
  BY <1>1, FS_EmptySet, TotalOf
<1>4. 0 % TotalRange = 0
  BY BlocksAssumption
<1> QED
  BY <1>1, <1>2, <1>3, <1>4, TracksIs DEF Tracked

\* What a step of Next is for the allocator.
LEMMA AllocatorView ==
  ASSUME IInv, [Next]_vars
  PROVE  \/ \E t \in Thread : CallStep(t)
         \/ \E t \in Thread : \E b, n, arr : New(t, b, n, arr)
         \/ \E t \in Thread : \E b \in used : \E arr :
              Delete(t, b, arr) /\ \A u \in Thread : dptr[u] # b
         \/ CheckLeaks \/ UNCHANGED debugVars
<1> DEFINE View == \/ \E t \in Thread : CallStep(t)
                   \/ \E t \in Thread : \E b, n, arr : New(t, b, n, arr)
                   \/ \E t \in Thread : \E b \in used : \E arr :
                        Delete(t, b, arr) /\ \A u \in Thread : dptr[u] # b
                   \/ CheckLeaks \/ UNCHANGED debugVars
<1>1. ASSUME NEW t \in Thread, NEW b \in Holding(t), dptr[t] = Nil
      PROVE  b \in used /\ \A u \in Thread : dptr[u] # b
  <2>1. b \in Block /\ b \in Has(t) /\ b # Nil
    BY BlocksAssumption DEF IInv, Owned, Has
  <2>2. b \in used
    BY <2>1 DEF IInv, Owned
  <2>3. ASSUME NEW u \in Thread, dptr[u] = b PROVE FALSE
    <3>1. b \in Has(u)
      BY <2>1, <2>3 DEF Has
    <3> QED
      BY <1>1, <2>1, <2>3, <3>1 DEF IInv, Owned
  <2> QED
    BY <2>2, <2>3
<1>2. ASSUME NEW r \in Reader, Reset(r), ~InCall(r) PROVE View
  <2>1. r \in Thread
    BY ReadersAre
  <2>2. CASE p_buf_[r] = Nil
    BY <1>2, <2>2 DEF Reset
  <2>3. CASE p_buf_[r] # Nil
    <3>1. p_buf_[r] \in Holding(r) /\ dptr[r] = Nil /\ Delete(r, p_buf_[r], TRUE)
      BY <1>2, <2>1, <2>3 DEF Reset, Holding, IInv, Alloc, Calls
    <3> QED
      BY <1>1, <2>1, <3>1
  <2> QED
    BY <2>2, <2>3
<1>3. ASSUME NEW r \in Reader, ReaderStep(r) \/ CallerResets(r) PROVE View
  <2>1. r \in Thread /\ ~InCall(r)
    BY <1>3, ReadersAre DEF ReaderStep, ReadHeader, ReadLength, ReadDataPart, ReturnPacket,
       DropPacket, ReadNext, CallerResets, Looping
  <2>2. \/ Reset(r) \/ UNCHANGED debugVars
        \/ \E b, n, arr : New(r, b, n, arr)
    <3>1. CASE ReadLength(r)
      BY <3>1 DEF ReadLength
    <3>2. CASE ReadHeader(r) \/ ReadDataPart(r) \/ ReturnPacket(r)
      BY <3>2 DEF ReadHeader, ReadDataPart, ReturnPacket
    <3>3. CASE DropPacket(r) \/ ReadNext(r) \/ CallerResets(r)
      BY <3>3 DEF DropPacket, ReadNext, CallerResets
    <3> QED
      BY <1>3, <3>1, <3>2, <3>3 DEF ReaderStep
  <2> QED
    BY <1>2, <2>1, <2>2
<1>4. ASSUME NEW r \in Reader, NEW n \in ReadSize, DmPacketRead(r, n) PROVE View
  BY <1>4 DEF DmPacketRead
<1>5. ASSUME NEW t \in Other, NEW b \in Block, NEW n \in OtherSize, OtherNew(t, b, n) PROVE View
  BY <1>5 DEF OtherNew, Other
<1>6. ASSUME NEW t \in Other, NEW b \in Block, OtherDelete(t, b) PROVE View
  <2>1. t \in Thread /\ t \notin Reader
    BY DEF Other
  <2>2. b \in Holding(t) /\ dptr[t] = Nil /\ Delete(t, b, FALSE)
    BY <1>6, <2>1 DEF OtherDelete, Delete, Holding, IInv, Alloc, Calls
  <2> QED
    BY <1>1, <2>1, <2>2
<1>7. ASSUME NEW t \in Thread, AllocatorStep(t) PROVE View
  BY <1>7 DEF AllocatorStep
<1>8. CASE AtExit
  BY <1>8 DEF AtExit
<1>9. CASE UNCHANGED vars
  BY <1>9 DEF vars
<1> QED
  BY <1>3, <1>4, <1>5, <1>6, <1>7, <1>8, <1>9 DEF Next

\* While no update of total_mem_alloc has been lost, it is the size of the
\* blocks new has counted and delete has not, as far as size_t holds it,
\* although new reads and writes it without the lock.
THEOREM TotalIsTracked == Spec => []TotalTracks
<1>1. Init => Tracked
  BY TrackedInit DEF Init
<1>2. IInv /\ Tracked /\ [Next]_vars => Tracked'
  BY AllocatorView, TrackedCall, TrackedNew, TrackedDelete, TrackedElse DEF IInv
<1>3. Tracked => TotalTracks
  BY DEF Tracked
<1> QED
  BY <1>1, <1>2, <1>3, AlwaysIInv, PTL DEF Spec

----------------------------------------------------------------------------
(* One pass over a stream.                                                  *)

LengthAt(s, i) == LengthOf(SubSeq(s, i + 5, i + 8))

\* What PacketsIn finds from offset i on, by what f has from later ones, when
\* the packets at the offsets of ok count.
Scanned(ok, s, n, f, i) ==
  IF i + HeaderSize > n THEN <<>>
  ELSE IF SubSeq(s, i + 1, i + HeaderSize) # kMsgHeader THEN f[i + HeaderSize]
  ELSE IF i + DataPos > n THEN <<>>
  ELSE IF ~LengthAllowed(LengthAt(s, i)) THEN f[i + DataPos]
  ELSE IF i + LengthAt(s, i) > n THEN <<>>
  ELSE (IF i \in ok THEN <<i>> ELSE <<>>) \o f[i + LengthAt(s, i)]

Scans(f, ok, s, n) ==
  \A i \in 0..n : f[i] \in Seq(Int) /\ f[i] = Scanned(ok, s, n, f, i)

LEMMA LengthAtIsNat ==
  ASSUME NEW s \in Seq(Byte), NEW i \in Nat, i + DataPos =< Len(s)
  PROVE  LengthAt(s, i) \in Nat
<1> DEFINE h == SubSeq(s, i + 1, i + DataPos)
<1>1. Len(s) \in Nat /\ i + DataPos \in Nat /\ i + DataPos \in 1..Len(s) /\ i + 1 \in 1..Len(s)
  BY DEF DataPos
<1>2. \A k \in i + 1..i + DataPos : s[k] \in Byte
  BY <1>1, ElementsAreIn
<1>3. h \in Seq(Byte) /\ Len(h) = DataPos
  BY <1>1, <1>2, SubSeqProperties DEF DataPos
<1>4. SubSeq(h, 5, 8) = SubSeq(s, (i + 1) + 5 - 1, (i + 1) + 8 - 1)
  BY <1>1, <1>3, SubSeqOfSubSeq DEF DataPos
<1>5. (i + 1) + 5 - 1 = i + 5 /\ (i + 1) + 8 - 1 = i + 8
  OBVIOUS
<1> HIDE DEF h
<1>6. SubSeq(h, 5, 8) = SubSeq(s, i + 5, i + 8)
  BY <1>4, <1>5
<1> QED
  BY <1>3, <1>6, LengthIsNat DEF LengthAt

\* It is a sequence, and depends on what later offsets have.
LEMMA ScannedIs ==
  ASSUME NEW ok, NEW s \in Seq(Byte), NEW n \in 0..Len(s), NEW i \in 0..n, NEW f, NEW g,
         \A j \in i + 1..n : f[j] = g[j] /\ f[j] \in Seq(Int)
  PROVE  /\ Scanned(ok, s, n, f, i) \in Seq(Int)
         /\ Scanned(ok, s, n, f, i) = Scanned(ok, s, n, g, i)
<1> DEFINE len == LengthAt(s, i)
<1>0. i \in Nat /\ n \in Nat /\ Len(s) \in Nat /\ n =< Len(s)
  OBVIOUS
<1>1. CASE i + HeaderSize > n
  BY <1>1 DEF Scanned
<1>2. CASE i + HeaderSize =< n /\ SubSeq(s, i + 1, i + HeaderSize) # kMsgHeader
  <2>1. ~(i + HeaderSize > n) /\ i + HeaderSize \in i + 1..n
    BY <1>0, <1>2 DEF HeaderSize
  <2> QED
    BY <1>2, <2>1 DEF Scanned
<1>3. CASE i + HeaderSize =< n /\ SubSeq(s, i + 1, i + HeaderSize) = kMsgHeader
  <2>1. ~(i + HeaderSize > n)
    BY <1>0, <1>3 DEF HeaderSize
  <2>2. CASE i + DataPos > n
    BY <1>3, <2>1, <2>2 DEF Scanned
  <2>3. CASE i + DataPos =< n /\ ~LengthAllowed(len)
    <3>1. ~(i + DataPos > n) /\ i + DataPos \in i + 1..n
      BY <1>0, <2>3 DEF DataPos
    <3> QED
      BY <1>3, <2>1, <2>3, <3>1 DEF Scanned
  <2>4. CASE i + DataPos =< n /\ LengthAllowed(len)
    <3>1. ~(i + DataPos > n)
      BY <1>0, <2>4 DEF DataPos
    <3>2. len \in Nat /\ len >= MinLength
      <4>1. i + DataPos =< Len(s)
        BY <1>0, <2>4 DEF DataPos
      <4> QED
        BY <1>0, <2>4, <4>1, LengthAtIsNat DEF LengthAllowed
    <3>3. CASE i + len > n
      BY <1>3, <2>1, <2>4, <3>1, <3>3 DEF Scanned
    <3>4. CASE i + len =< n
      <4>1. ~(i + len > n) /\ i + len \in i + 1..n
        BY <1>0, <3>2, <3>4 DEF MinLength
      <4>2. f[i + len] = g[i + len] /\ f[i + len] \in Seq(Int)
        BY <4>1
      <4>3. (IF i \in ok THEN <<i>> ELSE <<>>) \in Seq(Int)
        BY <1>0
      <4>4. (IF i \in ok THEN <<i>> ELSE <<>>) \o f[i + len] \in Seq(Int)
        BY <4>2, <4>3, ConcatProperties
      <4>5. /\ Scanned(ok, s, n, f, i) = (IF i \in ok THEN <<i>> ELSE <<>>) \o f[i + len]
            /\ Scanned(ok, s, n, g, i) = (IF i \in ok THEN <<i>> ELSE <<>>) \o g[i + len]
        BY <1>3, <2>1, <2>4, <3>1, <4>1 DEF Scanned
      <4> QED
        BY <4>2, <4>4, <4>5
    <3> QED
      BY <1>0, <3>2, <3>3, <3>4
  <2> QED
    BY <1>0, <2>2, <2>3, <2>4 DEF DataPos
<1> QED
  BY <1>0, <1>1, <1>2, <1>3 DEF HeaderSize

\* The pass exists: it is found from the end of the stream to its beginning.
LEMMA ScanExists ==
  ASSUME NEW ok, NEW s \in Seq(Byte), NEW n \in 0..Len(s)
  PROVE  \E f : f = [i \in 0..n |-> Scanned(ok, s, n, f, i)]
<1> DEFINE Rest(m)   == {i \in 0..n : n - i =< m}
           Solved(m) == \E f \in [Rest(m) -> Seq(Int)] :
                          \A i \in Rest(m) : f[i] = Scanned(ok, s, n, f, i)
           Unsolved  == {m \in Nat : ~Solved(m)}
<1>0. n \in Nat /\ Len(s) \in Nat
  OBVIOUS
<1>1. Unsolved = {}
  <2> SUFFICES ASSUME Unsolved # {} PROVE FALSE
    OBVIOUS
  <2>1. PICK m \in Unsolved : \A x \in Unsolved : m =< x
    <3>1. Unsolved \subseteq Nat
      OBVIOUS
    <3> HIDE DEF Unsolved
    <3> QED
      BY <3>1, LeastExists
  <2>2. m \in Nat /\ ~Solved(m)
    OBVIOUS
  <2>3. ASSUME NEW g, \A i \in Rest(m) : \A j \in i + 1..n : g[j] \in Seq(Int)
                        /\ (j \in Rest(m) => g[j] = Scanned(ok, s, n, g, j))
        PROVE  FALSE
    <3> DEFINE f == [i \in Rest(m) |-> Scanned(ok, s, n, g, i)]
    <3>1. ASSUME NEW i \in Rest(m) PROVE \A j \in i + 1..n : j \in Rest(m)
      BY <1>0, <2>2
    <3>2. ASSUME NEW i \in Rest(m) PROVE \A j \in i + 1..n : f[j] = g[j] /\ g[j] \in Seq(Int)
      BY <2>3, <3>1
    <3> HIDE DEF f
    <3>3. ASSUME NEW i \in Rest(m)
          PROVE  /\ Scanned(ok, s, n, g, i) \in Seq(Int)
                 /\ Scanned(ok, s, n, g, i) = Scanned(ok, s, n, f, i)
      <4>1. i \in 0..n /\ \A j \in i + 1..n : g[j] = f[j] /\ g[j] \in Seq(Int)
        BY <3>2
      <4> HIDE DEF Rest
      <4> QED
        BY <4>1, ScannedIs
    <3>4. f \in [Rest(m) -> Seq(Int)]
      BY <3>3 DEF f
    <3>5. \A i \in Rest(m) : f[i] = Scanned(ok, s, n, f, i)
      BY <3>3 DEF f
    <3> QED
      BY <2>2, <3>4, <3>5
  <2>4. CASE m = 0
    <3>1. \A i \in Rest(m) : i + 1..n = {}
      BY <1>0, <2>4
    <3> QED
      BY <2>3, <3>1
  <2>5. CASE m # 0
    <3>1. m - 1 \in Nat /\ m - 1 \notin Unsolved
      <4>1. m - 1 \in Nat /\ ~(m =< m - 1)
        BY <2>2, <2>5
      <4> HIDE DEF Unsolved
      <4> QED
        BY <2>1, <4>1
    <3>2. Solved(m - 1)
      BY <3>1
    <3>3. PICK g \in [Rest(m - 1) -> Seq(Int)] :
                 \A i \in Rest(m - 1) : g[i] = Scanned(ok, s, n, g, i)
      BY <3>2
    <3>4. \A i \in Rest(m) : \A j \in i + 1..n : j \in Rest(m - 1)
      BY <1>0, <2>2
    <3> HIDE DEF Rest
    <3> QED
      BY <2>3, <3>3, <3>4
  <2> QED
    BY <2>4, <2>5
<1>2. Solved(n)
  BY <1>0, <1>1
<1>3. Rest(n) = 0..n
  BY <1>0
<1>4. PICK f \in [0..n -> Seq(Int)] : \A i \in 0..n : f[i] = Scanned(ok, s, n, f, i)
  BY <1>2, <1>3
<1>5. f = [i \in 0..n |-> Scanned(ok, s, n, f, i)]
  BY <1>4
<1> QED
  BY <1>5

\* What it has is a sequence, and the last offset comes first.
LEMMA ScansIf ==
  ASSUME NEW ok, NEW s \in Seq(Byte), NEW n \in 0..Len(s), NEW f,
         \A i \in 0..n : f[i] = Scanned(ok, s, n, f, i)
  PROVE  Scans(f, ok, s, n)
<1> DEFINE Bad == {k \in 0..n : f[n - k] \notin Seq(Int)}
<1>0. n \in Nat
  OBVIOUS
<1>1. Bad = {}
  <2> SUFFICES ASSUME Bad # {} PROVE FALSE
    OBVIOUS
  <2>1. PICK k \in Bad : \A x \in Bad : k =< x
    <3>1. Bad \subseteq Nat
      OBVIOUS
    <3> HIDE DEF Bad
    <3> QED
      BY <3>1, LeastExists
  <2>2. k \in 0..n /\ n - k \in 0..n /\ f[n - k] \notin Seq(Int)
    BY <1>0
  <2>3. ASSUME NEW j \in (n - k) + 1..n PROVE f[j] = f[j] /\ f[j] \in Seq(Int)
    <3>1. n - j \in 0..n /\ ~(k =< n - j) /\ n - (n - j) = j
      BY <1>0, <2>2
    <3>2. n - j \notin Bad
      BY <2>1, <3>1
    <3> QED
      BY <3>1, <3>2
  <2> QED
    BY <2>2, <2>3, ScannedIs
<1>2. ASSUME NEW i \in 0..n PROVE f[i] \in Seq(Int)
  <2>1. n - i \in 0..n /\ n - (n - i) = i
    BY <1>0
  <2> QED
    BY <1>1, <2>1
<1> QED
  BY <1>2 DEF Scans

\* PacketsIn by offsets: those of valid packets, and of those senders made.
ValidAt(s) == {i \in Nat : IsDmPacketValid(SubSeq(s, i + 1, i + LengthAt(s, i)))}
SentAt(s)  == {i \in Nat : SubSeq(s, i + 1, i + LengthAt(s, i)) \in Sent}

ValidBody(s, n, f, i) ==
  IF i + HeaderSize > n THEN <<>>
  ELSE IF SubSeq(s, i + 1, i + HeaderSize) # kMsgHeader THEN f[i + HeaderSize]
  ELSE IF i + DataPos > n THEN <<>>
  ELSE IF ~LengthAllowed(LengthOf(SubSeq(s, i + 5, i + 8))) THEN f[i + DataPos]
  ELSE IF i + LengthOf(SubSeq(s, i + 5, i + 8)) > n THEN <<>>
  ELSE (IF IsDmPacketValid(SubSeq(s, i + 1, i + LengthOf(SubSeq(s, i + 5, i + 8))))
        THEN <<i>> ELSE <<>>) \o f[i + LengthOf(SubSeq(s, i + 5, i + 8))]

SentBody(s, n, f, i) ==
  IF i + HeaderSize > n THEN <<>>
  ELSE IF SubSeq(s, i + 1, i + HeaderSize) # kMsgHeader THEN f[i + HeaderSize]
  ELSE IF i + DataPos > n THEN <<>>
  ELSE IF ~LengthAllowed(LengthOf(SubSeq(s, i + 5, i + 8))) THEN f[i + DataPos]
  ELSE IF i + LengthOf(SubSeq(s, i + 5, i + 8)) > n THEN <<>>
  ELSE (IF SubSeq(s, i + 1, i + LengthOf(SubSeq(s, i + 5, i + 8))) \in Sent
        THEN <<i>> ELSE <<>>) \o f[i + LengthOf(SubSeq(s, i + 5, i + 8))]

ValidPass(s, n) == CHOOSE f : f = [i \in 0..n |-> ValidBody(s, n, f, i)]
SentPass(s, n)  == CHOOSE f : f = [i \in 0..n |-> SentBody(s, n, f, i)]

LEMMA PacketsInIs ==
  ASSUME NEW s, NEW n
  PROVE  /\ PacketsIn(IsDmPacketValid, s, n) = ValidPass(s, n)[0]
         /\ PacketsIn(LAMBDA p : p \in Sent, s, n) = SentPass(s, n)[0]
<1>1. PacketsIn(IsDmPacketValid, s, n) = ValidPass(s, n)[0]
  BY DEF PacketsIn, ValidPass, ValidBody
<1>2. PacketsIn(LAMBDA p : p \in Sent, s, n) = SentPass(s, n)[0]
  BY DEF PacketsIn, SentPass, SentBody
<1> QED
  BY <1>1, <1>2

LEMMA BodiesAre ==
  ASSUME NEW s, NEW n \in Nat, NEW f, NEW i \in 0..n
  PROVE  /\ ValidBody(s, n, f, i) = Scanned(ValidAt(s), s, n, f, i)
         /\ SentBody(s, n, f, i) = Scanned(SentAt(s), s, n, f, i)
<1>1. i \in ValidAt(s) <=> IsDmPacketValid(SubSeq(s, i + 1, i + LengthOf(SubSeq(s, i + 5, i + 8))))
  BY DEF ValidAt, LengthAt
<1>2. i \in SentAt(s) <=> SubSeq(s, i + 1, i + LengthOf(SubSeq(s, i + 5, i + 8))) \in Sent
  BY DEF SentAt, LengthAt
<1>3. ValidBody(s, n, f, i) = Scanned(ValidAt(s), s, n, f, i)
  BY <1>1 DEF ValidBody, Scanned, LengthAt
<1>4. SentBody(s, n, f, i) = Scanned(SentAt(s), s, n, f, i)
  BY <1>2 DEF SentBody, Scanned, LengthAt
<1> QED
  BY <1>3, <1>4

\* The pass CHOOSE takes is one.
LEMMA PassScans ==
  ASSUME NEW s \in Seq(Byte), NEW n \in 0..Len(s)
  PROVE  Scans(ValidPass(s, n), ValidAt(s), s, n) /\ Scans(SentPass(s, n), SentAt(s), s, n)
<1>0. n \in Nat
  OBVIOUS
<1>1. Scans(ValidPass(s, n), ValidAt(s), s, n)
  <2> DEFINE g == ValidPass(s, n)
  <2>1. PICK f : f = [i \in 0..n |-> Scanned(ValidAt(s), s, n, f, i)]
    BY ScanExists
  <2>2. \A i \in 0..n : Scanned(ValidAt(s), s, n, f, i) = ValidBody(s, n, f, i)
    BY <1>0, BodiesAre
  <2>3. f = [i \in 0..n |-> ValidBody(s, n, f, i)]
    BY <2>1, <2>2
  <2>4. g = [i \in 0..n |-> ValidBody(s, n, g, i)]
    BY <2>3 DEF ValidPass
  <2> HIDE DEF g
  <2>5. \A i \in 0..n : g[i] = ValidBody(s, n, g, i)
    BY <2>4
  <2>6. \A i \in 0..n : g[i] = Scanned(ValidAt(s), s, n, g, i)
    BY <1>0, <2>5, BodiesAre
  <2> QED
    BY <2>6, ScansIf DEF g
<1>2. Scans(SentPass(s, n), SentAt(s), s, n)
  <2> DEFINE g == SentPass(s, n)
  <2>1. PICK f : f = [i \in 0..n |-> Scanned(SentAt(s), s, n, f, i)]
    BY ScanExists
  <2>2. \A i \in 0..n : Scanned(SentAt(s), s, n, f, i) = SentBody(s, n, f, i)
    BY <1>0, BodiesAre
  <2>3. f = [i \in 0..n |-> SentBody(s, n, f, i)]
    BY <2>1, <2>2
  <2>4. g = [i \in 0..n |-> SentBody(s, n, g, i)]
    BY <2>3 DEF SentPass
  <2> HIDE DEF g
  <2>5. \A i \in 0..n : g[i] = SentBody(s, n, g, i)
    BY <2>4
  <2>6. \A i \in 0..n : g[i] = Scanned(SentAt(s), s, n, g, i)
    BY <1>0, <2>5, BodiesAre
  <2> QED
    BY <2>6, ScansIf DEF g
<1> QED
  BY <1>1, <1>2

----------------------------------------------------------------------------
(* A reader and the pass.                                                   *)

\* Once g bytes of s have been read, any pass over these or more has found fr
\* when it comes to offset a.
Found(s, fr, g, a) ==
  \A n \in g..Len(s) : \A f : Scans(f, ValidAt(s), s, n) => f[0] = fr \o f[a]

\* More bytes.
LEMMA FoundLater ==
  ASSUME NEW s \in Seq(Byte), NEW fr, NEW g \in Nat, NEW a, Found(s, fr, g, a),
         NEW h \in Nat, g =< h
  PROVE  Found(s, fr, h, a)
<1>1. \A n \in h..Len(s) : n \in g..Len(s)
  OBVIOUS
<1> QED
  BY <1>1 DEF Found

\* A header that is wrong is skipped.
LEMMA FoundNoHeader ==
  ASSUME NEW s \in Seq(Byte), NEW fr, NEW g \in Nat, NEW a \in Nat, Found(s, fr, g, a),
         NEW h \in Nat, g =< h, a + HeaderSize =< h,
         SubSeq(s, a + 1, a + HeaderSize) # kMsgHeader
  PROVE  Found(s, fr, h, a + HeaderSize)
<1> SUFFICES ASSUME NEW n \in h..Len(s), NEW f, Scans(f, ValidAt(s), s, n)
             PROVE  f[0] = fr \o f[a + HeaderSize]
  BY DEF Found
<1>1. n \in g..Len(s) /\ a \in 0..n /\ ~(a + HeaderSize > n)
  BY DEF HeaderSize
<1>2. f[a] = Scanned(ValidAt(s), s, n, f, a)
  BY <1>1 DEF Scans
<1>3. f[a] = f[a + HeaderSize]
  BY <1>1, <1>2 DEF Scanned
<1> QED
  BY <1>1, <1>3 DEF Found

\* So is a length that is not allowed.
LEMMA FoundNoLength ==
  ASSUME NEW s \in Seq(Byte), NEW fr, NEW g \in Nat, NEW a \in Nat, Found(s, fr, g, a),
         NEW h \in Nat, g =< h, a + DataPos =< h,
         SubSeq(s, a + 1, a + HeaderSize) = kMsgHeader, ~LengthAllowed(LengthAt(s, a))
  PROVE  Found(s, fr, h, a + DataPos)
<1> SUFFICES ASSUME NEW n \in h..Len(s), NEW f, Scans(f, ValidAt(s), s, n)
             PROVE  f[0] = fr \o f[a + DataPos]
  BY DEF Found
<1>1. n \in g..Len(s) /\ a \in 0..n /\ ~(a + HeaderSize > n) /\ ~(a + DataPos > n)
  BY DEF HeaderSize, DataPos
<1>2. f[a] = Scanned(ValidAt(s), s, n, f, a)
  BY <1>1 DEF Scans
<1>3. f[a] = f[a + DataPos]
  BY <1>1, <1>2 DEF Scanned
<1> QED
  BY <1>1, <1>3 DEF Found

LEMMA AppendThenConcat ==
  ASSUME NEW s \in Seq(Int), NEW a \in Int, NEW t \in Seq(Int)
  PROVE  Append(s, a) \o t = s \o (<<a>> \o t)
<1> DEFINE one == <<a>>
<1>1. one \in Seq(Int) /\ Append(s, a) = s \o one
  BY AppendIsConcat
<1> HIDE DEF one
<1>2. (s \o one) \o t = s \o (one \o t)
  BY <1>1, ConcatAssociative
<1>3. Append(s, a) \o t = s \o (one \o t)
  BY <1>1, <1>2
<1> QED
  BY <1>3 DEF one

\* A packet that is complete is found if it is valid, and skipped if not.
LEMMA FoundPacket ==
  ASSUME NEW s \in Seq(Byte), NEW fr \in Seq(Int), NEW g \in Nat, NEW a \in Nat,
         Found(s, fr, g, a), NEW h \in Nat, g =< h, a + DataPos =< h,
         SubSeq(s, a + 1, a + HeaderSize) = kMsgHeader, LengthAllowed(LengthAt(s, a)),
         LengthAt(s, a) \in Nat, a + LengthAt(s, a) =< h
  PROVE  Found(s, IF a \in ValidAt(s) THEN Append(fr, a) ELSE fr, h, a + LengthAt(s, a))
<1> DEFINE len == LengthAt(s, a)
           new == IF a \in ValidAt(s) THEN Append(fr, a) ELSE fr
<1> SUFFICES ASSUME NEW n \in h..Len(s), NEW f, Scans(f, ValidAt(s), s, n)
             PROVE  f[0] = new \o f[a + len]
  BY DEF Found
<1>1. /\ n \in g..Len(s) /\ a \in 0..n /\ ~(a + HeaderSize > n) /\ ~(a + DataPos > n)
      /\ ~(a + len > n) /\ a + len \in 0..n
  BY DEF HeaderSize, DataPos
<1>2. f[a] = Scanned(ValidAt(s), s, n, f, a) /\ f[a + len] \in Seq(Int)
  BY <1>1 DEF Scans
<1>3. f[a] = (IF a \in ValidAt(s) THEN <<a>> ELSE <<>>) \o f[a + len]
  BY <1>1, <1>2 DEF Scanned
<1>4. f[0] = fr \o f[a]
  BY <1>1 DEF Found
<1> DEFINE rest == f[a + len]
<1>5. rest \in Seq(Int) /\ f[a] = (IF a \in ValidAt(s) THEN <<a>> ELSE <<>>) \o rest
  BY <1>2, <1>3
<1> HIDE DEF rest
<1>6. CASE a \in ValidAt(s)
  <2>1. rest \in Seq(Int) /\ a \in Int
    BY <1>5
  <2>2. Append(fr, a) \o rest = fr \o (<<a>> \o rest)
    BY <2>1, AppendThenConcat
  <2> QED
    BY <1>4, <1>5, <1>6, <2>2 DEF rest
<1>7. CASE a \notin ValidAt(s)
  BY <1>4, <1>5, <1>7, ConcatEmptySeq DEF rest
<1> QED
  BY <1>6, <1>7

\* A pass finds nothing from an offset on where no packet is complete.
LEMMA NothingLeft ==
  ASSUME NEW s \in Seq(Byte), NEW n \in 0..Len(s), NEW f, Scans(f, ValidAt(s), s, n),
         NEW a \in 0..n,
         \/ a + HeaderSize > n
         \/ /\ SubSeq(s, a + 1, a + HeaderSize) = kMsgHeader
            /\ \/ a + DataPos > n
               \/ LengthAllowed(LengthAt(s, a)) /\ a + LengthAt(s, a) > n
  PROVE  f[a] = <<>>
<1>1. f[a] = Scanned(ValidAt(s), s, n, f, a)
  BY DEF Scans
<1> QED
  BY <1>1 DEF Scanned

\* Adjacent pieces of a stream.
LEMMA Adjacent ==
  ASSUME NEW s \in Seq(Byte), NEW a \in Nat, NEW g \in Nat, NEW h \in Nat,
         a =< g, g =< h, h =< Len(s)
  PROVE  /\ SubSeq(s, a + 1, g) \o SubSeq(s, g + 1, h) = SubSeq(s, a + 1, h)
         /\ SubSeq(s, a + 1, h) \in Seq(Byte) /\ Len(SubSeq(s, a + 1, h)) = h - a
<1>1. a + 1 \in 1..Len(s) + 1 /\ g \in (a + 1) - 1..Len(s) /\ h \in g..Len(s)
  OBVIOUS
<1>2. SubSeq(s, a + 1, g) \o SubSeq(s, g + 1, h) = SubSeq(s, a + 1, h)
  BY <1>1, ConcatAdjacentSubSeq
<1>3. \A i \in a + 1..h : s[i] \in Byte
  BY <1>1, ElementsAreIn
<1>4. /\ SubSeq(s, a + 1, h) \in Seq(Byte)
      /\ Len(SubSeq(s, a + 1, h)) = IF a + 1 =< h THEN h - (a + 1) + 1 ELSE 0
  BY <1>3, SubSeqProperties
<1> QED
  BY <1>2, <1>4

\* The length in a buffer that holds the first bytes of a packet.
LEMMA LengthRead ==
  ASSUME NEW s \in Seq(Byte), NEW a \in Nat, a + DataPos =< Len(s)
  PROVE  LengthOf(SubSeq(SubSeq(s, a + 1, a + DataPos), 5, 8)) = LengthAt(s, a)
<1>1. Len(s) \in Nat /\ a + DataPos \in Nat /\ a + DataPos \in 1..Len(s) /\ a + 1 \in 1..Len(s)
  BY DEF DataPos
<1>2. 5 \in 1..(a + DataPos) - (a + 1) + 1 /\ 8 \in 1..(a + DataPos) - (a + 1) + 1
  BY DEF DataPos
<1>3. SubSeq(SubSeq(s, a + 1, a + DataPos), 5, 8) = SubSeq(s, (a + 1) + 5 - 1, (a + 1) + 8 - 1)
  BY <1>1, <1>2, SubSeqOfSubSeq
<1>4. (a + 1) + 5 - 1 = a + 5 /\ (a + 1) + 8 - 1 = a + 8
  OBVIOUS
<1> QED
  BY <1>3, <1>4 DEF LengthAt

\* The header in it.
LEMMA HeaderRead ==
  ASSUME NEW s \in Seq(Byte), NEW a \in Nat, NEW h, a + HeaderSize =< h, h \in Nat, h =< Len(s)
  PROVE  SubSeq(SubSeq(s, a + 1, h), 1, HeaderSize) = SubSeq(s, a + 1, a + HeaderSize)
<1>1. Len(s) \in Nat /\ h \in 1..Len(s) /\ a + 1 \in 1..Len(s)
  BY DEF HeaderSize
<1>2. 1 \in 1..h - (a + 1) + 1 /\ HeaderSize \in 1..h - (a + 1) + 1
  BY DEF HeaderSize
<1>3. SubSeq(SubSeq(s, a + 1, h), 1, HeaderSize)
        = SubSeq(s, (a + 1) + 1 - 1, (a + 1) + HeaderSize - 1)
  BY <1>1, <1>2, SubSeqOfSubSeq
<1>4. (a + 1) + 1 - 1 = a + 1 /\ (a + 1) + HeaderSize - 1 = a + HeaderSize
  BY DEF HeaderSize
<1> QED
  BY <1>3, <1>4

\* Where the packet that is being read begins, and where the pass goes on: behind
\* a packet that has been returned and not dropped yet.
Start(r)  == got[r] - pos_[r]
ScanAt(r) == IF p_buf_[r] # Nil /\ remain_len_[r] = 0 THEN got[r] ELSE Start(r)

\* What has been collected is what the stream has there, and the pass over it
\* has found the packets returned.
Reading(r) ==
  /\ pos_[r] =< got[r]
  /\ p_buf_[r] = Nil =>
       SubSeq(header_buf_[r], 1, pos_[r]) = SubSeq(stream[r], Start(r) + 1, got[r])
  /\ pos_[r] >= HeaderSize =>
       SubSeq(stream[r], Start(r) + 1, Start(r) + HeaderSize) = kMsgHeader
  /\ p_buf_[r] # Nil =>
       /\ data[r] = SubSeq(stream[r], Start(r) + 1, got[r])
       /\ LengthAllowed(LengthAt(stream[r], Start(r)))
       /\ pos_[r] + remain_len_[r] = LengthAt(stream[r], Start(r))
  /\ Found(stream[r], frames[r], got[r], ScanAt(r))

LEMMA ReadingFrame ==
  ASSUME NEW r, Reading(r), PacketOf(r)' = PacketOf(r), stream'[r] = stream[r],
         frames'[r] = frames[r]
  PROVE  Reading(r)'
  BY DEF Reading, Start, ScanAt, PacketOf

LEMMA ReadingTypes ==
  ASSUME IInv, NEW r \in Reader
  PROVE  /\ stream[r] \in Seq(Byte) /\ Len(stream[r]) \in Nat
         /\ got[r] \in Nat /\ rx_len[r] \in Nat /\ pos_[r] \in Nat /\ remain_len_[r] \in Nat
         /\ got[r] + rx_len[r] =< Len(stream[r])
         /\ frames[r] \in Seq(Int)
         /\ Reading(r) => Start(r) \in Nat /\ Start(r) + pos_[r] = got[r]
<1>1. PacketTypes /\ PacketOK(r)
  BY DEF IInv, Packets
<1>2. stream[r] \in Seq(Byte)
  BY <1>1, StreamsAssumption DEF PacketTypes, Byte
<1>3. Len(stream[r]) \in Nat
  BY <1>2
<1>4. /\ got[r] \in Nat /\ rx_len[r] \in Nat /\ pos_[r] \in Nat /\ remain_len_[r] \in Nat
      /\ frames[r] \in Seq(Int)
  BY <1>1 DEF PacketTypes
<1>5. got[r] + rx_len[r] =< Len(stream[r])
  BY <1>1 DEF PacketOK
<1>6. Reading(r) => Start(r) \in Nat /\ Start(r) + pos_[r] = got[r]
  BY <1>4 DEF Reading, Start
<1> QED
  BY <1>2, <1>3, <1>4, <1>5, <1>6

\* The bytes an iteration adds are the next of the stream.
LEMMA HeaderCollected ==
  ASSUME IInv, NEW r \in Reader, Reading(r), p_buf_[r] = Nil, NEW n \in Nat
  PROVE  HeaderWith(r, n) = SubSeq(stream[r], Start(r) + 1, got[r] + Taken(r, n))
<1> DEFINE s == stream[r]
           h == got[r] + Taken(r, n)
<1>1. s \in Seq(Byte) /\ Start(r) \in Nat /\ got[r] \in Nat /\ Start(r) =< got[r]
  BY ReadingTypes
<1>2. h \in Nat /\ got[r] =< h /\ h =< Len(s)
  <2>1. Taken(r, n) \in Nat /\ Taken(r, n) =< rx_len[r]
    BY CopiedIs DEF IInv
  <2> QED
    BY <2>1, ReadingTypes
<1>3. HeaderWith(r, n) = SubSeq(s, Start(r) + 1, got[r]) \o SubSeq(s, got[r] + 1, h)
  BY DEF HeaderWith, Copied, Reading
<1> HIDE DEF s, h
<1>4. SubSeq(s, Start(r) + 1, got[r]) \o SubSeq(s, got[r] + 1, h) = SubSeq(s, Start(r) + 1, h)
  BY <1>1, <1>2, Adjacent
<1> QED
  BY <1>3, <1>4 DEF s, h

LEMMA DataCollected ==
  ASSUME IInv, NEW r \in Reader, Reading(r), p_buf_[r] # Nil
  PROVE  DataWith(r) = SubSeq(stream[r], Start(r) + 1, got[r] + Taken(r, remain_len_[r]))
<1> DEFINE s == stream[r]
           h == got[r] + Taken(r, remain_len_[r])
<1>1. s \in Seq(Byte) /\ Start(r) \in Nat /\ got[r] \in Nat /\ Start(r) =< got[r]
  BY ReadingTypes
<1>2. h \in Nat /\ got[r] =< h /\ h =< Len(s)
  <2>1. /\ Taken(r, remain_len_[r]) \in Nat /\ Taken(r, remain_len_[r]) =< rx_len[r]
    BY CopiedIs, ReadingTypes DEF IInv
  <2> QED
    BY <2>1, ReadingTypes
<1>3. SubSeq(data[r], 1, pos_[r]) = data[r]
  <2>1. data[r] \in Seq(Byte) /\ Len(data[r]) = pos_[r]
    BY DEF IInv, Packets, PacketTypes, PacketOK
  <2>2. SubSeq(data[r], 1, Len(data[r])) = data[r]
    BY <2>1, SubSeqFull
  <2> QED
    BY <2>1, <2>2
<1>4. DataWith(r) = SubSeq(s, Start(r) + 1, got[r]) \o SubSeq(s, got[r] + 1, h)
  BY <1>3 DEF DataWith, Copied, Reading
<1> HIDE DEF s, h
<1>5. SubSeq(s, Start(r) + 1, got[r]) \o SubSeq(s, got[r] + 1, h) = SubSeq(s, Start(r) + 1, h)
  BY <1>1, <1>2, Adjacent
<1> QED
  BY <1>4, <1>5 DEF s, h

\* A packet is dropped, and the next begins with the bytes not read yet.
LEMMA ReadingDropped ==
  ASSUME IInv, NEW r \in Reader, Reset(r), UNCHANGED <<stream, frames, held>>,
         got'[r] \in Nat, Found(stream[r], frames[r], got'[r], got'[r])
  PROVE  Reading(r)'
<1>1. pos_'[r] = 0 /\ remain_len_'[r] = 0 /\ p_buf_'[r] = Nil
  <2>1. PacketTypes /\ p_buf_' = [p_buf_ EXCEPT ![r] = Nil]
    BY ResetFrees DEF IInv, Packets
  <2> QED
    BY <2>1 DEF Reset, PacketTypes
<1>2. Start(r)' = got'[r] /\ ScanAt(r)' = got'[r]
  BY <1>1 DEF Start, ScanAt
<1>3. SubSeq(header_buf_'[r], 1, 0) = <<>> /\ SubSeq(stream'[r], got'[r] + 1, got'[r]) = <<>>
  BY SubSeqEmpty
<1>4. 0 =< got'[r] /\ ~(0 >= HeaderSize)
  BY DEF HeaderSize
<1> QED
  BY <1>1, <1>2, <1>3, <1>4 DEF Reading

\* More of a header or of a length is read.
LEMMA ReadingAdvances ==
  ASSUME IInv, NEW r \in Reader, Reading(r), p_buf_[r] = Nil, NEW n \in Nat,
         header_buf_' = [header_buf_ EXCEPT ![r] = HeaderWith(r, n)],
         Consume(r, n), Advance(r, n), UNCHANGED <<remain_len_, p_buf_, stream, frames>>,
         pos_[r] + Taken(r, n) >= HeaderSize =>
           SubSeq(stream[r], Start(r) + 1, Start(r) + HeaderSize) = kMsgHeader
  PROVE  Reading(r)'
<1> DEFINE h == HeaderWith(r, n)
           k == Taken(r, n)
<1>1. PacketTypes /\ Packets
  BY DEF IInv, Packets
<1>2. k \in Nat /\ got'[r] = got[r] + k /\ got'[r] \in Nat
  BY <1>1, CopiedIs, ConsumeIs
<1>3. pos_'[r] = pos_[r] + k
  BY <1>1 DEF Advance, PacketTypes
<1>4. /\ h = SubSeq(stream[r], Start(r) + 1, got[r] + k)
      /\ h \in Seq(Byte) /\ Len(h) = pos_[r] + k
  BY <1>1, HeaderCollected, HeaderIs
<1>5. header_buf_'[r] = h
  BY <1>1 DEF PacketTypes
<1> HIDE DEF h, k
<1>6. /\ Start(r) \in Nat /\ Start(r) + pos_[r] = got[r] /\ got[r] \in Nat /\ pos_[r] \in Nat
      /\ stream[r] \in Seq(Byte)
  BY ReadingTypes
<1>7. Start(r)' = Start(r) /\ pos_'[r] =< got'[r] /\ got[r] =< got'[r]
  BY <1>2, <1>3, <1>6 DEF Start
<1>8. ScanAt(r)' = Start(r) /\ ScanAt(r) = Start(r)
  BY <1>7 DEF ScanAt
<1>9. Found(stream[r], frames[r], got'[r], Start(r))
  BY <1>2, <1>6, <1>7, <1>8, FoundLater DEF Reading
<1>10. SubSeq(h, 1, pos_'[r]) = h
  BY <1>3, <1>4, SubSeqFull
<1>11. SubSeq(header_buf_'[r], 1, pos_'[r]) = SubSeq(stream[r], Start(r) + 1, got'[r])
  BY <1>2, <1>4, <1>5, <1>10
<1>12. pos_'[r] >= HeaderSize =>
         SubSeq(stream[r], Start(r) + 1, Start(r) + HeaderSize) = kMsgHeader
  BY <1>3 DEF k
<1>13. stream' = stream /\ frames' = frames /\ p_buf_'[r] = Nil
  OBVIOUS
<1> QED
  BY <1>7, <1>8, <1>9, <1>11, <1>12, <1>13 DEF Reading

\* The header is complete, and right or not.
LEMMA ReadHeaderReads ==
  ASSUME IInv, NEW r \in Reader, Reading(r), ReadHeader(r)
  PROVE  Reading(r)'
<1> DEFINE n == HeaderSize - pos_[r]
           h == HeaderWith(r, n)
           s == stream[r]
<1>0. /\ header_buf_' = [header_buf_ EXCEPT ![r] = h] /\ Consume(r, n)
      /\ pos_[r] < HeaderSize /\ UNCHANGED <<stream, frames, held>>
      /\ IF Len(h) = HeaderSize /\ h # kMsgHeader
         THEN Reset(r)
         ELSE Advance(r, n) /\ UNCHANGED <<len_, remain_len_, p_buf_, data, debugVars>>
  BY DEF ReadHeader
<1>1. /\ s \in Seq(Byte) /\ pos_[r] \in Nat /\ got[r] \in Nat /\ frames[r] \in Seq(Int)
      /\ Start(r) \in Nat /\ Start(r) + pos_[r] = got[r]
  BY ReadingTypes
<1>2. n \in Nat /\ pos_[r] + n = HeaderSize
  BY <1>0, <1>1 DEF HeaderSize
<1>3. p_buf_[r] = Nil
  BY <1>0, <1>1 DEF IInv, Packets, PacketOK, HeaderSize, DataPos
<1> HIDE DEF n
<1> DEFINE k == Taken(r, n)
<1>4. /\ h = SubSeq(s, Start(r) + 1, got[r] + k) /\ Len(h) = pos_[r] + k
      /\ k \in Nat /\ k =< n /\ got'[r] = got[r] + k
  BY <1>0, <1>2, <1>3, HeaderCollected, HeaderIs, CopiedIs, ConsumeIs DEF IInv
<1> HIDE DEF h, k, s
<1>k. k \in Nat /\ k =< n
  BY <1>4
<1>5. ASSUME pos_[r] + k >= HeaderSize
      PROVE  /\ Len(h) = HeaderSize /\ got'[r] = Start(r) + HeaderSize
             /\ h = SubSeq(s, Start(r) + 1, Start(r) + HeaderSize)
  <2>1. pos_[r] + k = HeaderSize /\ got[r] + k = Start(r) + HeaderSize
    BY <1>1, <1>2, <1>5, <1>k DEF HeaderSize
  <2> QED
    BY <1>4, <2>1
<1>6. CASE Len(h) = HeaderSize /\ h # kMsgHeader
  <2>1. /\ got'[r] = Start(r) + HeaderSize
        /\ SubSeq(s, Start(r) + 1, Start(r) + HeaderSize) # kMsgHeader
    <3>1. pos_[r] + k >= HeaderSize
      <4>1. pos_[r] + k = HeaderSize
        BY <1>4, <1>6
      <4> QED
        BY <4>1 DEF HeaderSize
    <3> QED
      BY <1>5, <1>6, <3>1
  <2>2. Found(s, frames[r], got[r], Start(r))
    BY <1>3 DEF Reading, ScanAt, s
  <2>3. got'[r] \in Nat /\ got[r] =< got'[r] /\ Start(r) + HeaderSize =< got'[r]
    <3>1. got'[r] = got[r] + k
      BY <1>4
    <3>2. got'[r] \in Nat /\ got[r] =< got'[r]
      BY <1>1, <1>k, <3>1
    <3> QED
      BY <2>1, <3>2
  <2>4. Found(s, frames[r], got'[r], got'[r])
    <3>1. Found(s, frames[r], got'[r], Start(r) + HeaderSize)
      BY <1>1, <2>1, <2>2, <2>3, FoundNoHeader
    <3> QED
      BY <2>1, <3>1
  <2> QED
    BY <1>0, <1>6, <2>3, <2>4, ReadingDropped DEF s
<1>7. CASE ~(Len(h) = HeaderSize /\ h # kMsgHeader)
  <2>1. Advance(r, n) /\ UNCHANGED <<remain_len_, p_buf_, stream, frames>>
    BY <1>0, <1>7
  <2>2. pos_[r] + Taken(r, n) >= HeaderSize =>
          SubSeq(stream[r], Start(r) + 1, Start(r) + HeaderSize) = kMsgHeader
    <3>1. pos_[r] + k >= HeaderSize => SubSeq(s, Start(r) + 1, Start(r) + HeaderSize) = kMsgHeader
      BY <1>5, <1>7
    <3> QED
      BY <3>1 DEF k, s
  <2> QED
    BY <1>0, <1>2, <1>3, <2>1, <2>2, ReadingAdvances DEF h
<1> QED
  BY <1>6, <1>7

\* The length is complete, and allowed or not.
LEMMA ReadLengthReads ==
  ASSUME IInv, NEW r \in Reader, Reading(r), ReadLength(r)
  PROVE  Reading(r)'
<1> DEFINE n == DataPos - pos_[r]
           h == HeaderWith(r, n)
           s == stream[r]
           msg_len == LengthOf(SubSeq(h, 5, 8))
<1>0. /\ header_buf_' = [header_buf_ EXCEPT ![r] = h] /\ Consume(r, n)
      /\ pos_[r] >= HeaderSize /\ pos_[r] < DataPos /\ UNCHANGED <<stream, frames, held>>
  BY DEF ReadLength
<1>s. \/ Advance(r, n) /\ UNCHANGED <<len_, remain_len_, p_buf_, data, debugVars>>
      \/ Len(h) = DataPos /\ ~LengthAllowed(msg_len) /\ Reset(r)
      \/ /\ Len(h) = DataPos /\ LengthAllowed(msg_len)
         /\ \E b \in Block : p_buf_' = [p_buf_ EXCEPT ![r] = b]
         /\ remain_len_' = [remain_len_ EXCEPT ![r] = msg_len - DataPos]
         /\ data' = [data EXCEPT ![r] = h]
         /\ Advance(r, n)
  BY DEF ReadLength
<1>1. /\ s \in Seq(Byte) /\ pos_[r] \in Nat /\ got[r] \in Nat /\ frames[r] \in Seq(Int)
      /\ Start(r) \in Nat /\ Start(r) + pos_[r] = got[r]
      /\ rx_len[r] \in Nat /\ Len(s) \in Nat /\ got[r] + rx_len[r] =< Len(s)
  BY ReadingTypes
<1>2. n \in Nat /\ pos_[r] + n = DataPos
  BY <1>0, <1>1 DEF DataPos
<1>3. p_buf_[r] = Nil
  BY <1>0, <1>1 DEF IInv, Packets, PacketOK, DataPos
<1>h. SubSeq(s, Start(r) + 1, Start(r) + HeaderSize) = kMsgHeader
  BY <1>0 DEF Reading
<1>f. Found(s, frames[r], got[r], Start(r))
  BY <1>3 DEF Reading, ScanAt
<1> HIDE DEF n
<1> DEFINE k == Taken(r, n)
<1>4. /\ h = SubSeq(s, Start(r) + 1, got[r] + k) /\ Len(h) = pos_[r] + k
      /\ k \in Nat /\ k =< rx_len[r] /\ got'[r] = got[r] + k
  BY <1>0, <1>2, <1>3, HeaderCollected, HeaderIs, CopiedIs, ConsumeIs DEF IInv
<1> HIDE DEF h, k, s
<1>k. k \in Nat /\ k =< rx_len[r] /\ got'[r] = got[r] + k
  BY <1>4
<1>5. got'[r] \in Nat /\ got[r] =< got'[r] /\ got'[r] =< Len(s)
  BY <1>1, <1>k
<1>6. ASSUME Len(h) = DataPos
      PROVE  /\ got'[r] = Start(r) + DataPos
             /\ h = SubSeq(s, Start(r) + 1, Start(r) + DataPos)
             /\ msg_len = LengthAt(s, Start(r))
  <2>1. got[r] + k = Start(r) + DataPos
    <3>1. pos_[r] + k = DataPos
      BY <1>4, <1>6
    <3> QED
      BY <1>1, <1>k, <3>1
  <2>2. h = SubSeq(s, Start(r) + 1, Start(r) + DataPos) /\ Start(r) + DataPos =< Len(s)
    BY <1>4, <1>5, <2>1
  <2>3. msg_len = LengthAt(s, Start(r))
    BY <1>1, <2>2, LengthRead
  <2> QED
    BY <1>4, <2>1, <2>2, <2>3
<1> HIDE DEF msg_len
<1>7. CASE Advance(r, n) /\ UNCHANGED <<len_, remain_len_, p_buf_, data, debugVars>>
  <2>1. UNCHANGED <<remain_len_, p_buf_, stream, frames>> /\ Advance(r, n)
    BY <1>0, <1>7
  <2>2. SubSeq(stream[r], Start(r) + 1, Start(r) + HeaderSize) = kMsgHeader
    BY <1>h DEF s
  <2> QED
    BY <1>0, <1>2, <1>3, <2>1, <2>2, ReadingAdvances DEF h
<1>8. CASE Len(h) = DataPos /\ ~LengthAllowed(msg_len) /\ Reset(r)
  <2>1. got'[r] = Start(r) + DataPos /\ ~LengthAllowed(LengthAt(s, Start(r)))
    BY <1>6, <1>8
  <2>2. Found(s, frames[r], got'[r], Start(r) + DataPos)
    <3>1. Start(r) + DataPos =< got'[r]
      BY <1>5, <2>1
    <3> QED
      BY <1>1, <1>5, <1>f, <1>h, <2>1, <3>1, FoundNoLength
  <2>3. Found(stream[r], frames[r], got'[r], got'[r])
    BY <2>1, <2>2 DEF s
  <2> QED
    BY <1>0, <1>5, <1>8, <2>3, ReadingDropped
<1>9. ASSUME Len(h) = DataPos, LengthAllowed(msg_len),
             NEW b \in Block, p_buf_' = [p_buf_ EXCEPT ![r] = b],
             remain_len_' = [remain_len_ EXCEPT ![r] = msg_len - DataPos],
             data' = [data EXCEPT ![r] = h], Advance(r, n)
      PROVE  Reading(r)'
  <2>1. PacketTypes
    BY DEF IInv, Packets
  <2>2. /\ pos_'[r] = pos_[r] + k /\ p_buf_'[r] = b /\ remain_len_'[r] = msg_len - DataPos
        /\ data'[r] = h /\ b # Nil
    BY <1>9, <2>1, ReadersAre DEF PacketTypes, Advance, k
  <2>3. pos_'[r] = DataPos
    BY <1>4, <1>9, <2>2
  <2>4. /\ h = SubSeq(s, Start(r) + 1, got'[r]) /\ msg_len = LengthAt(s, Start(r))
        /\ got'[r] = Start(r) + DataPos /\ Start(r) + DataPos =< Len(s)
    BY <1>5, <1>6, <1>9
  <2>5. msg_len \in Nat
    BY <1>1, <2>4, LengthAtIsNat
  <2>6. /\ Start(r)' = Start(r) /\ pos_'[r] =< got'[r]
        /\ remain_len_'[r] # 0 /\ pos_'[r] + remain_len_'[r] = msg_len
    <3>1. /\ pos_'[r] = DataPos /\ got'[r] = Start(r) + DataPos
          /\ remain_len_'[r] = msg_len - DataPos /\ msg_len >= MinLength
      BY <1>9, <2>2, <2>3, <2>4 DEF LengthAllowed
    <3>2. Start(r)' = Start(r) /\ pos_'[r] =< got'[r]
      <4>1. Start(r)' = got'[r] - pos_'[r]
        BY DEF Start
      <4> QED
        BY <1>1, <3>1, <4>1 DEF DataPos
    <3> QED
      BY <2>5, <3>1, <3>2 DEF DataPos, MinLength
  <2>7. ScanAt(r)' = Start(r)
    BY <2>2, <2>6 DEF ScanAt
  <2>8. Found(s, frames[r], got'[r], Start(r))
    BY <1>1, <1>5, <1>f, FoundLater
  <2>9. stream'[r] = s /\ frames'[r] = frames[r]
    BY <1>0 DEF s
  <2>10. LengthAllowed(LengthAt(s, Start(r)))
    BY <1>9, <2>4
  <2> QED
    BY <1>h, <2>2, <2>4, <2>6, <2>7, <2>8, <2>9, <2>10 DEF Reading
<1> QED
  BY <1>7, <1>8, <1>9, <1>s

\* More of the data is read.
LEMMA ReadDataPartReads ==
  ASSUME IInv, NEW r \in Reader, Reading(r), ReadDataPart(r)
  PROVE  Reading(r)'
<1> DEFINE n == remain_len_[r]
           k == Taken(r, n)
           d == DataWith(r)
           s == stream[r]
<1>0. /\ data' = [data EXCEPT ![r] = d] /\ Consume(r, n) /\ Advance(r, n)
      /\ remain_len_' = [remain_len_ EXCEPT ![r] = n - rx_len[r]]
      /\ pos_[r] >= DataPos /\ n > rx_len[r]
      /\ UNCHANGED <<p_buf_, stream, frames>>
  BY DEF ReadDataPart
<1>1. /\ s \in Seq(Byte) /\ pos_[r] \in Nat /\ got[r] \in Nat /\ n \in Nat /\ rx_len[r] \in Nat
      /\ Start(r) \in Nat /\ Start(r) + pos_[r] = got[r]
  BY ReadingTypes
<1>2. p_buf_[r] # Nil
  BY <1>0, HasBuffer
<1>3. d = SubSeq(s, Start(r) + 1, got[r] + k) /\ got'[r] = got[r] + k /\ k = rx_len[r]
  <2>1. got'[r] = got[r] + k /\ d = SubSeq(s, Start(r) + 1, got[r] + k)
    BY <1>0, <1>1, <1>2, DataCollected, ConsumeIs DEF IInv
  <2>2. k = rx_len[r]
    BY <1>0, <1>1 DEF Taken, LeastOf
  <2> QED
    BY <2>1, <2>2
<1>4. pos_'[r] = pos_[r] + k /\ remain_len_'[r] = n - rx_len[r] /\ data'[r] = d
  BY <1>0 DEF Advance, IInv, Packets, PacketTypes
<1>5. /\ SubSeq(s, Start(r) + 1, Start(r) + HeaderSize) = kMsgHeader
      /\ LengthAllowed(LengthAt(s, Start(r))) /\ pos_[r] + n = LengthAt(s, Start(r))
      /\ Found(s, frames[r], got[r], Start(r))
  <2>1. pos_[r] >= HeaderSize /\ n # 0
    BY <1>0, <1>1 DEF HeaderSize, DataPos
  <2> QED
    BY <1>2, <2>1 DEF Reading, ScanAt
<1> HIDE DEF n, k, d, s
<1>6. /\ Start(r)' = Start(r) /\ pos_'[r] =< got'[r] /\ got[r] =< got'[r] /\ got'[r] \in Nat
      /\ remain_len_'[r] # 0 /\ pos_'[r] + remain_len_'[r] = pos_[r] + n
  <2>1. Start(r)' = got'[r] - pos_'[r]
    BY DEF Start
  <2>2. got'[r] = got[r] + rx_len[r] /\ pos_'[r] = pos_[r] + rx_len[r]
    BY <1>3, <1>4
  <2>3. /\ Start(r)' = Start(r) /\ pos_'[r] =< got'[r] /\ got[r] =< got'[r]
        /\ got'[r] \in Nat
    BY <1>1, <2>1, <2>2
  <2>4. remain_len_'[r] = n - rx_len[r] /\ n > rx_len[r]
    BY <1>0, <1>4
  <2>5. remain_len_'[r] # 0 /\ pos_'[r] + remain_len_'[r] = pos_[r] + n
    BY <1>1, <2>2, <2>4
  <2> QED
    BY <2>3, <2>5
<1>7. ScanAt(r)' = Start(r)
  BY <1>6 DEF ScanAt
<1>8. Found(s, frames[r], got'[r], Start(r))
  BY <1>1, <1>5, <1>6, FoundLater
<1>9. stream'[r] = s /\ frames'[r] = frames[r] /\ p_buf_'[r] # Nil
  BY <1>0, <1>2 DEF s
<1>10. data'[r] = SubSeq(s, Start(r) + 1, got'[r])
  BY <1>3, <1>4
<1>11. pos_'[r] + remain_len_'[r] = LengthAt(s, Start(r))
  BY <1>5, <1>6
<1> QED
  BY <1>5, <1>6, <1>7, <1>8, <1>9, <1>10, <1>11 DEF Reading

\* The packet is complete: the pass finds it if it is valid.
LEMMA PacketComplete ==
  ASSUME IInv, NEW r \in Reader, Reading(r), pos_[r] >= DataPos,
         remain_len_[r] \in 1..rx_len[r]
  PROVE  LET h == got[r] + remain_len_[r] IN
         /\ h \in Nat /\ Taken(r, remain_len_[r]) = remain_len_[r]
         /\ DataWith(r) = SubSeq(stream[r], Start(r) + 1, h)
         /\ SubSeq(stream[r], Start(r) + 1, Start(r) + HeaderSize) = kMsgHeader
         /\ LengthAllowed(LengthAt(stream[r], Start(r)))
         /\ h = Start(r) + LengthAt(stream[r], Start(r))
         /\ Found(stream[r], IF IsDmPacketValid(DataWith(r)) THEN Append(frames[r], Start(r))
                             ELSE frames[r], h, h)
<1> DEFINE n == remain_len_[r]
           h == got[r] + n
           s == stream[r]
           len == LengthAt(s, Start(r))
<1>1. /\ s \in Seq(Byte) /\ pos_[r] \in Nat /\ got[r] \in Nat /\ n \in Nat /\ rx_len[r] \in Nat
      /\ Start(r) \in Nat /\ Start(r) + pos_[r] = got[r] /\ frames[r] \in Seq(Int)
  BY ReadingTypes
<1>2. p_buf_[r] # Nil
  BY HasBuffer
<1>3. Taken(r, n) = n
  BY <1>1 DEF Taken, LeastOf
<1>4. DataWith(r) = SubSeq(s, Start(r) + 1, h)
  BY <1>2, <1>3, DataCollected
<1>5. /\ SubSeq(s, Start(r) + 1, Start(r) + HeaderSize) = kMsgHeader
      /\ LengthAllowed(len) /\ pos_[r] + n = len
      /\ Found(s, frames[r], got[r], Start(r))
  <2>1. pos_[r] >= HeaderSize /\ n # 0
    BY <1>1 DEF HeaderSize, DataPos
  <2> QED
    BY <1>2, <2>1 DEF Reading, ScanAt
<1>6. /\ h \in Nat /\ got[r] =< h /\ h = Start(r) + len /\ Start(r) + DataPos =< h
      /\ len \in Nat
  <2>1. len = pos_[r] + n
    BY <1>5
  <2> HIDE DEF len
  <2>2. h \in Nat /\ got[r] =< h /\ h = Start(r) + len /\ len \in Nat
    BY <1>1, <2>1
  <2>3. Start(r) + DataPos =< h
    BY <1>1 DEF DataPos
  <2> QED
    BY <2>2, <2>3
<1>7. Start(r) \in ValidAt(s) <=> IsDmPacketValid(DataWith(r))
  <2>1. DataWith(r) = SubSeq(s, Start(r) + 1, Start(r) + LengthAt(s, Start(r)))
    BY <1>4, <1>6
  <2> QED
    BY <1>1, <2>1 DEF ValidAt
<1> HIDE DEF n, h, s
<1>8. Found(s, IF Start(r) \in ValidAt(s) THEN Append(frames[r], Start(r)) ELSE frames[r],
            h, Start(r) + len)
  <2>1. Start(r) + len =< h
    BY <1>6
  <2> QED
    BY <1>1, <1>5, <1>6, <2>1, FoundPacket
<1>9. Found(s, IF IsDmPacketValid(DataWith(r)) THEN Append(frames[r], Start(r)) ELSE frames[r],
            h, h)
  BY <1>6, <1>7, <1>8
<1> HIDE DEF len
<1> QED
  BY <1>3, <1>4, <1>5, <1>6, <1>9 DEF n, h, s, len

LEMMA ReturnPacketReads ==
  ASSUME IInv, NEW r \in Reader, Reading(r), ReturnPacket(r)
  PROVE  Reading(r)'
<1> DEFINE n == remain_len_[r]
           d == DataWith(r)
           h == got[r] + n
           s == stream[r]
           len == LengthAt(s, Start(r))
<1>0. /\ data' = [data EXCEPT ![r] = d] /\ Advance(r, n)
      /\ got' = [got EXCEPT ![r] = h]
      /\ remain_len_' = [remain_len_ EXCEPT ![r] = 0]
      /\ frames' = [frames EXCEPT ![r] = Append(frames[r], Start(r))]
      /\ pos_[r] >= DataPos /\ n \in 1..rx_len[r] /\ IsDmPacketValid(d)
      /\ UNCHANGED <<p_buf_, stream>>
  BY DEF ReturnPacket, Start
<1>1. /\ pos_[r] \in Nat /\ got[r] \in Nat /\ n \in Nat
      /\ Start(r) \in Nat /\ Start(r) + pos_[r] = got[r]
  BY ReadingTypes
<1>2. p_buf_[r] # Nil
  BY <1>0, HasBuffer
<1>3. /\ h \in Nat /\ Taken(r, n) = n /\ d = SubSeq(s, Start(r) + 1, h)
      /\ SubSeq(s, Start(r) + 1, Start(r) + HeaderSize) = kMsgHeader
      /\ LengthAllowed(len) /\ h = Start(r) + len
      /\ Found(s, Append(frames[r], Start(r)), h, h)
  BY <1>0, PacketComplete
<1>4. PacketTypes
  BY DEF IInv, Packets
<1> HIDE DEF d, s, len
<1>5. /\ pos_'[r] = pos_[r] + n /\ got'[r] = h /\ remain_len_'[r] = 0 /\ data'[r] = d
      /\ frames'[r] = Append(frames[r], Start(r))
  BY <1>0, <1>3, <1>4 DEF Advance, PacketTypes
<1>6. /\ Start(r)' = Start(r) /\ pos_'[r] =< got'[r] /\ pos_'[r] + remain_len_'[r] = len
  <2>1. Start(r)' = h - (pos_[r] + n)
    BY <1>5 DEF Start
  <2>2. Start(r)' = Start(r) /\ pos_[r] + n =< h
    BY <1>1, <2>1
  <2>3. pos_[r] + n + 0 = len
    <3>1. Start(r) + len = Start(r) + (pos_[r] + n)
      BY <1>1, <1>3
    <3>2. len \in Int
      <4>1. len = pos_[r] + remain_len_[r]
        BY <1>2 DEF Reading, len, s
      <4> QED
        BY <1>1, <4>1
    <3> QED
      BY <1>1, <3>1, <3>2
  <2> QED
    BY <1>5, <2>2, <2>3
<1> HIDE DEF n, h
<1>7. stream'[r] = s /\ p_buf_'[r] # Nil
  BY <1>0, <1>2 DEF s
<1>8. ScanAt(r)' = h
  BY <1>5, <1>7 DEF ScanAt
<1>9. LengthAllowed(LengthAt(s, Start(r))) /\ pos_'[r] + remain_len_'[r] = LengthAt(s, Start(r))
  BY <1>3, <1>6 DEF len
<1> QED
  BY <1>3, <1>5, <1>6, <1>7, <1>8, <1>9 DEF Reading

\* The packet is dropped: damaged, or returned by an earlier call.
LEMMA DropPacketReads ==
  ASSUME IInv, NEW r \in Reader, Reading(r), DropPacket(r) \/ ReadNext(r) \/ CallerResets(r)
  PROVE  Reading(r)'
<1>1. CASE DropPacket(r)
  <2>1. /\ Consume(r, remain_len_[r]) /\ Reset(r) /\ UNCHANGED <<stream, frames, held>>
        /\ pos_[r] >= DataPos /\ remain_len_[r] \in 1..rx_len[r] /\ ~IsDmPacketValid(DataWith(r))
    BY <1>1 DEF DropPacket
  <2>2. /\ got[r] + remain_len_[r] \in Nat /\ Taken(r, remain_len_[r]) = remain_len_[r]
        /\ Found(stream[r], frames[r], got[r] + remain_len_[r], got[r] + remain_len_[r])
    BY <2>1, PacketComplete
  <2>3. remain_len_[r] \in Nat
    BY ReadingTypes
  <2>4. got'[r] = got[r] + remain_len_[r]
    BY <2>1, <2>2, <2>3, ConsumeIs DEF IInv
  <2> QED
    BY <2>1, <2>2, <2>4, ReadingDropped
<1>2. CASE ReadNext(r) \/ CallerResets(r)
  <2>1. /\ Reset(r) /\ UNCHANGED <<stream, got, frames, held>>
        /\ pos_[r] >= DataPos /\ remain_len_[r] = 0
    BY <1>2 DEF ReadNext, CallerResets
  <2>2. Found(stream[r], frames[r], got[r], got[r])
    BY <2>1, HasBuffer DEF Reading, ScanAt
  <2>3. got'[r] = got[r] /\ got'[r] \in Nat
    BY <2>1, ReadingTypes
  <2> QED
    BY <2>1, <2>2, <2>3, ReadingDropped
<1> QED
  BY <1>1, <1>2

\* What stands before any step: the pass has found nothing.
LEMMA ReadingInit == Init => \A r \in Reader : Reading(r)
<1> SUFFICES ASSUME Init, NEW r \in Reader PROVE Reading(r)
  OBVIOUS
<1>1. /\ got[r] = 0 /\ pos_[r] = 0 /\ remain_len_[r] = 0 /\ p_buf_[r] = Nil
      /\ frames[r] = <<>> /\ stream[r] \in Seq(Byte)
  BY StreamsAssumption DEF Init, Byte
<1>2. Start(r) = 0 /\ ScanAt(r) = 0
  BY <1>1 DEF Start, ScanAt
<1>3. SubSeq(header_buf_[r], 1, 0) = <<>> /\ SubSeq(stream[r], 0 + 1, 0) = <<>>
  BY SubSeqEmpty
<1>4. Found(stream[r], <<>>, 0, 0)
  <2> SUFFICES ASSUME NEW n \in 0..Len(stream[r]), NEW f,
                      Scans(f, ValidAt(stream[r]), stream[r], n)
               PROVE  f[0] = <<>> \o f[0]
    BY DEF Found
  <2>1. n \in Nat
    OBVIOUS
  <2>2. f[0] \in Seq(Int)
    BY <2>1 DEF Scans
  <2> QED
    BY <2>2, ConcatEmptySeq
<1>5. ~(0 >= HeaderSize) /\ 0 =< 0
  BY DEF HeaderSize
<1> QED
  BY <1>1, <1>2, <1>3, <1>4, <1>5 DEF Reading

LEMMA ReadingStep ==
  ASSUME IInv, [Next]_vars, NEW r \in Reader, Reading(r)
  PROVE  Reading(r)'
<1>1. CASE UNCHANGED reader
  BY <1>1, ReadingFrame DEF reader, packet, PacketOf
<1>2. ASSUME NEW q \in Reader,
             \/ ReaderStep(q) \/ CallerResets(q)
             \/ \E n \in ReadSize : DmPacketRead(q, n)
      PROVE  Reading(r)'
  <2>1. CASE q # r
    BY <1>2, <2>1, OtherReaders, ReadingFrame DEF IInv, Packets
  <2>2. CASE q = r /\ (ReaderStep(r) \/ CallerResets(r))
    BY <2>2, ReadHeaderReads, ReadLengthReads, ReadDataPartReads, ReturnPacketReads,
       DropPacketReads DEF ReaderStep
  <2>3. ASSUME q = r, NEW n \in ReadSize, DmPacketRead(r, n)
        PROVE  Reading(r)'
    BY <2>3, ReadingFrame DEF DmPacketRead, packet, PacketOf
  <2> QED
    BY <1>2, <2>1, <2>2, <2>3
<1>3. \/ UNCHANGED reader
      \/ \E q \in Reader : \/ ReaderStep(q) \/ CallerResets(q)
                           \/ \E n \in ReadSize : DmPacketRead(q, n)
  BY DEF Next, OtherNew, OtherDelete, AllocatorStep, AtExit, vars, reader, packet
<1> QED
  BY <1>1, <1>2, <1>3

\* So the packets returned are those of the pass over the bytes read.
LEMMA PassFound ==
  ASSUME IInv, NEW r \in Reader, Reading(r), NEW f,
         Scans(f, ValidAt(stream[r]), stream[r], got[r])
  PROVE  f[0] = frames[r]
<1> DEFINE s == stream[r]
           g == got[r]
           a == Start(r)
<1>1. /\ s \in Seq(Byte) /\ g \in Nat /\ g \in 0..Len(s) /\ pos_[r] \in Nat
      /\ remain_len_[r] \in Nat /\ a \in Nat /\ a + pos_[r] = g /\ a \in 0..g
      /\ frames[r] \in Seq(Int)
  BY ReadingTypes
<1>2. f[0] = frames[r] \o f[ScanAt(r)]
  <2>1. g \in g..Len(s)
    BY <1>1
  <2> QED
    BY <2>1 DEF Reading, Found
<1>3. f[ScanAt(r)] = <<>>
  <2>1. CASE p_buf_[r] # Nil /\ remain_len_[r] = 0
    <3>1. ScanAt(r) = g
      BY <2>1 DEF ScanAt
    <3>2. g \in 0..g /\ g + HeaderSize > g
      BY <1>1 DEF HeaderSize
    <3> HIDE DEF s, g
    <3>3. Scans(f, ValidAt(s), s, g)
      BY DEF s, g
    <3> QED
      BY <1>1, <3>1, <3>2, <3>3, NothingLeft
  <2>2. CASE ~(p_buf_[r] # Nil /\ remain_len_[r] = 0)
    <3>1. ScanAt(r) = a
      BY <2>2 DEF ScanAt
    <3>2. CASE pos_[r] < HeaderSize
      <4>1. a + HeaderSize > g
        BY <1>1, <3>2 DEF HeaderSize
      <4> HIDE DEF s, g, a
      <4>2. Scans(f, ValidAt(s), s, g)
        BY DEF s, g
      <4> QED
        BY <1>1, <3>1, <4>1, <4>2, NothingLeft
    <3>3. CASE pos_[r] >= HeaderSize
      <4>1. SubSeq(s, a + 1, a + HeaderSize) = kMsgHeader
        BY <3>3 DEF Reading
      <4>2. \/ a + DataPos > g
            \/ LengthAllowed(LengthAt(s, a)) /\ a + LengthAt(s, a) > g
        <5>1. CASE p_buf_[r] = Nil
          <6>1. pos_[r] < DataPos
            BY <5>1 DEF IInv, Packets, PacketOK
          <6> QED
            BY <1>1, <6>1 DEF DataPos
        <5>2. CASE p_buf_[r] # Nil
          <6>1. /\ LengthAllowed(LengthAt(s, a)) /\ pos_[r] + remain_len_[r] = LengthAt(s, a)
                /\ remain_len_[r] # 0
            BY <2>2, <5>2 DEF Reading
          <6>2. a + (pos_[r] + remain_len_[r]) > g
            BY <1>1, <6>1
          <6> QED
            BY <6>1, <6>2
        <5> QED
          BY <5>1, <5>2
      <4> HIDE DEF s, g, a
      <4>3. Scans(f, ValidAt(s), s, g)
        BY DEF s, g
      <4> QED
        BY <1>1, <3>1, <4>1, <4>2, <4>3, NothingLeft
    <3> QED
      BY <1>1, <3>2, <3>3 DEF HeaderSize
  <2> QED
    BY <2>1, <2>2
<1> QED
  BY <1>1, <1>2, <1>3, ConcatEmptySeq

\* The check of a packet accepts what a sender made, and nothing else of the
\* length and with the header of a packet that a stream holds anywhere: each
\* damage changes the CRC or breaks the tail.
Detected ==
  \A s \in Stream : \A i \in 0..Len(s) - MinLength :
    /\ SubSeq(s, i + 1, i + HeaderSize) = kMsgHeader
    /\ LengthAllowed(LengthAt(s, i)) /\ i + LengthAt(s, i) =< Len(s)
    => LET p == SubSeq(s, i + 1, i + LengthAt(s, i)) IN
       IsDmPacketValid(p) <=> p \in Sent

LEMMA SentIsValid ==
  ASSUME Detected, NEW s \in Stream, s \in Seq(Byte), NEW n \in 0..Len(s), NEW f,
         Scans(f, SentAt(s), s, n)
  PROVE  Scans(f, ValidAt(s), s, n)
<1> SUFFICES ASSUME NEW i \in 0..n
             PROVE  f[i] \in Seq(Int) /\ f[i] = Scanned(ValidAt(s), s, n, f, i)
  BY DEF Scans
<1>1. f[i] \in Seq(Int) /\ f[i] = Scanned(SentAt(s), s, n, f, i)
  BY DEF Scans
<1>2. ASSUME ~(i + HeaderSize > n), SubSeq(s, i + 1, i + HeaderSize) = kMsgHeader,
             ~(i + DataPos > n), LengthAllowed(LengthAt(s, i)), ~(i + LengthAt(s, i) > n)
      PROVE  i \in SentAt(s) <=> i \in ValidAt(s)
  <2>1. Len(s) \in Nat /\ i \in Nat /\ n \in Nat /\ n =< Len(s)
    OBVIOUS
  <2>2. LengthAt(s, i) \in Nat /\ LengthAt(s, i) >= MinLength
    <3>1. i + DataPos =< Len(s)
      BY <1>2, <2>1 DEF DataPos
    <3> QED
      BY <1>2, <2>1, <3>1, LengthAtIsNat DEF LengthAllowed
  <2>3. i \in 0..Len(s) - MinLength /\ i + LengthAt(s, i) =< Len(s)
    BY <1>2, <2>1, <2>2 DEF MinLength
  <2>4. IsDmPacketValid(SubSeq(s, i + 1, i + LengthAt(s, i)))
          <=> SubSeq(s, i + 1, i + LengthAt(s, i)) \in Sent
    BY <1>2, <2>3 DEF Detected
  <2> QED
    BY <2>1, <2>4 DEF SentAt, ValidAt
<1>3. Scanned(SentAt(s), s, n, f, i) = Scanned(ValidAt(s), s, n, f, i)
  BY <1>2 DEF Scanned
<1> QED
  BY <1>1, <1>3

LEMMA AlwaysReading == Spec => [](IInv /\ \A r \in Reader : Reading(r))
<1> DEFINE R == \A r \in Reader : Reading(r)
<1>1. Init => R
  BY ReadingInit
<1>2. IInv /\ R /\ [Next]_vars => R'
  BY ReadingStep
<1> HIDE DEF R
<1>3. Spec => [](IInv /\ R)
  BY <1>1, <1>2, AlwaysIInv, PTL DEF Spec
<1> QED
  BY <1>3 DEF R

\* However the stream is cut into reads, whatever the other threads do with
\* the allocator meanwhile, and whether or not the caller resets a packet it has
\* been given, DmPacketRead returns the packets that one pass over the uncut
\* stream finds valid, in their order.
THEOREM CutsAreIrrelevant == Spec => []CutsDoNotMatter
<1>1. IInv /\ (\A r \in Reader : Reading(r)) => CutsDoNotMatter
  <2> SUFFICES ASSUME IInv, NEW r \in Reader, Reading(r)
               PROVE  frames[r] = PacketsIn(IsDmPacketValid, stream[r], got[r])
    BY DEF CutsDoNotMatter
  <2>1. stream[r] \in Seq(Byte) /\ got[r] \in 0..Len(stream[r])
    BY ReadingTypes
  <2>2. ValidPass(stream[r], got[r])[0] = frames[r]
    BY <2>1, PassScans, PassFound
  <2> QED
    BY <2>2, PacketsInIs
<1> QED
  BY <1>1, AlwaysReading, PTL

\* They are the packets the senders made, those that came through undamaged,
\* if the CRC and the tail tell these from the others.
THEOREM IntactPacketsReturned ==
  ASSUME Detected
  PROVE  Spec => []SamePackets
<1>1. IInv /\ (\A r \in Reader : Reading(r)) => SamePackets
  <2> SUFFICES ASSUME IInv, NEW r \in Reader, Reading(r)
               PROVE  frames[r] = PacketsIn(LAMBDA p : p \in Sent, stream[r], got[r])
    BY DEF SamePackets
  <2>1. stream[r] \in Seq(Byte) /\ got[r] \in 0..Len(stream[r]) /\ stream[r] \in Stream
    BY ReadingTypes DEF IInv, Packets, PacketTypes
  <2>2. Scans(SentPass(stream[r], got[r]), ValidAt(stream[r]), stream[r], got[r])
    BY <2>1, PassScans, SentIsValid
  <2>3. SentPass(stream[r], got[r])[0] = frames[r]
    BY <2>2, PassFound
  <2> QED
    BY <2>3, PacketsInIs
<1> QED
  BY <1>1, AlwaysReading, PTL
====
