--------------------------- MODULE SequenceLemmas ---------------------------
(* Facts about the sequence operators the models are built from, for        *)
(* sequences without repetitions: the queue of a lock, the folders by age.  *)
(* And the least of a set of positions, which a search from the front finds. *)
EXTENDS Integers, Sequences, SequencesExt, WellFoundedInduction, TLAPS

\* RemoveAt leaves the other elements, in their order.
LEMMA RemoveAtShifts ==
    ASSUME NEW S, NEW s \in Seq(S), NEW k \in 1..Len(s)
    PROVE  /\ RemoveAt(s, k) \in Seq(S)
           /\ Len(RemoveAt(s, k)) = Len(s) - 1
           /\ \A i \in 1..(Len(s) - 1) : RemoveAt(s, k)[i] = s[IF i < k THEN i ELSE i + 1]
<1> DEFINE front == SubSeq(s, 1, k - 1)
           back == SubSeq(s, k + 1, Len(s))
<1>1. front \in Seq(S) /\ Len(front) = k - 1 /\ \A i \in 1..(k - 1) : front[i] = s[i]
  OBVIOUS
<1>2. back \in Seq(S) /\ Len(back) = Len(s) - k /\ \A i \in 1..(Len(s) - k) : back[i] = s[k + i]
  OBVIOUS
<1> HIDE DEF front, back
<1>3. front \o back \in Seq(S) /\ Len(front \o back) = Len(s) - 1
  BY <1>1, <1>2
<1>4. ASSUME NEW i \in 1..(Len(s) - 1)
      PROVE  (front \o back)[i] = s[IF i < k THEN i ELSE i + 1]
  <2>1. CASE i < k
    BY <1>1, <1>2, <2>1
  <2>2. CASE ~(i < k)
    <3>1. i - (k - 1) \in 1..(Len(s) - k) /\ k + (i - (k - 1)) = i + 1
      BY <2>2
    <3>2. (front \o back)[i] = back[i - (k - 1)]
      BY <1>1, <1>2, <2>2
    <3> QED
      BY <1>2, <2>2, <3>1, <3>2
  <2> QED
    BY <2>1, <2>2
<1> QED
  BY <1>3, <1>4 DEF RemoveAt, front, back

\* RemoveFirst takes one element out and keeps the order of the others, so
\* that whoever was at the head stays there.
LEMMA RemoveFirstKeeps ==
    ASSUME NEW S, NEW s \in Seq(S), IsInjective(s), NEW e
    PROVE  /\ RemoveFirst(s, e) \in Seq(S)
           /\ IsInjective(RemoveFirst(s, e))
           /\ \A i \in 1..Len(RemoveFirst(s, e)) :
                 /\ RemoveFirst(s, e)[i] # e
                 /\ \E j \in 1..Len(s) : RemoveFirst(s, e)[i] = s[j]
           /\ s # <<>> /\ Head(s) # e =>
                 RemoveFirst(s, e) # <<>> /\ Head(RemoveFirst(s, e)) = Head(s)
           /\ Len(RemoveFirst(s, e)) = IF \E i \in 1..Len(s) : s[i] = e THEN Len(s) - 1 ELSE Len(s)
<1>1. CASE \E i \in 1..Len(s) : s[i] = e
  <2>1. PICK k \in 1..Len(s) : s[k] = e
    BY <1>1
  <2> DEFINE r == RemoveAt(s, k)
  <2>2. RemoveFirst(s, e) = r
    <3>1. {i \in 1..Len(s) : s[i] = e} = {k}
      BY <2>1 DEF IsInjective
    <3>2. Min({k}) = k
      BY DEF Min
    <3> QED
      BY <1>1, <3>1, <3>2 DEF RemoveFirst, SelectInSeq
  <2>3. /\ r \in Seq(S) /\ Len(r) = Len(s) - 1
        /\ \A i \in 1..(Len(s) - 1) : r[i] = s[IF i < k THEN i ELSE i + 1]
    BY RemoveAtShifts
  <2> HIDE DEF r
  <2>4. IsInjective(r)
    <3>1. SUFFICES ASSUME NEW a \in 1..(Len(s) - 1), NEW b \in 1..(Len(s) - 1), r[a] = r[b]
                   PROVE  a = b
      BY <2>3 DEF IsInjective
    <3> DEFINE place(i) == IF i < k THEN i ELSE i + 1
    <3>2. place(a) \in 1..Len(s) /\ place(b) \in 1..Len(s)
      OBVIOUS
    <3>3. s[place(a)] = s[place(b)]
      BY <2>3, <3>1
    <3>4. place(a) = place(b)
      BY <3>2, <3>3 DEF IsInjective
    <3> QED
      BY <3>4
  <2>5. ASSUME NEW i \in 1..Len(r)
        PROVE  r[i] # e /\ \E j \in 1..Len(s) : r[i] = s[j]
    BY <2>1, <2>3 DEF IsInjective
  <2>6. ASSUME s # <<>>, Head(s) # e
        PROVE  r # <<>> /\ Head(r) = Head(s)
    <3>1. k # 1 /\ Len(s) >= 2
      BY <2>1, <2>6
    <3> QED
      BY <2>3, <3>1
  <2> QED
    BY <1>1, <2>2, <2>3, <2>4, <2>5, <2>6
<1>2. CASE ~ \E i \in 1..Len(s) : s[i] = e
  <2>1. RemoveFirst(s, e) = s
    BY <1>2 DEF RemoveFirst
  <2> QED
    BY <1>2, <2>1
<1> QED
  BY <1>1, <1>2

\* RemoveFirst takes out nothing else.
LEMMA RemoveFirstHas ==
    ASSUME NEW S, NEW s \in Seq(S), IsInjective(s), NEW e
    PROVE  /\ \A j \in 1..Len(s) : s[j] # e => \E i \in 1..Len(RemoveFirst(s, e)) : RemoveFirst(s, e)[i] = s[j]
           /\ \A i \in 1..Len(RemoveFirst(s, e)) :
                 RemoveFirst(s, e)[i] # e /\ \E j \in 1..Len(s) : RemoveFirst(s, e)[i] = s[j]
<1>1. CASE \E i \in 1..Len(s) : s[i] = e
  <2>1. PICK k \in 1..Len(s) : s[k] = e
    BY <1>1
  <2> DEFINE r == RemoveAt(s, k)
  <2>2. RemoveFirst(s, e) = r
    <3>1. {i \in 1..Len(s) : s[i] = e} = {k}
      BY <2>1 DEF IsInjective
    <3>2. Min({k}) = k
      BY DEF Min
    <3> QED
      BY <1>1, <3>1, <3>2 DEF RemoveFirst, SelectInSeq
  <2>3. /\ r \in Seq(S) /\ Len(r) = Len(s) - 1
        /\ \A i \in 1..(Len(s) - 1) : r[i] = s[IF i < k THEN i ELSE i + 1]
    BY RemoveAtShifts
  <2> HIDE DEF r
  <2>4. ASSUME NEW j \in 1..Len(s), s[j] # e
        PROVE  \E i \in 1..Len(r) : r[i] = s[j]
    <3>1. CASE j < k
      BY <2>3, <3>1
    <3>2. CASE j > k
      <4>1. j - 1 \in 1..(Len(s) - 1) /\ ~(j - 1 < k) /\ (j - 1) + 1 = j
        BY <3>2
      <4> QED
        BY <2>3, <4>1
    <3> QED
      BY <2>1, <2>4, <3>1, <3>2
  <2>5. \A i \in 1..Len(r) : r[i] # e /\ \E j \in 1..Len(s) : r[i] = s[j]
    BY <2>2, RemoveFirstKeeps
  <2> QED
    BY <2>2, <2>4, <2>5, Zenon
<1>2. CASE ~ \E i \in 1..Len(s) : s[i] = e
  <2>1. RemoveFirst(s, e) = s
    BY <1>2 DEF RemoveFirst
  <2> QED
    BY <1>2, <2>1, Zenon
<1> QED
  BY <1>1, <1>2

\* Append adds the one element.
LEMMA AppendHas ==
    ASSUME NEW S, NEW s \in Seq(S), NEW e \in S
    PROVE  \A m : (\E i \in 1..Len(Append(s, e)) : Append(s, e)[i] = m)
                    <=> m = e \/ \E i \in 1..Len(s) : s[i] = m
<1>1. /\ Len(Append(s, e)) = Len(s) + 1 /\ Append(s, e)[Len(s) + 1] = e
      /\ \A i \in 1..Len(s) : Append(s, e)[i] = s[i]
  OBVIOUS
<1>2. Len(s) \in Nat
  OBVIOUS
<1> DEFINE a == Append(s, e)
<1> HIDE DEF a
<1> QED
  BY <1>1, <1>2

\* Appending a newcomer repeats nothing and does not move the head.
LEMMA AppendKeeps ==
    ASSUME NEW S, NEW s \in Seq(S), IsInjective(s), NEW e \in S,
           \A i \in 1..Len(s) : s[i] # e
    PROVE  /\ Append(s, e) \in Seq(S)
           /\ IsInjective(Append(s, e))
           /\ Append(s, e) # <<>>
           /\ s # <<>> => Head(Append(s, e)) = Head(s)
           /\ s = <<>> => Head(Append(s, e)) = e
           /\ Len(Append(s, e)) = Len(s) + 1
           /\ \A i \in 1..Len(Append(s, e)) :
                 Append(s, e)[i] = e \/ \E j \in 1..Len(s) : Append(s, e)[i] = s[j]
<1>1. /\ Append(s, e) \in Seq(S) /\ Len(Append(s, e)) = Len(s) + 1
      /\ \A i \in 1..Len(s) : Append(s, e)[i] = s[i]
      /\ Append(s, e)[Len(s) + 1] = e
  OBVIOUS
<1>2. IsInjective(Append(s, e))
  BY <1>1 DEF IsInjective
<1>3. \A i \in 1..Len(Append(s, e)) :
        Append(s, e)[i] = e \/ \E j \in 1..Len(s) : Append(s, e)[i] = s[j]
  BY <1>1
<1>4. Append(s, e) # <<>>
  BY <1>1
<1>5. s # <<>> => Head(Append(s, e)) = Head(s)
  BY <1>1, <1>4
<1>6. s = <<>> => Head(Append(s, e)) = e
  BY <1>1, <1>4
<1> QED
  BY <1>1, <1>2, <1>3, <1>4, <1>5, <1>6

\* What is left behind the head.
LEMMA TailKeeps ==
    ASSUME NEW S, NEW s \in Seq(S), IsInjective(s), s # <<>>
    PROVE  /\ Tail(s) \in Seq(S)
           /\ IsInjective(Tail(s))
           /\ Len(Tail(s)) = Len(s) - 1
           /\ \A i \in 1..Len(Tail(s)) :
                 Tail(s)[i] # Head(s) /\ \E j \in 1..Len(s) : Tail(s)[i] = s[j]
<1>1. /\ Tail(s) \in Seq(S) /\ Len(Tail(s)) = Len(s) - 1
      /\ \A i \in 1..(Len(s) - 1) : Tail(s)[i] = s[i + 1]
      /\ Head(s) = s[1] /\ Len(s) >= 1
  OBVIOUS
<1> QED
  BY <1>1 DEF IsInjective

\* Whatever is not the head is in the tail.
LEMMA TailReaches ==
    ASSUME NEW S, NEW s \in Seq(S), s # <<>>
    PROVE  \A i \in 1..Len(s) : s[i] = Head(s) \/ \E j \in 1..Len(Tail(s)) : Tail(s)[j] = s[i]
<1>1. /\ Len(Tail(s)) = Len(s) - 1 /\ \A j \in 1..(Len(s) - 1) : Tail(s)[j] = s[j + 1]
      /\ Head(s) = s[1]
  OBVIOUS
<1> SUFFICES ASSUME NEW i \in 1..Len(s), i # 1
             PROVE  \E j \in 1..Len(Tail(s)) : Tail(s)[j] = s[i]
  BY <1>1
<1>2. i - 1 \in 1..(Len(s) - 1) /\ (i - 1) + 1 = i
  OBVIOUS
<1> QED
  BY <1>1, <1>2

\* A search from the front stops somewhere: a set of positions has a first one.
LEMMA LeastNat ==
    ASSUME NEW T, T \subseteq Nat, T # {}
    PROVE  \E m \in T : \A k \in T : m <= k
<1>1. PICK m \in T : \A k \in T : ~(<<k, m>> \in OpToRel(<, Nat))
  BY NatLessThanWellFounded, WFMin
<1>2. \A k \in Nat : k < m => <<k, m>> \in OpToRel(<, Nat)
  BY DEF OpToRel
<1>3. \A k \in T : ~(k < m)
  BY <1>1, <1>2, Zenon
<1>4. \A k \in T : m <= k
  BY <1>3
<1> QED
  BY <1>4
============================================================================
