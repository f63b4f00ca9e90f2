-------------------------- MODULE ReportingProofs --------------------------
(* Proofs about the event registry as the sessions and the callers of its  *)
(* API use it, and about the interfaces that are fed by it, for any tests, *)
(* workers, bounds and number of calls.                                    *)
EXTENDS Reporting, FiniteSetTheorems, FunctionTheorems, SequenceLemmas

-----------------------------------------------------------------------------
(* Facts about the operators. *)

\* What retain computes, handler by handler.
Kept(s, h, kept) ==
    kept = [i \in 0..Len(s) |->
              IF i = 0 THEN <<>> ELSE IF s[i] = h THEN kept[i - 1] ELSE Append(kept[i - 1], s[i])]

\* The function behind retain exists: its values are found one after the other.
LEMMA RetainUnfolds ==
    ASSUME NEW S, NEW s \in Seq(S), NEW h
    PROVE  \E kept : Kept(s, h, kept)
<1> DEFINE Is(m, f) == f = [i \in 0..m |-> IF i = 0 THEN <<>>
                                           ELSE IF s[i] = h THEN f[i - 1] ELSE Append(f[i - 1], s[i])]
           Bad == {m \in Nat : ~ \E f : Is(m, f)}
<1>1. ASSUME Bad # {}
      PROVE  FALSE
  <2>1. PICK m \in Bad : \A k \in Bad : m <= k
    BY <1>1, LeastNat
  <2>2. m # 0
    <3> DEFINE f == [i \in 0..0 |-> <<>>]
    <3>1. Is(0, f)
      OBVIOUS
    <3> QED
      BY <3>1
  <2>3. m \in Nat /\ ~ \E f : Is(m, f)
    BY <2>1
  <2>4. PICK g : Is(m - 1, g)
    <3> HIDE DEF Is
    <3>1. m - 1 \in Nat /\ ~(m <= m - 1)
      BY <2>2, <2>3
    <3> QED
      BY <2>1, <3>1
  <2> DEFINE f == [i \in 0..m |-> IF i = m THEN (IF s[i] = h THEN g[i - 1] ELSE Append(g[i - 1], s[i]))
                                  ELSE g[i]]
  <2>5. \A i \in 0..(m - 1) : g[i] = IF i = 0 THEN <<>>
                                     ELSE IF s[i] = h THEN g[i - 1] ELSE Append(g[i - 1], s[i])
    BY <2>4
  <2>f. /\ \A i \in 0..(m - 1) : f[i] = g[i]
        /\ f[m] = IF s[m] = h THEN g[m - 1] ELSE Append(g[m - 1], s[m])
    BY <2>3
  <2>6. \A i \in 0..m : f[i] = IF i = 0 THEN <<>>
                               ELSE IF s[i] = h THEN f[i - 1] ELSE Append(f[i - 1], s[i])
    <3> HIDE DEF f
    <3> SUFFICES ASSUME NEW i \in 0..m
                 PROVE  f[i] = IF i = 0 THEN <<>> ELSE IF s[i] = h THEN f[i - 1] ELSE Append(f[i - 1], s[i])
      OBVIOUS
    <3>1. CASE i = m
      <4>1. m - 1 \in 0..(m - 1)
        BY <2>2, <2>3
      <4> QED
        BY <2>2, <2>f, <3>1, <4>1
    <3>2. CASE i = 0
      BY <2>2, <2>3, <2>5, <2>f, <3>2
    <3>3. CASE i # m /\ i # 0
      <4>1. i \in 0..(m - 1) /\ i - 1 \in 0..(m - 1)
        BY <2>3, <3>3
      <4>2. f[i] = g[i] /\ f[i - 1] = g[i - 1]
        BY <2>f, <4>1
      <4> QED
        BY <2>5, <3>3, <4>1, <4>2
    <3> QED
      BY <3>1, <3>2, <3>3
  <2>7. Is(m, f)
    BY <2>6
  <2> QED
    BY <2>3, <2>7
<1>2. Len(s) \in Nat
  OBVIOUS
<1>3. PICK f : Is(Len(s), f)
  BY <1>1, <1>2
<1>4. Kept(s, h, f)
  BY <1>3 DEF Kept
<1> QED
  BY <1>4

\* retain gives handlers that were there.
LEMMA RetainTyped ==
    ASSUME NEW S, NEW s \in Seq(S), NEW h
    PROVE  retain(s, h) \in Seq(S)
<1> DEFINE kept[i \in 0..Len(s)] ==
              IF i = 0 THEN <<>> ELSE IF s[i] = h THEN kept[i - 1] ELSE Append(kept[i - 1], s[i])
<1>1. kept = [i \in 0..Len(s) |->
                IF i = 0 THEN <<>> ELSE IF s[i] = h THEN kept[i - 1] ELSE Append(kept[i - 1], s[i])]
  <2>1. \E k : Kept(s, h, k)
    BY RetainUnfolds
  <2> QED
    BY <2>1, Zenon DEF Kept
<1>2. retain(s, h) = kept[Len(s)]
  BY DEF retain
<1> HIDE DEF kept
<1> DEFINE Bad == {m \in Nat : m <= Len(s) /\ kept[m] \notin Seq(S)}
<1>3. ASSUME Bad # {}
      PROVE  FALSE
  <2>1. PICK m \in Bad : \A k \in Bad : m <= k
    BY <1>3, LeastNat
  <2>2. m \in 0..Len(s)
    BY <2>1
  <2>3. m # 0
    <3>1. kept[0] = <<>>
      BY <1>1
    <3>2. <<>> \in Seq(S)
      OBVIOUS
    <3> QED
      BY <2>1, <3>1, <3>2
  <2>4. m - 1 \in Nat /\ m - 1 \notin Bad
    BY <2>1, <2>3
  <2>5. kept[m - 1] \in Seq(S)
    BY <2>2, <2>4
  <2>6. kept[m] = IF s[m] = h THEN kept[m - 1] ELSE Append(kept[m - 1], s[m])
    BY <1>1, <2>2, <2>3
  <2>7. s[m] \in S
    BY <2>2, <2>3
  <2>8. kept[m] \in Seq(S)
    BY <2>5, <2>6, <2>7
  <2> QED
    BY <2>1, <2>8
<1>4. Len(s) \in Nat
  OBVIOUS
<1> QED
  BY <1>2, <1>3, <1>4

\* s has the entries of t, each as often, in some order.
PermOf(s, t) == \E b \in Bijection(1..Len(s), 1..Len(t)) : \A i \in 1..Len(s) : s[i] = t[b[i]]

\* A sequence is a permutation of itself.
LEMMA PermSelf ==
    ASSUME NEW S, NEW s \in Seq(S)
    PROVE  PermOf(s, s)
<1> DEFINE b == [i \in 1..Len(s) |-> i]
<1>1. b \in Bijection(1..Len(s), 1..Len(s))
  BY DEF Bijection, Injection, Surjection, IsInjective
<1>2. \A i \in 1..Len(s) : s[i] = s[b[i]]
  OBVIOUS
<1> HIDE DEF b
<1> QED
  BY <1>1, <1>2 DEF PermOf

\* How often h is in s.
Times(s, h) == Cardinality({i \in 1..Len(s) : s[i] = h})

\* A permutation has every entry as often.
LEMMA PermCounts ==
    ASSUME NEW S, NEW s \in Seq(S), NEW t \in Seq(S), PermOf(s, t), NEW h
    PROVE  Times(s, h) = Times(t, h)
<1> DEFINE A == {i \in 1..Len(s) : s[i] = h}
           B == {i \in 1..Len(t) : t[i] = h}
<1>1. PICK b \in Bijection(1..Len(s), 1..Len(t)) : \A i \in 1..Len(s) : s[i] = t[b[i]]
  BY DEF PermOf
<1>2. /\ b \in [1..Len(s) -> 1..Len(t)]
      /\ \A i, j \in 1..Len(s) : b[i] = b[j] => i = j
      /\ \A j \in 1..Len(t) : \E i \in 1..Len(s) : b[i] = j
  BY <1>1 DEF Bijection, Injection, Surjection, IsInjective
<1> DEFINE f == [i \in A |-> b[i]]
<1>3. f \in [A -> B]
  BY <1>1, <1>2
<1>4. ASSUME NEW j \in B
      PROVE  \E i \in A : f[i] = j
  <2>1. PICK i \in 1..Len(s) : b[i] = j
    BY <1>2
  <2>2. s[i] = h
    BY <1>1, <2>1
  <2> QED
    BY <2>1, <2>2
<1>5. f \in Bijection(A, B)
  BY <1>2, <1>3, <1>4 DEF Bijection, Injection, Surjection, IsInjective
<1>6. IsFiniteSet(A)
  <2>1. A \in SUBSET (1..Len(s)) /\ 1 \in Int /\ Len(s) \in Int
    OBVIOUS
  <2>2. IsFiniteSet(1..Len(s))
    BY <2>1, FS_Interval
  <2> HIDE DEF A
  <2> QED
    BY <2>1, <2>2, FS_Subset
<1> HIDE DEF A, B, f
<1>7. ExistsBijection(A, B)
  BY <1>5 DEF ExistsBijection
<1>8. Cardinality(B) = Cardinality(A)
  BY <1>6, <1>7, FS_Bijection
<1> QED
  BY <1>8 DEF A, B, Times

Moved(r, t, k) == Append(r, t[k]) \o RemoveAt(t, k)

\* A handler that ends moves from those that run to those that have ended.
LEMMA PermMoves ==
    ASSUME NEW S, NEW r \in Seq(S), NEW t \in Seq(S), NEW k \in 1..Len(t), NEW hs \in Seq(S),
           PermOf(r \o t, hs)
    PROVE  /\ Moved(r, t, k) \in Seq(S)
           /\ PermOf(Moved(r, t, k), hs)
           /\ k = 1 => Moved(r, t, k) = r \o t
<1> DEFINE R == Len(r)
           n == Len(r) + Len(t)
           a == r \o t
           rest == RemoveAt(t, k)
           head == Append(r, t[k])
           z == head \o rest
<1>1. R \in Nat /\ Len(t) \in Nat /\ t[k] \in S
  OBVIOUS
<1>2. a \in Seq(S) /\ Len(a) = n /\ \A j \in 1..n : a[j] = IF j <= R THEN r[j] ELSE t[j - R]
  OBVIOUS
<1>3. /\ rest \in Seq(S) /\ Len(rest) = Len(t) - 1
      /\ \A i \in 1..(Len(t) - 1) : rest[i] = t[IF i < k THEN i ELSE i + 1]
  BY RemoveAtShifts
<1>4. head \in Seq(S) /\ Len(head) = R + 1 /\ \A j \in 1..(R + 1) : head[j] = IF j <= R THEN r[j] ELSE t[k]
  OBVIOUS
<1> HIDE DEF rest, head, a
<1>5. z \in Seq(S) /\ Len(z) = n /\ \A j \in 1..n : z[j] = IF j <= R + 1 THEN head[j] ELSE rest[j - (R + 1)]
  <2>1. /\ z \in Seq(S) /\ Len(z) = Len(head) + Len(rest)
        /\ \A j \in 1..(Len(head) + Len(rest)) : z[j] = IF j <= Len(head) THEN head[j] ELSE rest[j - Len(head)]
    <3>1. head \in Seq(S) /\ rest \in Seq(S)
      BY <1>3, <1>4
    <3> QED
      BY <3>1
  <2>2. Len(head) + Len(rest) = n
    BY <1>1, <1>3, <1>4
  <2> QED
    BY <1>4, <2>1, <2>2
<1> HIDE DEF z
<1> DEFINE place(j) == IF j <= R THEN j ELSE IF j = R + 1 THEN R + k ELSE IF j <= R + k THEN j - 1 ELSE j
           c == [j \in 1..n |-> place(j)]
<1>6. ASSUME NEW j \in 1..n
      PROVE  c[j] \in 1..n /\ z[j] = a[c[j]]
  <2>1. CASE j <= R
    <3>1. j \in 1..(R + 1) /\ j <= R + 1 /\ c[j] = j
      BY <1>1, <2>1
    <3>2. z[j] = head[j] /\ head[j] = r[j] /\ a[j] = r[j]
      <4> HIDE DEF c
      <4> QED
        BY <1>2, <1>4, <1>5, <2>1, <3>1
    <3> QED
      BY <3>1, <3>2
  <2>2. CASE j = R + 1
    <3>1. z[j] = t[k]
      <4>1. j \in 1..(R + 1) /\ j <= R + 1 /\ ~(j <= R)
        BY <1>1, <2>2
      <4> HIDE DEF c, n
      <4>2. z[j] = head[j]
        BY <1>5, <4>1
      <4>3. head[j] = t[k]
        BY <1>4, <4>1
      <4> QED
        BY <4>2, <4>3
    <3>2. c[j] = R + k /\ R + k \in 1..n /\ ~(R + k <= R) /\ (R + k) - R = k
      BY <1>1, <2>2
    <3>3. a[R + k] = t[k]
      BY <1>1, <1>2, <3>2
    <3> QED
      BY <3>1, <3>2, <3>3
  <2>3. CASE j > R + 1 /\ j <= R + k
    <3>1. j - (R + 1) \in 1..(Len(t) - 1) /\ j - (R + 1) < k
      BY <1>1, <2>3
    <3>2. z[j] = t[j - (R + 1)]
      <4> DEFINE i == j - (R + 1)
      <4>1. ~(j <= R + 1)
        BY <1>1, <2>3
      <4>2. z[j] = rest[i]
        BY <1>5, <4>1
      <4> HIDE DEF i
      <4>3. rest[i] = t[i]
        BY <1>3, <3>1 DEF i
      <4> QED
        BY <4>2, <4>3 DEF i
    <3>3. c[j] = j - 1 /\ j - 1 \in 1..n /\ ~(j - 1 <= R) /\ (j - 1) - R = j - (R + 1)
      BY <1>1, <2>3
    <3> QED
      BY <1>2, <3>2, <3>3
  <2>4. CASE j > R + k
    <3>1. j > R + 1 /\ j - (R + 1) \in 1..(Len(t) - 1) /\ ~(j - (R + 1) < k) /\ j - (R + 1) + 1 = j - R
      BY <1>1, <2>4
    <3>2. z[j] = t[j - R]
      <4> DEFINE i == j - (R + 1)
      <4>1. ~(j <= R + 1)
        BY <1>1, <3>1
      <4>2. z[j] = rest[i]
        BY <1>5, <4>1
      <4> HIDE DEF i
      <4>3. rest[i] = t[i + 1]
        BY <1>3, <3>1 DEF i
      <4> QED
        BY <3>1, <4>2, <4>3 DEF i
    <3>3. c[j] = j /\ ~(j <= R)
      BY <1>1, <2>4, <3>1
    <3> QED
      BY <1>2, <3>2, <3>3
  <2> QED
    BY <1>1, <2>1, <2>2, <2>3, <2>4
<1>7. \A i, j \in 1..n : c[i] = c[j] => i = j
  BY <1>1
<1>8. ASSUME NEW m \in 1..n
      PROVE  \E j \in 1..n : c[j] = m
  <2>1. CASE m <= R
    BY <2>1
  <2>2. CASE m = R + k
    <3>1. R + 1 \in 1..n /\ c[R + 1] = m
      BY <1>1, <2>2
    <3> QED
      BY <3>1
  <2>3. CASE m > R /\ m < R + k
    <3>1. m + 1 \in 1..n /\ c[m + 1] = m
      BY <1>1, <2>3
    <3> QED
      BY <3>1
  <2>4. CASE m > R + k
    <3>1. c[m] = m
      BY <1>1, <2>4
    <3> QED
      BY <3>1
  <2> QED
    BY <1>1, <2>1, <2>2, <2>3, <2>4
<1> HIDE DEF c, n
<1>9. PICK b \in Bijection(1..n, 1..Len(hs)) : \A i \in 1..n : a[i] = hs[b[i]]
  BY <1>2 DEF PermOf, a
<1>10. /\ b \in [1..n -> 1..Len(hs)]
       /\ \A i, j \in 1..n : b[i] = b[j] => i = j
       /\ \A j \in 1..Len(hs) : \E i \in 1..n : b[i] = j
  BY <1>9 DEF Bijection, Injection, Surjection, IsInjective
<1> DEFINE d == [j \in 1..n |-> b[c[j]]]
<1>11. d \in [1..n -> 1..Len(hs)] /\ \A j \in 1..n : z[j] = hs[d[j]]
  BY <1>6, <1>9, <1>10
<1>12. \A i, j \in 1..n : d[i] = d[j] => i = j
  BY <1>6, <1>7, <1>10
<1>13. ASSUME NEW m \in 1..Len(hs)
       PROVE  \E j \in 1..n : d[j] = m
  <2>1. PICK i \in 1..n : b[i] = m
    BY <1>10
  <2>2. PICK j \in 1..n : c[j] = i
    BY <1>8
  <2>3. d[j] = m
    BY <2>1, <2>2
  <2> QED
    BY <2>3
<1> HIDE DEF d
<1>14. d \in Bijection(1..n, 1..Len(hs))
  BY <1>11, <1>12, <1>13 DEF Bijection, Injection, Surjection, IsInjective
<1>15. PermOf(z, hs)
  BY <1>5, <1>11, <1>14 DEF PermOf
<1>16. ASSUME k = 1
       PROVE  z = a
  <2>1. \A j \in 1..n : c[j] = j
    BY <1>1, <1>16 DEF c, n
  <2>2. \A j \in 1..n : z[j] = a[j]
    BY <1>6, <2>1
  <2> QED
    BY <1>2, <1>5, <2>2
<1> QED
  BY <1>5, <1>15, <1>16 DEF z, a, head, rest, Moved

-----------------------------------------------------------------------------
(* The registry: what its state looks like and what changes it. *)

HandlerNames == {"console", "ui", "monitor"} \union ApiHandlers
EventNames ==
    attach_console \union attach_simple \union attach_verbose \union attach_parallel
        \union EVENT_TYPES \union ApiEvents
Args == Tests \union {0, 1}

Entries == [handlers : Seq(HandlerNames), ordered : BOOLEAN]
Dispatches ==
    [kind : {"dispatch"}, id : Nat, ev : EventNames, hs : Seq(HandlerNames),
     ordered : BOOLEAN, arg : Args]
Pumps ==
    [pc : {"off", "recv", "drain"}, item : Dispatches \union {NoItem},
     todo : Seq(HandlerNames), failed : Nat, errs : Seq(HandlerNames)]

EventsTyped(evs) == DOMAIN evs \subseteq EventNames /\ evs \in [DOMAIN evs -> Entries]

RegistryTyped ==
    /\ EventsTyped(events)
    /\ queue \in Seq(Dispatches \union {StopItem})
    /\ pump \in Pumps
    /\ fired \in Seq(Dispatches)
    /\ taken \in 0..Len(fired)
    /\ ran \in Seq(HandlerNames)
    /\ stops \in Nat

\* The dispatch taken last: its handlers are those that have ended and those
\* that still run, and none still runs once it is handled.
InHand ==
    /\ Executing => taken > 0 /\ pump.item = fired[taken]
    /\ ~Executing => pump.todo = <<>>
    /\ taken > 0 => /\ PermOf(ran \o pump.todo, fired[taken].hs)
                    /\ fired[taken].ordered => ran \o pump.todo = fired[taken].hs

\* The dispatches not taken yet are those in the queue.
Pending ==
    /\ \A k \in 1..Len(fired) : fired[k].id = k
    /\ \A i \in Queued : queue[i].id \in (taken + 1)..Len(fired) /\ queue[i] = fired[queue[i].id]
    /\ \A k \in (taken + 1)..Len(fired) : \E i \in Queued : queue[i] = fired[k]
    /\ \A i, j \in Queued : i < j => queue[i].id < queue[j].id

\* The sentinel of the only stop() is in the queue or has started the drain.
OneSentinel ==
    /\ stops = 0 => pump.pc # "drain" /\ \A i \in 1..Len(queue) : queue[i] # StopItem
    /\ stops = 1 =>
        /\ pump.pc = "drain" => \A i \in 1..Len(queue) : queue[i] # StopItem
        /\ \A i, j \in 1..Len(queue) : queue[i] = StopItem /\ queue[j] = StopItem => i = j

RegistryInv == RegistryTyped /\ InHand /\ Pending /\ OneSentinel

\* Registering a handler leaves a registry.
LEMMA RegisterTyped ==
    ASSUME NEW evs, EventsTyped(evs), NEW name \in EventNames, NEW h \in HandlerNames, NEW ord \in BOOLEAN
    PROVE  EventsTyped(register(evs, name, h, ord))
<1> DEFINE entry == IF name \in DOMAIN evs THEN evs[name] ELSE [handlers |-> <<>>, ordered |-> ord]
           new1 == [entry EXCEPT !.handlers = Append(@, h)]
           res == [n \in DOMAIN evs \union {name} |-> IF n = name THEN new1 ELSE evs[n]]
<1>1. entry \in Entries
  BY DEF EventsTyped, Entries
<1> HIDE DEF entry
<1>2. new1 \in Entries
  BY <1>1 DEF Entries
<1> HIDE DEF new1
<1>3. DOMAIN res = {name} \union DOMAIN evs
  OBVIOUS
<1>4. \A n \in DOMAIN res : res[n] \in Entries
  BY <1>2, <1>3 DEF EventsTyped
<1>5. res = [n \in DOMAIN res |-> res[n]]
  OBVIOUS
<1> HIDE DEF res
<1>6. EventsTyped(res)
  BY <1>3, <1>4, <1>5 DEF EventsTyped
<1>7. register(evs, name, h, ord) = res
  BY DEF register, res, new1, entry
<1> QED
  BY <1>6, <1>7

\* attach_session_events() and its like register one handler for many events.
LEMMA RegisterEachTyped ==
    ASSUME NEW evs, EventsTyped(evs), NEW names \in SUBSET EventNames, NEW h \in HandlerNames
    PROVE  EventsTyped(registerEach(evs, names, h))
<1> DEFINE res == registerEach(evs, names, h)
           val(n) == IF n \in names THEN register(evs, n, h, FALSE)[n] ELSE evs[n]
<1>1. res = [n \in DOMAIN evs \union names |-> val(n)]
  BY DEF registerEach
<1>2. ASSUME NEW n \in DOMAIN evs \union names
      PROVE  val(n) \in Entries
  <2>1. CASE n \in names
    <3> DEFINE r == register(evs, n, h, FALSE)
    <3>1. EventsTyped(r)
      BY <2>1, RegisterTyped
    <3>2. n \in DOMAIN r
      BY DEF register
    <3> HIDE DEF r
    <3>3. r[n] \in Entries
      BY <3>1, <3>2 DEF EventsTyped
    <3> QED
      BY <2>1, <3>3 DEF r
  <2>2. CASE n \notin names
    BY <2>2 DEF EventsTyped
  <2> QED
    BY <2>1, <2>2
<1> HIDE DEF val
<1>3. DOMAIN res = DOMAIN evs \union names /\ res \in [DOMAIN evs \union names -> Entries]
  BY <1>1, <1>2
<1> HIDE DEF res
<1>4. EventsTyped(res)
  BY <1>3 DEF EventsTyped
<1> QED
  BY <1>4 DEF res

\* So do unregister(), unregister_all() and reset().
LEMMA UnregisterTyped ==
    ASSUME NEW evs, EventsTyped(evs), NEW name, NEW h
    PROVE  EventsTyped(unregister(evs, name, h))
<1>1. CASE name \notin DOMAIN evs
  BY <1>1 DEF unregister
<1>2. CASE name \in DOMAIN evs
  <2> DEFINE kept == retain(evs[name].handlers, h)
             e == [evs[name] EXCEPT !.handlers = kept]
  <2>1. evs[name] \in Entries
    BY <1>2 DEF EventsTyped
  <2>2. evs[name].handlers \in Seq(HandlerNames)
    BY <2>1 DEF Entries
  <2>3. kept \in Seq(HandlerNames)
    BY <2>2, RetainTyped
  <2>4. unregister(evs, name, h) = [evs EXCEPT ![name] = e]
    BY <1>2 DEF unregister
  <2> HIDE DEF kept
  <2>5. e \in Entries
    BY <2>1, <2>3 DEF Entries
  <2> HIDE DEF e
  <2> QED
    BY <2>4, <2>5 DEF EventsTyped
<1> QED
  BY <1>1, <1>2

\* Removing whole entries leaves one, too.
LEMMA UnregisterAllTyped ==
    ASSUME NEW evs, EventsTyped(evs), NEW names
    PROVE  EventsTyped(unregisterAll(evs, names))
  BY DEF EventsTyped, unregisterAll

\* The registry run_session() starts with is one, with or without a monitor.
LEMMA AttachedTyped ==
    ASSUME NEW kind \in {"simple", "verbose", "parallel"}, NEW monitored \in BOOLEAN
    PROVE  EventsTyped(new) /\ EventsTyped(Attached(kind, monitored))
<1>1. EventsTyped(new)
  <2>1. [handlers |-> <<>>, ordered |-> FALSE] \in Entries
    BY DEF Entries
  <2>2. INTERNAL_ERROR \in EventNames
    BY DEF EventNames, ApiEvents
  <2> QED
    BY <2>1, <2>2 DEF EventsTyped, new
<1> DEFINE console == registerEach(new, attach_console, "console")
           screens == registerEach(console, attach_ui(kind), "ui")
           all == registerEach(screens, EVENT_TYPES, "monitor")
<1>2. /\ attach_console \in SUBSET EventNames /\ attach_ui(kind) \in SUBSET EventNames
      /\ EVENT_TYPES \in SUBSET EventNames
  BY DEF EventNames, attach_ui
<1>3. "console" \in HandlerNames /\ "ui" \in HandlerNames /\ "monitor" \in HandlerNames
  BY DEF HandlerNames
<1>4. EventsTyped(console)
  BY <1>1, <1>2, <1>3, RegisterEachTyped
<1> HIDE DEF console
<1>5. EventsTyped(screens)
  BY <1>2, <1>3, <1>4, RegisterEachTyped
<1> HIDE DEF screens
<1>6. EventsTyped(all)
  BY <1>2, <1>3, <1>5, RegisterEachTyped
<1>7. Attached(kind, monitored) = IF monitored THEN all ELSE screens
  BY DEF Attached, screens, console
<1> HIDE DEF all
<1> QED
  BY <1>1, <1>5, <1>6, <1>7

-----------------------------------------------------------------------------
(* One lemma for each way in which the registry changes. *)

\* Nothing that is a dispatch is a sentinel, and nothing is both taken and none.
LEMMA Kinds ==
    ASSUME NEW d \in Dispatches
    PROVE  /\ d # StopItem /\ d # NoItem /\ d.kind = "dispatch" /\ StopItem.kind = "stop"
           /\ d.hs \in Seq(HandlerNames) /\ d.id \in Nat /\ d.ordered \in BOOLEAN
<1>1. d.kind = "dispatch" /\ d.hs \in Seq(HandlerNames) /\ d.id \in Nat /\ d.ordered \in BOOLEAN
  BY DEF Dispatches
<1>2. StopItem.kind = "stop" /\ NoItem.kind = "none"
  BY DEF StopItem, NoItem
<1> QED
  BY <1>1, <1>2

\* fire() puts a dispatch with the handlers of this moment behind the others.
LEMMA FireKeeps ==
    ASSUME RegistryInv, NEW name, NEW arg \in Args,
           fire(name, arg), UNCHANGED <<events, pump, taken, ran, stops>>
    PROVE  RegistryInv'
<1>1. CASE ~Handled(name)
  <2>1. UNCHANGED <<events, queue, pump, fired, taken, ran, stops>>
    BY <1>1 DEF fire
  <2> QED
    BY <2>1 DEF RegistryInv, RegistryTyped, InHand, Pending, OneSentinel, Executing, Queued
<1>2. CASE Handled(name)
  <2> DEFINE item == Dispatch(Len(fired) + 1, name, events[name].handlers, events[name].ordered, arg)
             n == Len(queue)
             m == Len(fired)
  <2>1. queue' = Append(queue, item) /\ fired' = Append(fired, item)
    BY <1>2 DEF fire
  <2>2. /\ events \in [DOMAIN events -> Entries] /\ DOMAIN events \subseteq EventNames
        /\ queue \in Seq(Dispatches \union {StopItem}) /\ fired \in Seq(Dispatches)
        /\ taken \in 0..m /\ m \in Nat /\ n \in Nat
    BY DEF RegistryInv, RegistryTyped, EventsTyped
  <2>3. item \in Dispatches /\ item.id = m + 1
    <3>1. name \in EventNames /\ events[name] \in Entries
      BY <1>2, <2>2 DEF Handled
    <3>2. events[name].handlers \in Seq(HandlerNames) /\ events[name].ordered \in BOOLEAN
      BY <3>1 DEF Entries
    <3>3. m + 1 \in Nat
      BY <2>2
    <3> QED
      BY <3>1, <3>2, <3>3 DEF Dispatches, Dispatch
  <2> HIDE DEF item
  <2>4. item # StopItem
    BY <2>3, Kinds
  <2>5. /\ queue' \in Seq(Dispatches \union {StopItem}) /\ Len(queue') = n + 1 /\ queue'[n + 1] = item
        /\ \A i \in 1..n : queue'[i] = queue[i]
    BY <2>1, <2>2, <2>3
  <2>6. /\ fired' \in Seq(Dispatches) /\ Len(fired') = m + 1 /\ fired'[m + 1] = item
        /\ \A k \in 1..m : fired'[k] = fired[k]
    BY <2>1, <2>2, <2>3
  <2> HIDE DEF n, m
  <2>7. RegistryTyped'
    <3>1. taken' \in 0..Len(fired')
      BY <2>2, <2>6
    <3> QED
      BY <2>5, <2>6, <3>1 DEF RegistryInv, RegistryTyped
  <2>8. InHand'
    <3>1. Executing' = Executing
      BY DEF Executing
    <3>2. taken > 0 => fired'[taken] = fired[taken]
      BY <2>2, <2>6
    <3> QED
      BY <3>1, <3>2 DEF RegistryInv, InHand
  <2>9. Queued' = Queued \union {n + 1}
    BY <2>2, <2>4, <2>5 DEF Queued, n
  <2>10. \A i \in Queued : i \in 1..n
    BY DEF Queued, n
  <2>11. Pending'
    <3>1. \A k \in 1..Len(fired') : fired'[k].id = k
      BY <2>2, <2>3, <2>6 DEF RegistryInv, Pending, m
    <3>2. ASSUME NEW i \in Queued'
          PROVE  queue'[i].id \in (taken' + 1)..Len(fired') /\ queue'[i] = fired'[queue'[i].id]
      <4>1. CASE i = n + 1
        <5>1. m + 1 \in (taken + 1)..(m + 1)
          BY <2>2
        <5> QED
          BY <2>3, <2>5, <2>6, <4>1, <5>1
      <4>2. CASE i \in Queued
        <5>1. queue'[i] = queue[i]
          BY <2>5, <2>10, <4>2
        <5>2. queue[i].id \in (taken + 1)..m /\ queue[i] = fired[queue[i].id]
          BY <4>2 DEF RegistryInv, Pending, m
        <5>3. queue[i].id \in 1..m /\ queue[i].id \in (taken + 1)..(m + 1)
          BY <2>2, <5>2
        <5> QED
          BY <2>6, <5>1, <5>2, <5>3
      <4> QED
        BY <2>9, <4>1, <4>2
    <3>3. ASSUME NEW k \in (taken' + 1)..Len(fired')
          PROVE  \E i \in Queued' : queue'[i] = fired'[k]
      <4>1. CASE k = m + 1
        BY <2>5, <2>6, <2>9, <4>1
      <4>2. CASE k # m + 1
        <5>1. k \in (taken + 1)..m /\ k \in 1..m
          BY <2>2, <2>6, <4>2
        <5>2. PICK i \in Queued : queue[i] = fired[k]
          BY <5>1 DEF RegistryInv, Pending, m
        <5>3. i \in Queued' /\ queue'[i] = fired'[k]
          BY <2>5, <2>6, <2>9, <2>10, <5>1, <5>2
        <5> QED
          BY <5>3
      <4> QED
        BY <4>1, <4>2
    <3>4. ASSUME NEW i \in Queued', NEW j \in Queued', i < j
          PROVE  queue'[i].id < queue'[j].id
      <4>1. i \in Queued
        BY <2>2, <2>9, <2>10, <3>4
      <4>2. queue'[i] = queue[i] /\ queue[i].id \in (taken + 1)..m
        BY <2>5, <2>10, <4>1 DEF RegistryInv, Pending, m
      <4>3. CASE j = n + 1
        BY <2>2, <2>3, <2>5, <4>2, <4>3
      <4>4. CASE j \in Queued
        <5>1. queue'[j] = queue[j] /\ queue[i].id < queue[j].id
          BY <2>5, <2>10, <3>4, <4>1, <4>4 DEF RegistryInv, Pending
        <5> QED
          BY <4>2, <5>1
      <4> QED
        BY <2>9, <4>3, <4>4
    <3> QED
      BY <3>1, <3>2, <3>3, <3>4 DEF Pending
  <2>12. OneSentinel'
    <3>1. \A i \in 1..Len(queue') : queue'[i] = StopItem => i \in 1..Len(queue) /\ queue[i] = StopItem
      BY <2>2, <2>4, <2>5 DEF n
    <3> HIDE DEF StopItem
    <3> QED
      BY <3>1 DEF RegistryInv, OneSentinel
  <2> QED
    BY <2>7, <2>8, <2>11, <2>12 DEF RegistryInv
<1> QED
  BY <1>1, <1>2

\* stop() puts a sentinel behind what is queued.
LEMMA StopKeeps ==
    ASSUME RegistryInv, stop, UNCHANGED <<events, pump, fired, taken, ran>>
    PROVE  RegistryInv'
<1> DEFINE n == Len(queue)
<1>1. queue \in Seq(Dispatches \union {StopItem}) /\ n \in Nat /\ stops \in Nat
  BY DEF RegistryInv, RegistryTyped
<1>2. /\ queue' \in Seq(Dispatches \union {StopItem}) /\ Len(queue') = n + 1 /\ queue'[n + 1] = StopItem
      /\ \A i \in 1..n : queue'[i] = queue[i]
  BY <1>1 DEF stop
<1>3. stops' = stops + 1
  BY DEF stop
<1>4. Executing' = Executing
  BY DEF Executing
<1>5. Queued' = Queued
  BY <1>1, <1>2 DEF Queued
<1>6. \A i \in Queued : i \in 1..n
  BY DEF Queued
<1> HIDE DEF n
<1>7. RegistryTyped'
  BY <1>1, <1>2, <1>3 DEF RegistryInv, RegistryTyped
<1>8. InHand'
  BY <1>4 DEF RegistryInv, InHand
<1>9. Pending'
  BY <1>2, <1>5, <1>6 DEF RegistryInv, Pending
<1>10. OneSentinel'
  <2>1. CASE stops = 0
    BY <1>1, <1>2, <1>3, <2>1 DEF RegistryInv, OneSentinel, n
  <2>2. CASE stops # 0
    BY <1>1, <1>3, <2>2 DEF OneSentinel
  <2> QED
    BY <2>1, <2>2
<1> QED
  BY <1>7, <1>8, <1>9, <1>10 DEF RegistryInv

\* start() begins with the first loop.
LEMMA StartKeeps ==
    ASSUME RegistryInv, start
    PROVE  RegistryInv'
<1>1. /\ pump' = [pump EXCEPT !.pc = "recv"] /\ pump.pc = "off"
      /\ UNCHANGED <<events, queue, fired, taken, ran, stops>>
  BY DEF start
<1>2. pump' \in Pumps /\ pump'.item = pump.item /\ pump'.todo = pump.todo /\ pump'.pc = "recv"
  BY <1>1 DEF RegistryInv, RegistryTyped, Pumps
<1>3. Executing' = Executing /\ Queued' = Queued
  BY <1>1, <1>2 DEF Executing, Queued
<1> QED
  BY <1>1, <1>2, <1>3 DEF RegistryInv, RegistryTyped, InHand, Pending, OneSentinel

\* Registrations matter to what is fired later only.
LEMMA SetKeeps ==
    ASSUME RegistryInv, EventsTyped(events'), UNCHANGED <<queue, pump, fired, taken, ran, stops>>
    PROVE  RegistryInv'
<1>1. Executing' = Executing /\ Queued' = Queued
  BY DEF Executing, Queued
<1> QED
  BY <1>1 DEF RegistryInv, RegistryTyped, InHand, Pending, OneSentinel

\* The item at the head of the queue leaves it: what the rest is.
LEMMA HeadLeaves ==
    ASSUME RegistryInv, queue # <<>>, queue' = Tail(queue)
    PROVE  /\ queue' \in Seq(Dispatches \union {StopItem})
           /\ Len(queue) \in Nat \ {0} /\ Len(queue') = Len(queue) - 1
           /\ \A i \in 1..(Len(queue) - 1) : queue'[i] = queue[i + 1]
           /\ Head(queue) = queue[1] /\ Head(queue) \in Dispatches \union {StopItem}
           /\ \A i \in Queued' : i + 1 \in Queued /\ queue'[i] = queue[i + 1] /\ i \in Nat
           /\ \A i \in Queued : i # 1 => i - 1 \in Queued' /\ queue'[i - 1] = queue[i]
<1>1. queue \in Seq(Dispatches \union {StopItem})
  BY DEF RegistryInv, RegistryTyped
<1>2. /\ queue' \in Seq(Dispatches \union {StopItem})
      /\ Len(queue) \in Nat \ {0} /\ Len(queue') = Len(queue) - 1
      /\ \A i \in 1..(Len(queue) - 1) : queue'[i] = queue[i + 1]
      /\ Head(queue) = queue[1] /\ Head(queue) \in Dispatches \union {StopItem}
  BY <1>1
<1>3. \A i \in Queued' : i + 1 \in Queued /\ queue'[i] = queue[i + 1] /\ i \in Nat
  BY <1>2 DEF Queued
<1>4. ASSUME NEW i \in Queued, i # 1
      PROVE  i - 1 \in Queued' /\ queue'[i - 1] = queue[i]
  <2>1. i \in 1..Len(queue) /\ i - 1 \in 1..(Len(queue) - 1) /\ (i - 1) + 1 = i /\ queue[i] # StopItem
    BY <1>2, <1>4 DEF Queued
  <2>2. queue'[i - 1] = queue[i]
    BY <1>2, <2>1
  <2> QED
    BY <1>2, <2>1, <2>2 DEF Queued
<1> QED
  BY <1>2, <1>3, <1>4

\* Take: the dispatch at the head is the first of those not taken yet.
LEMMA TakeKeeps ==
    ASSUME RegistryInv, queue # <<>>, Head(queue).kind # "stop", ~Executing,
           Take(Head(queue)), UNCHANGED <<events, fired, stops>>
    PROVE  RegistryInv' /\ pump'.pc = pump.pc
<1> DEFINE d == Head(queue)
           m == Len(fired)
<1>1. /\ queue' = Tail(queue) /\ pump' = [pump EXCEPT !.item = d, !.todo = d.hs]
      /\ taken' = taken + 1 /\ ran' = <<>>
  BY DEF Take
<1>2. /\ queue' \in Seq(Dispatches \union {StopItem})
      /\ Len(queue) \in Nat \ {0} /\ Len(queue') = Len(queue) - 1
      /\ \A i \in 1..(Len(queue) - 1) : queue'[i] = queue[i + 1]
      /\ d = queue[1] /\ d \in Dispatches \union {StopItem}
      /\ \A i \in Queued' : i + 1 \in Queued /\ queue'[i] = queue[i + 1] /\ i \in Nat
      /\ \A i \in Queued : i # 1 => i - 1 \in Queued' /\ queue'[i - 1] = queue[i]
  BY <1>1, HeadLeaves
<1>3. d \in Dispatches
  BY <1>2 DEF StopItem
<1>4. d # StopItem /\ d # NoItem /\ d.hs \in Seq(HandlerNames) /\ d.id \in Nat
  BY <1>3, Kinds
<1>5. 1 \in Queued
  BY <1>2, <1>4 DEF Queued
<1>6. fired \in Seq(Dispatches) /\ m \in Nat /\ taken \in 0..m /\ pump \in Pumps
  BY DEF RegistryInv, RegistryTyped
<1> HIDE DEF d
<1>7. d.id \in (taken + 1)..m /\ d = fired[d.id]
  BY <1>2, <1>5 DEF RegistryInv, Pending
<1>8. d.id = taken + 1
  <2>1. taken + 1 \in (taken + 1)..m
    BY <1>6, <1>7
  <2>2. PICK i \in Queued : queue[i] = fired[taken + 1]
    BY <2>1 DEF RegistryInv, Pending
  <2>3. queue[i].id = taken + 1
    BY <1>6, <2>1, <2>2 DEF RegistryInv, Pending
  <2>4. i \in Nat /\ i >= 1
    BY DEF Queued
  <2>5. CASE i = 1
    BY <1>2, <2>3, <2>5
  <2>6. CASE i # 1
    <3>1. 1 < i
      BY <2>4, <2>6
    <3>2. queue[1].id < queue[i].id
      BY <1>5, <3>1 DEF RegistryInv, Pending
    <3> QED
      BY <1>2, <1>6, <1>7, <2>3, <3>2
  <2> QED
    BY <2>5, <2>6
<1>9. taken + 1 \in 1..m /\ d = fired[taken + 1]
  BY <1>6, <1>7, <1>8
<1>10. pump' \in Pumps /\ pump'.item = d /\ pump'.todo = d.hs /\ pump'.pc = pump.pc
  BY <1>1, <1>3, <1>4, <1>6 DEF Pumps
<1>11. RegistryTyped'
  <2>1. taken' \in 0..Len(fired')
    BY <1>1, <1>6, <1>9
  <2>2. ran' \in Seq(HandlerNames)
    BY <1>1
  <2> QED
    BY <1>2, <1>6, <1>10, <2>1, <2>2 DEF RegistryInv, RegistryTyped
<1>12. InHand'
  <2>1. ran' \o pump'.todo = d.hs
    BY <1>1, <1>4, <1>10
  <2>2. PermOf(d.hs, d.hs)
    BY <1>4, PermSelf
  <2>3. Executing'
    BY <1>4, <1>10 DEF Executing
  <2>4. taken' > 0 /\ fired'[taken'] = d
    BY <1>1, <1>6, <1>9
  <2> QED
    BY <1>10, <2>1, <2>2, <2>3, <2>4 DEF InHand
<1>13. Pending'
  <2>1. ASSUME NEW i \in Queued'
        PROVE  queue'[i].id \in (taken' + 1)..Len(fired') /\ queue'[i] = fired'[queue'[i].id]
    <3>1. i + 1 \in Queued /\ queue'[i] = queue[i + 1] /\ 1 < i + 1
      <4>1. i \in Nat /\ i >= 1
        BY DEF Queued
      <4> QED
        BY <1>2, <4>1
    <3>2. queue[1].id < queue[i + 1].id
      BY <1>5, <3>1 DEF RegistryInv, Pending
    <3>3. queue[i + 1].id \in (taken + 1)..m /\ queue[i + 1] = fired[queue[i + 1].id]
      BY <3>1 DEF RegistryInv, Pending
    <3>4. queue[i + 1].id \in (taken + 2)..m
      BY <1>2, <1>6, <1>8, <3>2, <3>3
    <3>5. (taken + 2)..m = (taken' + 1)..Len(fired')
      BY <1>1, <1>6
    <3> QED
      BY <3>1, <3>3, <3>4, <3>5
  <2>2. ASSUME NEW k \in (taken' + 1)..Len(fired')
        PROVE  \E i \in Queued' : queue'[i] = fired'[k]
    <3>1. k \in (taken + 1)..m /\ k \in 1..m /\ k # taken + 1
      BY <1>1, <1>6
    <3>2. PICK i \in Queued : queue[i] = fired[k]
      BY <3>1 DEF RegistryInv, Pending
    <3>3. fired[k].id = k
      BY <3>1 DEF RegistryInv, Pending
    <3>4. i # 1
      BY <1>2, <1>8, <3>1, <3>2, <3>3
    <3> QED
      BY <1>2, <3>2, <3>4
  <2>3. ASSUME NEW i \in Queued', NEW j \in Queued', i < j
        PROVE  queue'[i].id < queue'[j].id
    <3>1. i + 1 < j + 1
      BY <1>2, <2>3
    <3>2. queue[i + 1].id < queue[j + 1].id
      BY <1>2, <3>1 DEF RegistryInv, Pending
    <3> QED
      BY <1>2, <3>2
  <2>4. \A k \in 1..Len(fired') : fired'[k].id = k
    BY DEF RegistryInv, Pending
  <2> QED
    BY <2>1, <2>2, <2>3, <2>4 DEF Pending
<1>14. OneSentinel'
  <2>1. \A i \in 1..Len(queue') : i + 1 \in 1..Len(queue) /\ queue'[i] = queue[i + 1]
    BY <1>2
  <2>2. /\ stops = 0 => \A i \in 1..Len(queue') : queue'[i] # StopItem
        /\ stops = 1 /\ pump.pc = "drain" => \A i \in 1..Len(queue') : queue'[i] # StopItem
    BY <2>1 DEF RegistryInv, OneSentinel
  <2>3. ASSUME stops = 1, NEW i \in 1..Len(queue'), NEW j \in 1..Len(queue'),
               queue'[i] = StopItem, queue'[j] = StopItem
        PROVE  i = j
    <3>1. i + 1 = j + 1
      BY <2>1, <2>3 DEF RegistryInv, OneSentinel
    <3> QED
      BY <3>1
  <2>4. stops = 0 => pump.pc # "drain"
    BY DEF RegistryInv, OneSentinel
  <2> QED
    BY <1>10, <2>2, <2>3, <2>4 DEF OneSentinel
<1> QED
  BY <1>10, <1>11, <1>12, <1>13, <1>14 DEF RegistryInv

\* A sentinel at the head: the first loop ends, or the second does.
LEMMA SentinelKeeps ==
    ASSUME RegistryInv, queue # <<>>, Head(queue).kind = "stop", ~Executing, queue' = Tail(queue),
           NEW to \in {"off", "drain"}, pump' = [pump EXCEPT !.pc = to],
           to = "drain" => pump.pc = "recv",
           UNCHANGED <<events, fired, taken, ran, stops>>
    PROVE  RegistryInv'
<1>1. /\ queue' \in Seq(Dispatches \union {StopItem})
      /\ Len(queue) \in Nat \ {0} /\ Len(queue') = Len(queue) - 1
      /\ \A i \in 1..(Len(queue) - 1) : queue'[i] = queue[i + 1]
      /\ Head(queue) = queue[1] /\ Head(queue) \in Dispatches \union {StopItem}
      /\ \A i \in Queued' : i + 1 \in Queued /\ queue'[i] = queue[i + 1] /\ i \in Nat
      /\ \A i \in Queued : i # 1 => i - 1 \in Queued' /\ queue'[i - 1] = queue[i]
  BY HeadLeaves
<1>2. queue[1] = StopItem
  <2>1. queue[1] \notin Dispatches
    BY <1>1, Kinds
  <2> QED
    BY <1>1, <2>1
<1>3. 1 \notin Queued
  BY <1>2 DEF Queued
<1>4. pump' \in Pumps /\ pump'.item = pump.item /\ pump'.todo = pump.todo /\ pump'.pc = to
  BY DEF RegistryInv, RegistryTyped, Pumps
<1>5. Executing' = Executing
  BY <1>4 DEF Executing
<1>6. RegistryTyped'
  BY <1>1, <1>4 DEF RegistryInv, RegistryTyped
<1>7. InHand'
  BY <1>4, <1>5 DEF RegistryInv, InHand
<1>8. Pending'
  <2>1. ASSUME NEW i \in Queued'
        PROVE  queue'[i].id \in (taken' + 1)..Len(fired') /\ queue'[i] = fired'[queue'[i].id]
    <3>1. i + 1 \in Queued /\ queue'[i] = queue[i + 1]
      BY <1>1
    <3>2. queue[i + 1].id \in (taken + 1)..Len(fired) /\ queue[i + 1] = fired[queue[i + 1].id]
      BY <3>1 DEF RegistryInv, Pending
    <3> QED
      BY <3>1, <3>2
  <2>2. ASSUME NEW k \in (taken' + 1)..Len(fired')
        PROVE  \E i \in Queued' : queue'[i] = fired'[k]
    <3>1. PICK i \in Queued : queue[i] = fired[k]
      BY DEF RegistryInv, Pending
    <3>2. i # 1
      BY <1>3
    <3>3. i - 1 \in Queued' /\ queue'[i - 1] = fired[k]
      BY <1>1, <3>1, <3>2
    <3> QED
      BY <3>3
  <2>3. ASSUME NEW i \in Queued', NEW j \in Queued', i < j
        PROVE  queue'[i].id < queue'[j].id
    <3>1. i + 1 < j + 1
      BY <1>1, <2>3
    <3>2. queue[i + 1].id < queue[j + 1].id
      BY <1>1, <3>1 DEF RegistryInv, Pending
    <3> QED
      BY <1>1, <3>2
  <2>4. \A k \in 1..Len(fired') : fired'[k].id = k
    BY DEF RegistryInv, Pending
  <2> QED
    BY <2>1, <2>2, <2>3, <2>4 DEF Pending
<1>9. OneSentinel'
  <2>1. \A i \in 1..Len(queue') : i + 1 \in 1..Len(queue) /\ queue'[i] = queue[i + 1] /\ i + 1 # 1
    BY <1>1
  <2>2. stops # 0 /\ 1 \in 1..Len(queue)
    BY <1>1, <1>2 DEF RegistryInv, OneSentinel
  <2>3. stops = 1 => \A i \in 1..Len(queue') : queue'[i] # StopItem
    BY <1>2, <2>1, <2>2 DEF RegistryInv, OneSentinel
  <2> QED
    BY <1>4, <2>2, <2>3 DEF OneSentinel
<1> QED
  BY <1>6, <1>7, <1>8, <1>9 DEF RegistryInv

\* The steps of start() itself.
LEMMA PumpKeeps ==
    ASSUME RegistryInv, PumpStep
    PROVE  RegistryInv'
<1>1. CASE Recv
  <2>1. CASE Head(queue).kind = "stop"
    BY <1>1, <2>1, SentinelKeeps DEF Recv
  <2>2. CASE Head(queue).kind # "stop"
    BY <1>1, <2>2, TakeKeeps DEF Recv
  <2> QED
    BY <2>1, <2>2
<1>2. CASE TryRecv
  <2>1. CASE queue = <<>>
    <3>1. pump' = [pump EXCEPT !.pc = "off"] /\ UNCHANGED <<events, queue, fired, taken, ran, stops>>
      BY <1>2, <2>1 DEF TryRecv
    <3>2. pump' \in Pumps /\ pump'.item = pump.item /\ pump'.todo = pump.todo /\ pump'.pc = "off"
      BY <3>1 DEF RegistryInv, RegistryTyped, Pumps
    <3>3. Executing' = Executing /\ Queued' = Queued
      BY <3>1, <3>2 DEF Executing, Queued
    <3> QED
      BY <3>1, <3>2, <3>3 DEF RegistryInv, RegistryTyped, InHand, Pending, OneSentinel
  <2>2. CASE queue # <<>> /\ Head(queue).kind = "stop"
    BY <1>2, <2>2, SentinelKeeps DEF TryRecv
  <2>3. CASE queue # <<>> /\ Head(queue).kind # "stop"
    BY <1>2, <2>3, TakeKeeps DEF TryRecv
  <2> QED
    BY <2>1, <2>2, <2>3
<1>3. CASE ReportError \/ RunErrorHandler
  <2>1. /\ pump' \in Pumps /\ pump'.item = pump.item /\ pump'.todo = pump.todo /\ pump'.pc = pump.pc
        /\ UNCHANGED <<events, queue, fired, taken, ran, stops>>
    <3>1. CASE ReportError
      <4>1. Handled(INTERNAL_ERROR) => events[INTERNAL_ERROR].handlers \in Seq(HandlerNames)
        <5>1. ASSUME Handled(INTERNAL_ERROR)
              PROVE  events[INTERNAL_ERROR] \in Entries
          BY <5>1 DEF RegistryInv, RegistryTyped, EventsTyped, Handled
        <5> QED
          BY <5>1 DEF Entries
      <4> DEFINE errs == IF pump.item.ev # INTERNAL_ERROR /\ Handled(INTERNAL_ERROR)
                         THEN events[INTERNAL_ERROR].handlers ELSE <<>>
      <4>2. errs \in Seq(HandlerNames)
        BY <4>1
      <4>3. /\ pump' = [pump EXCEPT !.failed = @ - 1, !.errs = errs] /\ pump.failed > 0
            /\ UNCHANGED <<events, queue, fired, taken, ran, stops>>
        BY <3>1 DEF ReportError
      <4> HIDE DEF errs
      <4>4. pump \in Pumps
        BY DEF RegistryInv, RegistryTyped
      <4>5. pump.failed \in Nat
        BY <4>4 DEF Pumps
      <4>6. pump.failed - 1 \in Nat
        BY <4>3, <4>5
      <4> QED
        BY <4>2, <4>3, <4>4, <4>6 DEF Pumps
    <3>2. CASE RunErrorHandler
      <4>1. pump.errs \in Seq(HandlerNames) /\ pump.errs # <<>>
        BY <3>2 DEF RunErrorHandler, RegistryInv, RegistryTyped, Pumps
      <4>2. Tail(pump.errs) \in Seq(HandlerNames)
        BY <4>1
      <4>3. /\ pump' = [pump EXCEPT !.errs = Tail(pump.errs)]
            /\ UNCHANGED <<events, queue, fired, taken, ran, stops>>
        BY <3>2 DEF RunErrorHandler
      <4> QED
        BY <4>2, <4>3 DEF RegistryInv, RegistryTyped, Pumps
    <3> QED
      BY <1>3, <3>1, <3>2
  <2>2. Executing' = Executing /\ Queued' = Queued
    BY <2>1 DEF Executing, Queued
  <2> QED
    BY <2>1, <2>2 DEF RegistryInv, RegistryTyped, InHand, Pending, OneSentinel
<1>4. CASE HandleEnd
  <2>1. /\ pump' = [pump EXCEPT !.item = NoItem] /\ pump.todo = <<>>
        /\ UNCHANGED <<events, queue, fired, taken, ran, stops>>
    BY <1>4 DEF HandleEnd, Joined
  <2>2. pump' \in Pumps /\ pump'.item = NoItem /\ pump'.todo = pump.todo /\ pump'.pc = pump.pc
    BY <2>1 DEF RegistryInv, RegistryTyped, Pumps
  <2>3. ~Executing' /\ Queued' = Queued
    BY <2>1, <2>2 DEF Executing, Queued
  <2> QED
    BY <2>1, <2>2, <2>3 DEF RegistryInv, RegistryTyped, InHand, Pending, OneSentinel
<1> QED
  BY <1>1, <1>2, <1>3, <1>4 DEF PumpStep

\* A handler ends: it was one of those that still ran, the first if in order.
LEMMA HandlerKeeps ==
    ASSUME RegistryInv, NEW i, NEW ok \in BOOLEAN, RunHandler(i, ok)
    PROVE  RegistryInv'
<1> DEFINE d == fired[taken]
           h == pump.todo[i]
           rest == RemoveAt(pump.todo, i)
           f == IF ok THEN pump.failed ELSE pump.failed + 1
<1>1. /\ pump' = [pump EXCEPT !.todo = rest, !.failed = f]
      /\ ran' = Append(ran, h) /\ UNCHANGED <<events, queue, fired, taken, stops>>
      /\ Executing /\ i \in 1..Len(pump.todo) /\ (pump.item.ordered => i = 1)
  BY DEF RunHandler, MayRun
<1>2. pump \in Pumps /\ ran \in Seq(HandlerNames) /\ fired \in Seq(Dispatches) /\ taken \in 0..Len(fired)
  BY DEF RegistryInv, RegistryTyped
<1>3. pump.todo \in Seq(HandlerNames) /\ pump.failed \in Nat
  BY <1>2 DEF Pumps
<1>4. taken > 0 /\ pump.item = d
  BY <1>1 DEF RegistryInv, InHand
<1>5. d \in Dispatches
  BY <1>2, <1>4
<1>6. d.hs \in Seq(HandlerNames) /\ d.ordered \in BOOLEAN
  BY <1>5, Kinds
<1>7. PermOf(ran \o pump.todo, d.hs) /\ (d.ordered => ran \o pump.todo = d.hs)
  BY <1>4 DEF RegistryInv, InHand
<1>8. rest \in Seq(HandlerNames) /\ h \in HandlerNames /\ f \in Nat
  BY <1>1, <1>3, RemoveAtShifts
<1>9. /\ PermOf(Append(ran, h) \o rest, d.hs)
      /\ i = 1 => Append(ran, h) \o rest = ran \o pump.todo
  <2> DEFINE t == pump.todo
             hs == d.hs
  <2>1. t \in Seq(HandlerNames) /\ hs \in Seq(HandlerNames) /\ i \in 1..Len(t) /\ PermOf(ran \o t, hs)
    BY <1>1, <1>3, <1>6, <1>7
  <2> HIDE DEF t, hs
  <2>2. ran \in Seq(HandlerNames)
    BY <1>2
  <2>3. PermOf(Moved(ran, t, i), hs) /\ (i = 1 => Moved(ran, t, i) = ran \o t)
    BY <2>1, <2>2, PermMoves
  <2> QED
    BY <2>3 DEF t, hs, Moved
<1> HIDE DEF rest, h, f, d
<1>10. pump' \in Pumps /\ pump'.item = pump.item /\ pump'.todo = rest /\ pump'.pc = pump.pc
  BY <1>1, <1>2, <1>8 DEF Pumps
<1>11. Executing' = Executing /\ Queued' = Queued
  BY <1>1, <1>10 DEF Executing, Queued
<1>12. RegistryTyped'
  <2>1. ran' \in Seq(HandlerNames)
    BY <1>1, <1>2, <1>8
  <2> QED
    BY <1>1, <1>10, <2>1 DEF RegistryInv, RegistryTyped
<1>13. InHand'
  <2>1. ran' \o pump'.todo = Append(ran, h) \o rest
    BY <1>1, <1>10
  <2>2. fired'[taken'] = d
    BY <1>1 DEF d
  <2>3. d.ordered => ran' \o pump'.todo = d.hs
    BY <1>1, <1>4, <1>7, <1>9, <2>1
  <2> QED
    BY <1>1, <1>4, <1>9, <1>10, <1>11, <2>1, <2>2, <2>3 DEF InHand
<1>14. Pending' /\ OneSentinel'
  BY <1>1, <1>10, <1>11 DEF RegistryInv, Pending, OneSentinel
<1> QED
  BY <1>12, <1>13, <1>14 DEF RegistryInv

-----------------------------------------------------------------------------
(* Every step of the session and of a client of the API is one of these. *)

FireStep(name, arg) == fire(name, arg) /\ UNCHANGED <<events, pump, taken, ran, stops>>
StopStep == stop /\ UNCHANGED <<events, pump, fired, taken, ran>>
SetStep == EventsTyped(events') /\ UNCHANGED <<queue, pump, fired, taken, ran, stops>>
RegistryStep ==
    \/ \E name : \E arg \in Args : FireStep(name, arg)
    \/ StopStep \/ start \/ SetStep \/ PumpStep
    \/ \E i : \E ok \in BOOLEAN : RunHandler(i, ok)

\* What a session does to the registry when it goes on.
LEMMA SessionSteps ==
    ASSUME NEW from, NEW to, NEW name, NEW arg \in Args, Session(from, to, name, arg)
    PROVE  RegistryStep
<1>1. FireStep(name, arg)
  BY DEF Session, Fires, FireStep
<1> QED
  BY <1>1 DEF RegistryStep

\* No action does anything else to the registry.
LEMMA StepsAreTheRegistrys ==
    ASSUME RegistryInv, [Next]_vars
    PROVE  RegistryStep
<1> USE DEF Args
<1>1. EventsTyped(events)
  BY DEF RegistryInv, RegistryTyped
<1>2. ASSUME UNCHANGED evVars
      PROVE  RegistryStep
  BY <1>1, <1>2 DEF evVars, RegistryStep, SetStep
<1>3. CASE Pump
  BY <1>3 DEF Pump, RegistryStep
<1>4. CASE Handlers
  <2>1. PICK i \in 1..Len(pump.todo), ok \in BOOLEAN : RunHandler(i, ok)
    BY <1>4, Zenon DEF Handlers, Handler, ApiHandler
  <2> QED
    BY <2>1 DEF RegistryStep
<1>5. CASE SessionStarted \/ SuiteStarted \/ SuiteTimeout \/ SuiteCompleted \/ SessionCompleted \/ Interrupt
  BY <1>5, SessionSteps DEF SessionStarted, SuiteStarted, SuiteTimeout, SuiteCompleted, SessionCompleted, Interrupt
<1>6. ASSUME NEW t \in Tests, TestStarted(t) \/ TestCompleted(t) \/ RaiseKernelError(t)
      PROVE  RegistryStep
  <2>1. CASE TestStarted(t)
    <3>1. FireStep("test_started", t)
      BY <2>1 DEF TestStarted, Fires, FireStep
    <3> QED
      BY <3>1 DEF RegistryStep
  <2>2. CASE TestCompleted(t)
    <3>1. FireStep("test_completed", t)
      BY <2>2 DEF TestCompleted, Fires, FireStep
    <3> QED
      BY <3>1 DEF RegistryStep
  <2>3. CASE RaiseKernelError(t)
    <3>1. FireStep(KernelEvent[status[t]], t)
      BY <2>3 DEF RaiseKernelError, Fires, FireStep
    <3> QED
      BY <3>1 DEF RegistryStep
  <2> QED
    BY <1>6, <2>1, <2>2, <2>3
<1>7. ASSUME NEW t \in Tests, NoRow(t) \/ \E st \in Statuses : Diagnose(t, st)
      PROVE  RegistryStep
  <2>1. CASE NoRow(t)
    BY <1>2, <2>1 DEF NoRow
  <2>2. CASE \E st \in Statuses : Diagnose(t, st)
    <3>1. PICK st \in Statuses : Diagnose(t, st)
      BY <2>2
    <3>2. Fires("kernel_tainted", t) \/ UNCHANGED evVars
      BY <3>1 DEF Diagnose
    <3>3. CASE Fires("kernel_tainted", t)
      <4>1. FireStep("kernel_tainted", t)
        BY <3>3 DEF Fires, FireStep
      <4> QED
        BY <4>1 DEF RegistryStep
    <3> QED
      BY <1>2, <3>2, <3>3
  <2> QED
    BY <1>7, <2>1, <2>2
<1>8. CASE detach
  <2>1. EventsTyped(events')
    <3>1. EventsTyped(unregisterAll(events, EVENT_TYPES))
      BY <1>1, UnregisterAllTyped
    <3> QED
      BY <1>1, <1>8, <3>1 DEF detach
  <2> QED
    BY <1>8, <2>1 DEF detach, RegistryStep, SetStep
<1>9. CASE StopEvents
  BY <1>9 DEF StopEvents, RegistryStep, StopStep
<1>10. CASE Exit
  BY <1>2, <1>10 DEF Exit
<1>11. CASE ApiCall
  <2>1. /\ ApiEvents \subseteq EventNames /\ ApiHandlers \subseteq HandlerNames
    BY DEF EventNames, HandlerNames
  <2>2. ASSUME NEW evs, SetEvents(evs), EventsTyped(evs)
        PROVE  RegistryStep
    BY <2>2 DEF SetEvents, RegistryStep, SetStep
  <2>3. ASSUME NEW name \in ApiEvents, NEW h \in ApiHandlers, NEW ord \in BOOLEAN,
               Api(SetEvents(register(events, name, h, ord)))
        PROVE  RegistryStep
    <3>1. EventsTyped(register(events, name, h, ord))
      BY <1>1, <2>1, RegisterTyped
    <3> QED
      BY <2>2, <2>3, <3>1 DEF Api
  <2>4. ASSUME NEW name \in ApiEvents, NEW h \in ApiHandlers, Api(SetEvents(unregister(events, name, h)))
        PROVE  RegistryStep
    <3>1. EventsTyped(unregister(events, name, h))
      BY <1>1, UnregisterTyped
    <3> QED
      BY <2>2, <2>4, <3>1 DEF Api
  <2>5. ASSUME NEW names, Api(SetEvents(unregisterAll(events, names)))
        PROVE  RegistryStep
    <3>1. EventsTyped(unregisterAll(events, names))
      BY <1>1, UnregisterAllTyped
    <3> QED
      BY <2>2, <2>5, <3>1 DEF Api
  <2>6. ASSUME NEW name \in ApiEvents, Api(fire(name, 0) /\ UNCHANGED <<events, pump, taken, ran, stops>>)
        PROVE  RegistryStep
    <3>1. FireStep(name, 0)
      BY <2>6 DEF Api, FireStep
    <3> QED
      BY <3>1 DEF RegistryStep
  <2>7. ASSUME Api(stop /\ UNCHANGED <<events, pump, fired, taken, ran>>) \/ Api(start)
        PROVE  RegistryStep
    BY <2>7 DEF Api, RegistryStep, StopStep
  <2> QED
    BY <1>11, <2>3, <2>4, <2>5, <2>6, <2>7 DEF ApiCall
<1>12. CASE UNCHANGED vars
  BY <1>2, <1>12 DEF vars, evVars
<1> QED
  BY <1>3, <1>4, <1>5, <1>6, <1>7, <1>8, <1>9, <1>10, <1>11, <1>12 DEF Next

\* The registry run_session() sets up has nothing queued and nothing in hand.
LEMMA RegistryStarts ==
    ASSUME Init
    PROVE  RegistryInv
<1>1. queue = <<>> /\ fired = <<>> /\ taken = 0 /\ ran = <<>> /\ stops = 0
  BY DEF Init
<1>2. EventsTyped(events)
  <2>1. \A verbose \in BOOLEAN : select_ui(verbose) \in {"simple", "verbose", "parallel"}
    BY DEF select_ui
  <2>2. CASE mode = "session"
    <3>1. PICK verbose, monitored \in BOOLEAN : events = Attached(select_ui(verbose), monitored)
      BY <2>2 DEF Init
    <3> QED
      BY <2>1, <3>1, AttachedTyped
  <2>3. CASE events = new
    BY <2>3, AttachedTyped
  <2> QED
    BY <2>2, <2>3 DEF Init
<1>3. pump = Idle \/ pump = [Idle EXCEPT !.pc = "recv"]
  BY DEF Init
<1>4. pump \in Pumps /\ pump.item = NoItem /\ pump.todo = <<>> /\ pump.pc # "drain"
  <2>1. <<>> \in Seq(HandlerNames)
    OBVIOUS
  <2>2. Idle \in Pumps /\ Idle.item = NoItem /\ Idle.todo = <<>> /\ Idle.pc = "off"
    BY <2>1 DEF Idle, Pumps
  <2> QED
    BY <1>3, <2>2 DEF Pumps
<1>5. RegistryTyped
  BY <1>1, <1>2, <1>4 DEF RegistryTyped
<1>6. InHand
  BY <1>1, <1>4 DEF InHand, Executing
<1>7. Pending /\ OneSentinel
  BY <1>1, <1>4 DEF Pending, OneSentinel, Queued
<1> QED
  BY <1>5, <1>6, <1>7 DEF RegistryInv

\* No step breaks the registry.
LEMMA RegistrySteps ==
    ASSUME RegistryInv, [Next]_vars
    PROVE  RegistryInv'
<1>1. RegistryStep
  BY StepsAreTheRegistrys
<1>2. CASE \E name : \E arg \in Args : FireStep(name, arg)
  <2>1. PICK name : \E arg \in Args : FireStep(name, arg)
    BY <1>2
  <2>2. PICK arg \in Args : FireStep(name, arg)
    BY <2>1
  <2> QED
    BY <2>2, FireKeeps DEF FireStep
<1>3. CASE \E i : \E ok \in BOOLEAN : RunHandler(i, ok)
  <2>1. PICK i : \E ok \in BOOLEAN : RunHandler(i, ok)
    BY <1>3
  <2>2. PICK ok \in BOOLEAN : RunHandler(i, ok)
    BY <2>1
  <2> QED
    BY <2>2, HandlerKeeps
<1>4. CASE StopStep \/ start \/ SetStep \/ PumpStep
  BY <1>4, StopKeeps, StartKeeps, SetKeeps, PumpKeeps DEF StopStep, SetStep
<1> QED
  BY <1>1, <1>2, <1>3, <1>4 DEF RegistryStep

-----------------------------------------------------------------------------
(* The theorems. *)

\* The registry's state is always of its type, its queue holds exactly the
\* dispatches not taken yet, and the one in hand has its handlers.
THEOREM RegistryHolds == Spec => []RegistryInv
<1>1. Init => RegistryInv
  BY RegistryStarts
<1>2. RegistryInv /\ [Next]_vars => RegistryInv'
  BY RegistrySteps
<1> QED
  BY <1>1, <1>2, PTL DEF Spec

\* start() (kirk-events/src/lib.rs) takes the dispatches in the order of their
\* fire() calls and joins every handler of one, each run exactly once and in
\* order for an ordered event, before it takes the next: for any number of
\* events, handlers and calls of the API at any moment.
THEOREM EventsAreHandledInOrder == Spec => []HandledInOrder
<1>1. RegistryInv => HandledInOrder
  <2> SUFFICES ASSUME RegistryInv
               PROVE  HandledInOrder
    OBVIOUS
  <2> DEFINE hs == fired[taken].hs
             all == ran \o (IF Executing THEN pump.todo ELSE <<>>)
  <2>1. all = ran \o pump.todo
    BY DEF RegistryInv, InHand
  <2>2. ASSUME taken > 0
        PROVE  /\ \A h : Times(all, h) = Times(hs, h)
               /\ fired[taken].ordered => all = hs
    <3>1. fired[taken] \in Dispatches
      BY <2>2 DEF RegistryInv, RegistryTyped
    <3>2. hs \in Seq(HandlerNames)
      BY <3>1, Kinds
    <3>3. ran \in Seq(HandlerNames) /\ pump.todo \in Seq(HandlerNames)
      BY DEF RegistryInv, RegistryTyped, Pumps
    <3>4. all \in Seq(HandlerNames)
      BY <2>1, <3>3
    <3>5. PermOf(all, hs) /\ (fired[taken].ordered => all = hs)
      BY <2>1, <2>2 DEF RegistryInv, InHand
    <3> HIDE DEF all, hs
    <3>6. ASSUME NEW h
          PROVE  Times(all, h) = Times(hs, h)
      <4>1. PermOf(all, hs)
        BY <3>5
      <4> QED
        BY <3>2, <3>4, <4>1, PermCounts
    <3> QED
      BY <3>5, <3>6
  <2>3. {queue[i] : i \in Queued} = {fired[k] : k \in (taken + 1)..Len(fired)}
    BY DEF RegistryInv, Pending
  <2>4. \A i, j \in Queued : i < j => queue[i].id < queue[j].id
    BY DEF RegistryInv, Pending
  <2> HIDE DEF all, hs
  <2> QED
    BY <2>2, <2>3, <2>4 DEF HandledInOrder, Times, all, hs
<1> QED
  BY <1>1, RegistryHolds, PTL

\* After one stop(), start() returns only when the queue is empty: what was
\* fired until then has been taken and handled, also behind the sentinel.
THEOREM StopDrainsTheQueue == Spec => DrainsQueue
<1>1. RegistryInv /\ [Next]_vars => [pump.pc # "off" /\ pump'.pc = "off" /\ stops = 1 => queue' = <<>>]_vars
  <2> SUFFICES ASSUME RegistryInv, [Next]_vars, pump.pc # "off", pump'.pc = "off", stops = 1
               PROVE  queue' = <<>>
    OBVIOUS
  <2>1. RegistryStep
    BY StepsAreTheRegistrys
  <2>2. ASSUME pump'.pc = pump.pc
        PROVE  FALSE
    BY <2>2
  <2>3. pump \in Pumps
    BY DEF RegistryInv, RegistryTyped
  <2>4. CASE StopStep \/ SetStep \/ \E name : \E arg \in Args : FireStep(name, arg)
    BY <2>2, <2>4 DEF StopStep, SetStep, FireStep
  <2>5. CASE start
    BY <2>5 DEF start
  <2>6. CASE \E i : \E ok \in BOOLEAN : RunHandler(i, ok)
    BY <2>2, <2>3, <2>6 DEF RunHandler, Pumps
  <2>7. CASE PumpStep
    <3>1. CASE ReportError \/ RunErrorHandler \/ HandleEnd
      BY <2>2, <2>3, <3>1 DEF ReportError, RunErrorHandler, HandleEnd, Pumps
    <3>2. CASE Recv
      <4>1. CASE Head(queue).kind = "stop"
        BY <2>3, <3>2, <4>1 DEF Recv, Pumps
      <4>2. CASE Head(queue).kind # "stop"
        BY <2>2, <3>2, <4>2, TakeKeeps DEF Recv
      <4> QED
        BY <4>1, <4>2
    <3>3. CASE TryRecv
      <4>1. CASE queue = <<>>
        BY <3>3, <4>1 DEF TryRecv
      <4>2. CASE queue # <<>> /\ Head(queue).kind = "stop"
        <5>1. queue' = Tail(queue)
          BY <3>3, <4>2 DEF TryRecv
        <5>2. Head(queue) = queue[1] /\ 1 \in 1..Len(queue) /\ queue[1] \in Dispatches \union {StopItem}
          BY <4>2, <5>1, HeadLeaves
        <5>3. queue[1] # StopItem
          BY <3>3, <5>2 DEF TryRecv, RegistryInv, OneSentinel
        <5> QED
          BY <4>2, <5>2, <5>3, Kinds
      <4>3. CASE queue # <<>> /\ Head(queue).kind # "stop"
        BY <2>2, <3>3, <4>3, TakeKeeps DEF TryRecv
      <4> QED
        BY <4>1, <4>2, <4>3
    <3> QED
      BY <2>7, <3>1, <3>2, <3>3 DEF PumpStep
  <2> QED
    BY <2>1, <2>4, <2>5, <2>6, <2>7 DEF RegistryStep
<1> QED
  BY <1>1, RegistryHolds, PTL DEF Spec, DrainsQueue

-----------------------------------------------------------------------------
(* The interface: what reaches it, and what its lines and counters owe to. *)

Ui(hs) == Contains(hs, "ui")
UiOnce(hs) == \A i, j \in 1..Len(hs) : hs[i] = "ui" /\ hs[j] = "ui" => i = j

\* The dispatches the interface has handled.
Seen == {i \in 1..taken : Ui(fired[i].hs) /\ (i < taken \/ ~Executing \/ Contains(ran, "ui"))}
SeenOf(name) == {i \in Seen : fired[i].ev = name}

UiKinds == {"simple", "verbose", "parallel"}
Uis ==
    [kind : UiKinds, sut_not_responding : BOOLEAN, kernel_panic : BOOLEAN,
     kernel_tainted : BOOLEAN, timed_out : {FALSE}, total : Nat, done : Nat,
     num_suites : Args]
Lines ==
    [test : Args, shown : {"result", "sut_not_responding", "kernel_panic"}, tainted : BOOLEAN]
Phases == {"new", "started", "row", "completed", "done"}

\* No event fired by the session sets a timeout, so the flag stays down.
UiTyped ==
    /\ mode \in {"session", "api"} /\ ui \in Uis /\ screen \in Seq(Lines)
    /\ run \in [Tests -> Phases] /\ status \in [Tests -> Statuses]
    /\ \A t \in Tests : run[t] = "completed" => status[t] \in DOMAIN KernelEvent

\* The interface is registered once, for its own events, and only by a session.
UiWired ==
    /\ \A n \in DOMAIN events :
          /\ UiOnce(events[n].handlers)
          /\ Ui(events[n].handlers) => mode = "session" /\ n \in attach_ui(ui.kind)
    /\ mode = "api" => \A n \in DOMAIN events : events[n].handlers \in Seq(ApiHandlers)
    /\ \A k \in 1..Len(fired) :
          /\ UiOnce(fired[k].hs)
          /\ Ui(fired[k].hs) => mode = "session" /\ fired[k].ev \in attach_ui(ui.kind)

\* The dispatch of an event the interface handles.
ForUi(fs, k, name) == fs[k].ev = name /\ Ui(fs[k].hs)

\* A test is announced completed once, behind the suite it belongs to.
UiFired ==
    /\ \A k \in 1..Len(fired) : ~ForUi(fired, k, "test_timed_out")
    /\ \A k \in 1..Len(fired) : ForUi(fired, k, "test_completed") =>
          fired[k].arg \in Tests /\ run[fired[k].arg] \in {"completed", "done"}
    /\ \A j, k \in 1..Len(fired) :
          ForUi(fired, j, "test_completed") /\ ForUi(fired, k, "test_completed") /\ fired[j].arg = fired[k].arg => j = k
    /\ ui.kind = "parallel" =>
          /\ \A k \in 1..Len(fired) : ForUi(fired, k, "test_completed") =>
                \E j \in 1..Len(fired) : j < k /\ ForUi(fired, j, "suite_started")
          /\ sess = "suite" => \E j \in 1..Len(fired) : ForUi(fired, j, "suite_started")
          /\ mode = "session" /\ sess \in {"new", "run"} =>
                "suite_started" \in DOMAIN events /\ Ui(events["suite_started"].handlers)

One(b) == IF b THEN 1 ELSE 0
Kernel == SeenOf("kernel_panic") \union SeenOf("sut_not_responding")
LostLines == {i \in SeenOf("test_completed") : ~ShownAsIs(fired[i].arg)}
TaintedLines == {k \in 1..Len(screen) : screen[k].tainted}
ParDone == {i \in SeenOf("test_completed") : fired[i].arg \in ParTests}

\* A flag that is up is an event no line has gone wrong for yet.
UiCounts ==
    /\ Cardinality(LostLines) + One(ui.kernel_panic \/ ui.sut_not_responding) <= Cardinality(Kernel)
    /\ Cardinality(TaintedLines) + One(ui.kernel_tainted) <= Cardinality(SeenOf("kernel_tainted"))
    /\ IF ui.kind = "parallel"
       THEN /\ ui.done = Cardinality(ParDone)
            /\ SeenOf("suite_started") # {} => ui.total >= Cardinality(ParTests)
       ELSE ui.done = 0

BlameInv == UiTyped /\ UiWired /\ UiFired /\ UiCounts

\* One more handler: the interface stays registered at most once unless it was already.
LEMMA UiAppend ==
    ASSUME NEW s \in Seq(HandlerNames), NEW h \in HandlerNames
    PROVE  /\ Ui(Append(s, h)) <=> Ui(s) \/ h = "ui"
           /\ UiOnce(s) /\ (h # "ui" \/ ~Ui(s)) => UiOnce(Append(s, h))
<1> DEFINE q == Append(s, h)
<1>1. /\ Len(q) = Len(s) + 1 /\ Len(s) \in Nat /\ q[Len(s) + 1] = h
      /\ \A i \in 1..Len(s) : q[i] = s[i]
  OBVIOUS
<1> HIDE DEF q
<1>2. Ui(q) <=> Ui(s) \/ h = "ui"
  <2>1. ASSUME Ui(q)
        PROVE  Ui(s) \/ h = "ui"
    BY <1>1, <2>1 DEF Ui, Contains
  <2>2. ASSUME Ui(s)
        PROVE  Ui(q)
    <3>1. PICK i \in 1..Len(s) : s[i] = "ui"
      BY <2>2 DEF Ui, Contains
    <3>2. i \in 1..Len(q) /\ q[i] = "ui"
      BY <1>1, <3>1
    <3> QED
      BY <3>2 DEF Ui, Contains
  <2>3. ASSUME h = "ui"
        PROVE  Ui(q)
    <3>1. Len(s) + 1 \in 1..Len(q)
      BY <1>1
    <3> QED
      BY <1>1, <2>3, <3>1 DEF Ui, Contains
  <2> QED
    BY <2>1, <2>2, <2>3
<1>3. ASSUME UiOnce(s), h # "ui" \/ ~Ui(s)
      PROVE  UiOnce(q)
  <2> SUFFICES ASSUME NEW i \in 1..Len(q), NEW j \in 1..Len(q), q[i] = "ui", q[j] = "ui"
               PROVE  i = j
    BY DEF UiOnce
  <2>1. \A k \in 1..Len(q) : k \in 1..Len(s) \/ k = Len(s) + 1
    BY <1>1
  <2>2. CASE h # "ui"
    BY <1>1, <1>3, <2>1, <2>2 DEF UiOnce
  <2>3. CASE ~Ui(s)
    <3>1. \A k \in 1..Len(s) : s[k] # "ui"
      BY <2>3 DEF Ui, Contains
    <3> QED
      BY <1>1, <2>1, <3>1
  <2> QED
    BY <1>3, <2>2, <2>3
<1> QED
  BY <1>2, <1>3 DEF q

\* What has ended and what still runs hold the interface as the dispatch does.
LEMMA UiPerm ==
    ASSUME NEW r \in Seq(HandlerNames), NEW t \in Seq(HandlerNames), NEW hs \in Seq(HandlerNames),
           PermOf(r \o t, hs), UiOnce(hs)
    PROVE  /\ Ui(hs) <=> Ui(r) \/ Ui(t)
           /\ \A i \in 1..Len(t) : t[i] = "ui" => ~Ui(r)
<1> DEFINE q == r \o t
<1>1. /\ Len(q) = Len(r) + Len(t) /\ Len(r) \in Nat /\ Len(t) \in Nat
      /\ \A i \in 1..Len(r) : q[i] = r[i]
      /\ \A i \in 1..Len(t) : q[Len(r) + i] = t[i]
  OBVIOUS
<1>2. PICK b \in Bijection(1..Len(q), 1..Len(hs)) : \A i \in 1..Len(q) : q[i] = hs[b[i]]
  BY DEF PermOf
<1>3. /\ b \in [1..Len(q) -> 1..Len(hs)]
      /\ \A i, j \in 1..Len(q) : b[i] = b[j] => i = j
      /\ \A k \in 1..Len(hs) : \E i \in 1..Len(q) : b[i] = k
  BY <1>2 DEF Bijection, Injection, Surjection, IsInjective
<1> HIDE DEF q
<1>4. ASSUME NEW i \in 1..Len(q), NEW j \in 1..Len(q), q[i] = "ui", q[j] = "ui"
      PROVE  i = j
  <2>1. b[i] \in 1..Len(hs) /\ hs[b[i]] = "ui" /\ b[j] \in 1..Len(hs) /\ hs[b[j]] = "ui"
    BY <1>2, <1>3, <1>4
  <2>2. b[i] = b[j]
    BY <2>1 DEF UiOnce
  <2> QED
    BY <1>3, <2>2
<1>5. Ui(hs) <=> \E i \in 1..Len(q) : q[i] = "ui"
  <2>1. ASSUME Ui(hs)
        PROVE  \E i \in 1..Len(q) : q[i] = "ui"
    <3>1. PICK k \in 1..Len(hs) : hs[k] = "ui"
      BY <2>1 DEF Ui, Contains
    <3>2. PICK i \in 1..Len(q) : b[i] = k
      BY <1>3
    <3> QED
      BY <1>2, <3>1, <3>2
  <2>2. ASSUME NEW i \in 1..Len(q), q[i] = "ui"
        PROVE  Ui(hs)
    <3>1. b[i] \in 1..Len(hs) /\ hs[b[i]] = "ui"
      BY <1>2, <1>3, <2>2
    <3> QED
      BY <3>1 DEF Ui, Contains
  <2> QED
    BY <2>1, <2>2
<1>6. \A i \in 1..Len(r) : i \in 1..Len(q)
  BY <1>1
<1>7. \A i \in 1..Len(t) : Len(r) + i \in 1..Len(q) /\ ~(Len(r) + i \in 1..Len(r))
  BY <1>1
<1>8. (\E i \in 1..Len(q) : q[i] = "ui") <=> Ui(r) \/ Ui(t)
  <2>1. ASSUME NEW i \in 1..Len(q), q[i] = "ui"
        PROVE  Ui(r) \/ Ui(t)
    <3>1. CASE i \in 1..Len(r)
      BY <1>1, <2>1, <3>1 DEF Ui, Contains
    <3>2. CASE ~(i \in 1..Len(r))
      <4>1. i - Len(r) \in 1..Len(t) /\ Len(r) + (i - Len(r)) = i
        BY <1>1, <3>2
      <4>2. t[i - Len(r)] = "ui"
        BY <1>1, <2>1, <4>1
      <4> QED
        BY <4>1, <4>2 DEF Ui, Contains
    <3> QED
      BY <3>1, <3>2
  <2>2. ASSUME Ui(r)
        PROVE  \E i \in 1..Len(q) : q[i] = "ui"
    BY <1>1, <1>6, <2>2 DEF Ui, Contains
  <2>3. ASSUME Ui(t)
        PROVE  \E i \in 1..Len(q) : q[i] = "ui"
    BY <1>1, <1>7, <2>3 DEF Ui, Contains
  <2> QED
    BY <2>1, <2>2, <2>3
<1>9. ASSUME NEW i \in 1..Len(t), t[i] = "ui", Ui(r)
      PROVE  FALSE
  <2>1. PICK j \in 1..Len(r) : r[j] = "ui"
    BY <1>9 DEF Ui, Contains
  <2>2. q[j] = "ui" /\ q[Len(r) + i] = "ui" /\ j \in 1..Len(q)
    BY <1>1, <1>6, <1>9, <2>1
  <2>3. j = Len(r) + i
    BY <1>4, <1>7, <2>2
  <2> QED
    BY <1>7, <2>1, <2>3
<1> QED
  BY <1>5, <1>8, <1>9

\* A registry where the interface is registered once, for its own events.
WiredFor(evs, kind) ==
    \A n \in DOMAIN evs : UiOnce(evs[n].handlers) /\ (Ui(evs[n].handlers) => n \in attach_ui(kind))

\* One handler for many events, seen from the interface.
LEMMA RegisterEachUi ==
    ASSUME NEW evs, EventsTyped(evs), NEW names, NEW h \in HandlerNames, NEW kind, WiredFor(evs, kind),
           h = "ui" => names = attach_ui(kind) /\ \A n \in DOMAIN evs : ~Ui(evs[n].handlers),
           NEW res, res = registerEach(evs, names, h)
    PROVE  /\ WiredFor(res, kind)
           /\ \A n \in DOMAIN res : Ui(res[n].handlers) <=>
                 (n \in DOMAIN evs /\ Ui(evs[n].handlers)) \/ (h = "ui" /\ n \in names)
           /\ DOMAIN res = DOMAIN evs \union names
<1> DEFINE old(n) == IF n \in DOMAIN evs THEN evs[n].handlers ELSE <<>>
<1>1. DOMAIN res = DOMAIN evs \union names
  BY DEF registerEach
<1>2. ASSUME NEW n \in DOMAIN evs
      PROVE  evs[n].handlers \in Seq(HandlerNames)
  <2>1. evs[n] \in Entries
    BY DEF EventsTyped
  <2> QED
    BY <2>1 DEF Entries
<1>3. \A n : old(n) \in Seq(HandlerNames) /\ UiOnce(old(n)) /\ (Ui(old(n)) <=> n \in DOMAIN evs /\ Ui(evs[n].handlers))
  BY <1>2 DEF WiredFor, UiOnce, Ui, Contains
<1>4. ASSUME NEW n \in DOMAIN res
      PROVE  res[n].handlers = IF n \in names THEN Append(old(n), h) ELSE evs[n].handlers
  <2>1. n \in DOMAIN evs \union names
    BY <1>1
  <2>2. CASE n \in names
    <3> DEFINE e == IF n \in DOMAIN evs THEN evs[n] ELSE [handlers |-> <<>>, ordered |-> FALSE]
               r == [e EXCEPT !.handlers = Append(@, h)]
    <3>1. res[n] = r
      BY <2>2 DEF registerEach, register
    <3>2. e \in Entries
      BY DEF EventsTyped, Entries
    <3>3. e.handlers = old(n)
      OBVIOUS
    <3> HIDE DEF e
    <3>4. r.handlers = Append(e.handlers, h)
      BY <3>2 DEF Entries
    <3> QED
      BY <2>2, <3>1, <3>3, <3>4
  <2>3. CASE n \notin names
    BY <2>1, <2>3 DEF registerEach
  <2> QED
    BY <2>2, <2>3
<1> HIDE DEF old
<1>5. ASSUME NEW n \in DOMAIN res
      PROVE  /\ UiOnce(res[n].handlers)
             /\ Ui(res[n].handlers) <=> (n \in DOMAIN evs /\ Ui(evs[n].handlers)) \/ (h = "ui" /\ n \in names)
  <2>1. CASE n \in names
    <3>1. old(n) \in Seq(HandlerNames) /\ UiOnce(old(n)) /\ (h # "ui" \/ ~Ui(old(n)))
      BY <1>3
    <3>2. res[n].handlers = Append(old(n), h)
      BY <1>4, <2>1
    <3>3. UiOnce(res[n].handlers) /\ (Ui(res[n].handlers) <=> Ui(old(n)) \/ h = "ui")
      BY <3>1, <3>2, UiAppend
    <3> QED
      BY <1>3, <2>1, <3>3
  <2>2. CASE n \notin names
    <3>1. n \in DOMAIN evs /\ res[n].handlers = evs[n].handlers
      BY <1>1, <1>4, <2>2
    <3> QED
      BY <2>2, <3>1 DEF WiredFor
  <2> QED
    BY <2>1, <2>2
<1>6. WiredFor(res, kind)
  <2> SUFFICES ASSUME NEW n \in DOMAIN res, Ui(res[n].handlers)
               PROVE  n \in attach_ui(kind)
    BY <1>5 DEF WiredFor
  <2> QED
    BY <1>5 DEF WiredFor
<1> QED
  BY <1>1, <1>5, <1>6

\* A handler of somebody else.
LEMMA RegisterOthers ==
    ASSUME NEW evs, EventsTyped(evs), NEW names, NEW h \in HandlerNames, h # "ui", NEW kind, WiredFor(evs, kind)
    PROVE  /\ WiredFor(registerEach(evs, names, h), kind)
           /\ \A n \in DOMAIN registerEach(evs, names, h) : Ui(registerEach(evs, names, h)[n].handlers) <=>
                 n \in DOMAIN evs /\ Ui(evs[n].handlers)
           /\ DOMAIN registerEach(evs, names, h) = DOMAIN evs \union names
<1> DEFINE res == registerEach(evs, names, h)
<1>1. res = registerEach(evs, names, h)
  OBVIOUS
<1> HIDE DEF res
<1>2. h = "ui" => names = attach_ui(kind) /\ \A n \in DOMAIN evs : ~Ui(evs[n].handlers)
  OBVIOUS
<1>3. /\ WiredFor(res, kind)
      /\ \A n \in DOMAIN res : Ui(res[n].handlers) <=>
            (n \in DOMAIN evs /\ Ui(evs[n].handlers)) \/ (h = "ui" /\ n \in names)
      /\ DOMAIN res = DOMAIN evs \union names
  BY <1>1, <1>2, RegisterEachUi
<1> QED
  BY <1>3 DEF res

\* The handler of the interface.
LEMMA RegisterItsOwn ==
    ASSUME NEW evs, EventsTyped(evs), NEW kind, WiredFor(evs, kind), \A n \in DOMAIN evs : ~Ui(evs[n].handlers)
    PROVE  /\ WiredFor(registerEach(evs, attach_ui(kind), "ui"), kind)
           /\ \A n \in DOMAIN registerEach(evs, attach_ui(kind), "ui") :
                 Ui(registerEach(evs, attach_ui(kind), "ui")[n].handlers) <=> n \in attach_ui(kind)
           /\ DOMAIN registerEach(evs, attach_ui(kind), "ui") = DOMAIN evs \union attach_ui(kind)
<1> DEFINE names == attach_ui(kind)
           h == "ui"
           res == registerEach(evs, names, h)
<1>1. res = registerEach(evs, names, h)
  OBVIOUS
<1> HIDE DEF res
<1>2. h = "ui" => names = attach_ui(kind) /\ \A n \in DOMAIN evs : ~Ui(evs[n].handlers)
  OBVIOUS
<1>3. h \in HandlerNames
  BY DEF HandlerNames
<1> HIDE DEF names, h
<1>4. /\ WiredFor(res, kind)
      /\ \A n \in DOMAIN res : Ui(res[n].handlers) <=>
            (n \in DOMAIN evs /\ Ui(evs[n].handlers)) \/ (h = "ui" /\ n \in names)
      /\ DOMAIN res = DOMAIN evs \union names
  BY <1>1, <1>2, <1>3, RegisterEachUi
<1>5. \A n \in DOMAIN res : Ui(res[n].handlers) <=> n \in attach_ui(kind)
  BY <1>4 DEF h, names
<1> QED
  BY <1>4, <1>5 DEF res, names, h

\* The registry of a session has the interface where it belongs.
LEMMA AttachedUi ==
    ASSUME NEW kind \in UiKinds, NEW monitored \in BOOLEAN
    PROVE  LET evs == Attached(kind, monitored)
           IN  /\ WiredFor(evs, kind)
               /\ \A n \in attach_ui(kind) : n \in DOMAIN evs /\ Ui(evs[n].handlers)
<1> DEFINE console == registerEach(new, attach_console, "console")
           screens == registerEach(console, attach_ui(kind), "ui")
           all == registerEach(screens, EVENT_TYPES, "monitor")
<1>1. "console" \in HandlerNames /\ "ui" \in HandlerNames /\ "monitor" \in HandlerNames
      /\ "console" # "ui" /\ "monitor" # "ui"
  BY DEF HandlerNames
<1>2. /\ attach_console \in SUBSET EventNames /\ attach_ui(kind) \in SUBSET EventNames
      /\ EVENT_TYPES \in SUBSET EventNames
  BY DEF EventNames, attach_ui, UiKinds
<1>3. EventsTyped(new) /\ EventsTyped(console)
  <2>1. EventsTyped(new)
    BY AttachedTyped DEF UiKinds
  <2> QED
    BY <1>1, <1>2, <2>1, RegisterEachTyped
<1>4. WiredFor(new, kind) /\ \A n \in DOMAIN new : ~Ui(new[n].handlers)
  <2>1. \A n \in DOMAIN new : new[n].handlers = <<>>
    BY DEF new
  <2>2. UiOnce(<<>>) /\ ~Ui(<<>>)
    BY DEF UiOnce, Ui, Contains
  <2> QED
    BY <2>1, <2>2 DEF WiredFor
<1>5. /\ WiredFor(console, kind)
      /\ \A n \in DOMAIN console : Ui(console[n].handlers) <=> n \in DOMAIN new /\ Ui(new[n].handlers)
  BY <1>1, <1>3, <1>4, RegisterOthers
<1> HIDE DEF console
<1>6. \A n \in DOMAIN console : ~Ui(console[n].handlers)
  BY <1>4, <1>5
<1>7. EventsTyped(screens)
  BY <1>1, <1>2, <1>3, RegisterEachTyped
<1>8. /\ WiredFor(screens, kind)
      /\ \A n \in DOMAIN screens : Ui(screens[n].handlers) <=> n \in attach_ui(kind)
      /\ DOMAIN screens = DOMAIN console \union attach_ui(kind)
  BY <1>3, <1>5, <1>6, RegisterItsOwn
<1> HIDE DEF screens
<1>9. /\ WiredFor(all, kind)
      /\ \A n \in DOMAIN all : Ui(all[n].handlers) <=> n \in DOMAIN screens /\ Ui(screens[n].handlers)
      /\ DOMAIN all = DOMAIN screens \union EVENT_TYPES
  BY <1>1, <1>7, <1>8, RegisterOthers
<1> HIDE DEF all
<1>10. Attached(kind, monitored) = IF monitored THEN all ELSE screens
  BY DEF Attached, screens, console, all
<1> QED
  BY <1>8, <1>9, <1>10

-----------------------------------------------------------------------------
(* What the interface has seen changes only when its handler ends. *)

\* fire() hands the handlers of this moment to the new dispatch.
LEMMA FireAdds ==
    ASSUME RegistryInv, NEW name, NEW arg, FireStep(name, arg)
    PROVE  /\ Seen' = Seen
           /\ \A k \in 1..Len(fired) : k \in 1..Len(fired') /\ fired'[k] = fired[k]
           /\ \/ ~Handled(name) /\ fired' = fired
              \/ /\ Handled(name) /\ Len(fired') = Len(fired) + 1
                 /\ fired'[Len(fired) + 1].ev = name /\ fired'[Len(fired) + 1].arg = arg
                 /\ fired'[Len(fired) + 1].hs = events[name].handlers
<1>1. fired \in Seq(Dispatches) /\ Len(fired) \in Nat /\ taken \in 0..Len(fired)
  BY DEF RegistryInv, RegistryTyped
<1>2. /\ \A k \in 1..Len(fired) : k \in 1..Len(fired') /\ fired'[k] = fired[k]
      /\ \/ ~Handled(name) /\ fired' = fired
         \/ /\ Handled(name) /\ Len(fired') = Len(fired) + 1
            /\ fired'[Len(fired) + 1].ev = name /\ fired'[Len(fired) + 1].arg = arg
            /\ fired'[Len(fired) + 1].hs = events[name].handlers
  <2>1. CASE ~Handled(name)
    BY <1>1, <2>1 DEF FireStep, fire
  <2>2. CASE Handled(name)
    <3> DEFINE d == Dispatch(Len(fired) + 1, name, events[name].handlers, events[name].ordered, arg)
    <3>1. fired' = Append(fired, d)
      BY <2>2 DEF FireStep, fire
    <3>2. d.ev = name /\ d.arg = arg /\ d.hs = events[name].handlers
      BY DEF Dispatch
    <3> HIDE DEF d
    <3>3. /\ Len(fired') = Len(fired) + 1 /\ fired'[Len(fired) + 1] = d
          /\ \A k \in 1..Len(fired) : k \in 1..Len(fired') /\ fired'[k] = fired[k]
      BY <1>1, <3>1
    <3> QED
      BY <2>2, <3>2, <3>3
  <2> QED
    BY <2>1, <2>2
<1>3. Seen' = Seen
  <2>1. UNCHANGED <<pump, taken, ran>>
    BY DEF FireStep
  <2>2. \A i \in 1..taken : fired'[i] = fired[i]
    BY <1>1, <1>2
  <2> QED
    BY <2>1, <2>2 DEF Seen, Executing
<1> QED
  BY <1>2, <1>3

\* A dispatch is taken before the interface has seen it.
LEMMA TakeSees ==
    ASSUME RegistryInv, ~Executing, queue # <<>>, Take(Head(queue)), Head(queue).kind # "stop", fired' = fired
    PROVE  Seen' = Seen
<1>1. taken' = taken + 1 /\ ran' = <<>> /\ pump' = [pump EXCEPT !.item = Head(queue), !.todo = Head(queue).hs]
  BY DEF Take
<1>2. pump \in Pumps /\ taken \in Nat /\ queue \in Seq(Dispatches \union {StopItem})
  BY DEF RegistryInv, RegistryTyped
<1>3. Head(queue) \in Dispatches
  <2>1. Head(queue) \in Dispatches \union {StopItem}
    BY <1>2
  <2> QED
    BY <2>1 DEF StopItem
<1>4. pump'.item = Head(queue) /\ Head(queue) # NoItem
  BY <1>1, <1>2, <1>3, Kinds DEF Pumps
<1>5. Executing'
  BY <1>4 DEF Executing
<1>6. ~Contains(ran', "ui")
  BY <1>1 DEF Contains
<1>7. Seen' = {i \in 1..(taken + 1) : Ui(fired[i].hs) /\ i < taken + 1}
  BY <1>1, <1>5, <1>6 DEF Seen
<1>8. Seen = {i \in 1..taken : Ui(fired[i].hs)}
  BY DEF Seen
<1> QED
  BY <1>2, <1>7, <1>8

\* The pump by itself shows the interface nothing: when a dispatch ends, every
\* handler of it has.
LEMMA PumpSees ==
    ASSUME RegistryInv, UiWired, PumpStep
    PROVE  Seen' = Seen /\ UNCHANGED <<events, fired>>
<1>0. UNCHANGED <<events, fired>>
  BY DEF PumpStep, Recv, TryRecv, ReportError, RunErrorHandler, HandleEnd
<1>1. ASSUME UNCHANGED <<taken, ran>>, pump'.item = pump.item
      PROVE  Seen' = Seen
  BY <1>0, <1>1 DEF Seen, Executing
<1>2. pump \in Pumps
  BY DEF RegistryInv, RegistryTyped
<1>3. CASE Recv
  <2>1. CASE Head(queue).kind = "stop"
    <3>1. UNCHANGED <<taken, ran>> /\ pump' = [pump EXCEPT !.pc = "drain"]
      BY <1>3, <2>1 DEF Recv
    <3>2. pump'.item = pump.item
      BY <1>2, <3>1 DEF Pumps
    <3> QED
      BY <1>0, <1>1, <3>1, <3>2
  <2>2. CASE Head(queue).kind # "stop"
    BY <1>3, <2>2, TakeSees DEF Recv
  <2> QED
    BY <2>1, <2>2
<1>4. CASE TryRecv
  <2>1. CASE queue = <<>> \/ Head(queue).kind = "stop"
    <3>1. UNCHANGED <<taken, ran>> /\ pump' = [pump EXCEPT !.pc = "off"]
      BY <1>4, <2>1 DEF TryRecv
    <3>2. pump'.item = pump.item
      BY <1>2, <3>1 DEF Pumps
    <3> QED
      BY <1>0, <1>1, <3>1, <3>2
  <2>2. CASE ~(queue = <<>> \/ Head(queue).kind = "stop")
    BY <1>4, <2>2, TakeSees DEF TryRecv
  <2> QED
    BY <2>1, <2>2
<1>5. CASE ReportError \/ RunErrorHandler
  <2>1. UNCHANGED <<taken, ran>>
    BY <1>5 DEF ReportError, RunErrorHandler
  <2>2. pump'.item = pump.item
    BY <1>2, <1>5 DEF ReportError, RunErrorHandler, Pumps
  <2> QED
    BY <1>0, <1>1, <2>1, <2>2
<1>6. CASE HandleEnd
  <2>1. /\ pump' = [pump EXCEPT !.item = NoItem] /\ UNCHANGED <<taken, ran>> /\ pump.todo = <<>> /\ Executing
    BY <1>6 DEF HandleEnd, Joined
  <2>2. ~Executing'
    BY <1>2, <2>1 DEF Executing, Pumps
  <2>3. taken \in 1..Len(fired) /\ PermOf(ran \o pump.todo, fired[taken].hs)
    BY <2>1 DEF RegistryInv, RegistryTyped, InHand
  <2>4. fired[taken] \in Dispatches
    BY <2>3 DEF RegistryInv, RegistryTyped
  <2>5. fired[taken].hs \in Seq(HandlerNames) /\ ran \in Seq(HandlerNames) /\ pump.todo \in Seq(HandlerNames)
    BY <1>2, <2>4, Kinds DEF RegistryInv, RegistryTyped, Pumps
  <2>6. UiOnce(fired[taken].hs)
    BY <2>3 DEF UiWired
  <2>7. Ui(fired[taken].hs) <=> Ui(ran) \/ Ui(pump.todo)
    BY <2>3, <2>5, <2>6, UiPerm
  <2>8. ~Ui(pump.todo)
    BY <2>1 DEF Ui, Contains
  <2>9. Ui(fired[taken].hs) => Contains(ran, "ui")
    BY <2>7, <2>8 DEF Ui
  <2>10. \A i \in 1..taken : i < taken \/ i = taken
    BY <2>3
  <2> QED
    BY <1>0, <2>1, <2>2, <2>9, <2>10 DEF Seen
<1> QED
  BY <1>0, <1>3, <1>4, <1>5, <1>6 DEF PumpStep

\* A handler that ends: the interface's shows it the dispatch in hand, for the first time.
LEMMA HandlerSees ==
    ASSUME RegistryInv, UiWired, NEW i, NEW ok, RunHandler(i, ok)
    PROVE  /\ UNCHANGED <<events, fired, taken>>
           /\ pump.todo[i] # "ui" => Seen' = Seen
           /\ pump.todo[i] = "ui" =>
                 /\ Seen' = Seen \union {taken} /\ taken \notin Seen
                 /\ Ui(fired[taken].hs)
           /\ taken \in 1..Len(fired) /\ pump.item = fired[taken]
<1> DEFINE h == pump.todo[i]
<1>1. /\ ran' = Append(ran, h) /\ UNCHANGED <<events, queue, fired, taken, stops>>
      /\ Executing /\ i \in 1..Len(pump.todo) /\ pump'.item = pump.item
  BY DEF RunHandler, MayRun, RegistryInv, RegistryTyped, Pumps
<1>2. taken \in 1..Len(fired) /\ pump.item = fired[taken] /\ PermOf(ran \o pump.todo, fired[taken].hs)
  BY <1>1 DEF RegistryInv, RegistryTyped, InHand
<1>3. fired[taken] \in Dispatches
  BY <1>2 DEF RegistryInv, RegistryTyped
<1>4. fired[taken].hs \in Seq(HandlerNames) /\ ran \in Seq(HandlerNames) /\ pump.todo \in Seq(HandlerNames)
  BY <1>3, Kinds DEF RegistryInv, RegistryTyped, Pumps
<1>5. UiOnce(fired[taken].hs)
  BY <1>2 DEF UiWired
<1>6. /\ Ui(fired[taken].hs) <=> Ui(ran) \/ Ui(pump.todo)
      /\ h = "ui" => ~Ui(ran)
  BY <1>1, <1>2, <1>4, <1>5, UiPerm
<1>7. h \in HandlerNames
  BY <1>1, <1>4
<1>8. Ui(ran') <=> Ui(ran) \/ h = "ui"
  BY <1>1, <1>4, <1>7, UiAppend
<1>9. h = "ui" => Ui(pump.todo)
  BY <1>1 DEF Ui, Contains
<1> HIDE DEF h
<1>10. Executing' /\ taken' = taken /\ fired' = fired
  BY <1>1 DEF Executing
<1>11. Seen = {j \in 1..taken : Ui(fired[j].hs) /\ (j < taken \/ Ui(ran))}
  BY <1>1 DEF Seen, Ui
<1>12. Seen' = {j \in 1..taken : Ui(fired[j].hs) /\ (j < taken \/ Ui(ran'))}
  BY <1>10 DEF Seen, Ui
<1>13. taken \in Nat /\ taken \in 1..taken /\ ~(taken < taken) /\ \A j \in 1..taken : j < taken \/ j = taken
  BY <1>2
<1>14. h # "ui" => Seen' = Seen
  BY <1>8, <1>11, <1>12
<1>15. h = "ui" => Seen' = Seen \union {taken} /\ taken \notin Seen /\ Ui(fired[taken].hs)
  BY <1>6, <1>8, <1>9, <1>11, <1>12, <1>13
<1> QED
  BY <1>1, <1>2, <1>14, <1>15 DEF h

-----------------------------------------------------------------------------
(* The flags, the lines and the counters of the interface. *)

Blames(u) == u.kernel_panic \/ u.sut_not_responding

\* The interface of a session starts with nothing to say.
LEMMA NewUiTyped ==
    ASSUME NEW kind \in UiKinds
    PROVE  LET u == NewUi(kind)
           IN  /\ u \in Uis /\ u.kind = kind /\ ~Blames(u) /\ ~u.kernel_tainted
               /\ u.done = 0 /\ u.total = 0
  BY DEF NewUi, Uis, Blames, Args

\* What an event does to the interface: the line of a completed test goes wrong only
\* for a flag that was up and is down then, and so with a mark for a taint.
UiDoes(u, item, v, lines) ==
    /\ v \in Uis /\ v.kind = u.kind
    /\ item.ev # "test_completed" =>
          /\ lines = <<>> /\ v.done = u.done
          /\ Blames(v) => Blames(u) \/ item.ev \in {"kernel_panic", "sut_not_responding"}
          /\ v.kernel_tainted => u.kernel_tainted \/ item.ev = "kernel_tainted"
    /\ item.ev = "test_completed" =>
          /\ lines = <<>> \/ \E line \in Lines : lines = <<line>>
          /\ Blames(v) => Blames(u)
          /\ \/ \E line \in Lines : lines = <<line>> /\ line.test = item.arg /\ line.shown = "result"
             \/ Blames(u) /\ ~Blames(v)
          /\ v.kernel_tainted => u.kernel_tainted
          /\ \A line \in Lines : lines = <<line>> /\ line.tainted => u.kernel_tainted /\ ~v.kernel_tainted
          /\ v.done = IF u.kind = "parallel" /\ item.arg \in ParTests THEN u.done + 1 ELSE u.done
    /\ v.total = IF u.kind = "parallel" /\ item.ev = "suite_started"
                 THEN u.total + Cardinality(ParTests) ELSE u.total

\* A line is one, and each of its fields is what it was made of.
LEMMA LineIs ==
    ASSUME NEW t \in Args, NEW shown \in {"result", "sut_not_responding", "kernel_panic"},
           NEW tainted \in BOOLEAN
    PROVE  /\ Line(t, shown, tainted) \in Lines
           /\ Line(t, shown, tainted).test = t /\ Line(t, shown, tainted).shown = shown
           /\ Line(t, shown, tainted).tainted = tainted
  BY DEF Line, Lines

\* A printed line tells what it says.
LEMMA OneLine ==
    ASSUME NEW line \in Lines, NEW lines, lines = <<line>>
    PROVE  \A l \in Lines : lines = <<l>> => l = line
<1> SUFFICES ASSUME NEW l \in Lines, <<line>> = <<l>>
             PROVE  l = line
  OBVIOUS
<1>1. <<line>>[1] = line /\ <<l>>[1] = l
  OBVIOUS
<1> QED
  BY <1>1

\* Clearing the flags.
LEMMA ClearedIs ==
    ASSUME NEW u \in Uis
    PROVE  LET c == Cleared(u)
           IN  /\ c \in Uis /\ c.kind = u.kind /\ ~Blames(c) /\ c.kernel_tainted = u.kernel_tainted
               /\ c.done = u.done /\ c.total = u.total
  BY DEF Cleared, Uis, Blames

\* The flags that are up, timeouts aside.
LEMMA FlagsAre ==
    ASSUME NEW u \in Uis
    PROVE  Flags(u) = {} <=> ~Blames(u)
<1>1. u.timed_out = FALSE
  BY DEF Uis
<1>2. \A f \in Flags(u) : f \in {"timed_out", "sut_not_responding", "kernel_panic"} /\ u[f]
  BY DEF Flags
<1>3. u.sut_not_responding => "sut_not_responding" \in Flags(u)
  BY DEF Flags
<1>4. u.kernel_panic => "kernel_panic" \in Flags(u)
  BY DEF Flags
<1> QED
  BY <1>1, <1>2, <1>3, <1>4 DEF Blames

\* SimpleUi.
LEMMA SimpleDoes ==
    ASSUME NEW u \in Uis, NEW item \in Dispatches, item.ev # "test_timed_out", u.kind = "simple"
    PROVE  UiDoes(u, item, SimpleUi(u, item)[1], SimpleUi(u, item)[2])
<1>0. item.arg \in Args
  BY DEF Dispatches
<1>1. CASE item.ev \in {"sut_not_responding", "kernel_panic", "kernel_tainted"}
  <2> DEFINE v == [u EXCEPT ![item.ev] = TRUE]
  <2>1. SimpleUi(u, item) = <<v, <<>> >>
    BY <1>1 DEF SimpleUi
  <2>2. /\ v \in Uis /\ v.kind = u.kind /\ v.done = u.done /\ v.total = u.total
        /\ Blames(v) => Blames(u) \/ item.ev \in {"kernel_panic", "sut_not_responding"}
        /\ v.kernel_tainted => u.kernel_tainted \/ item.ev = "kernel_tainted"
    BY <1>1 DEF Uis, Blames
  <2> HIDE DEF v
  <2> QED
    BY <1>1, <2>1, <2>2 DEF UiDoes
<1>2. CASE item.ev = "test_completed" /\ Flags(u) # {}
  <2>1. SimpleUi(u, item) = <<Cleared(u), <<>> >>
    BY <1>2 DEF SimpleUi
  <2>2. Blames(u)
    BY <1>2, FlagsAre
  <2>3. /\ Cleared(u) \in Uis /\ Cleared(u).kind = u.kind /\ ~Blames(Cleared(u))
        /\ Cleared(u).kernel_tainted = u.kernel_tainted
        /\ Cleared(u).done = u.done /\ Cleared(u).total = u.total
    BY ClearedIs
  <2>4. \A line \in Lines : <<>> # <<line>>
    OBVIOUS
  <2> QED
    BY <1>2, <2>1, <2>2, <2>3, <2>4 DEF UiDoes
<1>3. CASE item.ev = "test_completed" /\ Flags(u) = {}
  <2> DEFINE v == [u EXCEPT !.kernel_tainted = FALSE]
             line == Line(item.arg, "result", u.kernel_tainted)
  <2>1. SimpleUi(u, item) = <<v, <<line>> >>
    BY <1>3 DEF SimpleUi
  <2>2. /\ v \in Uis /\ v.kind = u.kind /\ v.done = u.done /\ v.total = u.total
        /\ Blames(v) <=> Blames(u)
        /\ ~v.kernel_tainted
    BY DEF Uis, Blames
  <2>3. u.kernel_tainted \in BOOLEAN
    BY DEF Uis
  <2>4. line \in Lines /\ line.test = item.arg /\ line.shown = "result" /\ line.tainted = u.kernel_tainted
    BY <1>0, <2>3, LineIs
  <2> HIDE DEF v, line
  <2>5. \A l \in Lines : <<line>> = <<l>> => l = line
    BY <2>4, OneLine
  <2> QED
    BY <1>3, <2>1, <2>2, <2>4, <2>5 DEF UiDoes
<1>4. CASE ~(item.ev \in {"sut_not_responding", "kernel_panic", "kernel_tainted"}) /\ item.ev # "test_completed"
  <2>1. SimpleUi(u, item) = <<u, <<>> >>
    BY <1>4 DEF SimpleUi
  <2> QED
    BY <1>4, <2>1 DEF UiDoes
<1> QED
  BY <1>1, <1>2, <1>3, <1>4

\* VerboseUi.
LEMMA VerboseDoes ==
    ASSUME NEW u \in Uis, NEW item \in Dispatches, item.ev # "test_timed_out", u.kind = "verbose"
    PROVE  UiDoes(u, item, VerboseUi(u, item)[1], VerboseUi(u, item)[2])
<1>0. item.arg \in Args
  BY DEF Dispatches
<1>1. CASE item.ev = "test_completed"
  <2> DEFINE v == [u EXCEPT !.timed_out = FALSE]
             line == Line(item.arg, "result", FALSE)
  <2>1. VerboseUi(u, item) = <<v, <<line>> >>
    BY <1>1 DEF VerboseUi
  <2>2. /\ v \in Uis /\ v.kind = u.kind /\ v.done = u.done /\ v.total = u.total
        /\ Blames(v) <=> Blames(u)
        /\ v.kernel_tainted = u.kernel_tainted
    <3>1. v \in Uis /\ v.kind = u.kind /\ v.done = u.done /\ v.total = u.total
      BY DEF Uis
    <3>2. /\ v.kernel_panic = u.kernel_panic /\ v.sut_not_responding = u.sut_not_responding
          /\ v.kernel_tainted = u.kernel_tainted
      BY DEF Uis
    <3> QED
      BY <3>1, <3>2 DEF Blames
  <2>4. line \in Lines /\ line.test = item.arg /\ line.shown = "result" /\ ~line.tainted
    BY <1>0 DEF Line, Lines
  <2> HIDE DEF v, line
  <2>5. \A l \in Lines : <<line>> = <<l>> => l = line
    BY <2>4, OneLine
  <2> QED
    BY <1>1, <2>1, <2>2, <2>4, <2>5 DEF UiDoes
<1>2. CASE item.ev # "test_completed"
  <2>1. VerboseUi(u, item) = <<u, <<>> >>
    BY <1>2 DEF VerboseUi
  <2> QED
    BY <1>2, <2>1 DEF UiDoes
<1> QED
  BY <1>1, <1>2

\* ParallelUi.
LEMMA ParallelDoes ==
    ASSUME NEW u \in Uis, NEW item \in Dispatches, item.ev # "test_timed_out", u.kind = "parallel"
    PROVE  UiDoes(u, item, ParallelUi(u, item)[1], ParallelUi(u, item)[2])
<1>0. item.arg \in Args /\ Cardinality(ParTests) \in Nat /\ u.total \in Nat /\ u.done \in Nat
  <2>1. IsFiniteSet(ParTests)
    BY ReportingAssumption, FS_Subset
  <2> QED
    BY <2>1, FS_CardinalityType DEF Dispatches, Uis
<1>1. CASE item.ev \in {"sut_not_responding", "kernel_panic", "kernel_tainted"}
  <2> DEFINE v == [u EXCEPT ![item.ev] = TRUE]
  <2>1. ParallelUi(u, item) = <<v, <<>> >>
    BY <1>1 DEF ParallelUi
  <2>2. /\ v \in Uis /\ v.kind = u.kind /\ v.done = u.done /\ v.total = u.total
        /\ Blames(v) => Blames(u) \/ item.ev \in {"kernel_panic", "sut_not_responding"}
        /\ v.kernel_tainted => u.kernel_tainted \/ item.ev = "kernel_tainted"
    BY <1>1 DEF Uis, Blames
  <2> HIDE DEF v
  <2> QED
    BY <1>1, <2>1, <2>2 DEF UiDoes
<1>2. CASE item.ev = "suite_started"
  <2> DEFINE n == u.total + Cardinality(ParTests)
             v == [u EXCEPT !.total = n]
  <2>1. ParallelUi(u, item) = <<v, <<>> >>
    BY <1>2 DEF ParallelUi
  <2>2. n \in Nat
    BY <1>0
  <2>3. /\ v \in Uis /\ v.kind = u.kind /\ v.done = u.done /\ v.total = n
        /\ Blames(v) <=> Blames(u)
        /\ v.kernel_tainted = u.kernel_tainted
    <3> HIDE DEF n
    <3> QED
      BY <2>2 DEF Uis, Blames
  <2> HIDE DEF v
  <2> QED
    BY <1>2, <2>1, <2>3 DEF UiDoes
<1>3. CASE item.ev = "test_completed"
  <2> DEFINE n == IF item.arg \in ParTests THEN u.done + 1 ELSE u.done
             v == [Cleared(u) EXCEPT !.kernel_tainted = FALSE, !.done = n]
             shown == IF u.sut_not_responding THEN "sut_not_responding"
                      ELSE IF u.kernel_panic THEN "kernel_panic" ELSE "result"
             line == Line(item.arg, shown, u.kernel_tainted /\ shown = "result")
  <2>0. /\ Cleared(u) \in Uis /\ Cleared(u).kind = u.kind /\ ~Blames(Cleared(u))
        /\ Cleared(u).done = u.done /\ Cleared(u).total = u.total
    BY ClearedIs
  <2>1. ParallelUi(u, item) = <<v, <<line>> >>
    <3>1. u.timed_out = FALSE
      BY DEF Uis
    <3>2. v = [Cleared(u) EXCEPT !.kernel_tainted = FALSE,
                                 !.done = IF item.arg \in ParTests THEN @ + 1 ELSE @]
      BY <2>0
    <3> HIDE DEF v, line
    <3> QED
      BY <1>3, <3>1, <3>2 DEF ParallelUi, line
  <2>2. n \in Nat
    BY <1>0
  <2>3. v \in Uis /\ v.kind = u.kind /\ v.done = n /\ v.total = u.total /\ ~Blames(v) /\ ~v.kernel_tainted
    <3> DEFINE c == Cleared(u)
    <3>1. c \in Uis /\ c.kind = u.kind /\ ~Blames(c) /\ c.total = u.total
      BY <2>0
    <3> HIDE DEF c, n
    <3> QED
      BY <2>2, <3>1 DEF Uis, Blames, c
  <2>4. /\ shown \in {"result", "sut_not_responding", "kernel_panic"}
        /\ shown = "result" \/ Blames(u)
        /\ u.kernel_tainted \in BOOLEAN
    BY DEF Uis, Blames
  <2>5. line \in Lines /\ line.test = item.arg /\ line.shown = shown /\ (line.tainted => u.kernel_tainted)
    <3> DEFINE mark == u.kernel_tainted /\ shown = "result"
    <3>1. mark \in BOOLEAN /\ (mark => u.kernel_tainted)
      OBVIOUS
    <3> HIDE DEF mark
    <3>2. Line(item.arg, shown, mark) \in Lines /\ Line(item.arg, shown, mark).test = item.arg
          /\ Line(item.arg, shown, mark).shown = shown /\ Line(item.arg, shown, mark).tainted = mark
      BY <1>0, <2>4, <3>1, LineIs
    <3> QED
      BY <3>1, <3>2 DEF mark
  <2> HIDE DEF v, line, shown
  <2>6. \A l \in Lines : <<line>> = <<l>> => l = line
    BY <2>5, OneLine
  <2> QED
    BY <1>3, <2>1, <2>3, <2>4, <2>5, <2>6 DEF UiDoes
<1>4. CASE /\ ~(item.ev \in {"sut_not_responding", "kernel_panic", "kernel_tainted"})
           /\ item.ev \notin {"test_completed", "suite_started"}
  <2>1. ParallelUi(u, item) = <<u, <<>> >>
    BY <1>4 DEF ParallelUi
  <2> QED
    BY <1>4, <2>1 DEF UiDoes
<1> QED
  BY <1>1, <1>2, <1>3, <1>4

\* The interface that is selected.
LEMMA UiHandlerDoes ==
    ASSUME NEW u \in Uis, NEW item \in Dispatches, item.ev # "test_timed_out"
    PROVE  UiDoes(u, item, UiHandler(u, item)[1], UiHandler(u, item)[2])
<1>1. u.kind \in {"simple", "verbose", "parallel"}
  BY DEF Uis, UiKinds
<1>2. CASE u.kind = "simple"
  BY <1>2, SimpleDoes DEF UiHandler
<1>3. CASE u.kind = "verbose"
  BY <1>3, VerboseDoes DEF UiHandler
<1>4. CASE u.kind = "parallel"
  BY <1>4, ParallelDoes DEF UiHandler
<1> QED
  BY <1>1, <1>2, <1>3, <1>4

-----------------------------------------------------------------------------
(* The counts. *)

\* What the interface has seen is finite, and so are the lines.
LEMMA SeenFinite ==
    ASSUME RegistryInv, UiTyped
    PROVE  /\ IsFiniteSet(Seen) /\ Seen \subseteq 1..Len(fired)
           /\ \A name : IsFiniteSet(SeenOf(name)) /\ SeenOf(name) \subseteq Seen
           /\ IsFiniteSet(Kernel) /\ IsFiniteSet(LostLines) /\ IsFiniteSet(TaintedLines) /\ IsFiniteSet(ParDone)
           /\ Cardinality(Kernel) \in Nat /\ Cardinality(LostLines) \in Nat /\ Cardinality(TaintedLines) \in Nat
           /\ Cardinality(ParDone) \in Nat /\ Cardinality(SeenOf("kernel_tainted")) \in Nat
<1>1. taken \in 0..Len(fired) /\ Len(fired) \in Nat
  BY DEF RegistryInv, RegistryTyped
<1>2. Seen \subseteq 1..Len(fired)
  BY <1>1 DEF Seen
<1>3. IsFiniteSet(1..Len(fired))
  BY <1>1, FS_Interval
<1>4. \A T \in SUBSET (1..Len(fired)) : IsFiniteSet(T) /\ Cardinality(T) \in Nat
  BY <1>3, FS_Subset, FS_CardinalityType
<1>5. \A name : SeenOf(name) \subseteq Seen
  BY DEF SeenOf
<1>6. Kernel \subseteq Seen /\ LostLines \subseteq Seen /\ ParDone \subseteq Seen
  BY <1>5 DEF Kernel, LostLines, ParDone
<1>7. Len(screen) \in Nat /\ TaintedLines \subseteq 1..Len(screen)
  BY DEF UiTyped, TaintedLines
<1>8. IsFiniteSet(1..Len(screen))
  BY <1>7, FS_Interval
<1>9. IsFiniteSet(TaintedLines) /\ Cardinality(TaintedLines) \in Nat
  BY <1>7, <1>8, FS_Subset, FS_CardinalityType
<1> QED
  BY <1>2, <1>4, <1>5, <1>6, <1>9

\* A step that shows the interface nothing leaves the counts.
LEMMA QuietCounts ==
    ASSUME RegistryInv, UiCounts, Seen' = Seen, screen' = screen,
           \A i \in 1..Len(fired) : fired'[i] = fired[i],
           ui'.kind = ui.kind, ui'.kernel_panic = ui.kernel_panic, ui'.done = ui.done, ui'.total = ui.total,
           ui'.sut_not_responding = ui.sut_not_responding, ui'.kernel_tainted = ui.kernel_tainted
    PROVE  UiCounts'
<1>1. \A i \in Seen : fired'[i] = fired[i]
  <2>1. \A i \in Seen : i \in 1..Len(fired)
    BY DEF Seen, RegistryInv, RegistryTyped
  <2> QED
    BY <2>1
<1>2. \A name : SeenOf(name)' = SeenOf(name)
  BY <1>1 DEF SeenOf
<1>3. Kernel' = Kernel
  BY <1>2 DEF Kernel
<1>4. \A i \in SeenOf("test_completed") : fired'[i] = fired[i]
  BY <1>1 DEF SeenOf
<1>5. \A t : ShownAsIs(t)' = ShownAsIs(t)
  BY DEF ShownAsIs
<1>6. SeenOf("test_completed")' = SeenOf("test_completed") /\ SeenOf("kernel_tainted")' = SeenOf("kernel_tainted")
      /\ SeenOf("suite_started")' = SeenOf("suite_started")
  BY <1>2
<1>7. LostLines' = LostLines
  <2>1. \A i \in SeenOf("test_completed") : (~ShownAsIs(fired[i].arg))' <=> ~ShownAsIs(fired[i].arg)
    BY <1>4 DEF ShownAsIs
  <2> QED
    BY <1>6, <2>1 DEF LostLines
<1>8. ParDone' = ParDone
  BY <1>4, <1>6 DEF ParDone
<1>9. TaintedLines' = TaintedLines
  BY DEF TaintedLines
<1> QED
  BY <1>3, <1>6, <1>7, <1>8, <1>9 DEF UiCounts

\* One element more.
LEMMA OneMore ==
    ASSUME NEW S, IsFiniteSet(S), NEW x
    PROVE  /\ IsFiniteSet(S \union {x}) /\ Cardinality(S \union {x}) \in Nat
           /\ x \notin S => Cardinality(S \union {x}) = Cardinality(S) + 1
           /\ Cardinality(S \union {x}) <= Cardinality(S) + 1
<1>1. IsFiniteSet(S \union {x}) /\ Cardinality(S \union {x}) = IF x \in S THEN Cardinality(S) ELSE Cardinality(S) + 1
  BY FS_AddElement
<1>2. Cardinality(S) \in Nat
  BY FS_CardinalityType
<1> QED
  BY <1>1, <1>2

\* What goes up by as much as is paid stays paid for.
LEMMA StillPaid ==
    ASSUME NEW lost \in Nat, NEW up \in Nat, NEW paid \in Nat, NEW lost1 \in Nat, NEW up1 \in Nat, NEW more \in Nat,
           lost + up <= paid, lost1 <= lost, up1 <= up + more
    PROVE  lost1 + up1 <= paid + more
  OBVIOUS

\* An event the interface handles keeps the counts: what goes wrong is paid for.
LEMMA SeenCounts ==
    ASSUME RegistryInv, UiTyped, UiTyped', UiCounts, RegistryInv',
           NEW k \in 1..Len(fired), NEW lines \in Seq(Lines),
           Seen' = Seen \union {k}, k \notin Seen, fired' = fired,
           UiDoes(ui, fired[k], ui', lines), screen' = screen \o lines
    PROVE  UiCounts'
<1> DEFINE ev == fired[k].ev
<1>1. /\ \A name : SeenOf(name)' = IF ev = name THEN SeenOf(name) \union {k} ELSE SeenOf(name)
      /\ \A name : k \notin SeenOf(name)
  BY DEF SeenOf
<1>2. Kernel' = IF ev \in {"kernel_panic", "sut_not_responding"} THEN Kernel \union {k} ELSE Kernel
  <2>1. /\ SeenOf("kernel_panic")' = IF ev = "kernel_panic" THEN SeenOf("kernel_panic") \union {k} ELSE SeenOf("kernel_panic")
        /\ SeenOf("sut_not_responding")' =
              IF ev = "sut_not_responding" THEN SeenOf("sut_not_responding") \union {k} ELSE SeenOf("sut_not_responding")
    BY <1>1
  <2> QED
    BY <2>1 DEF Kernel
<1>3. k \notin Kernel /\ k \notin ParDone
  BY <1>1 DEF Kernel, ParDone
<1>4. /\ IsFiniteSet(Kernel) /\ IsFiniteSet(LostLines) /\ IsFiniteSet(TaintedLines) /\ IsFiniteSet(ParDone)
      /\ IsFiniteSet(SeenOf("kernel_tainted"))
      /\ Cardinality(Kernel) \in Nat /\ Cardinality(LostLines) \in Nat /\ Cardinality(TaintedLines) \in Nat
      /\ Cardinality(ParDone) \in Nat /\ Cardinality(SeenOf("kernel_tainted")) \in Nat
  BY SeenFinite
<1>5. /\ Cardinality(Kernel') = Cardinality(Kernel) + One(ev \in {"kernel_panic", "sut_not_responding"})
      /\ Cardinality(Kernel') \in Nat
  <2>1. Cardinality(Kernel \union {k}) = Cardinality(Kernel) + 1 /\ Cardinality(Kernel \union {k}) \in Nat
    BY <1>3, <1>4, OneMore
  <2>2. CASE ev \in {"kernel_panic", "sut_not_responding"}
    BY <1>2, <2>1, <2>2 DEF One
  <2>3. CASE ev \notin {"kernel_panic", "sut_not_responding"}
    BY <1>2, <1>4, <2>3 DEF One
  <2> QED
    BY <2>2, <2>3
<1>6. /\ Cardinality(SeenOf("kernel_tainted")') = Cardinality(SeenOf("kernel_tainted")) + One(ev = "kernel_tainted")
      /\ Cardinality(SeenOf("kernel_tainted")') \in Nat
  <2>1. /\ SeenOf("kernel_tainted")' =
              IF ev = "kernel_tainted" THEN SeenOf("kernel_tainted") \union {k} ELSE SeenOf("kernel_tainted")
        /\ k \notin SeenOf("kernel_tainted")
    BY <1>1
  <2> QED
    <3> DEFINE T == SeenOf("kernel_tainted")
    <3>1. T' = IF ev = "kernel_tainted" THEN T \union {k} ELSE T
      BY <2>1
    <3>2. Cardinality(T \union {k}) = Cardinality(T) + 1 /\ Cardinality(T \union {k}) \in Nat /\ Cardinality(T) \in Nat
      BY <1>4, <2>1, OneMore
    <3> HIDE DEF T
    <3>3. CASE ev = "kernel_tainted"
      <4>1. T' = T \union {k}
        BY <3>1, <3>3
      <4>2. Cardinality(T') = Cardinality(T) + 1 /\ Cardinality(T') \in Nat
        BY <3>2, <4>1
      <4> QED
        BY <3>3, <4>2 DEF One, T
    <3>4. CASE ev # "kernel_tainted"
      <4>1. Cardinality(T') = Cardinality(T) /\ Cardinality(T') \in Nat
        BY <3>1, <3>2, <3>4
      <4> QED
        BY <3>2, <3>4, <4>1 DEF One, T
    <3> QED
      BY <3>3, <3>4
<1>7. /\ screen' \in Seq(Lines) /\ Len(screen') = Len(screen) + Len(lines)
      /\ Len(screen) \in Nat /\ Len(lines) \in Nat
      /\ \A i \in 1..Len(screen) : i \in 1..Len(screen') /\ screen'[i] = screen[i]
      /\ \A i \in 1..Len(lines) : screen'[Len(screen) + i] = lines[i] /\ Len(screen) + i \in 1..Len(screen')
      /\ \A i \in 1..Len(screen') : i \in 1..Len(screen) \/ (i - Len(screen) \in 1..Len(lines) /\ Len(screen) + (i - Len(screen)) = i)
  BY DEF UiTyped
<1>8. ASSUME NEW t, ShownAsIs(t)
      PROVE  ShownAsIs(t)'
  BY <1>7, <1>8 DEF ShownAsIs
<1>9. LostLines' \subseteq LostLines \union (IF ev = "test_completed" THEN {k} ELSE {})
  <2> SUFFICES ASSUME NEW i \in LostLines', ~(i = k /\ ev = "test_completed")
               PROVE  i \in LostLines
    OBVIOUS
  <2>1. i \in SeenOf("test_completed")' /\ ~ShownAsIs(fired[i].arg)'
    BY DEF LostLines
  <2>2. i \in SeenOf("test_completed")
    BY <1>1, <2>1
  <2> QED
    BY <1>8, <2>1, <2>2 DEF LostLines
<1>10. ASSUME ev = "test_completed", ~(Blames(ui) /\ ~Blames(ui'))
       PROVE  LostLines' \subseteq LostLines
  <2>1. PICK line \in Lines : lines = <<line>> /\ line.test = fired[k].arg /\ line.shown = "result"
    BY <1>10 DEF UiDoes
  <2>2. 1 \in 1..Len(lines) /\ lines[1] = line
    BY <2>1
  <2>3. ShownAsIs(fired[k].arg)'
    BY <1>7, <2>1, <2>2 DEF ShownAsIs
  <2>4. k \notin LostLines'
    BY <2>3 DEF LostLines
  <2> QED
    BY <1>9, <2>4
<1>11. Cardinality(LostLines') + One(Blames(ui')) <= Cardinality(Kernel')
  <2>1. Cardinality(LostLines) + One(Blames(ui)) <= Cardinality(Kernel)
    BY DEF UiCounts, Blames
  <2>2. CASE LostLines' \subseteq LostLines
    <3>1. IsFiniteSet(LostLines') /\ Cardinality(LostLines') <= Cardinality(LostLines) /\ Cardinality(LostLines') \in Nat
      BY <1>4, <2>2, FS_Subset, FS_CardinalityType
    <3>2. One(Blames(ui')) <= One(Blames(ui)) + One(ev \in {"kernel_panic", "sut_not_responding"})
      BY DEF UiDoes, One
    <3>3. One(Blames(ui')) \in Nat /\ One(Blames(ui)) \in Nat /\ One(ev \in {"kernel_panic", "sut_not_responding"}) \in Nat
      BY DEF One
    <3> DEFINE lost == Cardinality(LostLines)
               up == One(Blames(ui))
               lost1 == Cardinality(LostLines')
               up1 == One(Blames(ui'))
               more == One(ev \in {"kernel_panic", "sut_not_responding"})
    <3>4. lost + up <= Cardinality(Kernel) /\ lost1 <= lost /\ up1 <= up + more
      BY <2>1, <3>1, <3>2
    <3>5. lost \in Nat /\ up \in Nat /\ lost1 \in Nat /\ up1 \in Nat /\ more \in Nat
      BY <1>4, <3>1, <3>3
    <3>6. Cardinality(Kernel') = Cardinality(Kernel) + more /\ Cardinality(Kernel) \in Nat
      BY <1>4, <1>5
    <3> HIDE DEF lost, up, lost1, up1, more
    <3>7. lost1 + up1 <= Cardinality(Kernel) + more
      BY <3>4, <3>5, <3>6, StillPaid
    <3> QED
      BY <3>6, <3>7 DEF lost1, up1
  <2>3. CASE ~(LostLines' \subseteq LostLines)
    <3>1. ev = "test_completed"
      BY <1>9, <2>3
    <3>2. Blames(ui) /\ ~Blames(ui')
      BY <1>10, <2>3, <3>1
    <3>3. LostLines' \subseteq LostLines \union {k}
      BY <1>9, <3>1
    <3>4. /\ IsFiniteSet(LostLines \union {k}) /\ Cardinality(LostLines \union {k}) <= Cardinality(LostLines) + 1
          /\ Cardinality(LostLines \union {k}) \in Nat
      BY <1>4, OneMore
    <3>5. IsFiniteSet(LostLines') /\ Cardinality(LostLines') \in Nat
          /\ Cardinality(LostLines') <= Cardinality(LostLines \union {k})
      BY <3>3, <3>4, FS_Subset, FS_CardinalityType
    <3>6. One(Blames(ui)) = 1 /\ One(Blames(ui')) = 0 /\ Cardinality(Kernel') = Cardinality(Kernel)
      BY <1>4, <1>5, <3>1, <3>2 DEF One
    <3> QED
      BY <1>4, <2>1, <3>4, <3>5, <3>6
  <2> QED
    BY <2>2, <2>3
<1>12. Cardinality(TaintedLines') + One(ui'.kernel_tainted) <= Cardinality(SeenOf("kernel_tainted")')
  <2>1. Cardinality(TaintedLines) + One(ui.kernel_tainted) <= Cardinality(SeenOf("kernel_tainted"))
    BY DEF UiCounts
  <2>2. One(ui'.kernel_tainted) \in Nat /\ One(ui.kernel_tainted) \in Nat /\ One(ev = "kernel_tainted") \in Nat
    BY DEF One
  <2>3. One(ui'.kernel_tainted) <= One(ui.kernel_tainted) + One(ev = "kernel_tainted")
    BY DEF UiDoes, One
  <2>4. CASE TaintedLines' \subseteq TaintedLines
    <3>1. IsFiniteSet(TaintedLines') /\ Cardinality(TaintedLines') <= Cardinality(TaintedLines) /\ Cardinality(TaintedLines') \in Nat
      BY <1>4, <2>4, FS_Subset, FS_CardinalityType
    <3> DEFINE lost == Cardinality(TaintedLines)
               up == One(ui.kernel_tainted)
               lost1 == Cardinality(TaintedLines')
               up1 == One(ui'.kernel_tainted)
               more == One(ev = "kernel_tainted")
               paid == Cardinality(SeenOf("kernel_tainted"))
    <3>2. lost + up <= paid /\ lost1 <= lost /\ up1 <= up + more
      BY <2>1, <2>3, <3>1
    <3>3. lost \in Nat /\ up \in Nat /\ lost1 \in Nat /\ up1 \in Nat /\ more \in Nat /\ paid \in Nat
      BY <1>4, <2>2, <3>1
    <3>4. Cardinality(SeenOf("kernel_tainted")') = paid + more
      BY <1>6
    <3> HIDE DEF lost, up, lost1, up1, more, paid
    <3>5. lost1 + up1 <= paid + more
      BY <3>2, <3>3, StillPaid
    <3> QED
      BY <3>4, <3>5 DEF lost1, up1
  <2>5. CASE ~(TaintedLines' \subseteq TaintedLines)
    <3>1. PICK i \in TaintedLines' : i \notin TaintedLines
      BY <2>5
    <3>2. i \in 1..Len(screen') /\ screen'[i].tainted
      BY <3>1 DEF TaintedLines
    <3>3. i \notin 1..Len(screen)
      BY <1>7, <3>1, <3>2 DEF TaintedLines
    <3>4. lines # <<>>
      BY <1>7, <3>2, <3>3
    <3>5. ev = "test_completed" /\ \E line \in Lines : lines = <<line>>
      BY <3>4 DEF UiDoes
    <3>6. PICK line \in Lines : lines = <<line>>
      BY <3>5
    <3>7. Len(lines) = 1 /\ lines[1] = line
      BY <3>6
    <3>8. i = Len(screen) + 1 /\ screen'[i] = line
      BY <1>7, <3>2, <3>3, <3>7
    <3>9. ui.kernel_tainted /\ ~ui'.kernel_tainted
      BY <3>2, <3>5, <3>6, <3>8 DEF UiDoes
    <3>10. TaintedLines' \subseteq TaintedLines \union {i}
      BY <1>7, <3>7, <3>8 DEF TaintedLines
    <3>11. /\ IsFiniteSet(TaintedLines \union {i}) /\ Cardinality(TaintedLines \union {i}) = Cardinality(TaintedLines) + 1
      BY <1>4, <3>1, OneMore
    <3>12. IsFiniteSet(TaintedLines') /\ Cardinality(TaintedLines') \in Nat
           /\ Cardinality(TaintedLines') <= Cardinality(TaintedLines \union {i})
      BY <3>10, <3>11, FS_Subset, FS_CardinalityType
    <3>13. One(ui.kernel_tainted) = 1 /\ One(ui'.kernel_tainted) = 0
      BY <3>9 DEF One
    <3> QED
      BY <1>4, <1>6, <2>1, <2>2, <3>11, <3>12, <3>13
  <2> QED
    BY <2>4, <2>5
<1>13. IF ui'.kind = "parallel"
       THEN /\ ui'.done = Cardinality(ParDone')
            /\ SeenOf("suite_started")' # {} => ui'.total >= Cardinality(ParTests)
       ELSE ui'.done = 0
  <2>1. ui'.kind = ui.kind /\ ui.done \in Nat /\ ui.total \in Nat
    BY DEF UiDoes, UiTyped, Uis
  <2>2. CASE ui.kind = "parallel"
    <3>1. ui.done = Cardinality(ParDone) /\ (SeenOf("suite_started") # {} => ui.total >= Cardinality(ParTests))
      BY <2>2 DEF UiCounts
    <3>2. ui'.done = IF ev = "test_completed" /\ fired[k].arg \in ParTests THEN ui.done + 1 ELSE ui.done
      BY <2>2 DEF UiDoes
    <3>3. ParDone' = IF ev = "test_completed" /\ fired[k].arg \in ParTests THEN ParDone \union {k} ELSE ParDone
      <4>1. SeenOf("test_completed")' =
                IF ev = "test_completed" THEN SeenOf("test_completed") \union {k} ELSE SeenOf("test_completed")
        BY <1>1
      <4> QED
        BY <4>1 DEF ParDone
    <3>4. ui'.done = Cardinality(ParDone')
      <4>1. Cardinality(ParDone \union {k}) = Cardinality(ParDone) + 1
        BY <1>3, <1>4, OneMore
      <4> QED
        BY <3>1, <3>2, <3>3, <4>1
    <3>5. Cardinality(ParTests) \in Nat
      BY ReportingAssumption, FS_Subset, FS_CardinalityType
    <3>6. ui'.total = IF ev = "suite_started" THEN ui.total + Cardinality(ParTests) ELSE ui.total
      BY <2>2 DEF UiDoes
    <3>7. ev # "suite_started" => SeenOf("suite_started")' = SeenOf("suite_started")
      BY <1>1
    <3> QED
      BY <2>1, <2>2, <3>1, <3>4, <3>5, <3>6, <3>7
  <2>3. CASE ui.kind # "parallel"
    BY <2>1, <2>3 DEF UiCounts, UiDoes
  <2> QED
    BY <2>2, <2>3
<1> QED
  BY <1>11, <1>12, <1>13 DEF UiCounts, Blames

-----------------------------------------------------------------------------
(* What is fired, and for whom. *)

\* Tests that were announced completed stay so.
KeepsDone == \A t \in Tests : run[t] \in {"completed", "done"} => run'[t] \in {"completed", "done"}

\* A step that fires nothing and leaves the registrations leaves their invariants.
LEMMA StillWired ==
    ASSUME UiWired, UNCHANGED <<events, fired, mode>>, ui'.kind = ui.kind
    PROVE  UiWired'
  BY DEF UiWired, attach_ui

\* So it leaves what is fired, and for whom.
LEMMA StillFired ==
    ASSUME UiTyped, UiFired, UNCHANGED <<fired, mode>>, ui'.kind = ui.kind, KeepsDone,
           sess' = "suite" => sess = "suite",
           sess' \in {"new", "run"} => sess \in {"new", "run"} /\ events' = events
    PROVE  UiFired'
<1>1. fired' = fired
  OBVIOUS
<1>2. /\ \A k \in 1..Len(fired) : ~ForUi(fired', k, "test_timed_out")
      /\ \A k \in 1..Len(fired) : ForUi(fired', k, "test_completed") =>
          fired[k].arg \in Tests /\ run'[fired[k].arg] \in {"completed", "done"}
      /\ \A j, k \in 1..Len(fired) :
          ForUi(fired', j, "test_completed") /\ ForUi(fired', k, "test_completed") /\ fired[j].arg = fired[k].arg => j = k
  BY DEF UiFired, KeepsDone, ForUi
<1>3. ASSUME ui.kind = "parallel"
      PROVE  /\ \A k \in 1..Len(fired) : ForUi(fired', k, "test_completed") =>
                   \E j \in 1..Len(fired) : j < k /\ ForUi(fired', j, "suite_started")
             /\ sess' = "suite" => \E j \in 1..Len(fired) : ForUi(fired', j, "suite_started")
             /\ mode = "session" /\ sess' \in {"new", "run"} =>
                   "suite_started" \in DOMAIN events' /\ Ui(events'["suite_started"].handlers)
  BY <1>3 DEF UiFired, ForUi
<1> QED
  BY <1>2, <1>3 DEF UiFired, ForUi

\* A new dispatch: the last test of the suite is announced as the first one was.
LEMMA NewDispatch ==
    ASSUME RegistryInv, RegistryInv', UiTyped, UiWired, UiFired, NEW name, NEW arg, FireStep(name, arg),
           UNCHANGED <<mode, ui>>, KeepsDone,
           mode = "session" => name # "test_timed_out",
           mode = "session" /\ name = "test_completed" =>
               arg \in Tests /\ run[arg] = "row" /\ run'[arg] \in {"completed", "done"} /\ sess = "suite",
           sess' = "suite" => sess = "suite" \/ (mode = "session" /\ sess = "run" /\ name = "suite_started"),
           sess' \in {"new", "run"} => sess \in {"new", "run"}
    PROVE  UiWired' /\ UiFired'
<1> DEFINE n == Len(fired) + 1
<1>0. UNCHANGED <<events, mode, ui>>
  BY DEF FireStep
<1>1. /\ \A k \in 1..Len(fired) : k \in 1..Len(fired') /\ fired'[k] = fired[k]
      /\ \/ ~Handled(name) /\ fired' = fired
         \/ /\ Handled(name) /\ Len(fired') = n
            /\ fired'[n].ev = name /\ fired'[n].arg = arg
            /\ fired'[n].hs = events[name].handlers
  BY FireAdds
<1>2. Len(fired) \in Nat /\ Len(fired') \in Nat
  BY DEF RegistryInv, RegistryTyped
<1>3. ui.kind = "parallel" /\ mode = "session" /\ sess \in {"new", "run"} =>
          Handled("suite_started") /\ Ui(events["suite_started"].handlers)
  <2>1. ~Ui(<<>>)
    BY DEF Ui, Contains
  <2> QED
    BY <2>1 DEF UiFired, Handled
<1>4. CASE ~Handled(name) /\ fired' = fired
  <2>1. UiWired'
    BY <1>0, <1>4, StillWired
  <2>2. ui.kind = "parallel" /\ sess' = "suite" => sess = "suite"
    BY <1>3, <1>4
  <2>3. CASE sess' = "suite" /\ sess # "suite"
    <3>1. ui.kind # "parallel"
      BY <2>2, <2>3
    <3>2. /\ \A k \in 1..Len(fired) : ~ForUi(fired', k, "test_timed_out")
          /\ \A k \in 1..Len(fired) : ForUi(fired', k, "test_completed") =>
              fired[k].arg \in Tests /\ run'[fired[k].arg] \in {"completed", "done"}
          /\ \A j, k \in 1..Len(fired) :
              ForUi(fired', j, "test_completed") /\ ForUi(fired', k, "test_completed") /\ fired[j].arg = fired[k].arg => j = k
      BY <1>4 DEF UiFired, KeepsDone, ForUi
    <3> QED
      BY <1>0, <1>4, <2>1, <3>1, <3>2 DEF UiFired
  <2>4. CASE ~(sess' = "suite" /\ sess # "suite")
    <3>1. /\ UNCHANGED <<fired, mode>> /\ ui'.kind = ui.kind /\ (sess' = "suite" => sess = "suite")
          /\ sess' \in {"new", "run"} => sess \in {"new", "run"} /\ events' = events
      BY <1>0, <1>4, <2>4
    <3> QED
      BY <2>1, <3>1, StillFired
  <2> QED
    BY <2>1, <2>3, <2>4
<1>5. CASE /\ Handled(name) /\ Len(fired') = n
           /\ fired'[n].ev = name /\ fired'[n].arg = arg
           /\ fired'[n].hs = events[name].handlers
  <2>1. \A k \in 1..Len(fired') : k \in 1..Len(fired) \/ k = n
    BY <1>2, <1>5
  <2>2. name \in DOMAIN events
    BY <1>5 DEF Handled
  <2>3. /\ UiOnce(fired'[n].hs)
        /\ Ui(fired'[n].hs) => mode = "session" /\ fired'[n].ev \in attach_ui(ui.kind)
    BY <1>5, <2>2 DEF UiWired
  <2>4. UiWired'
    <3>1. \A k \in 1..Len(fired') :
              /\ UiOnce(fired'[k].hs)
              /\ Ui(fired'[k].hs) => mode = "session" /\ fired'[k].ev \in attach_ui(ui.kind)
      BY <1>1, <2>1, <2>3 DEF UiWired
    <3> QED
      BY <1>0, <3>1 DEF UiWired
  <2>5. \A k \in 1..Len(fired), ev \in EventNames : ForUi(fired', k, ev) <=> ForUi(fired, k, ev)
    BY <1>1 DEF ForUi
  <2>6. \A ev \in EventNames : ForUi(fired', n, ev) => mode = "session" /\ name = ev
    BY <1>5, <2>3 DEF ForUi
  <2>7. {"test_timed_out", "test_completed", "suite_started"} \subseteq EventNames
    BY DEF EventNames, EVENT_TYPES
  <2>8. \A k \in 1..Len(fired') : ~ForUi(fired', k, "test_timed_out")
    BY <2>1, <2>5, <2>6, <2>7 DEF UiFired
  <2>9. \A k \in 1..Len(fired) : ForUi(fired, k, "test_completed") =>
             fired[k].arg \in Tests /\ run[fired[k].arg] \in {"completed", "done"}
    BY DEF UiFired
  <2>10. ASSUME NEW k \in 1..Len(fired'), ForUi(fired', k, "test_completed")
         PROVE  fired'[k].arg \in Tests /\ run'[fired'[k].arg] \in {"completed", "done"}
    <3>1. CASE k \in 1..Len(fired)
      BY <1>1, <2>5, <2>7, <2>9, <2>10, <3>1 DEF KeepsDone
    <3>2. CASE k = n
      BY <1>5, <2>6, <2>7, <2>10, <3>2
    <3> QED
      BY <2>1, <3>1, <3>2
  <2>11. ASSUME NEW j \in 1..Len(fired), ForUi(fired, j, "test_completed"), ForUi(fired', n, "test_completed"),
                fired[j].arg = arg
         PROVE  FALSE
    <3>1. run[arg] = "row"
      BY <2>6, <2>7, <2>11
    <3>2. run[arg] \in {"completed", "done"}
      BY <2>9, <2>11
    <3> QED
      BY <3>1, <3>2
  <2>12. ASSUME NEW j \in 1..Len(fired'), NEW k \in 1..Len(fired'), ForUi(fired', j, "test_completed"),
                ForUi(fired', k, "test_completed"), fired'[j].arg = fired'[k].arg
         PROVE  j = k
    <3>1. CASE j \in 1..Len(fired) /\ k \in 1..Len(fired)
      <4>1. ForUi(fired, j, "test_completed") /\ ForUi(fired, k, "test_completed") /\ fired[j].arg = fired[k].arg
        BY <1>1, <2>5, <2>7, <2>12, <3>1
      <4> QED
        BY <3>1, <4>1 DEF UiFired
    <3>2. CASE j \in 1..Len(fired) /\ k = n
      <4>1. ForUi(fired, j, "test_completed") /\ fired[j].arg = arg
        BY <1>1, <1>5, <2>5, <2>7, <2>12, <3>2
      <4> QED
        BY <2>11, <2>12, <3>2, <4>1
    <3>3. CASE k \in 1..Len(fired) /\ j = n
      <4>1. ForUi(fired, k, "test_completed") /\ fired[k].arg = arg
        BY <1>1, <1>5, <2>5, <2>7, <2>12, <3>3
      <4> QED
        BY <2>11, <2>12, <3>3, <4>1
    <3> QED
      BY <2>1, <3>1, <3>2, <3>3
  <2>13. ASSUME ui.kind = "parallel"
         PROVE  /\ \A k \in 1..Len(fired') : ForUi(fired', k, "test_completed") =>
                      \E j \in 1..Len(fired') : j < k /\ ForUi(fired', j, "suite_started")
                /\ sess' = "suite" => \E j \in 1..Len(fired') : ForUi(fired', j, "suite_started")
    <3>1. ASSUME NEW j \in 1..Len(fired), ForUi(fired, j, "suite_started")
          PROVE  j \in 1..Len(fired') /\ j < n /\ ForUi(fired', j, "suite_started")
      BY <1>1, <1>2, <2>5, <2>7, <3>1
    <3>2. sess = "suite" => \E j \in 1..Len(fired') : j < n /\ ForUi(fired', j, "suite_started")
      <4>1. sess = "suite" => \E j \in 1..Len(fired) : ForUi(fired, j, "suite_started")
        BY <2>13 DEF UiFired
      <4> QED
        BY <3>1, <4>1
    <3>3. ASSUME NEW k \in 1..Len(fired'), ForUi(fired', k, "test_completed")
          PROVE  \E j \in 1..Len(fired') : j < k /\ ForUi(fired', j, "suite_started")
      <4>1. CASE k = n
        <5>1. sess = "suite"
          BY <2>6, <2>7, <3>3, <4>1
        <5> QED
          BY <3>2, <4>1, <5>1
      <4>2. CASE k \in 1..Len(fired)
        <5>1. ForUi(fired, k, "test_completed")
          BY <2>5, <2>7, <3>3, <4>2
        <5>2. PICK j \in 1..Len(fired) : j < k /\ ForUi(fired, j, "suite_started")
          BY <2>13, <4>2, <5>1 DEF UiFired
        <5> QED
          BY <3>1, <5>2
      <4> QED
        BY <2>1, <4>1, <4>2
    <3>4. ASSUME sess' = "suite", sess # "suite"
          PROVE  n \in 1..Len(fired') /\ ForUi(fired', n, "suite_started")
      <4>1. mode = "session" /\ sess = "run" /\ name = "suite_started"
        BY <3>4
      <4>2. Ui(events["suite_started"].handlers)
        BY <1>3, <2>13, <4>1
      <4>3. n \in 1..Len(fired')
        BY <1>2, <1>5
      <4> QED
        BY <1>5, <4>1, <4>2, <4>3 DEF ForUi
    <3> QED
      BY <3>2, <3>3, <3>4
  <2>14. ui.kind = "parallel" /\ mode = "session" /\ sess' \in {"new", "run"} =>
             "suite_started" \in DOMAIN events /\ Ui(events["suite_started"].handlers)
    BY DEF UiFired
  <2>15. UiFired'
    <3>1. /\ \A k \in 1..Len(fired') : ForUi(fired', k, "test_completed") =>
                 fired'[k].arg \in Tests /\ run'[fired'[k].arg] \in {"completed", "done"}
          /\ \A j, k \in 1..Len(fired') :
                 ForUi(fired', j, "test_completed") /\ ForUi(fired', k, "test_completed") /\ fired'[j].arg = fired'[k].arg => j = k
      BY <2>10, <2>12
    <3> HIDE DEF n
    <3> QED
      BY <1>0, <2>8, <2>13, <2>14, <3>1 DEF UiFired
  <2> QED
    BY <2>4, <2>15
<1> QED
  BY <1>1, <1>4, <1>5

-----------------------------------------------------------------------------
(* Every step. *)

\* Nothing has been shown at the start, and the interface is where it belongs.
LEMMA BlameStarts ==
    ASSUME Init
    PROVE  BlameInv
<1>1. fired = <<>> /\ taken = 0 /\ screen = <<>> /\ Len(fired) = 0 /\ Len(screen) = 0
  BY DEF Init
<1>2. run = [t \in Tests |-> "new"] /\ status = [t \in Tests |-> "Ok"]
  BY DEF Init
<1>3. /\ ui.kind \in UiKinds /\ ui \in Uis /\ ~Blames(ui) /\ ~ui.kernel_tainted /\ ui.done = 0 /\ ui.total = 0
      /\ mode \in {"session", "api"}
      /\ \A n \in DOMAIN events :
            /\ UiOnce(events[n].handlers)
            /\ Ui(events[n].handlers) => mode = "session" /\ n \in attach_ui(ui.kind)
      /\ mode = "api" => \A n \in DOMAIN events : events[n].handlers \in Seq(ApiHandlers)
      /\ mode = "session" => \A n \in attach_ui(ui.kind) : n \in DOMAIN events /\ Ui(events[n].handlers)
      /\ mode = "api" => sess = "none"
  <2>1. CASE mode = "session"
    <3>1. PICK verbose, monitored \in BOOLEAN :
             ui = NewUi(select_ui(verbose)) /\ events = Attached(select_ui(verbose), monitored)
      BY <2>1 DEF Init
    <3> DEFINE kind == select_ui(verbose)
    <3>2. kind \in UiKinds
      BY DEF select_ui, UiKinds
    <3>3. ui = NewUi(kind) /\ events = Attached(kind, monitored) /\ monitored \in BOOLEAN
      BY <3>1
    <3> HIDE DEF kind
    <3>4. WiredFor(events, kind) /\ \A n \in attach_ui(kind) : n \in DOMAIN events /\ Ui(events[n].handlers)
      BY <3>2, <3>3, AttachedUi
    <3>5. ui \in Uis /\ ui.kind = kind /\ ~Blames(ui) /\ ~ui.kernel_tainted /\ ui.done = 0 /\ ui.total = 0
      BY <3>2, <3>3, NewUiTyped
    <3> QED
      BY <2>1, <3>2, <3>4, <3>5 DEF WiredFor
  <2>2. CASE mode = "api" /\ sess = "none" /\ ui = NewUi("simple") /\ events = new
    <3>1. ui \in Uis /\ ui.kind = "simple" /\ ~Blames(ui) /\ ~ui.kernel_tainted /\ ui.done = 0 /\ ui.total = 0
      BY <2>2, NewUiTyped DEF UiKinds
    <3>2. \A n \in DOMAIN events : events[n].handlers = <<>>
      BY <2>2 DEF new
    <3>3. UiOnce(<<>>) /\ ~Ui(<<>>) /\ <<>> \in Seq(ApiHandlers)
      BY DEF UiOnce, Ui, Contains
    <3> QED
      BY <2>2, <3>1, <3>2, <3>3 DEF UiKinds
  <2> QED
    BY <2>1, <2>2 DEF Init
<1>4. UiTyped
  <2>1. screen \in Seq(Lines)
    BY <1>1
  <2>2. run \in [Tests -> Phases] /\ \A t \in Tests : run[t] # "completed"
    BY <1>2 DEF Phases
  <2>3. status \in [Tests -> Statuses]
    BY <1>2 DEF Statuses
  <2> QED
    BY <1>3, <2>1, <2>2, <2>3 DEF UiTyped
<1>5. UiWired
  BY <1>1, <1>3 DEF UiWired
<1>6. UiFired
  <2>1. ui.kind = "parallel" /\ mode = "session" => "suite_started" \in DOMAIN events /\ Ui(events["suite_started"].handlers)
    BY <1>3 DEF attach_ui, attach_parallel
  <2>2. sess # "suite"
    BY DEF Init
  <2> QED
    BY <1>1, <2>1, <2>2 DEF UiFired
<1>7. UiCounts
  <2>1. Seen = {}
    BY <1>1 DEF Seen
  <2>2. \A name : SeenOf(name) = {}
    BY <2>1 DEF SeenOf
  <2>3. Kernel = {} /\ LostLines = {} /\ ParDone = {} /\ TaintedLines = {}
    BY <1>1, <2>2 DEF Kernel, LostLines, ParDone, TaintedLines
  <2> QED
    <3>1. Cardinality({}) = 0
      BY FS_EmptySet
    <3>2. SeenOf("kernel_tainted") = {} /\ SeenOf("suite_started") = {}
      BY <2>2
    <3>3. ui.done = 0 /\ One(ui.kernel_tainted) = 0 /\ One(ui.kernel_panic \/ ui.sut_not_responding) = 0
      BY <1>3 DEF One, Blames
    <3> QED
      BY <2>3, <3>1, <3>2, <3>3 DEF UiCounts
<1> QED
  BY <1>4, <1>5, <1>6, <1>7 DEF BlameInv

\* A handler that ends.
LEMMA HandlersBlame ==
    ASSUME RegistryInv, RegistryInv', BlameInv, Handlers
    PROVE  BlameInv'
<1> USE DEF BlameInv
<1>1. PICK i \in 1..Len(pump.todo), ok \in BOOLEAN : Handler(i, ok) \/ ApiHandler(i, ok)
  BY DEF Handlers
<1>2. RunHandler(i, ok)
  BY <1>1 DEF Handler, ApiHandler
<1> DEFINE d == fired[taken]
           h == pump.todo[i]
<1>3. /\ UNCHANGED <<events, fired, taken>>
      /\ h # "ui" => Seen' = Seen
      /\ h = "ui" =>
            /\ Seen' = Seen \union {taken} /\ taken \notin Seen
            /\ Ui(d.hs)
      /\ taken \in 1..Len(fired) /\ pump.item = d
  BY <1>2, HandlerSees
<1>4. d \in Dispatches
  BY <1>3 DEF RegistryInv, RegistryTyped
<1>5. d.arg \in Args
  BY <1>4 DEF Dispatches
<1>6. UNCHANGED <<mode, sess, run, status>>
  BY <1>1 DEF Handler, ApiHandler, rpVars
<1>7. ASSUME ui' \in Uis, ui'.kind = ui.kind, screen' \in Seq(Lines)
      PROVE  UiTyped' /\ UiWired' /\ UiFired'
  <2>1. UiTyped'
    BY <1>6, <1>7 DEF UiTyped
  <2>2. UiWired'
    BY <1>3, <1>6, <1>7, StillWired
  <2>3. KeepsDone
    BY <1>6 DEF KeepsDone
  <2>4. UiFired'
    BY <1>3, <1>6, <1>7, <2>3, StillFired
  <2> QED
    BY <2>1, <2>2, <2>4
<1>8. ui \in Uis /\ screen \in Seq(Lines)
  BY DEF UiTyped
<1>9. CASE h # "ui"
  <2>1. screen' = screen /\ (ui' = ui \/ ui' = ConsoleUi(ui, d))
    BY <1>1, <1>3, <1>9 DEF Handler, ApiHandler, rpVars
  <2>2. ui' \in Uis /\ ui' = [ui EXCEPT !.num_suites = ui'.num_suites]
    <3>1. [ui EXCEPT !.num_suites = d.arg] \in Uis
      BY <1>5, <1>8 DEF Uis
    <3>2. ui' = ui \/ ui' = [ui EXCEPT !.num_suites = d.arg]
      BY <2>1 DEF ConsoleUi
    <3> HIDE DEF d
    <3> QED
      BY <1>8, <3>1, <3>2 DEF Uis
  <2>3. /\ ui'.kind = ui.kind /\ ui'.kernel_panic = ui.kernel_panic /\ ui'.done = ui.done /\ ui'.total = ui.total
        /\ ui'.sut_not_responding = ui.sut_not_responding /\ ui'.kernel_tainted = ui.kernel_tainted
    BY <1>8, <2>2 DEF Uis
  <2>4. UiCounts'
    BY <1>3, <1>9, <2>1, <2>3, QuietCounts
  <2> QED
    BY <1>7, <1>8, <2>1, <2>2, <2>3, <2>4
<1>10. CASE h = "ui"
  <2>1. mode = "session" /\ d.ev # "test_timed_out"
    BY <1>3, <1>10 DEF UiWired, UiFired, ForUi
  <2>2. ui' = UiHandler(ui, d)[1] /\ screen' = screen \o UiHandler(ui, d)[2]
    BY <1>1, <1>3, <1>10, <2>1 DEF Handler, ApiHandler
  <2> DEFINE lines == UiHandler(ui, d)[2]
  <2>3. UiDoes(ui, d, ui', lines)
    BY <1>4, <1>8, <2>1, <2>2, UiHandlerDoes
  <2>4. screen' = screen \o lines
    BY <2>2
  <2> HIDE DEF lines
  <2>5. lines \in Seq(Lines) /\ ui' \in Uis /\ ui'.kind = ui.kind
    <3>1. <<>> \in Seq(Lines) /\ \A line \in Lines : <<line>> \in Seq(Lines)
      OBVIOUS
    <3> QED
      BY <2>3, <3>1 DEF UiDoes
  <2>6. screen' \in Seq(Lines)
    BY <1>8, <2>4, <2>5
  <2>7. UiTyped' /\ UiWired' /\ UiFired'
    BY <1>7, <2>5, <2>6
  <2>8. UiCounts'
    <3> DEFINE k == taken
    <3>1. k \in 1..Len(fired) /\ Seen' = Seen \union {k} /\ k \notin Seen /\ fired' = fired
          /\ UiDoes(ui, fired[k], ui', lines)
      BY <1>3, <1>10, <2>3
    <3> HIDE DEF k, d
    <3> QED
      BY <2>4, <2>5, <2>7, <3>1, SeenCounts
  <2> QED
    BY <2>7, <2>8
<1> QED
  BY <1>9, <1>10

\* The session fires an event: what is new is only queued.
LEMMA FiresBlame ==
    ASSUME RegistryInv, RegistryInv', BlameInv, UiTyped', NEW name, NEW arg, Fires(name, arg), KeepsDone,
           name # "test_timed_out",
           name = "test_completed" =>
               arg \in Tests /\ run[arg] = "row" /\ run'[arg] \in {"completed", "done"} /\ sess = "suite",
           sess' = "suite" => sess = "suite" \/ (sess = "run" /\ name = "suite_started"),
           sess' \in {"new", "run"} => sess \in {"new", "run"}
    PROVE  BlameInv'
<1>1. FireStep(name, arg) /\ UNCHANGED <<mode, ui, screen>> /\ mode = "session"
  BY DEF Fires, FireStep
<1>2. UiWired' /\ UiFired'
  BY <1>1, NewDispatch DEF BlameInv
<1>3. Seen' = Seen /\ \A k \in 1..Len(fired) : k \in 1..Len(fired') /\ fired'[k] = fired[k]
  BY <1>1, FireAdds
<1>4. UiCounts'
  BY <1>1, <1>3, QuietCounts DEF BlameInv
<1> QED
  BY <1>2, <1>4 DEF BlameInv

\* Steps that neither fire, register nor show anything.
LEMMA StillBlame ==
    ASSUME RegistryInv, BlameInv, UiTyped', UNCHANGED <<events, fired, mode, ui, screen>>, Seen' = Seen, KeepsDone,
           sess' = "suite" => sess = "suite",
           sess' \in {"new", "run"} => sess \in {"new", "run"}
    PROVE  BlameInv'
<1>1. UiWired'
  BY StillWired DEF BlameInv
<1>2. UiFired'
  BY StillFired DEF BlameInv
<1>3. UiCounts'
  BY QuietCounts DEF BlameInv
<1> QED
  BY <1>1, <1>2, <1>3 DEF BlameInv

\* The session goes on, and says so.
LEMMA SessionBlame ==
    ASSUME RegistryInv, RegistryInv', BlameInv, NEW from, NEW to, NEW name, NEW arg \in Args,
           Session(from, to, name, arg), name \notin {"test_timed_out", "test_completed"},
           to = "suite" => from = "run" /\ name = "suite_started",
           to \in {"new", "run"} => from \in {"new", "run"}
    PROVE  BlameInv'
<1>1. sess = from /\ sess' = to /\ Fires(name, arg) /\ UNCHANGED <<run, status>>
  BY DEF Session
<1>2. UNCHANGED <<mode, ui, screen>>
  BY <1>1 DEF Fires
<1>3. UiTyped'
  BY <1>1, <1>2 DEF BlameInv, UiTyped
<1>4. KeepsDone
  BY <1>1 DEF KeepsDone
<1> QED
  BY <1>1, <1>3, <1>4, FiresBlame

\* The registries a client of the API makes never hold the interface.
LEMMA ApiBlame ==
    ASSUME RegistryInv, RegistryInv', BlameInv, ApiCall
    PROVE  BlameInv'
<1> USE DEF BlameInv
<1>1. mode = "api" /\ UNCHANGED <<mode, ui, screen, sess, run, status>>
  BY DEF ApiCall, Api
<1>2. UiTyped'
  BY <1>1 DEF UiTyped
<1>3. KeepsDone
  BY <1>1 DEF KeepsDone
<1>4. \A n \in DOMAIN events : events[n].handlers \in Seq(ApiHandlers)
  BY <1>1 DEF UiWired
<1>5. \A hs \in Seq(ApiHandlers) : UiOnce(hs) /\ ~Ui(hs)
  BY DEF ApiHandlers, UiOnce, Ui, Contains
<1>6. ASSUME UNCHANGED <<fired, taken, pump, ran>>, \A n \in DOMAIN events' : events'[n].handlers \in Seq(ApiHandlers)
      PROVE  BlameInv'
  <2>1. Seen' = Seen
    BY <1>6 DEF Seen, Executing
  <2>2. UiWired'
    BY <1>1, <1>5, <1>6 DEF UiWired
  <2>3. UiFired'
    <3>1. ui.kind = "parallel" /\ mode = "session" => FALSE
      BY <1>1
    <3> QED
      BY <1>1, <1>6 DEF UiFired, ForUi
  <2>4. UiCounts'
    BY <1>1, <1>6, <2>1, QuietCounts
  <2> QED
    BY <1>2, <2>2, <2>3, <2>4
<1>7. ASSUME NEW evs, SetEvents(evs), \A n \in DOMAIN evs : evs[n].handlers \in Seq(ApiHandlers)
      PROVE  BlameInv'
  BY <1>6, <1>7 DEF SetEvents
<1>8. ASSUME NEW name \in ApiEvents, NEW h \in ApiHandlers, NEW ord \in BOOLEAN,
             Api(SetEvents(register(events, name, h, ord)))
      PROVE  BlameInv'
  <2> DEFINE evs == register(events, name, h, ord)
             entry == IF name \in DOMAIN events THEN events[name] ELSE [handlers |-> <<>>, ordered |-> ord]
  <2>1. evs = [n \in DOMAIN events \union {name} |->
                  IF n = name THEN [entry EXCEPT !.handlers = Append(@, h)] ELSE events[n]]
    BY DEF register
  <2>2. entry \in Entries /\ entry.handlers \in Seq(ApiHandlers)
    <3>1. CASE name \in DOMAIN events
      BY <1>4, <3>1 DEF RegistryInv, RegistryTyped, EventsTyped
    <3>2. CASE name \notin DOMAIN events
      BY <3>2 DEF Entries
    <3> QED
      BY <3>1, <3>2
  <2> HIDE DEF entry
  <2>3. [entry EXCEPT !.handlers = Append(@, h)].handlers = Append(entry.handlers, h)
    BY <2>2 DEF Entries
  <2>4. Append(entry.handlers, h) \in Seq(ApiHandlers)
    BY <2>2
  <2>5. \A n \in DOMAIN evs : evs[n].handlers \in Seq(ApiHandlers)
    BY <1>4, <2>1, <2>3, <2>4
  <2>6. SetEvents(evs)
    BY <1>8 DEF Api
  <2> HIDE DEF evs
  <2> QED
    BY <1>7, <2>5, <2>6
<1>9. ASSUME NEW name \in ApiEvents, NEW h \in ApiHandlers, Api(SetEvents(unregister(events, name, h)))
      PROVE  BlameInv'
  <2> DEFINE evs == unregister(events, name, h)
  <2>1. \A n \in DOMAIN evs : evs[n].handlers \in Seq(ApiHandlers)
    <3>1. CASE name \notin DOMAIN events
      BY <1>4, <3>1 DEF unregister
    <3>2. CASE name \in DOMAIN events
      <4> DEFINE kept == retain(events[name].handlers, h)
      <4>1. kept \in Seq(ApiHandlers)
        BY <1>4, <3>2, RetainTyped
      <4>2. evs = [events EXCEPT ![name].handlers = kept]
        BY <3>2 DEF unregister
      <4>3. events[name] \in Entries /\ DOMAIN events = DOMAIN evs
        BY <3>2, <4>2 DEF RegistryInv, RegistryTyped, EventsTyped
      <4> HIDE DEF kept, evs
      <4>4. evs[name].handlers = kept
        BY <3>2, <4>2, <4>3 DEF Entries
      <4>5. \A n \in DOMAIN evs : n # name => evs[n] = events[n]
        BY <4>2, <4>3
      <4> QED
        BY <1>4, <4>1, <4>3, <4>4, <4>5
    <3> QED
      BY <3>1, <3>2
  <2>2. SetEvents(evs)
    BY <1>9 DEF Api
  <2> HIDE DEF evs
  <2> QED
    BY <1>7, <2>1, <2>2
<1>10. ASSUME NEW names, Api(SetEvents(unregisterAll(events, names)))
       PROVE  BlameInv'
  <2> DEFINE evs == unregisterAll(events, names)
  <2>1. \A n \in DOMAIN evs : evs[n].handlers \in Seq(ApiHandlers)
    BY <1>4 DEF unregisterAll
  <2>2. SetEvents(evs)
    BY <1>10 DEF Api
  <2> HIDE DEF evs
  <2> QED
    BY <1>7, <2>1, <2>2
<1>11. ASSUME NEW name \in ApiEvents, Api(fire(name, 0) /\ UNCHANGED <<events, pump, taken, ran, stops>>)
       PROVE  BlameInv'
  <2>1. FireStep(name, 0)
    BY <1>11 DEF Api, FireStep
  <2>2. mode # "session" /\ sess' = sess
    BY <1>1
  <2>3. UiWired' /\ UiFired'
    BY <1>1, <1>3, <2>1, <2>2, NewDispatch
  <2>4. Seen' = Seen /\ \A k \in 1..Len(fired) : k \in 1..Len(fired') /\ fired'[k] = fired[k]
    BY <2>1, FireAdds
  <2>5. UiCounts'
    BY <1>1, <2>4, QuietCounts
  <2> QED
    BY <1>2, <2>3, <2>5
<1>12. ASSUME Api(stop /\ UNCHANGED <<events, pump, fired, taken, ran>>)
       PROVE  BlameInv'
  BY <1>4, <1>6, <1>12 DEF Api
<1>13. ASSUME Api(start)
       PROVE  BlameInv'
  <2>1. pump' = [pump EXCEPT !.pc = "recv"] /\ UNCHANGED <<events, fired, taken, ran>>
    BY <1>13 DEF Api, start
  <2>2. pump'.item = pump.item
    BY <2>1 DEF RegistryInv, RegistryTyped, Pumps
  <2>3. Seen' = Seen
    BY <2>1, <2>2 DEF Seen, Executing
  <2> QED
    BY <1>1, <1>2, <1>3, <2>1, <2>3, StillBlame
<1> QED
  BY <1>8, <1>9, <1>10, <1>11, <1>12, <1>13 DEF ApiCall

\* A test that is run.
LEMMA TestBlame ==
    ASSUME RegistryInv, RegistryInv', BlameInv, NEW t \in Tests,
           \/ TestStarted(t) \/ NoRow(t) \/ TestCompleted(t) \/ RaiseKernelError(t)
           \/ \E st \in Statuses : Diagnose(t, st)
    PROVE  BlameInv'
<1> USE DEF BlameInv
<1>0. /\ run \in [Tests -> Phases] /\ status \in [Tests -> Statuses]
      /\ \A u \in Tests : run[u] = "completed" => status[u] \in DOMAIN KernelEvent
  BY DEF UiTyped
<1>1. CASE TestStarted(t)
  <2>1. Fires("test_started", t) /\ run[t] = "new" /\ run' = [run EXCEPT ![t] = "started"] /\ UNCHANGED <<sess, status>>
    BY <1>1 DEF TestStarted
  <2>2. KeepsDone
    BY <1>0, <2>1 DEF KeepsDone
  <2>3. UiTyped'
    BY <1>0, <2>1 DEF UiTyped, Fires, Phases
  <2> QED
    BY <2>1, <2>2, <2>3, FiresBlame
<1>2. CASE NoRow(t)
  <2>1. /\ run[t] = "started" /\ run' = [run EXCEPT ![t] = "new"]
        /\ UNCHANGED <<evVars, mode, ui, screen, sess, status>>
    BY <1>2 DEF NoRow
  <2>2. KeepsDone
    BY <1>0, <2>1 DEF KeepsDone
  <2>3. UiTyped'
    BY <1>0, <2>1 DEF UiTyped, Phases
  <2>4. Seen' = Seen
    BY <2>1 DEF evVars, Seen, Executing
  <2> QED
    BY <2>1, <2>2, <2>3, <2>4, StillBlame DEF evVars
<1>3. CASE TestCompleted(t)
  <2>1. /\ Fires("test_completed", t) /\ run[t] = "row" /\ sess = "suite" /\ UNCHANGED <<sess, status>>
        /\ run' = [run EXCEPT ![t] = IF status[t] \in DOMAIN KernelEvent THEN "completed" ELSE "done"]
    BY <1>3 DEF TestCompleted
  <2>2. KeepsDone /\ run'[t] \in {"completed", "done"}
    BY <1>0, <2>1 DEF KeepsDone
  <2>3. UiTyped'
    BY <1>0, <2>1 DEF UiTyped, Fires, Phases
  <2> QED
    BY <2>1, <2>2, <2>3, FiresBlame
<1>4. CASE RaiseKernelError(t)
  <2>1. /\ Fires(KernelEvent[status[t]], t) /\ run[t] = "completed" /\ UNCHANGED <<sess, status>>
        /\ run' = [run EXCEPT ![t] = "done"]
    BY <1>4 DEF RaiseKernelError
  <2>2. KernelEvent[status[t]] \in {"kernel_tainted", "kernel_panic", "sut_not_responding"}
    BY <1>0, <2>1 DEF KernelEvent
  <2>3. KeepsDone
    BY <1>0, <2>1 DEF KeepsDone
  <2>4. UiTyped'
    BY <1>0, <2>1 DEF UiTyped, Fires, Phases
  <2> QED
    BY <2>1, <2>2, <2>3, <2>4, FiresBlame
<1>5. CASE \E st \in Statuses : Diagnose(t, st)
  <2>1. PICK st \in Statuses : Diagnose(t, st)
    BY <1>5
  <2>2. /\ run[t] = "started" /\ run' = [run EXCEPT ![t] = "row"] /\ sess' = sess
        /\ status' = [status EXCEPT ![t] = st]
        /\ Fires("kernel_tainted", t) \/ UNCHANGED <<evVars, mode, ui, screen>>
        /\ UNCHANGED <<mode, ui, screen>>
    BY <2>1 DEF Diagnose, Fires
  <2>3. KeepsDone
    BY <1>0, <2>2 DEF KeepsDone
  <2>4. UiTyped'
    BY <1>0, <2>2 DEF UiTyped, Phases
  <2>5. CASE Fires("kernel_tainted", t)
    BY <2>2, <2>3, <2>4, <2>5, FiresBlame
  <2>6. CASE UNCHANGED <<evVars, mode, ui, screen>>
    <3>1. Seen' = Seen
      BY <2>6 DEF evVars, Seen, Executing
    <3> QED
      BY <2>2, <2>3, <2>4, <2>6, <3>1, StillBlame DEF evVars
  <2> QED
    BY <2>2, <2>5, <2>6
<1> QED
  BY <1>1, <1>2, <1>3, <1>4, <1>5

\* No step breaks it.
LEMMA BlameSteps ==
    ASSUME RegistryInv, BlameInv, [Next]_vars
    PROVE  BlameInv'
<1>0. RegistryInv'
  BY RegistrySteps
<1>1. ASSUME UNCHANGED <<ui, screen, mode, run, status, fired, events>>, Seen' = Seen,
             sess' = sess \/ sess' \in {"stopping", "exit"}
      PROVE  BlameInv'
  <2>1. UiTyped' /\ KeepsDone
    BY <1>1 DEF BlameInv, UiTyped, KeepsDone
  <2> QED
    BY <1>1, <2>1, StillBlame
<1>2. CASE Pump
  <2>1. PumpStep /\ UNCHANGED rpVars
    BY <1>2 DEF Pump
  <2>2. Seen' = Seen /\ UNCHANGED <<events, fired>>
    BY <2>1, PumpSees DEF BlameInv
  <2> QED
    BY <1>1, <2>1, <2>2 DEF rpVars
<1>3. CASE Handlers
  BY <1>0, <1>3, HandlersBlame
<1>4. CASE SessionStarted
  BY <1>0, <1>4, SessionBlame DEF SessionStarted, Args
<1>5. CASE SuiteStarted
  BY <1>0, <1>5, SessionBlame DEF SuiteStarted, Args
<1>6. CASE SuiteTimeout \/ SuiteCompleted \/ SessionCompleted
  BY <1>0, <1>6, SessionBlame DEF SuiteTimeout, SuiteCompleted, SessionCompleted, Args
<1>7. CASE Interrupt
  BY <1>0, <1>7, SessionBlame DEF Interrupt, Args
<1>8. ASSUME NEW t \in Tests,
             \/ TestStarted(t) \/ NoRow(t) \/ TestCompleted(t) \/ RaiseKernelError(t)
             \/ \E st \in Statuses : Diagnose(t, st)
      PROVE  BlameInv'
  BY <1>0, <1>8, TestBlame
<1>9. CASE detach
  <2>1. /\ sess' = "detached" /\ UNCHANGED <<fired, pump, taken, ran, mode, ui, screen, run, status>> /\ mode = "session"
        /\ events' = events \/ events' = unregisterAll(events, EVENT_TYPES)
    BY <1>9 DEF detach
  <2>2. UiTyped' /\ KeepsDone
    BY <2>1 DEF BlameInv, UiTyped, KeepsDone
  <2>3. UiWired'
    <3>1. \A n \in DOMAIN events' : n \in DOMAIN events /\ events'[n] = events[n]
      BY <2>1 DEF unregisterAll
    <3> QED
      BY <2>1, <3>1 DEF BlameInv, UiWired
  <2>4. UiFired'
    BY <2>1, <2>2, StillFired DEF BlameInv
  <2>5. Seen' = Seen
    BY <2>1 DEF Seen, Executing
  <2>6. UiCounts'
    BY <2>1, <2>5, QuietCounts DEF BlameInv
  <2> QED
    BY <2>2, <2>3, <2>4, <2>6 DEF BlameInv
<1>10. CASE StopEvents
  <2>1. Seen' = Seen
    BY <1>10 DEF StopEvents, Seen, Executing
  <2> QED
    BY <1>1, <1>10, <2>1 DEF StopEvents
<1>11. CASE Exit
  <2>1. Seen' = Seen
    BY <1>11 DEF Exit, evVars, Seen, Executing
  <2> QED
    BY <1>1, <1>11, <2>1 DEF Exit, evVars
<1>12. CASE ApiCall
  BY <1>0, <1>12, ApiBlame
<1>13. CASE UNCHANGED vars
  <2>1. Seen' = Seen
    BY <1>13 DEF vars, evVars, Seen, Executing
  <2> QED
    BY <1>1, <1>13, <2>1 DEF vars, evVars, rpVars
<1> QED
  BY <1>2, <1>3, <1>4, <1>5, <1>6, <1>7, <1>8, <1>9, <1>10, <1>11, <1>12, <1>13 DEF Next

\* A flag that is up has an event of its own: so no line goes wrong that no event
\* pays for, and a test counted done belongs to a suite that was counted.
LEMMA BlameIsBounded ==
    ASSUME RegistryInv, BlameInv
    PROVE  BlameBounded
<1>1. /\ \A names : Reached(names) = {i \in Seen : fired[i].ev \in names}
      /\ LostLines = {i \in Reached({"test_completed"}) : ~ShownAsIs(fired[i].arg)}
      /\ Kernel = Reached({"kernel_panic", "sut_not_responding"})
      /\ SeenOf("kernel_tainted") = Reached({"kernel_tainted"})
  <2>1. \A names : Reached(names) = {i \in Seen : fired[i].ev \in names}
    BY DEF Reached, Seen, Ui
  <2>2. Reached({"test_completed"}) = SeenOf("test_completed")
    BY <2>1 DEF SeenOf
  <2>3. Kernel = Reached({"kernel_panic", "sut_not_responding"})
    BY <2>1 DEF SeenOf, Kernel
  <2>4. SeenOf("kernel_tainted") = Reached({"kernel_tainted"})
    BY <2>1 DEF SeenOf
  <2> QED
    BY <2>1, <2>2, <2>3, <2>4 DEF LostLines
<1>2. /\ Cardinality(Kernel) \in Nat /\ Cardinality(LostLines) \in Nat /\ Cardinality(TaintedLines) \in Nat
      /\ Cardinality(ParDone) \in Nat /\ Cardinality(SeenOf("kernel_tainted")) \in Nat
  BY SeenFinite DEF BlameInv
<1>3. Cardinality(LostLines) <= Cardinality(Kernel)
  <2>1. One(ui.kernel_panic \/ ui.sut_not_responding) \in {0, 1}
    BY DEF One
  <2> QED
    BY <1>2, <2>1 DEF BlameInv, UiCounts
<1>4. Cardinality(TaintedLines) <= Cardinality(SeenOf("kernel_tainted"))
  <2>1. One(ui.kernel_tainted) \in {0, 1}
    BY DEF One
  <2> QED
    BY <1>2, <2>1 DEF BlameInv, UiCounts
<1>5. ui.done <= ui.total
  <2>1. ui.done \in Nat /\ ui.total \in Nat
    BY DEF BlameInv, UiTyped, Uis
  <2>2. CASE ui.kind # "parallel"
    BY <2>1, <2>2 DEF BlameInv, UiCounts
  <2>3. CASE ui.kind = "parallel"
    <3>1. ui.done = Cardinality(ParDone) /\ (SeenOf("suite_started") # {} => ui.total >= Cardinality(ParTests))
      BY <2>3 DEF BlameInv, UiCounts
    <3>2. CASE ParDone = {}
      <4>1. Cardinality(ParDone) = 0
        BY <3>2, FS_EmptySet
      <4> QED
        BY <2>1, <3>1, <4>1
    <3>3. CASE ParDone # {}
      <4>1. \A i \in ParDone : i \in 1..taken /\ ForUi(fired, i, "test_completed") /\ fired[i].arg \in ParTests
        BY DEF ParDone, SeenOf, Seen, ForUi
      <4>2. taken \in 0..Len(fired) /\ Len(fired) \in Nat
        BY DEF RegistryInv, RegistryTyped
      <4>3. SeenOf("suite_started") # {}
        <5>1. PICK i \in ParDone : TRUE
          BY <3>3
        <5>2. i \in 1..Len(fired) /\ ForUi(fired, i, "test_completed")
          BY <4>1, <4>2
        <5>3. PICK j \in 1..Len(fired) : j < i /\ ForUi(fired, j, "suite_started")
          BY <2>3, <5>2 DEF BlameInv, UiFired
        <5>4. j \in 1..taken /\ j < taken
          BY <4>1, <4>2, <5>3
        <5> QED
          BY <5>3, <5>4 DEF ForUi, SeenOf, Seen
      <4> DEFINE f == [i \in ParDone |-> fired[i].arg]
      <4>4. f \in Injection(ParDone, ParTests)
        <5>1. \A i, j \in ParDone : fired[i].arg = fired[j].arg => i = j
          <6> SUFFICES ASSUME NEW i \in ParDone, NEW j \in ParDone, fired[i].arg = fired[j].arg
                       PROVE  i = j
            OBVIOUS
          <6>1. /\ i \in 1..Len(fired) /\ j \in 1..Len(fired)
                /\ ForUi(fired, i, "test_completed") /\ ForUi(fired, j, "test_completed")
            BY <4>1, <4>2
          <6> QED
            BY <6>1 DEF BlameInv, UiFired
        <5>2. f \in [ParDone -> ParTests]
          BY <4>1
        <5> QED
          BY <5>1, <5>2 DEF Injection, IsInjective
      <4>5. IsFiniteSet(ParTests)
        BY ReportingAssumption, FS_Subset
      <4> HIDE DEF f
      <4>6. Cardinality(ParDone) <= Cardinality(ParTests) /\ Cardinality(ParTests) \in Nat
        BY <4>4, <4>5, FS_Injection, FS_CardinalityType
      <4> QED
        BY <1>2, <2>1, <3>1, <4>3, <4>6
    <3> QED
      BY <3>2, <3>3
  <2> QED
    BY <2>2, <2>3
<1> QED
  BY <1>1, <1>3, <1>4, <1>5 DEF BlameBounded, TaintedLines

\* SimpleUi, VerboseUi and ParallelUi (ui.rs) lose or falsify at most one result line for
\* each panic or dead SUT, mark at most one for each taint, and ParallelUi never counts
\* more tests done than it announced: for any tests, workers and interleaving of the
\* tests' events with the handlers.
THEOREM LinesAreLostForEvents == Spec => []BlameBounded
<1>1. Init => RegistryInv /\ BlameInv
  BY RegistryStarts, BlameStarts
<1>2. RegistryInv /\ BlameInv /\ [Next]_vars => RegistryInv' /\ BlameInv'
  BY RegistrySteps, BlameSteps
<1>3. RegistryInv /\ BlameInv => BlameBounded
  BY BlameIsBounded
<1> QED
  BY <1>1, <1>2, <1>3, PTL DEF Spec
==============================================================================
