--------------------------- MODULE RequestGateProofs ---------------------------
(* Proofs about RateLimiter and RequestGate, for every number of processes,   *)
(* keys, sessions and concurrent requests, and every limit and window.        *)
EXTENDS RequestGate, FiniteSetTheorems, TLAPS

-----------------------------------------------------------------------------
(* The rate limiter.                                                         *)

Buckets == [count : Nat, left : 0..Window]

Elapsed(w) == Window - w.left

Counted(w) == IF w.count > Limit THEN Limit ELSE w.count

\* Admitted in the window that is open, and before it.
Current(w, calls) == {c \in calls : c.age <= Elapsed(w)}

Previous(w, calls) == {c \in calls : c.age > Elapsed(w)}

\* The calls of the window that is open were counted. The call that opened it is among
\* them, or was counted for nothing; either way the window has Limit - 1 left when that
\* call is too old, and so has the window before.
SlotSound(w, calls) ==
  /\ w \in Buckets /\ calls \subseteq Calls /\ IsFiniteSet(calls)
  /\ w.left = 0 => Newest(calls) = {} /\ Cardinality(calls) <= Limit - 1
  /\ w.left > 0 =>
       /\ w.count >= 1
       /\ Cardinality(Previous(w, calls)) <= Limit - 1
       /\ Cardinality(Current(w, calls)) <= Counted(w)
       /\ \/ \E c \in calls : c.age = Elapsed(w)
          \/ Cardinality(Current(w, calls)) <= Counted(w) - 1

LimiterIInv ==
  /\ redis \in BOOLEAN
  /\ bucket \in [Backends -> [Keys -> Buckets]]
  /\ recent \in [Backends -> [Keys -> SUBSET Calls]]
  /\ \A b \in Backends, k \in Keys : SlotSound(bucket[b][k], recent[b][k])

\* The parts of a slot are finite and no larger than it; a newly admitted call is a call.
LEMMA SlotParts ==
  ASSUME NEW w, NEW calls, SlotSound(w, calls)
  PROVE  /\ Cardinality(calls) \in Nat
         /\ IsFiniteSet(Current(w, calls)) /\ Cardinality(Current(w, calls)) \in Nat
         /\ IsFiniteSet(Previous(w, calls)) /\ Cardinality(Previous(w, calls)) \in Nat
         /\ [age |-> 0, nth |-> Cardinality(Newest(calls)) + 1] \in Calls
         /\ w.count \in Nat /\ w.left \in 0..Window
         /\ \A c \in calls : c \in Calls /\ c.age \in 0..(Window - 1)
<1>1. IsFiniteSet(calls) /\ calls \subseteq Calls /\ w \in Buckets
  BY DEF SlotSound
<1>2. \A T \in SUBSET calls : IsFiniteSet(T) /\ Cardinality(T) \in Nat
  BY <1>1, FS_Subset, FS_CardinalityType
<1>3. /\ Current(w, calls) \in SUBSET calls /\ Previous(w, calls) \in SUBSET calls
      /\ Newest(calls) \in SUBSET calls /\ calls \in SUBSET calls
  BY DEF Current, Previous, Newest
<1>4. Cardinality(Newest(calls)) + 1 \in Nat /\ 0 \in Ages
  BY <1>2, <1>3, LimiterAssumption DEF Ages
<1> QED BY <1>1, <1>2, <1>3, <1>4 DEF Calls, Ages, Buckets

\* Calls that grow older do not become more.
LEMMA AgedAreNotMore ==
  ASSUME NEW S \in SUBSET Calls, IsFiniteSet(S)
  PROVE  LET T == {[c EXCEPT !.age = @ + 1] : c \in S} IN
         IsFiniteSet(T) /\ Cardinality(T) <= Cardinality(S)
<1> DEFINE T == {[c EXCEPT !.age = @ + 1] : c \in S}
           f == [c \in S |-> [c EXCEPT !.age = @ + 1]]
<1>1. f \in Surjection(S, T)
  BY DEF Surjection
<1> HIDE DEF f, T
<1>2. IsFiniteSet(T) /\ Cardinality(T) <= Cardinality(S)
  BY <1>1, FS_Surjection
<1> QED BY <1>2 DEF T

Between(calls, lo, hi) == {c \in calls : lo < c.age /\ c.age <= hi}

\* What grows older is one unit older, and was in the last window.
LEMMA OlderShape ==
  ASSUME NEW calls \in SUBSET Calls, IsFiniteSet(calls)
  PROVE  /\ Older(calls) \subseteq Calls /\ IsFiniteSet(Older(calls))
         /\ Newest(Older(calls)) = {}
         /\ \A lo, hi \in Int :
              /\ Cardinality(Between(Older(calls), lo, hi))
                   <= Cardinality(Between(calls, lo - 1, hi - 1))
              /\ Cardinality(Between(Older(calls), lo, hi)) \in Nat
              /\ Cardinality(Between(calls, lo - 1, hi - 1)) \in Nat
<1> DEFINE young == {x \in calls : x.age + 1 < Window}
           Aged(S) == {[c EXCEPT !.age = @ + 1] : c \in S}
<1>1. young \in SUBSET Calls /\ IsFiniteSet(young) /\ Older(calls) = Aged(young)
  <2>1. young \in SUBSET calls
    OBVIOUS
  <2> QED BY <2>1, FS_Subset DEF Older
<1>2. \A c \in young : /\ [c EXCEPT !.age = @ + 1] \in Calls
                       /\ [c EXCEPT !.age = @ + 1].age = c.age + 1 /\ c.age \in Nat
  BY LimiterAssumption DEF Calls, Ages
<1>3. Older(calls) \subseteq Calls /\ \A c \in Older(calls) : c.age # 0
  <2> SUFFICES ASSUME NEW t \in Older(calls) PROVE t \in Calls /\ t.age # 0
    OBVIOUS
  <2>1. PICK c \in young : t = [c EXCEPT !.age = @ + 1]
    BY <1>1
  <2>2. t \in Calls /\ t.age = c.age + 1 /\ c.age \in Nat
    BY <1>2, <2>1
  <2> QED BY <2>2
<1>4. IsFiniteSet(Older(calls))
  BY <1>1, AgedAreNotMore
<1>5. ASSUME NEW lo \in Int, NEW hi \in Int
      PROVE  /\ Cardinality(Between(Older(calls), lo, hi))
                  <= Cardinality(Between(calls, lo - 1, hi - 1))
             /\ Cardinality(Between(Older(calls), lo, hi)) \in Nat
             /\ Cardinality(Between(calls, lo - 1, hi - 1)) \in Nat
  <2> DEFINE T == Between(Older(calls), lo, hi)
             S == Between(calls, lo - 1, hi - 1)
  <2>1. S \in SUBSET Calls /\ S \in SUBSET calls /\ IsFiniteSet(S)
    <3>1. S \in SUBSET calls
      BY DEF Between
    <3> QED BY <3>1, FS_Subset
  <2>2. T \subseteq Aged(S)
    <3> SUFFICES ASSUME NEW t \in T PROVE t \in Aged(S)
      OBVIOUS
    <3>1. PICK c \in young : t = [c EXCEPT !.age = @ + 1]
      BY <1>1 DEF Between
    <3>2. t.age = c.age + 1 /\ c.age \in Nat /\ lo < t.age /\ t.age <= hi
      BY <1>2, <3>1 DEF Between
    <3>3. c \in S
      BY <3>2 DEF Between
    <3> QED BY <3>1, <3>3
  <2>3. IsFiniteSet(Aged(S)) /\ Cardinality(Aged(S)) <= Cardinality(S)
    BY <2>1, AgedAreNotMore
  <2> HIDE DEF S, T, Aged
  <2>4. /\ IsFiniteSet(T) /\ Cardinality(T) <= Cardinality(Aged(S))
        /\ Cardinality(T) \in Nat /\ Cardinality(S) \in Nat /\ Cardinality(Aged(S)) \in Nat
    BY <2>1, <2>2, <2>3, FS_Subset, FS_CardinalityType
  <2>5. Cardinality(T) <= Cardinality(S)
    BY <2>3, <2>4
  <2> QED BY <2>4, <2>5 DEF S, T
<1>6. Newest(Older(calls)) = {}
  BY <1>3 DEF Newest
<1> QED BY <1>3, <1>4, <1>5, <1>6

\* A new window: what was admitted before it is Previous.
LEMMA OpenSlot ==
  ASSUME NEW w, NEW calls, SlotSound(w, calls), w.left = 0
  PROVE  LET opened == [count |-> 1, left |-> Window]
             new == [age |-> 0, nth |-> Cardinality(Newest(calls)) + 1]
         IN  SlotSound(opened, calls) /\ SlotSound(opened, calls \cup {new})
<1> DEFINE opened == [count |-> 1, left |-> Window]
           new == [age |-> 0, nth |-> Cardinality(Newest(calls)) + 1]
           more == calls \cup {new}
<1>1. /\ opened \in Buckets /\ opened.left > 0 /\ opened.count = 1
      /\ Elapsed(opened) = 0 /\ Counted(opened) = 1
  BY LimiterAssumption DEF Buckets, Elapsed, Counted
<1>2. new \in Calls /\ new.age = 0 /\ \A c \in calls : c.age \in Nat
  BY SlotParts, LimiterAssumption
<1>3. /\ calls \subseteq Calls /\ IsFiniteSet(calls) /\ Newest(calls) = {}
      /\ Cardinality(calls) <= Limit - 1
  BY DEF SlotSound
<1> HIDE DEF opened, new
<1>4. \A c \in calls : c.age > 0
  BY <1>2, <1>3 DEF Newest
<1>5. Previous(opened, calls) = calls /\ Current(opened, calls) = {}
  BY <1>1, <1>2, <1>4 DEF Previous, Current
<1>6. Previous(opened, more) = calls /\ Current(opened, more) = {new}
  BY <1>1, <1>2, <1>4 DEF Previous, Current
<1>7. Cardinality({}) = 0 /\ Cardinality({new}) = 1
  BY FS_EmptySet, FS_Singleton
<1>8. more \subseteq Calls /\ IsFiniteSet(more)
  BY <1>2, <1>3, FS_AddElement
<1>9. SlotSound(opened, calls)
  BY <1>1, <1>3, <1>5, <1>7 DEF SlotSound
<1>10. new \in more
  OBVIOUS
<1> HIDE DEF more
<1>11. SlotSound(opened, more)
  BY <1>1, <1>2, <1>3, <1>6, <1>7, <1>8, <1>10 DEF SlotSound
<1> QED BY <1>9, <1>11 DEF opened, new, more

\* A call in an open window that is counted and not admitted: the count is the same,
\* or greater.
LEMMA CountSlot ==
  ASSUME NEW w, NEW calls, SlotSound(w, calls), w.left > 0, NEW n \in Nat, n >= w.count
  PROVE  SlotSound([w EXCEPT !.count = n], calls)
<1> DEFINE v == [w EXCEPT !.count = n]
<1>1. w \in Buckets /\ w.count \in Nat /\ w.count >= 1
  BY DEF SlotSound, Buckets
<1>2. v \in Buckets /\ v.left = w.left /\ v.count = n
  BY <1>1 DEF Buckets
<1> HIDE DEF v
<1>3. /\ Elapsed(v) = Elapsed(w) /\ Counted(v) >= Counted(w)
      /\ Counted(v) \in Nat /\ Counted(w) \in Nat
  BY <1>1, <1>2, LimiterAssumption DEF Elapsed, Counted
<1>4. Current(v, calls) = Current(w, calls) /\ Previous(v, calls) = Previous(w, calls)
  BY <1>3 DEF Current, Previous
<1>5. Cardinality(Current(w, calls)) \in Nat
  BY SlotParts
<1>6. SlotSound(v, calls)
  BY <1>1, <1>2, <1>3, <1>4, <1>5 DEF SlotSound
<1> QED BY <1>6 DEF v

\* A call in an open window that is counted within the limit and admitted.
LEMMA AdmitSlot ==
  ASSUME NEW w, NEW calls, SlotSound(w, calls), w.left > 0, w.count + 1 <= Limit
  PROVE  SlotSound([w EXCEPT !.count = w.count + 1],
                   calls \cup {[age |-> 0, nth |-> Cardinality(Newest(calls)) + 1]})
<1> DEFINE v == [w EXCEPT !.count = w.count + 1]
           new == [age |-> 0, nth |-> Cardinality(Newest(calls)) + 1]
           more == calls \cup {new}
<1>1. w \in Buckets /\ w.count \in Nat /\ w.count >= 1 /\ w.left \in 1..Window
  BY LimiterAssumption DEF SlotSound, Buckets
<1>2. v \in Buckets /\ v.left = w.left /\ v.count = w.count + 1
  BY <1>1 DEF Buckets
<1>3. new \in Calls /\ new.age = 0
  BY SlotParts
<1> HIDE DEF v, new
<1>4. /\ Elapsed(v) = Elapsed(w) /\ Elapsed(w) \in Nat
      /\ Counted(v) = w.count + 1 /\ Counted(w) = w.count
  BY <1>1, <1>2, LimiterAssumption DEF Elapsed, Counted
<1>5. /\ Current(v, more) = Current(w, calls) \cup {new}
      /\ Previous(v, more) = Previous(w, calls)
  BY <1>3, <1>4 DEF Current, Previous
<1>6. /\ IsFiniteSet(Current(w, calls)) /\ Cardinality(Current(w, calls)) \in Nat
      /\ more \subseteq Calls /\ IsFiniteSet(more)
  BY <1>3, SlotParts, FS_AddElement DEF SlotSound
<1>7. /\ Cardinality(Current(v, more)) \in Nat
      /\ Cardinality(Current(v, more)) <= Cardinality(Current(w, calls)) + 1
  <2> DEFINE A == Current(w, calls)
  <2>1. IsFiniteSet(A) /\ Cardinality(A) \in Nat
    BY <1>6
  <2> HIDE DEF A
  <2>2. Cardinality(A \cup {new}) = IF new \in A THEN Cardinality(A) ELSE Cardinality(A) + 1
    BY <2>1, FS_AddElement
  <2>3. Cardinality(A \cup {new}) \in Nat /\ Cardinality(A \cup {new}) <= Cardinality(A) + 1
    BY <2>1, <2>2
  <2> QED BY <1>5, <2>3 DEF A
<1>8. /\ Cardinality(Current(w, calls)) <= Counted(w)
      /\ (\E c \in calls : c.age = Elapsed(w)) \/ Cardinality(Current(w, calls)) <= Counted(w) - 1
      /\ Cardinality(Previous(w, calls)) <= Limit - 1
  BY DEF SlotSound
<1>9. /\ Cardinality(Current(v, more)) <= Counted(v)
      /\ (\E c \in more : c.age = Elapsed(v)) \/ Cardinality(Current(v, more)) <= Counted(v) - 1
  BY <1>1, <1>4, <1>6, <1>7, <1>8
<1>10. SlotSound(v, more)
  BY <1>1, <1>2, <1>5, <1>6, <1>8, <1>9 DEF SlotSound
<1> QED BY <1>10 DEF v, new

\* Time passes. A window that ends leaves Limit - 1 calls at most, because the one that
\* opened it is a window old.
LEMMA PassSlot ==
  ASSUME NEW w, NEW calls, SlotSound(w, calls)
  PROVE  SlotSound(Pass(w), Older(calls))
<1> DEFINE v == Pass(w)
           older == Older(calls)
<1>1. w \in Buckets /\ w.count \in Nat /\ w.left \in 0..Window /\ Window \in Nat /\ Limit \in Nat
  BY LimiterAssumption DEF SlotSound, Buckets
<1>0. Cardinality(calls) \in Nat /\ \A c \in calls : c.age \in 0..(Window - 1)
  BY SlotParts
<1>2. /\ calls \in SUBSET Calls /\ IsFiniteSet(calls)
      /\ \A c \in calls : c.age \in 0..(Window - 1)
  BY <1>0 DEF SlotSound
<1>3. /\ older \subseteq Calls /\ IsFiniteSet(older) /\ Newest(older) = {}
      /\ \A lo, hi \in Int :
           /\ Cardinality(Between(older, lo, hi)) <= Cardinality(Between(calls, lo - 1, hi - 1))
           /\ Cardinality(Between(older, lo, hi)) \in Nat
           /\ Cardinality(Between(calls, lo - 1, hi - 1)) \in Nat
  BY <1>2, OlderShape
<1>4. \A c \in older : c.age \in 0..(Window - 1)
  BY <1>3 DEF Calls, Ages
<1> HIDE DEF older
<1>5. CASE w.left > 1
  <2>1. /\ v \in Buckets /\ v.count = w.count /\ v.left = w.left - 1
    BY <1>1, <1>5 DEF Pass, Buckets
  <2> HIDE DEF v
  <2>2. /\ Elapsed(w) \in Int /\ Elapsed(v) = Elapsed(w) + 1 /\ Counted(v) = Counted(w)
        /\ Elapsed(w) + 1 < Window /\ Elapsed(w) >= 0
    BY <1>1, <1>5, <2>1 DEF Elapsed, Counted
  <2>3. /\ Current(v, older) = Between(older, -1, Elapsed(v))
        /\ Current(w, calls) = Between(calls, -2, Elapsed(w))
        /\ Previous(v, older) = Between(older, Elapsed(v), Window)
        /\ Previous(w, calls) = Between(calls, Elapsed(w), Window - 1)
    BY <1>1, <1>2, <1>4, <2>2 DEF Current, Previous, Between
  <2>4. /\ Cardinality(Current(v, older)) <= Cardinality(Current(w, calls))
        /\ Cardinality(Current(v, older)) \in Nat /\ Cardinality(Current(w, calls)) \in Nat
    <3>1. -1 \in Int /\ Elapsed(v) \in Int /\ (-1) - 1 = -2 /\ Elapsed(v) - 1 = Elapsed(w)
      BY <2>2
    <3> QED BY <1>3, <2>3, <3>1
  <2>5. /\ Cardinality(Previous(v, older)) <= Cardinality(Previous(w, calls))
        /\ Cardinality(Previous(v, older)) \in Nat /\ Cardinality(Previous(w, calls)) \in Nat
    <3>1. Window \in Int /\ Elapsed(v) \in Int /\ Elapsed(v) - 1 = Elapsed(w)
      BY <1>1, <2>2
    <3> QED BY <1>3, <2>3, <3>1
  <2>6. (\E c \in calls : c.age = Elapsed(w)) => \E c \in older : c.age = Elapsed(v)
    <3> SUFFICES ASSUME NEW c \in calls, c.age = Elapsed(w) PROVE \E x \in older : x.age = Elapsed(v)
      OBVIOUS
    <3>1. c \in Calls /\ c.age + 1 < Window
      BY <1>2, <2>2
    <3>2. [c EXCEPT !.age = @ + 1] \in older /\ [c EXCEPT !.age = @ + 1].age = Elapsed(v)
      BY <2>2, <3>1 DEF older, Older, Calls
    <3> QED BY <3>2
  <2>7. /\ w.count >= 1 /\ Cardinality(Previous(w, calls)) <= Limit - 1
        /\ Cardinality(Current(w, calls)) <= Counted(w)
        /\ (\E c \in calls : c.age = Elapsed(w)) \/ Cardinality(Current(w, calls)) <= Counted(w) - 1
    BY <1>1, <1>5 DEF SlotSound
  <2>8. v.left > 0 /\ Counted(v) \in Nat
    BY <1>1, <1>5, <2>1 DEF Counted
  <2>9. Cardinality(Previous(v, older)) <= Limit - 1
    BY <1>1, <2>5, <2>7
  <2>10. /\ Cardinality(Current(v, older)) <= Counted(v)
         /\ (\E c \in older : c.age = Elapsed(v)) \/ Cardinality(Current(v, older)) <= Counted(v) - 1
    BY <2>2, <2>4, <2>6, <2>7, <2>8
  <2>11. /\ v.left # 0 /\ v.count >= 1 /\ v \in Buckets
         /\ older \subseteq Calls /\ IsFiniteSet(older)
    <3>1. v.left # 0
      BY <1>1, <1>5, <2>1
    <3>2. v.count >= 1 /\ v \in Buckets
      BY <2>1, <2>7
    <3>3. older \subseteq Calls /\ IsFiniteSet(older)
      BY <1>3
    <3> QED BY <3>1, <3>2, <3>3
  <2>12. SlotSound(v, older)
    BY <2>8, <2>9, <2>10, <2>11 DEF SlotSound
  <2> QED BY <2>12 DEF v, older
<1>6. CASE w.left <= 1
  <2>1. v \in Buckets /\ v.left = 0
    BY <1>1, <1>6 DEF Pass, Empty, Buckets
  <2>2. /\ Between(older, -1, Window) = older
        /\ -1 \in Int /\ Window \in Int /\ (-1) - 1 = -2
    BY <1>1, <1>4 DEF Between
  <2>3. /\ Cardinality(older) <= Cardinality(Between(calls, -2, Window - 1))
        /\ Cardinality(older) \in Nat
    BY <1>3, <2>2
  <2>4. Between(calls, -2, Window - 1) = calls
    BY <1>1, <1>2 DEF Between
  <2>5. Cardinality(older) <= Limit - 1
    <3>1. CASE w.left = 0
      <4>1. Cardinality(calls) <= Limit - 1
        BY <3>1 DEF SlotSound
      <4> QED BY <1>0, <1>1, <2>3, <2>4, <4>1
    <3>2. CASE w.left = 1
      <4>1. Elapsed(w) = Window - 1 /\ Counted(w) <= Limit /\ Counted(w) \in Nat
        BY <1>1, <3>2 DEF Elapsed, Counted
      <4>2. Current(w, calls) = calls
        BY <1>1, <1>2, <4>1 DEF Current
      <4>3. CASE \E c \in calls : c.age = Window - 1
        <5>1. PICK c \in calls : c.age = Window - 1
          BY <4>3
        <5> DEFINE rest == Between(calls, -2, (Window - 1) - 1)
        <5>2. rest \in SUBSET (calls \ {c})
          BY <1>1, <1>2, <5>1 DEF Between
        <5>3. IsFiniteSet(calls \ {c}) /\ Cardinality(calls \ {c}) = Cardinality(calls) - 1
          BY <1>2, <5>1, FS_RemoveElement
        <5>4. Cardinality(rest) <= Cardinality(calls \ {c})
          BY <5>2, <5>3, FS_Subset
        <5>5. Between(older, -1, Window - 1) = older
          BY <1>1, <1>4 DEF Between
        <5>6. Window - 1 \in Int /\ -1 \in Int /\ (-1) - 1 = -2
          BY <1>1
        <5>7. Cardinality(older) <= Cardinality(rest) /\ Cardinality(rest) \in Nat
          BY <1>3, <5>5, <5>6
        <5>8. Cardinality(calls) <= Counted(w) /\ Cardinality(calls) \in Nat
          BY <1>0, <3>2, <4>2 DEF SlotSound
        <5> HIDE DEF rest
        <5> QED BY <1>1, <2>3, <4>1, <5>3, <5>4, <5>7, <5>8
      <4>4. CASE ~\E c \in calls : c.age = Window - 1
        <5>1. Cardinality(calls) <= Counted(w) - 1 /\ Cardinality(calls) \in Nat
          BY <1>0, <3>2, <4>1, <4>2, <4>4 DEF SlotSound
        <5> QED BY <1>1, <2>3, <2>4, <4>1, <5>1
      <4> QED BY <4>3, <4>4
    <3> QED BY <1>1, <1>6, <3>1, <3>2
  <2> HIDE DEF v
  <2>6. SlotSound(v, older)
    BY <1>3, <2>1, <2>5 DEF SlotSound
  <2> QED BY <2>6 DEF v, older
<1> QED BY <1>1, <1>5, <1>6

\* A step that touches one slot, and leaves it sound.
LEMMA SlotStep ==
  ASSUME LimiterIInv, redis' = redis,
         NEW b \in Backends, NEW k \in Keys, NEW w, NEW calls, SlotSound(w, calls),
         \/ bucket' = [bucket EXCEPT ![b][k] = w]
         \/ bucket' = bucket /\ w = bucket[b][k],
         \/ recent' = [recent EXCEPT ![b][k] = calls]
         \/ recent' = recent /\ calls = recent[b][k]
  PROVE  LimiterIInv'
<1>1. w \in Buckets /\ calls \in SUBSET Calls
  BY DEF SlotSound
<1>2. /\ bucket \in [Backends -> [Keys -> Buckets]]
      /\ recent \in [Backends -> [Keys -> SUBSET Calls]]
      /\ redis \in BOOLEAN
  BY DEF LimiterIInv
<1>3. /\ bucket' \in [Backends -> [Keys -> Buckets]]
      /\ \A c \in Backends, l \in Keys :
           bucket'[c][l] = IF c = b /\ l = k THEN w ELSE bucket[c][l]
  <2>1. CASE bucket' = [bucket EXCEPT ![b][k] = w]
    BY <1>1, <1>2, <2>1
  <2>2. CASE bucket' = bucket /\ w = bucket[b][k]
    BY <1>1, <1>2, <2>2
  <2> QED BY <2>1, <2>2
<1>4. /\ recent' \in [Backends -> [Keys -> SUBSET Calls]]
      /\ \A c \in Backends, l \in Keys :
           recent'[c][l] = IF c = b /\ l = k THEN calls ELSE recent[c][l]
  BY <1>1, <1>2
<1>5. ASSUME NEW c \in Backends, NEW l \in Keys
      PROVE  SlotSound(bucket'[c][l], recent'[c][l])
  <2>1. CASE c = b /\ l = k
    <3>1. bucket'[c][l] = w /\ recent'[c][l] = calls
      BY <1>3, <1>4, <2>1
    <3> QED BY <3>1
  <2>2. CASE ~(c = b /\ l = k)
    <3>1. bucket'[c][l] = bucket[c][l] /\ recent'[c][l] = recent[c][l]
      BY <1>3, <1>4, <2>2
    <3>2. SlotSound(bucket[c][l], recent[c][l])
      BY DEF LimiterIInv
    <3> QED BY <3>1, <3>2
  <2> QED BY <2>1, <2>2
<1>6. redis' \in BOOLEAN
  BY <1>2
<1> QED BY <1>3, <1>4, <1>5, <1>6 DEF LimiterIInv, SlotSound, Newest, Previous, Current, Counted, Elapsed

WithNew(calls) == calls \cup {[age |-> 0, nth |-> Cardinality(Newest(calls)) + 1]}

\* What the Redis script stores leaves the slot sound, also when the call it counted is
\* admitted, and also when the answer is lost.
LEMMA IncrementSlot ==
  ASSUME NEW w, NEW calls, SlotSound(w, calls)
  PROVE  /\ SlotSound(Increment(w), calls)
         /\ Fits(Increment(w).count) => SlotSound(Increment(w), WithNew(calls))
<1>1. w.count \in Nat /\ w.left \in 0..Window /\ Limit \in Nat /\ Window \in Nat
  BY SlotParts, LimiterAssumption
<1>2. CASE w.left = 0
  <2>1. Increment(w) = [count |-> 1, left |-> Window]
    BY <1>2 DEF Increment
  <2>2. LET opened == [count |-> 1, left |-> Window]
        IN  SlotSound(opened, calls) /\ SlotSound(opened, WithNew(calls))
    BY <1>2, OpenSlot DEF WithNew
  <2> QED BY <2>1, <2>2
<1>3. CASE w.left > 0
  <2> DEFINE n == IF w.count > Limit THEN w.count ELSE w.count + 1
  <2>1. n \in Nat /\ n >= w.count
    BY <1>1
  <2>2. Increment(w) = [w EXCEPT !.count = n]
    BY <1>1, <1>3 DEF Increment
  <2>3. Increment(w).count = n
    BY <1>1, <2>2 DEF SlotSound, Buckets
  <2>4. SlotSound(Increment(w), calls)
    <3> HIDE DEF n
    <3>1. SlotSound([w EXCEPT !.count = n], calls)
      BY <1>3, <2>1, CountSlot
    <3> QED BY <2>2, <3>1
  <2>5. ASSUME Fits(Increment(w).count) PROVE SlotSound(Increment(w), WithNew(calls))
    <3>1. n <= Limit
      BY <2>3, <2>5 DEF Fits
    <3>2. n = w.count + 1 /\ w.count + 1 <= Limit
      BY <1>1, <3>1
    <3> HIDE DEF n
    <3>3. SlotSound([w EXCEPT !.count = w.count + 1], WithNew(calls))
      BY <1>3, <3>2, AdmitSlot DEF WithNew
    <3> QED BY <2>2, <3>2, <3>3
  <2> QED BY <2>4, <2>5
<1> QED BY <1>1, <1>2, <1>3

\* A call of the limiter, with Redis or without, keeps every slot sound.
LEMMA CheckKeeps ==
  ASSUME LimiterIInv, NEW p \in Processes, NEW k \in Keys, NEW allowed \in BOOLEAN,
         Check(p, k, allowed)
  PROVE  LimiterIInv'
<1>1. redis' = redis /\ redis \in BOOLEAN /\ Shared \in Backends /\ p \in Backends
  BY DEF Check, LimiterIInv, Backends
<1>2. \A b \in Backends : SlotSound(bucket[b][k], recent[b][k])
  BY DEF LimiterIInv
<1>3. CASE redis
  <2> DEFINE w == bucket[Shared][k]
             calls == recent[Shared][k]
  <2>1. CheckRedis(k, allowed)
    BY <1>3 DEF Check
  <2>2. SlotSound(w, calls)
    BY <1>1, <1>2
  <2>3. /\ SlotSound(Increment(w), calls)
        /\ Fits(Increment(w).count) => SlotSound(Increment(w), WithNew(calls))
    <3> HIDE DEF w, calls
    <3> QED BY <2>2, IncrementSlot
  <2>4. CASE bucket' = bucket /\ recent' = recent
    <3>1. LimiterIInv'
      BY <1>1, <1>2, <2>4, SlotStep
    <3> QED BY <3>1
  <2>5. CASE bucket' = [bucket EXCEPT ![Shared][k] = Increment(w)] /\ recent' = recent
    BY <1>1, <2>3, <2>5, SlotStep
  <2>6. CASE /\ bucket' = [bucket EXCEPT ![Shared][k] = Increment(w)]
             /\ Fits(Increment(w).count)
             /\ recent' = [recent EXCEPT ![Shared][k] = WithNew(calls)]
    BY <1>1, <2>3, <2>6, SlotStep
  <2>7. \/ bucket' = bucket /\ recent' = recent
        \/ bucket' = [bucket EXCEPT ![Shared][k] = Increment(w)] /\ recent' = recent
        \/ /\ bucket' = [bucket EXCEPT ![Shared][k] = Increment(w)]
           /\ Fits(Increment(w).count)
           /\ recent' = [recent EXCEPT ![Shared][k] = WithNew(calls)]
    BY <2>1 DEF CheckRedis, Store, Admit, WithNew
  <2> QED BY <2>4, <2>5, <2>6, <2>7
<1>4. CASE ~redis
  <2> DEFINE w == bucket[p][k]
             calls == recent[p][k]
             opened == [count |-> 1, left |-> Window]
             counted == [w EXCEPT !.count = w.count + 1]
  <2>1. CheckMemory(p, k, allowed)
    BY <1>4 DEF Check
  <2>2. SlotSound(w, calls)
    BY <1>1, <1>2
  <2>3. CASE bucket' = bucket /\ recent' = recent
    BY <1>1, <1>2, <2>3, SlotStep
  <2>4. CASE /\ w.left = 0 /\ bucket' = [bucket EXCEPT ![p][k] = opened]
             /\ recent' = [recent EXCEPT ![p][k] = WithNew(calls)]
    <3>1. SlotSound(opened, WithNew(calls))
      BY <2>2, <2>4, OpenSlot DEF WithNew
    <3> QED BY <1>1, <2>4, <3>1, SlotStep
  <2>5. CASE /\ w.left > 0 /\ w.count < Limit /\ bucket' = [bucket EXCEPT ![p][k] = counted]
             /\ recent' = [recent EXCEPT ![p][k] = WithNew(calls)]
    <3>1. w.count + 1 <= Limit
      <4> HIDE DEF w, calls
      <4>1. w.count \in Nat
        BY <2>2, SlotParts
      <4> QED BY <2>5, <4>1, LimiterAssumption
    <3>2. SlotSound(counted, WithNew(calls))
      BY <2>2, <2>5, <3>1, AdmitSlot DEF WithNew
    <3> QED BY <1>1, <2>5, <3>2, SlotStep
  <2>6. \/ bucket' = bucket /\ recent' = recent
        \/ /\ w.left = 0 /\ bucket' = [bucket EXCEPT ![p][k] = opened]
           /\ recent' = [recent EXCEPT ![p][k] = WithNew(calls)]
        \/ /\ w.left > 0 /\ w.count < Limit /\ bucket' = [bucket EXCEPT ![p][k] = counted]
           /\ recent' = [recent EXCEPT ![p][k] = WithNew(calls)]
    BY <2>1 DEF CheckMemory, Store, Admit, WithNew
  <2> QED BY <2>3, <2>4, <2>5, <2>6
<1> QED BY <1>1, <1>3, <1>4

\* Time that passes keeps every slot sound.
LEMMA TimeKeeps ==
  ASSUME LimiterIInv, TimePasses
  PROVE  LimiterIInv'
<1>1. /\ redis' \in BOOLEAN
      /\ bucket' = [b \in Backends |-> [k \in Keys |-> Pass(bucket[b][k])]]
      /\ recent' = [b \in Backends |-> [k \in Keys |-> Older(recent[b][k])]]
  BY DEF TimePasses, LimiterIInv
<1>2. ASSUME NEW b \in Backends, NEW k \in Keys
      PROVE  /\ SlotSound(Pass(bucket[b][k]), Older(recent[b][k]))
             /\ bucket'[b][k] = Pass(bucket[b][k]) /\ recent'[b][k] = Older(recent[b][k])
  <2>1. SlotSound(bucket[b][k], recent[b][k])
    BY DEF LimiterIInv
  <2>2. SlotSound(Pass(bucket[b][k]), Older(recent[b][k]))
    BY <2>1, PassSlot
  <2> QED BY <1>1, <2>2
<1>3. \A b \in Backends, k \in Keys : /\ Pass(bucket[b][k]) \in Buckets
                                       /\ Older(recent[b][k]) \in SUBSET Calls
  BY <1>2 DEF SlotSound
<1>4. /\ bucket' \in [Backends -> [Keys -> Buckets]]
      /\ recent' \in [Backends -> [Keys -> SUBSET Calls]]
  BY <1>1, <1>3
<1>5. \A b \in Backends, k \in Keys : SlotSound(bucket'[b][k], recent'[b][k])
  BY <1>2
<1> QED BY <1>1, <1>4, <1>5 DEF LimiterIInv, SlotSound, Newest, Previous, Current, Counted, Elapsed

\* Nothing is counted or admitted when the processes start.
LEMMA LimiterStarts ==
  ASSUME LimiterInit
  PROVE  LimiterIInv
<1>1. Empty \in Buckets /\ Empty.left = 0
  BY LimiterAssumption DEF Empty, Buckets
<1>2. IsFiniteSet({}) /\ Cardinality({}) = 0 /\ Newest({}) = {}
  BY FS_EmptySet DEF Newest
<1>3. SlotSound(Empty, {})
  BY <1>1, <1>2, LimiterAssumption DEF SlotSound
<1> QED BY <1>1, <1>3 DEF LimiterInit, LimiterIInv

\* A sound slot holds the end of one window without its first call, and another window.
LEMMA SoundIsBounded ==
  ASSUME NEW w, NEW calls, SlotSound(w, calls)
  PROVE  Cardinality(calls) < 2 * Limit
<1>1. Limit \in Nat \ {0} /\ w.count \in Nat /\ w.left \in 0..Window /\ Cardinality(calls) \in Nat
  BY SlotParts, LimiterAssumption
<1>2. CASE w.left = 0
  BY <1>1, <1>2 DEF SlotSound
<1>3. CASE w.left > 0
  <2> DEFINE now == Current(w, calls)
             before == Previous(w, calls)
  <2>1. /\ IsFiniteSet(now) /\ Cardinality(now) \in Nat
        /\ IsFiniteSet(before) /\ Cardinality(before) \in Nat
        /\ \A c \in calls : c.age \in 0..(Window - 1)
    BY SlotParts
  <2>2. Cardinality(now) <= Limit /\ Cardinality(before) <= Limit - 1
    <3>1. Cardinality(now) <= Counted(w) /\ Cardinality(before) <= Limit - 1
      BY <1>3 DEF SlotSound
    <3>2. Counted(w) \in Nat /\ Counted(w) <= Limit
      BY <1>1 DEF Counted
    <3> HIDE DEF now, before
    <3> QED BY <1>1, <2>1, <3>1, <3>2
  <2>3. calls = now \cup before /\ now \cap before = {}
    BY <1>1, <2>1, LimiterAssumption DEF Current, Previous, Elapsed
  <2> HIDE DEF now, before
  <2>4. Cardinality(now \cup before) = Cardinality(now) + Cardinality(before) - Cardinality(now \cap before)
    BY <2>1, FS_Union
  <2>5. Cardinality(now \cap before) = 0
    BY <2>3, FS_EmptySet
  <2>6. Cardinality(calls) = Cardinality(now \cup before)
    BY <2>3
  <2>7. Cardinality(calls) = Cardinality(now) + Cardinality(before)
    BY <2>1, <2>4, <2>5, <2>6
  <2> QED BY <1>1, <2>1, <2>2, <2>7
<1> QED BY <1>1, <1>2, <1>3

\* The invariant of the slots gives the bound.
LEMMA BoundFollows == LimiterIInv => BurstBound
<1> SUFFICES ASSUME LimiterIInv, NEW b \in Backends, NEW k \in Keys
             PROVE  Cardinality(recent[b][k]) < 2 * Limit
  BY DEF BurstBound
<1>1. SlotSound(bucket[b][k], recent[b][k])
  BY DEF LimiterIInv
<1> QED BY <1>1, SoundIsBounded

\* However the calls of the clients, the failures of Redis and the ends of the windows
\* interleave, a span of one window admits fewer than twice the limit: the rule
\* RedisFixedWindowRateLimiter and InMemoryFixedWindowRateLimiter promise.
THEOREM FewerThanTwoWindows == LimiterSpec => []BurstBound
<1>1. LimiterInit => LimiterIInv
  BY LimiterStarts
<1>2. LimiterIInv /\ [LimiterNext]_limiterVars => LimiterIInv'
  <2> SUFFICES ASSUME LimiterIInv, [LimiterNext]_limiterVars PROVE LimiterIInv'
    OBVIOUS
  <2>1. ASSUME NEW p \in Processes, NEW k \in Keys, Allow(p, k) \/ Refuse(p, k)
        PROVE  LimiterIInv'
    BY <2>1, CheckKeeps DEF Allow, Refuse
  <2>2. CASE TimePasses
    BY <2>2, TimeKeeps
  <2>3. CASE UNCHANGED limiterVars
    BY <2>3 DEF limiterVars, LimiterIInv
  <2> QED BY <2>1, <2>2, <2>3 DEF LimiterNext
<1>3. LimiterIInv => BurstBound
  BY BoundFollows
<1> QED BY <1>1, <1>2, <1>3, PTL DEF LimiterSpec

-----------------------------------------------------------------------------
(* The gate.                                                                 *)

Paths == DOMAIN Endpoints

\* Paths that only read; that write with a compared CSRF token; that write and are exempt
\* from the comparison, or are a callback that a provider sends the browser to.
ReadingPaths ==
  {"healthz", "readyz", "metrics", "get_browser_session", "list_browser_sessions",
   "list_login_identities", "list_oauth_providers", "list_organizations",
   "list_organization_members", "list_organization_member_invitations",
   "list_organization_audit_events", "list_platform_connection_candidates",
   "list_platform_connections", "list_control_modules", "get_platform_health",
   "get_platform_dashboard_summary", "get_platform_bot_settings", "get_platform_audit_timeline",
   "get_platform_server_statistics", "get_platform_integrations",
   "list_platform_connection_channels", "get_platform_channel_purposes",
   "get_platform_ai_moderation_summary", "get_platform_ai_moderation_policy",
   "get_platform_welcome_settings"}

ComparedPaths ==
  {"revoke_browser_session", "revoke_all_browser_sessions", "reauthenticate_browser_session",
   "unlink_login_identity", "change_email_password", "begin_discord_identity_link",
   "begin_twitch_identity_link", "begin_google_identity_link", "begin_yandex_identity_link",
   "begin_telegram_identity_link", "create_organization", "add_organization_member",
   "update_organization_member", "remove_organization_member",
   "create_organization_member_invitation", "revoke_organization_member_invitation",
   "accept_organization_member_invitation", "connect_platform_connection",
   "reauthorize_platform_connection", "revoke_platform_connection",
   "disconnect_platform_connection", "update_platform_ai_moderation_policy",
   "update_platform_channel_purpose", "update_platform_welcome_settings"}

CallbackPaths ==
  {"complete_discord_oauth_callback", "complete_twitch_identity_link_callback",
   "complete_google_oauth_callback", "complete_yandex_oauth_callback",
   "complete_telegram_oauth_callback"}

\* The records that most endpoints are made from.
Templates ==
  [method : {"GET", "POST"}, needs : {"actor", "anyone"}, scope : {Unlimited},
   configurable : {TRUE}, answer : {200}, raises : {{}, {403}},
   writes : BOOLEAN, cookies : {{"kept"}}, ends : {"none"}]

\* What is decided in several lists, path by path: a path that writes for its caller has
\* its CSRF token compared, one that writes for anybody has a scope that is limited. A
\* path without a scope has no rule.
LEMMA TableAgrees ==
  /\ \A path \in Paths : Endpoints[path].writes =>
       IF Endpoints[path].needs = "anyone" THEN Endpoints[path].scope \in LimitedScopes
                                          ELSE Compared(path)
  /\ Unlimited \notin LimitedScopes
<1>1. Paths = ReadingPaths \cup ComparedPaths \cup CSRF_EXEMPT_PATHS \cup CallbackPaths
  BY DEF Paths, Endpoints, ReadingPaths, ComparedPaths, CSRF_EXEMPT_PATHS, CallbackPaths
<1>2. Read \in Templates /\ ~Read.writes
  BY DEF Read, Templates
<1>3. Write \in Templates /\ Write.method = "POST" /\ Write.needs = "actor"
  BY DEF Write, Read, Templates
<1>4. Public \in Templates /\ ~Public.writes /\ Open \in Templates /\ ~Control.writes
      /\ Open.needs = "anyone"
  <2>1. Public \in Templates /\ ~Public.writes
    BY DEF Public, Read, Templates
  <2>2. Open \in Templates /\ Open.needs = "anyone"
    BY DEF Open, Write, Read, Templates
  <2>3. ~Control.writes
    BY DEF Control, Read
  <2> QED BY <2>1, <2>2, <2>3
<1>5. \A path \in ReadingPaths : ~Endpoints[path].writes
  <2>1. /\ ~healthz.writes /\ ~readyz.writes /\ ~metrics.writes /\ ~get_browser_session.writes
        /\ ~list_browser_sessions.writes /\ ~list_login_identities.writes
        /\ ~list_oauth_providers.writes /\ ~list_organizations.writes
        /\ ~list_organization_members.writes /\ ~list_organization_member_invitations.writes
        /\ ~list_organization_audit_events.writes
        /\ ~list_platform_connection_candidates.writes /\ ~list_platform_connections.writes
        /\ ~list_control_modules.writes /\ ~get_platform_health.writes
        /\ ~get_platform_dashboard_summary.writes /\ ~get_platform_bot_settings.writes
        /\ ~get_platform_audit_timeline.writes /\ ~get_platform_server_statistics.writes
        /\ ~get_platform_integrations.writes /\ ~list_platform_connection_channels.writes
        /\ ~get_platform_channel_purposes.writes
        /\ ~get_platform_ai_moderation_summary.writes
        /\ ~get_platform_ai_moderation_policy.writes
        /\ ~get_platform_welcome_settings.writes
    BY <1>2, <1>4 DEF Templates, healthz, readyz, metrics, get_browser_session,
           list_browser_sessions, list_login_identities, list_oauth_providers,
           list_organizations, list_organization_members,
           list_organization_member_invitations, list_organization_audit_events,
           list_platform_connection_candidates, list_platform_connections,
           list_control_modules, get_platform_health, get_platform_dashboard_summary,
           get_platform_bot_settings, get_platform_audit_timeline,
           get_platform_server_statistics, get_platform_integrations,
           list_platform_connection_channels, get_platform_channel_purposes,
           get_platform_ai_moderation_summary, get_platform_ai_moderation_policy,
           get_platform_welcome_settings
  <2> QED BY <2>1 DEF ReadingPaths, Endpoints
<1>6. \A path \in ComparedPaths : /\ Endpoints[path].method \in {"POST", "PUT", "DELETE"}
                                  /\ Endpoints[path].needs # "anyone"
  <2>1. run_platform_connection_lifecycle = Write /\ begin_external_identity_link = Write
    BY DEF run_platform_connection_lifecycle, begin_external_identity_link
  <2> DEFINE Unsafe(e) == e.method \in {"POST", "PUT", "DELETE"} /\ e.needs # "anyone"
  <2>2. /\ Unsafe(revoke_browser_session) /\ Unsafe(revoke_all_browser_sessions)
        /\ Unsafe(reauthenticate_browser_session) /\ Unsafe(unlink_login_identity)
        /\ Unsafe(change_email_password) /\ Unsafe(begin_discord_identity_link)
        /\ Unsafe(begin_twitch_identity_link) /\ Unsafe(begin_google_identity_link)
        /\ Unsafe(begin_yandex_identity_link) /\ Unsafe(begin_telegram_identity_link)
        /\ Unsafe(create_organization) /\ Unsafe(add_organization_member)
        /\ Unsafe(update_organization_member) /\ Unsafe(remove_organization_member)
        /\ Unsafe(create_organization_member_invitation)
        /\ Unsafe(revoke_organization_member_invitation)
        /\ Unsafe(accept_organization_member_invitation)
        /\ Unsafe(connect_platform_connection) /\ Unsafe(reauthorize_platform_connection)
        /\ Unsafe(revoke_platform_connection) /\ Unsafe(disconnect_platform_connection)
    BY <1>3, <2>1 DEF Templates, revoke_browser_session,
           revoke_all_browser_sessions, reauthenticate_browser_session,
           unlink_login_identity, change_email_password, begin_discord_identity_link,
           begin_twitch_identity_link, begin_google_identity_link,
           begin_yandex_identity_link, begin_telegram_identity_link, create_organization,
           add_organization_member, update_organization_member, remove_organization_member,
           create_organization_member_invitation, revoke_organization_member_invitation,
           accept_organization_member_invitation, connect_platform_connection,
           reauthorize_platform_connection, revoke_platform_connection,
           disconnect_platform_connection
  <2>3. /\ Unsafe(update_platform_ai_moderation_policy)
        /\ Unsafe(update_platform_channel_purpose)
        /\ Unsafe(update_platform_welcome_settings)
    BY DEF Read, Control, update_platform_ai_moderation_policy,
           update_platform_channel_purpose, update_platform_welcome_settings
  <2> HIDE DEF Unsafe
  <2>4. \A path \in ComparedPaths : Unsafe(Endpoints[path])
    BY <2>2, <2>3 DEF ComparedPaths, Endpoints
  <2> QED BY <2>4 DEF Unsafe
<1>7. \A path \in ComparedPaths : Compared(path) /\ Endpoints[path].needs # "anyone"
  <2>1. ComparedPaths \cap CSRF_EXEMPT_PATHS = {}
    BY DEF ComparedPaths, CSRF_EXEMPT_PATHS
  <2> QED BY <1>6, <2>1 DEF Compared, SAFE_HTTP_METHODS
<1>8. \A path \in CSRF_EXEMPT_PATHS \cup CallbackPaths :
        Endpoints[path].scope \in LimitedScopes /\ Endpoints[path].needs = "anyone"
  <2> DEFINE Limited(e) == e.scope \in LimitedScopes /\ e.needs = "anyone"
  <2>1. Limited(begin_oauth_login) /\ Limited(complete_external_identity_link_callback)
    BY <1>4 DEF Templates, LimitedScopes, begin_oauth_login,
                complete_external_identity_link_callback
  <2>2. /\ Limited(start_email_password_registration) /\ Limited(verify_email_password_registration)
        /\ Limited(resend_email_password_registration_verification)
        /\ Limited(authenticate_email_password) /\ Limited(request_password_recovery)
        /\ Limited(complete_password_recovery)
    BY <1>4 DEF Templates, LimitedScopes, start_email_password_registration,
           verify_email_password_registration,
           resend_email_password_registration_verification, authenticate_email_password,
           request_password_recovery, complete_password_recovery
  <2> HIDE DEF Limited
  <2>3. /\ Limited(begin_discord_oauth_login) /\ Limited(begin_twitch_oauth_login)
        /\ Limited(begin_telegram_oauth_login) /\ Limited(begin_google_oauth_login)
        /\ Limited(begin_yandex_oauth_login) /\ Limited(complete_discord_oauth_callback)
        /\ Limited(complete_twitch_identity_link_callback)
        /\ Limited(complete_google_oauth_callback)
        /\ Limited(complete_yandex_oauth_callback)
        /\ Limited(complete_telegram_oauth_callback)
    BY <2>1 DEF begin_discord_oauth_login, begin_twitch_oauth_login,
           begin_telegram_oauth_login, begin_google_oauth_login, begin_yandex_oauth_login,
           complete_discord_oauth_callback, complete_twitch_identity_link_callback,
           complete_google_oauth_callback, complete_yandex_oauth_callback,
           complete_telegram_oauth_callback
  <2>4. \A path \in CSRF_EXEMPT_PATHS : Limited(Endpoints[path])
    BY <2>2, <2>3 DEF CSRF_EXEMPT_PATHS, Endpoints
  <2>5. \A path \in CallbackPaths : Limited(Endpoints[path])
    BY <2>3 DEF CallbackPaths, Endpoints
  <2> QED BY <2>4, <2>5 DEF Limited
<1>9. Unlimited \notin LimitedScopes
  BY DEF Unlimited, LimitedScopes
<1> QED BY <1>1, <1>5, <1>7, <1>8, <1>9

\* Requests between their arrival and their answer.
Flights ==
  [pc : {"resolve", "limit", "check", "call"}, endpoint : {Endpoints[path] : path \in Paths},
   process : Processes, cookie : Sessions \cup {None}, origin : Origins,
   gone : SUBSET Sessions, actor : Sessions \cup {None}, counted : BOOLEAN]

\* A write for a caller comes from a Console page; a write for anybody has a scope with a
\* rule, and such a request passes the limiter only when it is counted. The actor is the
\* session of the cookie, which is never one that had ended when the request arrived.
FlightSound(q, alive, issued) ==
  /\ q \in Flights /\ q.cookie \in issued \cup {None}
  /\ q.endpoint.writes => IF q.endpoint.needs = "anyone" THEN q.endpoint.scope \in LimitedScopes
                                                        ELSE q.origin = "console"
  /\ LimiterConfigured /\ q.pc \in {"check", "call"} /\ q.endpoint.scope \in LimitedScopes =>
       q.counted
  /\ q.pc = "resolve" /\ q.cookie \in q.gone => q.cookie \notin alive
  /\ q.pc # "resolve" /\ q.actor # None => q.actor = q.cookie /\ q.actor \in Sessions \ q.gone
  /\ q.pc = "call" /\ q.endpoint.needs # "anyone" => q.actor # None

RequestSound(q, alive, issued) ==
  \/ q = New
  \/ q.pc = "done"
  \/ q.pc = "answered" /\ q.cookie \in issued \cup {None}
  \/ FlightSound(q, alive, issued)

GateIInv ==
  /\ live \subseteq used /\ used \subseteq Sessions
  /\ jar \in used \cup {None}
  /\ DOMAIN req = Requests
  /\ \A r \in Requests : RequestSound(req[r], live, used)

\* A session is issued once: what has ended stays so, and a request stays sound when
\* sessions end or are issued while it runs.
LEMMA SoundAcross ==
  ASSUME NEW q, NEW alive, NEW issued, NEW later, NEW more, RequestSound(q, alive, issued),
         issued \subseteq more, later \cap issued \subseteq alive
  PROVE  RequestSound(q, later, more)
<1>1. CASE FlightSound(q, alive, issued)
  <2>1. q.pc = "resolve" /\ q.cookie \in q.gone => q.cookie \notin later
    <3> SUFFICES ASSUME q.pc = "resolve", q.cookie \in q.gone, q.cookie \in later PROVE FALSE
      OBVIOUS
    <3>1. q.cookie \in Sessions /\ q.cookie \in issued \cup {None} /\ q.cookie \notin alive
      BY <1>1 DEF FlightSound, Flights
    <3> QED BY <3>1, GateAssumption
  <2>2. FlightSound(q, later, more)
    BY <1>1, <2>1 DEF FlightSound
  <2> QED BY <2>2 DEF RequestSound
<1>2. CASE ~FlightSound(q, alive, issued)
  BY <1>2 DEF RequestSound
<1> QED BY <1>1, <1>2

\* A step of one request keeps the others sound.
LEMMA GateStep ==
  ASSUME GateIInv, NEW r \in Requests, NEW q, RequestSound(q, live', used'),
         req' = [req EXCEPT ![r] = q],
         used \subseteq used', used' \subseteq Sessions, live' \subseteq used',
         live' \cap used \subseteq live, jar' \in used' \cup {None}
  PROVE  GateIInv'
<1>1. DOMAIN req' = Requests /\ req'[r] = q /\ \A o \in Requests \ {r} : req'[o] = req[o]
  BY DEF GateIInv
<1>2. ASSUME NEW o \in Requests PROVE RequestSound(req'[o], live', used')
  <2>1. CASE o = r
    BY <1>1, <2>1
  <2>2. CASE o # r
    <3>1. RequestSound(req[o], live, used)
      BY DEF GateIInv
    <3>2. RequestSound(req[o], live', used')
      BY <3>1, SoundAcross
    <3> QED BY <1>1, <2>2, <3>2
  <2> QED BY <2>1, <2>2
<1> QED BY <1>1, <1>2 DEF GateIInv, RequestSound, FlightSound, Flights

\* The browser starts with the cookies of a live session, and no request is on its way.
LEMMA GateStarts ==
  ASSUME GateInit
  PROVE  GateIInv
BY DEF GateInit, GateIInv, RequestSound

\* A request that is on its way is sound in every part.
LEMMA InFlight ==
  ASSUME GateIInv, NEW r \in Requests, req[r].pc \in {"resolve", "limit", "check", "call"}
  PROVE  FlightSound(req[r], live, used)
BY DEF GateIInv, RequestSound, New

\* A step that only answers a request, or moves it on.
LEMMA QuietStep ==
  ASSUME GateIInv, NEW r \in Requests, NEW q, RequestSound(q, live, used), Becomes(r, q),
         UNCHANGED <<live, used, jar>>
  PROVE  GateIInv'
<1>1. /\ live' = live /\ used' = used /\ jar' = jar /\ req' = [req EXCEPT ![r] = q]
      /\ live \subseteq used /\ used \subseteq Sessions /\ jar \in used \cup {None}
  BY DEF Becomes, GateIInv
<1>2. /\ RequestSound(q, live', used') /\ used \subseteq used' /\ used' \subseteq Sessions
      /\ live' \subseteq used' /\ live' \cap used \subseteq live /\ jar' \in used' \cup {None}
  BY <1>1
<1> QED BY <1>1, <1>2, GateStep

\* An answer that leaves the cookies alone is always sound.
LEMMA AnswerStep ==
  ASSUME GateIInv, NEW r \in Requests, NEW status, Answered(r, status),
         UNCHANGED <<live, used, jar>>
  PROVE  GateIInv'
<1>1. RequestSound(Answer(status), live, used)
  BY DEF RequestSound, Answer
<1> QED BY <1>1, QuietStep DEF Answered

\* A request that passed the comparison of its CSRF token is sound.
LEMMA ArriveKeeps ==
  ASSUME GateIInv, NEW r \in Requests, Arrive(r)
  PROVE  GateIInv'
<1>1. PICK route \in Routes, p \in Processes, origin \in Origins :
        LET header == IF origin = "console" THEN jar ELSE None IN
        IF CsrfPasses(route, jar, header)
          THEN Becomes(r, [pc |-> "resolve", endpoint |-> route.endpoint, process |-> p, cookie |-> jar,
                           origin |-> origin, gone |-> Sessions \ live, actor |-> None, counted |-> FALSE])
          ELSE Answered(r, 403)
  BY DEF Arrive
<1> DEFINE header == IF origin = "console" THEN jar ELSE None
           q == [pc |-> "resolve", endpoint |-> route.endpoint, process |-> p, cookie |-> jar,
                 origin |-> origin, gone |-> Sessions \ live, actor |-> None, counted |-> FALSE]
<1>2. UNCHANGED <<live, used, jar>>
  BY DEF Arrive
<1>3. CASE Answered(r, 403)
  BY <1>2, <1>3, AnswerStep
<1>4. CASE Becomes(r, q) /\ CsrfPasses(route, jar, header)
  <2>1. PICK path \in Paths :
          route = [endpoint |-> Endpoints[path], compared |-> Compared(path)]
    BY DEF Routes, Paths
  <2>2. /\ route.endpoint = Endpoints[path] /\ route.compared = Compared(path)
        /\ route.compared \in BOOLEAN
    BY <2>1 DEF Compared
  <2>3. Endpoints[path].writes =>
          IF Endpoints[path].needs = "anyone" THEN Endpoints[path].scope \in LimitedScopes
                                             ELSE route.compared
    BY <2>2, TableAgrees
  <2>4. route.compared => origin = "console"
    BY <1>4 DEF CsrfPasses
  <2>5. origin \in Origins
    OBVIOUS
  <2>6. jar \in used \cup {None} /\ used \subseteq Sessions
    BY DEF GateIInv
  <2> HIDE DEF header
  <2>7. q \in Flights
    BY <2>2, <2>5, <2>6 DEF Flights
  <2>8. /\ q.pc = "resolve" /\ q.cookie = jar /\ q.endpoint = Endpoints[path]
        /\ q.origin = origin /\ q.gone = Sessions \ live
    BY <2>2
  <2> HIDE DEF q
  <2>9. FlightSound(q, live, used)
    BY <2>3, <2>4, <2>2, <2>6, <2>7, <2>8 DEF FlightSound
  <2>10. RequestSound(q, live, used)
    BY <2>9 DEF RequestSound
  <2> QED BY <1>2, <1>4, <2>10, QuietStep
<1> QED BY <1>1, <1>3, <1>4

\* The session that a request finds is the one of its cookie, and had not ended before.
LEMMA ResolveKeeps ==
  ASSUME GateIInv, NEW r \in Requests, resolve_session(r)
  PROVE  GateIInv'
<1> DEFINE q == req[r]
           next == IF E(r).scope = Unlimited THEN "check" ELSE "limit"
           n == [q EXCEPT !.pc = next, !.actor = Resolved(q.cookie)]
<1>1. UNCHANGED <<live, used, jar>> /\ q.pc = "resolve"
  BY DEF resolve_session
<1>2. CASE \E status \in {500} : Answered(r, status)
  BY <1>1, <1>2, AnswerStep
<1>3. CASE Becomes(r, n)
  <2>1. FlightSound(q, live, used)
    BY <1>1, InFlight
  <2>2. q \in Flights /\ live \subseteq Sessions /\ q.endpoint = E(r)
    BY <2>1 DEF FlightSound, GateIInv, E
  <2>3. /\ Resolved(q.cookie) \in Sessions \cup {None}
        /\ Resolved(q.cookie) # None => /\ Resolved(q.cookie) = q.cookie
                                        /\ q.cookie \in live
    BY <2>2 DEF Resolved
  <2>4. next \in {"check", "limit"} /\ (next = "check" => E(r).scope = Unlimited)
    OBVIOUS
  <2> HIDE DEF next, q
  <2>5. /\ n \in Flights /\ n.pc = next /\ n.actor = Resolved(q.cookie)
        /\ n.endpoint = q.endpoint /\ n.cookie = q.cookie /\ n.origin = q.origin
        /\ n.gone = q.gone
    BY <2>2, <2>3, <2>4 DEF Flights
  <2> HIDE DEF n
  <2>6. /\ n.endpoint.writes =>
             IF n.endpoint.needs = "anyone" THEN n.endpoint.scope \in LimitedScopes
                                            ELSE n.origin = "console"
        /\ n.pc = "check" => n.endpoint.scope \notin LimitedScopes
    <3>1. q.endpoint.writes =>
            IF q.endpoint.needs = "anyone" THEN q.endpoint.scope \in LimitedScopes
                                           ELSE q.origin = "console"
      BY <2>1 DEF FlightSound
    <3>2. next = "check" => q.endpoint.scope \notin LimitedScopes
      BY <2>2, <2>4, TableAgrees
    <3> QED BY <2>5, <3>1, <3>2
  <2>7. n.actor # None => n.actor = n.cookie /\ n.actor \in Sessions \ n.gone
    <3>1. q.cookie \in q.gone => q.cookie \notin live
      BY <1>1, <2>1 DEF FlightSound, q
    <3> QED BY <2>2, <2>3, <2>5, <3>1
  <2>8. n.cookie \in used \cup {None}
    BY <2>1, <2>5 DEF FlightSound
  <2>9. FlightSound(n, live, used)
    BY <2>4, <2>5, <2>6, <2>7, <2>8 DEF FlightSound
  <2>10. RequestSound(n, live, used)
    BY <2>9 DEF RequestSound
  <2> QED BY <1>1, <1>3, <2>10, QuietStep
<1> QED BY <1>2, <1>3 DEF resolve_session

\* A request whose scope is limited goes on only when it was counted.
LEMMA LimitKeeps ==
  ASSUME GateIInv, NEW r \in Requests, enforce_auth_rate_limit(r)
  PROVE  GateIInv'
<1> DEFINE q == req[r]
           through == [q EXCEPT !.pc = "check"]
           counted == [q EXCEPT !.pc = "check", !.counted = TRUE]
<1>1. UNCHANGED <<live, used, jar>> /\ q.pc = "limit"
  BY DEF enforce_auth_rate_limit
<1>2. FlightSound(q, live, used) /\ q \in Flights /\ q.endpoint = E(r)
  BY <1>1, InFlight DEF FlightSound, E
<1>3. CASE \E status \in {429} : Answered(r, status)
  BY <1>1, <1>3, AnswerStep
<1>4. CASE Becomes(r, counted)
  <2> HIDE DEF q
  <2>1. /\ counted \in Flights /\ counted.pc = "check" /\ counted.counted
        /\ counted.endpoint = q.endpoint /\ counted.origin = q.origin
        /\ counted.actor = q.actor /\ counted.cookie = q.cookie /\ counted.gone = q.gone
    BY <1>2 DEF Flights
  <2> HIDE DEF counted
  <2>2. FlightSound(counted, live, used)
    BY <1>1, <1>2, <2>1 DEF FlightSound, q
  <2>3. RequestSound(counted, live, used)
    BY <2>2 DEF RequestSound
  <2> QED BY <1>1, <1>4, <2>3, QuietStep
<1>5. CASE Becomes(r, through) /\ ~(LimiterConfigured /\ E(r).scope \in LimitedScopes)
  <2> HIDE DEF q
  <2>1. /\ through \in Flights /\ through.pc = "check" /\ through.endpoint = q.endpoint
        /\ through.origin = q.origin
        /\ through.actor = q.actor /\ through.cookie = q.cookie /\ through.gone = q.gone
    BY <1>2 DEF Flights
  <2> HIDE DEF through
  <2>2. FlightSound(through, live, used)
    BY <1>1, <1>2, <1>5, <2>1 DEF FlightSound, q
  <2>3. RequestSound(through, live, used)
    BY <2>2 DEF RequestSound
  <2> QED BY <1>1, <1>5, <2>3, QuietStep
<1> QED BY <1>3, <1>4, <1>5 DEF enforce_auth_rate_limit

\* A request without a principal does not reach a use case that wants one.
LEMMA CheckCallerKeeps ==
  ASSUME GateIInv, NEW r \in Requests, CheckCaller(r)
  PROVE  GateIInv'
<1> DEFINE q == req[r]
           called == [q EXCEPT !.pc = "call"]
<1>1. UNCHANGED <<live, used, jar>> /\ q.pc = "check"
  BY DEF CheckCaller
<1>2. FlightSound(q, live, used) /\ q \in Flights /\ q.endpoint = E(r)
  BY <1>1, InFlight DEF FlightSound, E
<1>3. CASE \E status \in {403, 503} : Answered(r, status)
  BY <1>1, <1>3, AnswerStep
<1>4. CASE Becomes(r, called) /\ HasPrincipal(r)
  <2>1. q.endpoint.needs = "anyone" \/ q.actor # None
    BY <1>2, <1>4 DEF HasPrincipal
  <2> HIDE DEF q
  <2>2. /\ called \in Flights /\ called.pc = "call" /\ called.endpoint = q.endpoint
        /\ called.origin = q.origin /\ called.counted = q.counted
        /\ called.actor = q.actor /\ called.cookie = q.cookie /\ called.gone = q.gone
    BY <1>2 DEF Flights
  <2> HIDE DEF called
  <2>3. FlightSound(called, live, used)
    BY <1>1, <1>2, <2>1, <2>2 DEF FlightSound, q
  <2>4. RequestSound(called, live, used)
    BY <2>3 DEF RequestSound
  <2> QED BY <1>1, <1>4, <2>4, QuietStep
<1> QED BY <1>3, <1>4 DEF CheckCaller

\* A success issues a session that was never issued, or ends sessions.
LEMMA SucceedKeeps ==
  ASSUME GateIInv, NEW r \in Requests, Succeed(r)
  PROVE  GateIInv'
<1>1. /\ jar' = jar /\ live \subseteq used /\ used \subseteq Sessions /\ jar \in used \cup {None}
  BY DEF Succeed, GateIInv
<1>2. ASSUME NEW s \in Sessions \ used, used' = used \cup {s}, live' = live \cup {s},
             Cookies(r, E(r).answer, s)
      PROVE  GateIInv'
  <2> DEFINE q == [pc |-> "answered", status |-> E(r).answer, cookie |-> s]
  <2>1. RequestSound(q, live', used')
    BY <1>2 DEF RequestSound
  <2>2. req' = [req EXCEPT ![r] = q]
    BY <1>2 DEF Cookies, Becomes
  <2> HIDE DEF q
  <2>3. /\ used \subseteq used' /\ used' \subseteq Sessions /\ live' \subseteq used'
        /\ live' \cap used \subseteq live /\ jar' \in used' \cup {None}
    BY <1>1, <1>2
  <2> QED BY <2>1, <2>2, <2>3, GateStep
<1>3. ASSUME NEW status, Answered(r, status) \/ Cookies(r, status, None),
             live' = LiveAfter(E(r), req[r].actor), used' = used
      PROVE  GateIInv'
  <2> DEFINE q == [pc |-> "answered", status |-> status, cookie |-> None]
  <2>1. RequestSound(q, live', used') /\ RequestSound(Answer(status), live', used')
    BY DEF RequestSound, Answer
  <2>2. \/ req' = [req EXCEPT ![r] = q]
        \/ req' = [req EXCEPT ![r] = Answer(status)]
    BY <1>3 DEF Cookies, Answered, Becomes
  <2> HIDE DEF q
  <2>3. /\ used \subseteq used' /\ used' \subseteq Sessions /\ live' \subseteq used'
        /\ live' \cap used \subseteq live /\ jar' \in used' \cup {None}
    BY <1>1, <1>3 DEF LiveAfter
  <2> QED BY <2>1, <2>2, <2>3, GateStep
<1> QED BY <1>2, <1>3 DEF Succeed

\* The browser takes over the cookies of an answer, which are of an issued session.
LEMMA ReceiveKeeps ==
  ASSUME GateIInv, NEW r \in Requests, Receive(r)
  PROVE  GateIInv'
<1>1. /\ live' = live /\ used' = used /\ req[r].pc = "answered"
      /\ jar' \in {jar, req[r].cookie} /\ Answered(r, req[r].status)
      /\ live \subseteq used /\ used \subseteq Sessions /\ jar \in used \cup {None}
  BY DEF Receive, GateIInv
<1>2. req[r].cookie \in used \cup {None}
  BY <1>1 DEF GateIInv, RequestSound, FlightSound, Flights, New
<1>3. RequestSound(Answer(req[r].status), live', used')
  BY DEF RequestSound, Answer
<1>4. req' = [req EXCEPT ![r] = Answer(req[r].status)]
  BY <1>1 DEF Answered, Becomes
<1>5. /\ used \subseteq used' /\ used' \subseteq Sessions /\ live' \subseteq used'
      /\ live' \cap used \subseteq live /\ jar' \in used' \cup {None}
  BY <1>1, <1>2
<1> QED BY <1>3, <1>4, <1>5, GateStep

\* A step of no request keeps every request sound.
LEMMA ElsewhereKeeps ==
  ASSUME GateIInv, live' \subseteq live, UNCHANGED <<used, jar, req>>
  PROVE  GateIInv'
<1>1. \A r \in Requests : RequestSound(req[r], live', used)
  <2> SUFFICES ASSUME NEW r \in Requests PROVE RequestSound(req[r], live', used)
    OBVIOUS
  <2>1. RequestSound(req[r], live, used)
    BY DEF GateIInv
  <2>2. live' \cap used \subseteq live /\ used \subseteq used
    OBVIOUS
  <2> QED BY <2>1, <2>2, SoundAcross
<1>2. /\ used' = used /\ jar' = jar /\ req' = req /\ DOMAIN req = Requests
      /\ live \subseteq used /\ used \subseteq Sessions /\ jar \in used \cup {None}
  BY DEF GateIInv
<1>3. \A r \in Requests : RequestSound(req'[r], live', used')
  BY <1>1, <1>2
<1> QED BY <1>2, <1>3 DEF GateIInv, RequestSound, FlightSound, Flights

\* Every step of the gate keeps the inductive invariant.
THEOREM GateInductive == GateSpec => []GateIInv
<1>1. GateInit => GateIInv
  BY GateStarts
<1>2. GateIInv /\ [GateNext]_vars => GateIInv'
  <2> SUFFICES ASSUME GateIInv, [GateNext]_vars PROVE GateIInv'
    OBVIOUS
  <2>1. ASSUME NEW r \in Requests, Arrive(r) PROVE GateIInv'
    BY <2>1, ArriveKeeps
  <2>2. ASSUME NEW r \in Requests, resolve_session(r) PROVE GateIInv'
    BY <2>2, ResolveKeeps
  <2>3. ASSUME NEW r \in Requests, enforce_auth_rate_limit(r) PROVE GateIInv'
    BY <2>3, LimitKeeps
  <2>4. ASSUME NEW r \in Requests, CheckCaller(r) PROVE GateIInv'
    BY <2>4, CheckCallerKeeps
  <2>5. ASSUME NEW r \in Requests, Succeed(r) PROVE GateIInv'
    BY <2>5, SucceedKeeps
  <2>6. ASSUME NEW r \in Requests, Fail(r) PROVE GateIInv'
    BY <2>6, AnswerStep DEF Fail
  <2>7. ASSUME NEW r \in Requests, Receive(r) PROVE GateIInv'
    BY <2>7, ReceiveKeeps
  <2>8. ASSUME NEW s \in Sessions, Lapse(s) PROVE GateIInv'
    <3>1. live' \subseteq live /\ UNCHANGED <<used, jar, req>>
      BY <2>8 DEF Lapse
    <3> QED BY <3>1, ElsewhereKeeps
  <2>9. CASE Clock \/ UNCHANGED vars
    <3>1. live' \subseteq live /\ UNCHANGED <<used, jar, req>>
      BY <2>9 DEF Clock, vars
    <3> QED BY <3>1, ElsewhereKeeps
  <2> QED BY <2>1, <2>2, <2>3, <2>4, <2>5, <2>6, <2>7, <2>8, <2>9 DEF GateNext
<1> QED BY <1>1, <1>2, PTL DEF GateSpec

\* However requests interleave and cookies change, and whichever endpoint of create_app
\* they call, a use case writes in the name of the browser's user only for a request of
\* a Console page.
THEOREM ProtectedCallers == GateSpec => []CallersWriteFromConsole
<1>1. GateIInv => CallersWriteFromConsole
  <2> SUFFICES ASSUME GateIInv, NEW r \in Requests, req[r].pc = "call", E(r).writes, E(r).needs # "anyone"
               PROVE  req[r].origin = "console"
    BY DEF CallersWriteFromConsole
  <2>1. FlightSound(req[r], live, used)
    BY InFlight
  <2> QED BY <2>1 DEF FlightSound, E
<1> QED BY <1>1, GateInductive, PTL

\* If there is a limiter, whatever endpoint that anybody may call and that writes, its
\* use case runs only for requests the limiter counted.
THEOREM CountedOpenWrites == GateSpec => []OpenWritesAreCounted
<1>1. GateIInv => OpenWritesAreCounted
  <2> SUFFICES ASSUME GateIInv, LimiterConfigured, NEW r \in Requests,
                      req[r].pc = "call", E(r).writes, E(r).needs = "anyone"
               PROVE  req[r].counted
    BY DEF OpenWritesAreCounted
  <2>1. FlightSound(req[r], live, used)
    BY InFlight
  <2> QED BY <2>1 DEF FlightSound, E
<1> QED BY <1>1, GateInductive, PTL

\* A use case that wants to know its caller acts for the session of the request's own
\* cookie, and never for one that had ended when the request arrived: no session that
\* ended is issued again.
THEOREM LiveCallers == GateSpec => []ActsForLiveSession
<1>1. GateIInv => ActsForLiveSession
  <2> SUFFICES ASSUME GateIInv, NEW r \in Requests, req[r].pc = "call", E(r).needs # "anyone"
               PROVE  req[r].actor \in Sessions \ req[r].gone /\ req[r].actor = req[r].cookie
    BY DEF ActsForLiveSession
  <2>1. FlightSound(req[r], live, used)
    BY InFlight
  <2> QED BY <2>1 DEF FlightSound, E
<1> QED BY <1>1, GateInductive, PTL

\* The bound of the limiter holds for the calls that the endpoints make.
THEOREM GateIsLimited == GateSpec => []BurstBound
<1>1. GateInit => LimiterIInv
  BY LimiterStarts DEF GateInit
<1>2. LimiterIInv /\ GateIInv /\ [GateNext]_vars => LimiterIInv'
  <2> SUFFICES ASSUME LimiterIInv, GateIInv, [GateNext]_vars PROVE LimiterIInv'
    OBVIOUS
  <2>1. CASE UNCHANGED limiterVars
    BY <2>1 DEF limiterVars, LimiterIInv
  <2>2. CASE TimePasses
    BY <2>2, TimeKeeps
  <2>3. ASSUME NEW r \in Requests, enforce_auth_rate_limit(r),
             LimiterConfigured /\ E(r).scope \in LimitedScopes
        PROVE  LimiterIInv'
    <3>1. /\ req[r].pc = "limit"
          /\ Allow(req[r].process, E(r).scope) \/ Refuse(req[r].process, E(r).scope)
      BY <2>3 DEF enforce_auth_rate_limit
    <3>2. FlightSound(req[r], live, used)
      BY <3>1, InFlight
    <3>3. req[r].process \in Processes /\ E(r).scope \in Keys
      BY <2>3, <3>2, GateAssumption DEF FlightSound, Flights
    <3> QED BY <3>1, <3>3, CheckKeeps DEF Allow, Refuse
  <2> QED BY <2>1, <2>2, <2>3 DEF GateNext, Arrive, resolve_session, enforce_auth_rate_limit,
                                  CheckCaller, Succeed, Fail, Receive, Lapse, Clock, vars, limiterVars
<1>3. LimiterIInv => BurstBound
  BY BoundFollows
<1> QED BY <1>1, <1>2, <1>3, GateInductive, PTL DEF GateSpec

=============================================================================
