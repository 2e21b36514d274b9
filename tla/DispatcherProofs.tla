---------------------------- MODULE DispatcherProofs ----------------------------
(***************************************************************************)
(* Facts about the dispatcher's sequence operations, for the proofs about  *)
(* the modules that use it.                                                *)
(***************************************************************************)
EXTENDS SerialDispatcher, SequenceTheorems, WellFoundedInduction, TLAPS

\* A nonempty set of naturals has a least element, so Min of it is one.
LEMMA MinOfNaturals ==
    ASSUME NEW T, T \subseteq Nat, T # {}
    PROVE  Min(T) \in T
<1> DEFINE less == {ss \in Nat \X Nat : ss[1] < ss[2]}
<1>1. IsWellFoundedOn(less, Nat)
    BY NatLessThanWellFounded, Zenon DEF OpToRel
<1>2. PICK x \in T : \A y \in T : ~ (<<y, x>> \in less)
    <2> HIDE DEF less
    <2> QED BY <1>1, WFMin, Zenon
<1>3. \A y \in T : x =< y
    <2> TAKE y \in T
    <2>1. <<y, x>> \in Nat \X Nat /\ <<y, x>>[1] = y /\ <<y, x>>[2] = x
        OBVIOUS
    <2>2. ~ (y < x)
        BY <1>2, <2>1, Zenon
    <2> QED BY <2>2
<1> QED
    BY <1>3, Zenon DEF Min

\* RemoveFirst drops one occurrence of e and keeps the rest, in order.
LEMMA RemoveFirstShape ==
    ASSUME NEW S, NEW s \in Seq(S), NEW e, NEW r, r = RemoveFirst(s, e)
    PROVE  \/ r = s /\ \A i \in DOMAIN s : s[i] # e
           \/ \E p \in 1 .. Len(s) :
                  /\ s[p] = e
                  /\ r \in Seq(S)
                  /\ Len(r) = Len(s) - 1
                  /\ \A i \in 1 .. Len(r) : r[i] = IF i < p THEN s[i] ELSE s[i + 1]
<1> DEFINE I == {i \in 1 .. Len(s) : s[i] = e}
           p == Min(I)
<1>1. CASE \E i \in 1 .. Len(s) : s[i] = e
    <2>1. p \in I
        <3>1. I # {} /\ I \subseteq Nat
            BY <1>1
        <3> HIDE DEF I
        <3> QED BY <3>1, MinOfNaturals
    <2>2. r = SubSeq(s, 1, p - 1) \o SubSeq(s, p + 1, Len(s))
        BY <1>1 DEF RemoveFirst, RemoveAt, SelectInSeq
    <2>3. p \in 1 .. Len(s) /\ s[p] = e
        BY <2>1
    <2> HIDE DEF p
    <2>4. /\ r \in Seq(S)
          /\ Len(r) = Len(s) - 1
          /\ \A i \in 1 .. Len(r) : r[i] = IF i < p THEN s[i] ELSE s[i + 1]
        <3>1. p \in Nat /\ Len(s) \in Nat /\ 1 =< p /\ p =< Len(s)
            BY <2>3
        <3>2. /\ SubSeq(s, 1, p - 1) \in Seq(S)
              /\ Len(SubSeq(s, 1, p - 1)) = p - 1
              /\ \A i \in 1 .. p - 1 : SubSeq(s, 1, p - 1)[i] = s[i]
            BY <3>1
        <3>3. /\ SubSeq(s, p + 1, Len(s)) \in Seq(S)
              /\ Len(SubSeq(s, p + 1, Len(s))) = Len(s) - p
              /\ \A i \in 1 .. Len(s) - p : SubSeq(s, p + 1, Len(s))[i] = s[p + i]
            BY <3>1
        <3> DEFINE a == SubSeq(s, 1, p - 1)
                   b == SubSeq(s, p + 1, Len(s))
        <3> HIDE DEF a, b
        <3>4. r = a \o b /\ a \in Seq(S) /\ b \in Seq(S) /\ Len(a) = p - 1 /\ Len(b) = Len(s) - p
            BY <2>2, <3>2, <3>3 DEF a, b
        <3>5. r \in Seq(S) /\ Len(r) = Len(s) - 1
            <4>1. r \in Seq(S) /\ Len(r) = Len(a) + Len(b)
                BY <3>4, ConcatProperties, Zenon
            <4> QED BY <3>1, <3>4, <4>1
        <3>6. ASSUME NEW i \in 1 .. Len(r) PROVE r[i] = IF i < p THEN s[i] ELSE s[i + 1]
            <4>1. CASE i < p
                BY <3>1, <3>2, <3>4, <3>5, <4>1 DEF a
            <4>2. CASE ~ (i < p)
                <5>1. r[i] = b[i - (p - 1)] /\ i - (p - 1) \in 1 .. Len(s) - p
                    BY <3>1, <3>4, <3>5, <4>2
                <5> QED BY <3>1, <3>3, <4>2, <5>1 DEF b
            <4> QED BY <4>1, <4>2
        <3> QED BY <3>5, <3>6
    <2> QED BY <2>3, <2>4
<1>2. CASE ~ \E i \in 1 .. Len(s) : s[i] = e
    BY <1>2 DEF RemoveFirst
<1> QED BY <1>1, <1>2

\* What is left has its place in the old sequence ...
LEMMA RemoveFirstProperties ==
    ASSUME NEW S, NEW s \in Seq(S), NEW e
    PROVE  /\ RemoveFirst(s, e) \in Seq(S)
           /\ \E f \in [DOMAIN RemoveFirst(s, e) -> DOMAIN s] :
                  /\ \A i \in DOMAIN RemoveFirst(s, e) : RemoveFirst(s, e)[i] = s[f[i]]
                  /\ \A i, k \in DOMAIN RemoveFirst(s, e) : f[i] = f[k] => i = k
                  /\ IsInjective(s) =>
                         \A i \in DOMAIN RemoveFirst(s, e) : s[f[i]] # e
<1>0. PICK r : r = RemoveFirst(s, e)
    OBVIOUS
<1> SUFFICES /\ r \in Seq(S)
             /\ \E f \in [DOMAIN r -> DOMAIN s] :
                    /\ \A i \in DOMAIN r : r[i] = s[f[i]]
                    /\ \A i, k \in DOMAIN r : f[i] = f[k] => i = k
                    /\ IsInjective(s) => \A i \in DOMAIN r : s[f[i]] # e
    BY <1>0, Zenon
<1>1. CASE \E p \in 1 .. Len(s) :
               /\ s[p] = e
               /\ r \in Seq(S)
               /\ Len(r) = Len(s) - 1
               /\ \A i \in 1 .. Len(r) : r[i] = IF i < p THEN s[i] ELSE s[i + 1]
    <2>3. PICK p \in 1 .. Len(s) :
              /\ s[p] = e
              /\ r \in Seq(S)
              /\ Len(r) = Len(s) - 1
              /\ \A i \in 1 .. Len(r) : r[i] = IF i < p THEN s[i] ELSE s[i + 1]
        BY <1>1
    <2> DEFINE f == [i \in 1 .. Len(r) |-> IF i < p THEN i ELSE i + 1]
    <2>5. DOMAIN r = 1 .. Len(r) /\ DOMAIN s = 1 .. Len(s)
        BY <2>3
    <2>6. f \in [DOMAIN r -> DOMAIN s]
        BY <2>3, <2>5
    <2>7. \A i \in DOMAIN r : r[i] = s[f[i]]
        BY <2>3, <2>5
    <2>8. \A i, k \in DOMAIN r : f[i] = f[k] => i = k
        BY <2>3, <2>5
    <2>9. ASSUME IsInjective(s) PROVE \A i \in DOMAIN r : s[f[i]] # e
        <3> TAKE i \in DOMAIN r
        <3>1. f[i] # p /\ f[i] \in DOMAIN s /\ p \in DOMAIN s
            BY <2>3, <2>5
        <3> HIDE DEF f
        <3> QED BY <2>3, <2>9, <3>1 DEF IsInjective
    <2> HIDE DEF f
    <2> QED BY <2>3, <2>6, <2>7, <2>8, <2>9, Zenon
<1>2. CASE r = s /\ \A i \in DOMAIN s : s[i] # e
    <2> DEFINE f == [i \in DOMAIN s |-> i]
    <2>1. /\ f \in [DOMAIN s -> DOMAIN s]
          /\ \A i \in DOMAIN s : s[i] = s[f[i]] /\ s[f[i]] # e
          /\ \A i, k \in DOMAIN s : f[i] = f[k] => i = k
        BY <1>2
    <2> HIDE DEF f
    <2> QED BY <1>2, <2>1, Zenon
<1>3. \/ r = s /\ \A i \in DOMAIN s : s[i] # e
      \/ \E p \in 1 .. Len(s) :
             /\ s[p] = e
             /\ r \in Seq(S)
             /\ Len(r) = Len(s) - 1
             /\ \A i \in 1 .. Len(r) : r[i] = IF i < p THEN s[i] ELSE s[i + 1]
    BY <1>0, RemoveFirstShape
<1> QED BY <1>1, <1>2, <1>3, Zenon

\* ... and nothing but e is missing.
LEMMA RemoveFirstKeeps ==
    ASSUME NEW S, NEW s \in Seq(S), NEW e, NEW i \in DOMAIN s, s[i] # e
    PROVE  \E k \in DOMAIN RemoveFirst(s, e) : RemoveFirst(s, e)[k] = s[i]
<1>0. PICK r : r = RemoveFirst(s, e)
    OBVIOUS
<1> SUFFICES \E k \in DOMAIN r : r[k] = s[i]
    BY <1>0, Zenon
<1>1. CASE \E p \in 1 .. Len(s) :
               /\ s[p] = e
               /\ r \in Seq(S)
               /\ Len(r) = Len(s) - 1
               /\ \A n \in 1 .. Len(r) : r[n] = IF n < p THEN s[n] ELSE s[n + 1]
    <2>1. PICK p \in 1 .. Len(s) :
              /\ s[p] = e
              /\ r \in Seq(S)
              /\ Len(r) = Len(s) - 1
              /\ \A n \in 1 .. Len(r) : r[n] = IF n < p THEN s[n] ELSE s[n + 1]
        BY <1>1
    <2>2. DOMAIN r = 1 .. Len(r) /\ DOMAIN s = 1 .. Len(s) /\ i # p
        BY <2>1
    <2>3. CASE i < p
        <3>1. i \in DOMAIN r /\ r[i] = s[i]
            BY <2>1, <2>2, <2>3
        <3> QED BY <3>1
    <2>4. CASE ~ (i < p)
        <3>1. i - 1 \in DOMAIN r /\ r[i - 1] = s[i]
            BY <2>1, <2>2, <2>4
        <3> QED BY <3>1
    <2> QED BY <2>3, <2>4
<1>2. CASE r = s
    BY <1>2
<1>3. \/ r = s /\ \A n \in DOMAIN s : s[n] # e
      \/ \E p \in 1 .. Len(s) :
             /\ s[p] = e
             /\ r \in Seq(S)
             /\ Len(r) = Len(s) - 1
             /\ \A n \in 1 .. Len(r) : r[n] = IF n < p THEN s[n] ELSE s[n + 1]
    BY <1>0, RemoveFirstShape
<1> QED BY <1>1, <1>2, <1>3, Zenon

\* What a sequence without repetition holds after it grows at its end.
LEMMA GrownSet ==
    ASSUME NEW S, NEW s \in Seq(S), NEW e \in S
    PROVE  /\ Append(s, e) \in Seq(S)
           /\ ToSet(Append(s, e)) = ToSet(s) \cup {e}
           /\ IsInjective(s) /\ e \notin ToSet(s) => IsInjective(Append(s, e))
<1> DEFINE t == Append(s, e)
<1>1. /\ t \in Seq(S) /\ Len(t) = Len(s) + 1
      /\ \A i \in 1 .. Len(s) : t[i] = s[i]
      /\ t[Len(s) + 1] = e
    BY AppendProperties
<1> HIDE DEF t
<1>2. Len(s) \in Nat /\ DOMAIN s = 1 .. Len(s) /\ DOMAIN t = 1 .. Len(s) + 1
    BY <1>1
<1>3. ToSet(t) = ToSet(s) \cup {e}
    BY <1>1, <1>2 DEF ToSet
<1>4. ASSUME IsInjective(s), e \notin ToSet(s) PROVE IsInjective(t)
    BY <1>1, <1>2, <1>4 DEF IsInjective, ToSet
<1> QED BY <1>1, <1>3, <1>4 DEF t

\* What a sequence without repetition holds after its head is taken.
LEMMA ShrunkSet ==
    ASSUME NEW S, NEW s \in Seq(S), s # <<>>, IsInjective(s)
    PROVE  /\ Tail(s) \in Seq(S)
           /\ Head(s) \in ToSet(s)
           /\ ToSet(Tail(s)) = ToSet(s) \ {Head(s)}
           /\ IsInjective(Tail(s))
<1> DEFINE t == Tail(s)
<1>1. /\ t \in Seq(S) /\ Len(t) = Len(s) - 1 /\ Len(s) \in Nat \ {0}
      /\ \A i \in 1 .. Len(t) : t[i] = s[i + 1]
      /\ Head(s) = s[1]
    BY HeadTailProperties, EmptySeq
<1> HIDE DEF t
<1>2. DOMAIN s = 1 .. Len(s) /\ DOMAIN t = 1 .. Len(s) - 1
    BY <1>1
<1>3. Head(s) \in ToSet(s)
    BY <1>1, <1>2 DEF ToSet
<1>4. \A i \in 2 .. Len(s) : s[i] # s[1] /\ i - 1 \in DOMAIN t /\ s[i] = t[i - 1]
    BY <1>1, <1>2 DEF IsInjective
<1>5. ASSUME NEW x \in ToSet(s), x # Head(s) PROVE x \in ToSet(t)
    BY <1>1, <1>2, <1>4, <1>5 DEF ToSet
<1>6. ASSUME NEW x \in ToSet(t) PROVE x \in ToSet(s) /\ x # Head(s)
    <2>1. PICK i \in DOMAIN t : x = t[i]
        BY <1>6 DEF ToSet
    <2>2. i + 1 \in 2 .. Len(s) /\ x = s[i + 1]
        BY <1>1, <1>2, <2>1
    <2> QED BY <1>1, <1>2, <1>4, <2>2 DEF ToSet
<1>7. IsInjective(t)
    BY <1>1, <1>2 DEF IsInjective
<1> QED BY <1>1, <1>3, <1>5, <1>6, <1>7 DEF t

===============================================================================
