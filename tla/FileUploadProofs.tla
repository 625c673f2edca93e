--------------------------- MODULE FileUploadProofs ---------------------------
(***************************************************************************)
(* Uploads, for every set of transfers, files and acting handlers: TDLib's *)
(* slots follow the transfers that share them, a file is sent at most      *)
(* once, and not after it was cancelled, and every reference of a transfer *)
(* is accounted for.                                                       *)
(*                                                                         *)
(* The first two say what must not happen between a handler that cancels a *)
(* transfer and the statements that were under way for it. So their        *)
(* invariant (IInv) is about the statements still to be executed, as a set *)
(* (todo): what may be left for a transfer in which stage (StageOK,        *)
(* StatementsOK), and that a transfer somebody waits for has its data      *)
(* until its cancel function, which is then under way, takes it (DataOK).  *)
(* First come the lemmas on what the code's sequences hold, then one lemma *)
(* per step.                                                               *)
(*                                                                         *)
(* References are counted, and a statement drops what an earlier one took. *)
(* So the second invariant (RInv) is about how often a statement occurs    *)
(* (XferRefs) and about the order of statements (StackOK). It comes after  *)
(* the lemmas on Occurrences, which are about concatenations.              *)
(***************************************************************************)
EXTENDS FileUpload, TLAPS, FiniteSetTheorems, SequenceTheorems, WellFoundedInduction

\* A sequence, whatever it holds
IsSequence(s) == s \in Seq(ToSet(s))

-----------------------------------------------------------------------------
(* What sequences hold *)

LEMMA LeastNat == \A T \in SUBSET Nat : T # {} => \E m \in T : \A k \in T : m <= k
<1> SUFFICES ASSUME NEW T \in SUBSET Nat, T # {} PROVE \E m \in T : \A k \in T : m <= k
  OBVIOUS
<1> DEFINE Less == {p \in Nat \X Nat : p[1] < p[2]}
<1>1. \A i, k \in Nat : k < i => <<k, i>> \in Less
  OBVIOUS
<1>2. IsWellFoundedOn(Less, Nat)
  <2>1. OpToRel(<, Nat) = Less
    BY DEF OpToRel
  <2> QED
    BY <2>1, NatLessThanWellFounded
<1> HIDE DEF Less
<1>3. PICK m \in T : \A k \in T : <<k, m>> \notin Less
  BY <1>2, WFMin
<1>4. \A k \in T : k \in Nat /\ m \in Nat /\ ~(k < m)
  BY <1>1, <1>3
<1> QED
  BY <1>4

\* Induction up to a bound, for the members of a set
LEMMA Climbing ==
  ASSUME NEW n \in Nat, NEW T, 0 \in T, \A k \in 1 .. n : k - 1 \in T => k \in T
  PROVE  \A k \in 0 .. n : k \in T
<1> DEFINE Bad == {k \in 0 .. n : k \notin T}
<1> SUFFICES ASSUME Bad # {} PROVE FALSE
  OBVIOUS
<1>0. Bad \in SUBSET Nat
  OBVIOUS
<1>1. PICK m \in Bad : \A k \in Bad : m <= k
  BY <1>0, LeastNat
<1>2. m \in 1 .. n /\ m - 1 \in 0 .. n /\ ~(m <= m - 1)
  BY <1>1
<1>3. m - 1 \in T
  BY <1>1, <1>2
<1> QED
  BY <1>1, <1>2, <1>3

LEMMA SequenceFacts ==
  ASSUME NEW s, IsSequence(s)
  PROVE  /\ Len(s) \in Nat /\ DOMAIN s = 1 .. Len(s) /\ ToSet(s) = {s[i] : i \in 1 .. Len(s)}
         /\ s # <<>> => Head(s) = s[1] /\ 1 \in 1 .. Len(s)
<1>1. Len(s) \in Nat /\ DOMAIN s = 1 .. Len(s)
  BY LenProperties DEF IsSequence
<1>2. ToSet(s) = {s[i] : i \in 1 .. Len(s)}
  BY <1>1 DEF ToSet
<1>3. s # <<>> => Head(s) = s[1] /\ 1 \in 1 .. Len(s)
  BY EmptySeq, <1>1 DEF IsSequence
<1> QED
  BY <1>1, <1>2, <1>3

LEMMA SeqIsSequence ==
  ASSUME NEW S, NEW s \in Seq(S)
  PROVE  IsSequence(s) /\ ToSet(s) \subseteq S
<1>1. Len(s) \in Nat /\ s \in [1 .. Len(s) -> S]
  BY LenProperties
<1>2. ToSet(s) = {s[i] : i \in 1 .. Len(s)}
  BY <1>1 DEF ToSet
<1>3. s \in [1 .. Len(s) -> ToSet(s)]
  BY <1>1, <1>2
<1>4. s \in Seq(ToSet(s))
  BY <1>1, <1>3, SeqDef
<1> QED
  BY <1>1, <1>2, <1>4 DEF IsSequence

LEMMA SequenceInto ==
  ASSUME NEW s, IsSequence(s), NEW S, ToSet(s) \subseteq S
  PROVE  s \in Seq(S)
BY SeqMonotonic DEF IsSequence

LEMMA ConcatSet ==
  ASSUME NEW a, NEW b, IsSequence(a), IsSequence(b)
  PROVE  IsSequence(a \o b) /\ ToSet(a \o b) = ToSet(a) \cup ToSet(b)
<1> DEFINE S == ToSet(a) \cup ToSet(b)
<1>1. a \in Seq(S) /\ b \in Seq(S)
  BY SequenceInto
<1> HIDE DEF S
<1>2. /\ a \o b \in Seq(S) /\ Len(a \o b) = Len(a) + Len(b)
      /\ \A i \in 1 .. Len(a) + Len(b) : (a \o b)[i] = IF i <= Len(a) THEN a[i] ELSE b[i - Len(a)]
  BY <1>1, ConcatProperties
<1> DEFINE c == a \o b
<1> HIDE DEF c
<1>3. IsSequence(c)
  BY <1>2, SeqIsSequence DEF c
<1>4. /\ Len(a) \in Nat /\ Len(b) \in Nat /\ Len(c) = Len(a) + Len(b)
      /\ ToSet(a) = {a[i] : i \in 1 .. Len(a)} /\ ToSet(b) = {b[i] : i \in 1 .. Len(b)}
      /\ ToSet(c) = {c[i] : i \in 1 .. Len(a) + Len(b)}
  BY <1>2, <1>3, SequenceFacts DEF c
<1>5. ASSUME NEW x \in ToSet(c) PROVE x \in ToSet(a) \cup ToSet(b)
  <2>1. PICK i \in 1 .. Len(a) + Len(b) : x = c[i]
    BY <1>4
  <2>2. CASE i <= Len(a)
    BY <1>2, <1>4, <2>1, <2>2 DEF c
  <2>3. CASE ~(i <= Len(a))
    <3>1. x = b[i - Len(a)] /\ i - Len(a) \in 1 .. Len(b)
      BY <1>2, <1>4, <2>1, <2>3 DEF c
    <3> QED
      BY <1>4, <3>1
  <2> QED
    BY <2>2, <2>3
<1>6. ASSUME NEW x \in ToSet(a) PROVE x \in ToSet(c)
  <2>1. PICK i \in 1 .. Len(a) : x = a[i]
    BY <1>4
  <2>2. i \in 1 .. Len(a) + Len(b) /\ x = c[i]
    BY <1>2, <1>4, <2>1 DEF c
  <2> QED
    BY <1>4, <2>2
<1>7. ASSUME NEW x \in ToSet(b) PROVE x \in ToSet(c)
  <2>1. PICK i \in 1 .. Len(b) : x = b[i]
    BY <1>4
  <2>2. i + Len(a) \in 1 .. Len(a) + Len(b) /\ ~(i + Len(a) <= Len(a)) /\ i + Len(a) - Len(a) = i
    BY <1>4, <2>1
  <2>3. x = c[i + Len(a)]
    BY <1>2, <2>1, <2>2 DEF c
  <2> QED
    BY <1>4, <2>2, <2>3
<1> QED
  BY <1>3, <1>5, <1>6, <1>7 DEF c

LEMMA EmptySet == IsSequence(<<>>) /\ ToSet(<<>>) = {}
<1>1. <<>> \in Seq({0}) /\ Len(<<>>) = 0
  BY EmptySeq
<1>2. IsSequence(<<>>)
  BY <1>1, SeqIsSequence
<1>3. ToSet(<<>>) = {<<>>[i] : i \in 1 .. 0}
  BY <1>1, <1>2, SequenceFacts
<1> QED
  BY <1>2, <1>3

LEMMA SingleSet ==
  ASSUME NEW x
  PROVE  IsSequence(<<x>>) /\ ToSet(<<x>>) = {x}
<1>1. <<x>> \in Seq({x})
  OBVIOUS
<1>2. IsSequence(<<x>>) /\ ToSet(<<x>>) = {<<x>>[i] : i \in 1 .. 1}
  BY <1>1, SeqIsSequence, SequenceFacts
<1> QED
  BY <1>2

LEMMA TailSet ==
  ASSUME NEW s, IsSequence(s), s # <<>>
  PROVE  /\ IsSequence(Tail(s)) /\ Head(s) \in ToSet(s)
         /\ ToSet(s) = {Head(s)} \cup ToSet(Tail(s))
<1>1. /\ Head(s) \in ToSet(s) /\ Tail(s) \in Seq(ToSet(s))
      /\ Len(Tail(s)) = Len(s) - 1 /\ \A i \in 1 .. Len(Tail(s)) : Tail(s)[i] = s[i + 1]
  BY HeadTailProperties DEF IsSequence
<1>2. IsSequence(Tail(s)) /\ ToSet(Tail(s)) \subseteq ToSet(s)
  BY <1>1, SeqIsSequence
<1>3. /\ Len(s) \in Nat /\ ToSet(s) = {s[i] : i \in 1 .. Len(s)} /\ Head(s) = s[1]
      /\ ToSet(Tail(s)) = {Tail(s)[i] : i \in 1 .. Len(s) - 1}
  BY <1>1, <1>2, SequenceFacts
<1>4. ASSUME NEW x \in ToSet(s), x # Head(s) PROVE x \in ToSet(Tail(s))
  <2>1. PICK i \in 1 .. Len(s) : x = s[i] /\ i # 1
    BY <1>3, <1>4
  <2>2. i - 1 \in 1 .. Len(s) - 1 /\ i - 1 + 1 = i
    BY <1>3, <2>1
  <2> QED
    BY <1>1, <1>3, <2>1, <2>2
<1> QED
  BY <1>1, <1>2, <1>4

\* What FlattenSeq computes
IsFlat(f, ss, n) == f = [i \in 1 .. n |-> IF i = 1 THEN ss[i] ELSE f[i - 1] \o ss[i]]

LEMMA FlatExists ==
  ASSUME NEW ss, NEW n \in Nat
  PROVE  \E f : IsFlat(f, ss, n)
<1> DEFINE T == {k \in Nat : \E f : IsFlat(f, ss, k)}
<1>1. 0 \in T
  <2>1. IsFlat([i \in 1 .. 0 |-> <<>>], ss, 0)
    BY DEF IsFlat
  <2> QED
    BY <2>1
<1>2. ASSUME NEW m \in 1 .. n, m - 1 \in T PROVE m \in T
  <2>1. PICK f : IsFlat(f, ss, m - 1)
    BY <1>2
  <2> DEFINE g == [i \in 1 .. m |->
                     IF i < m THEN f[i] ELSE IF i = 1 THEN ss[i] ELSE f[i - 1] \o ss[i]]
  <2>2. \A i \in 1 .. m : g[i] = IF i = 1 THEN ss[i] ELSE g[i - 1] \o ss[i]
    <3> TAKE i \in 1 .. m
    <3>1. CASE i < m
      <4>1. i \in 1 .. m - 1 /\ (i # 1 => i - 1 \in 1 .. m - 1 /\ i - 1 \in 1 .. m /\ i - 1 < m)
        BY <3>1
      <4>2. f[i] = IF i = 1 THEN ss[i] ELSE f[i - 1] \o ss[i]
        BY <2>1, <4>1 DEF IsFlat
      <4> QED
        BY <3>1, <4>1, <4>2
    <3>2. CASE i = m
      <4>1. i # 1 => i - 1 \in 1 .. m /\ i - 1 < m
        BY <3>2
      <4>2. i # 1 => g[i - 1] = f[i - 1]
        BY <4>1
      <4> QED
        BY <3>2, <4>2
    <3> QED
      BY <3>1, <3>2
  <2> HIDE DEF g
  <2>3. DOMAIN g = 1 .. m /\ g = [i \in DOMAIN g |-> g[i]]
    BY DEF g
  <2>4. IsFlat(g, ss, m)
    BY <2>2, <2>3 DEF IsFlat
  <2> QED
    BY <2>4
<1> HIDE DEF T
<1>3. n \in T
  BY <1>1, <1>2, Climbing
<1> QED
  BY <1>3 DEF T

LEMMA FlattenIs ==
  ASSUME NEW ss, Len(ss) \in Nat, Len(ss) # 0
  PROVE  \E f : IsFlat(f, ss, Len(ss)) /\ FlattenSeq(ss) = f[Len(ss)]
<1> DEFINE f == CHOOSE f : IsFlat(f, ss, Len(ss))
<1>1. IsFlat(f, ss, Len(ss))
  BY FlatExists
<1>2. FlattenSeq(ss) = f[Len(ss)]
  BY DEF FlattenSeq, IsFlat
<1> QED
  BY <1>1, <1>2

\* Sequences one after the other
LEMMA FlattenedSet ==
  ASSUME NEW ss, IsSequence(ss), \A i \in DOMAIN ss : IsSequence(ss[i])
  PROVE  IsSequence(FlattenSeq(ss)) /\ ToSet(FlattenSeq(ss)) = UNION {ToSet(ss[i]) : i \in DOMAIN ss}
<1>0. PICK n : n = Len(ss)
  OBVIOUS
<1>1. n \in Nat /\ DOMAIN ss = 1 .. n
  BY <1>0, SequenceFacts
<1>2. CASE n = 0
  <2>1. FlattenSeq(ss) = ss /\ DOMAIN ss = {} /\ ToSet(ss) = {}
    BY <1>0, <1>1, <1>2 DEF FlattenSeq, ToSet
  <2> QED
    BY <2>1
<1>3. CASE n # 0
  <2>1. PICK f : IsFlat(f, ss, n) /\ FlattenSeq(ss) = f[n]
    BY <1>0, <1>1, <1>3, FlattenIs
  <2>2. \A i \in 1 .. n : f[i] = IF i = 1 THEN ss[i] ELSE f[i - 1] \o ss[i]
    BY <2>1 DEF IsFlat
  <2> DEFINE First(k) == UNION {ToSet(ss[i]) : i \in 1 .. k}
             Good(k) == IsSequence(f[k]) /\ ToSet(f[k]) = First(k)
             T == {k \in 0 .. n : k = 0 \/ Good(k)}
  <2>3. ASSUME NEW k \in 1 .. n, k - 1 \in T PROVE k \in T
    <3>1. IsSequence(ss[k])
      BY <1>1
    <3>2. CASE k = 1
      <4>1. f[k] = ss[k] /\ 1 .. k = {k}
        BY <2>2, <3>2
      <4> QED
        BY <3>1, <4>1
    <3>3. CASE k # 1
      <4>1. f[k] = f[k - 1] \o ss[k] /\ Good(k - 1)
        <5>1. f[k] = f[k - 1] \o ss[k]
          BY <2>2, <3>3
        <5>2. k - 1 # 0
          BY <1>1, <3>3
        <5>3. k - 1 = 0 \/ Good(k - 1)
          <6> HIDE DEF Good
          <6> QED
            BY <2>3
        <5> QED
          BY <5>1, <5>2, <5>3
      <4>2. First(k) = First(k - 1) \cup ToSet(ss[k])
        <5>1. 1 .. k = (1 .. k - 1) \cup {k}
          BY <1>1
        <5> QED
          BY <5>1
      <4>3. Good(k)
        BY <3>1, <4>1, <4>2, ConcatSet
      <4> QED
        BY <4>3, <1>1
    <3> QED
      BY <3>2, <3>3
  <2>4. 0 \in T
    BY <1>1
  <2> HIDE DEF T
  <2>5. n \in T
    BY <1>1, <2>3, <2>4, Climbing
  <2>6. Good(n)
    BY <1>3, <2>5 DEF T
  <2> QED
    BY <1>1, <2>1, <2>6
<1> QED
  BY <1>2, <1>3

LEMMA FunctionIsSequence ==
  ASSUME NEW n \in Nat, NEW s, s = [i \in 1 .. n |-> s[i]]
  PROVE  IsSequence(s) /\ Len(s) = n /\ DOMAIN s = 1 .. n
<1> DEFINE S == {s[i] : i \in 1 .. n}
<1>1. s \in [1 .. n -> S]
  OBVIOUS
<1> HIDE DEF S
<1>2. s \in Seq(S)
  BY <1>1, SeqDef
<1>3. IsSequence(s)
  BY <1>2, SeqIsSequence
<1>4. Len(s) \in Nat /\ DOMAIN s = 1 .. Len(s) /\ DOMAIN s = 1 .. n
  BY <1>1, <1>3, SequenceFacts
<1>5. Len(s) = n
  <2>1. CASE n = 0
    BY <1>4, <2>1
  <2>2. CASE n # 0
    <3>1. n \in 1 .. Len(s)
      BY <1>4, <2>2
    <3>2. Len(s) \in 1 .. n
      BY <1>4, <3>1
    <3> QED
      BY <1>4, <3>1, <3>2
  <2> QED
    BY <2>1, <2>2
<1> QED
  BY <1>3, <1>4, <1>5

LEMMA AppendSet ==
  ASSUME NEW s, IsSequence(s), NEW e
  PROVE  IsSequence(Append(s, e)) /\ ToSet(Append(s, e)) = ToSet(s) \cup {e}
<1>1. s \in Seq(ToSet(s) \cup {e})
  BY SequenceInto
<1>2. Append(s, e) = s \o <<e>>
  BY <1>1, AppendIsConcat
<1> QED
  BY <1>2, SingleSet, ConcatSet

\* What ForEach gives
LEMMA EachSet ==
  ASSUME NEW xs, IsSequence(xs), NEW ss, ss = [i \in DOMAIN xs |-> ss[i]],
         NEW S, \A i \in DOMAIN xs : IsSequence(ss[i]) /\ ToSet(ss[i]) \subseteq S
  PROVE  IsSequence(FlattenSeq(ss)) /\ ToSet(FlattenSeq(ss)) \subseteq S
<1>1. Len(xs) \in Nat /\ DOMAIN xs = 1 .. Len(xs)
  BY SequenceFacts
<1>2. IsSequence(ss) /\ DOMAIN ss = DOMAIN xs
  BY <1>1, FunctionIsSequence
<1> QED
  BY <1>2, FlattenedSet

\* What Only computes
IsOnly(f, s, S, n) ==
  f = [k \in 0 .. n |->
         IF k = 0 THEN <<>> ELSE IF s[k] \in S THEN Append(f[k - 1], s[k]) ELSE f[k - 1]]

LEMMA OnlyExists ==
  ASSUME NEW s, NEW S, NEW n \in Nat
  PROVE  \E f : IsOnly(f, s, S, n)
<1> DEFINE G(r, x) == IF x \in S THEN Append(r, x) ELSE r
           Upto(f, m) == f = [k \in 0 .. m |-> IF k = 0 THEN <<>> ELSE G(f[k - 1], s[k])]
           T == {m \in Nat : \E f : Upto(f, m)}
<1> HIDE DEF G
<1>1. 0 \in T
  <2>1. Upto([k \in 0 .. 0 |-> <<>>], 0)
    OBVIOUS
  <2> QED
    BY <2>1
<1>2. ASSUME NEW m \in 1 .. n, m - 1 \in T PROVE m \in T
  <2>1. PICK f : Upto(f, m - 1)
    BY <1>2
  <2> DEFINE g == [k \in 0 .. m |-> IF k < m THEN f[k] ELSE G(f[k - 1], s[k])]
  <2>2. \A k \in 0 .. m : g[k] = IF k = 0 THEN <<>> ELSE G(g[k - 1], s[k])
    <3> TAKE k \in 0 .. m
    <3>1. CASE k < m
      <4>1. k \in 0 .. m - 1 /\ (k # 0 => k - 1 \in 0 .. m - 1 /\ k - 1 \in 0 .. m /\ k - 1 < m)
        BY <3>1
      <4>2. f[k] = IF k = 0 THEN <<>> ELSE G(f[k - 1], s[k])
        BY <2>1, <4>1
      <4>3. k # 0 => g[k - 1] = f[k - 1]
        BY <4>1
      <4> QED
        BY <3>1, <4>1, <4>2, <4>3
    <3>2. CASE k = m
      <4>1. k - 1 \in 0 .. m /\ k - 1 < m /\ k # 0 /\ ~(k < m)
        BY <3>2
      <4>2. g[k - 1] = f[k - 1]
        BY <4>1
      <4> QED
        BY <3>2, <4>1, <4>2
    <3> QED
      BY <3>1, <3>2
  <2> HIDE DEF g
  <2>3. DOMAIN g = 0 .. m /\ g = [k \in DOMAIN g |-> g[k]]
    BY DEF g
  <2>4. Upto(g, m)
    BY <2>2, <2>3
  <2> HIDE DEF Upto
  <2> QED
    BY <2>4
<1>3. n \in T
  <2> HIDE DEF T
  <2> QED
    BY <1>1, <1>2, Climbing
<1>4. PICK f : Upto(f, n)
  BY <1>3
<1> QED
  BY <1>4 DEF IsOnly, G

LEMMA OnlyIs ==
  ASSUME NEW s, NEW S
  PROVE  LET n == Len(s) IN
         n \in Nat => \E f : IsOnly(f, s, S, n) /\ Only(s, S) = f[n]
<1> SUFFICES ASSUME Len(s) \in Nat PROVE \E f : IsOnly(f, s, S, Len(s)) /\ Only(s, S) = f[Len(s)]
  OBVIOUS
<1> DEFINE f == CHOOSE f : IsOnly(f, s, S, Len(s))
<1>1. IsOnly(f, s, S, Len(s))
  BY OnlyExists
<1>2. Only(s, S) = f[Len(s)]
  BY DEF Only, IsOnly
<1> QED
  BY <1>1, <1>2

LEMMA OnlySet ==
  ASSUME NEW s, IsSequence(s), NEW S
  PROVE  IsSequence(Only(s, S)) /\ ToSet(Only(s, S)) = ToSet(s) \cap S
<1>0. PICK n : n = Len(s)
  OBVIOUS
<1>1. n \in Nat /\ ToSet(s) = {s[i] : i \in 1 .. n}
  BY <1>0, SequenceFacts
<1>2. PICK f : IsOnly(f, s, S, n) /\ Only(s, S) = f[n]
  BY <1>0, <1>1, OnlyIs
<1>3. f[0] = <<>> /\ \A k \in 1 .. n : f[k] = IF s[k] \in S THEN Append(f[k - 1], s[k]) ELSE f[k - 1]
  <2>1. f[0] = <<>>
    BY <1>1, <1>2 DEF IsOnly
  <2>2. ASSUME NEW k \in 1 .. n
        PROVE f[k] = IF s[k] \in S THEN Append(f[k - 1], s[k]) ELSE f[k - 1]
    <3>1. k \in 0 .. n /\ k # 0
      BY <1>1
    <3> QED
      BY <1>2, <3>1 DEF IsOnly
  <2> QED
    BY <2>1, <2>2
<1> DEFINE First(k) == {s[i] : i \in 1 .. k}
           Good(k) == IsSequence(f[k]) /\ ToSet(f[k]) = First(k) \cap S
           T == {k \in 0 .. n : Good(k)}
<1>4. 0 \in T
  <2>1. First(0) = {} /\ 0 \in 0 .. n
    BY <1>1
  <2>2. Good(0)
    BY <1>3, <2>1, EmptySet
  <2> QED
    BY <2>1, <2>2
<1>5. ASSUME NEW k \in 1 .. n, k - 1 \in T PROVE k \in T
  <2>1. First(k) = First(k - 1) \cup {s[k]}
    <3>1. 1 .. k = (1 .. k - 1) \cup {k}
      BY <1>1
    <3> QED
      BY <3>1
  <2>2. Good(k - 1) /\ k \in 0 .. n
    BY <1>1, <1>5
  <2> HIDE DEF First
  <2>3. CASE s[k] \in S
    <3>1. f[k] = Append(f[k - 1], s[k])
      BY <1>3, <2>3
    <3>2. IsSequence(f[k]) /\ ToSet(f[k]) = ToSet(f[k - 1]) \cup {s[k]}
      BY <2>2, <3>1, AppendSet
    <3> QED
      BY <2>1, <2>2, <2>3, <3>2
  <2>4. CASE s[k] \notin S
    <3>1. f[k] = f[k - 1]
      BY <1>3, <2>4
    <3> QED
      BY <2>1, <2>2, <2>4, <3>1
  <2> QED
    BY <2>3, <2>4
<1>6. Good(n)
  <2>1. n \in T
    <3> HIDE DEF T
    <3> QED
      BY <1>1, <1>4, <1>5, Climbing
  <2> QED
    BY <2>1
<1> QED
  BY <1>1, <1>2, <1>6

LEMMA WithoutSet ==
  ASSUME NEW s, IsSequence(s), NEW e
  PROVE  IsSequence(Without(s, e)) /\ ToSet(Without(s, e)) = ToSet(s) \ {e}
BY OnlySet DEF Without

-----------------------------------------------------------------------------
(* The invariant *)

todo == ToSet(calls)

Todo(what, x) == \E s \in todo : s.do = what /\ s.x = x

Registered(x) == x \in ToSet(registry)
ChatAsked(x) == Request("createPrivateChat", x) \in ToSet(requests)
UploadAsked(x) == Request("upload", x) \in ToSet(requests)
Asked(x) == ChatAsked(x) \/ UploadAsked(x)

DataTypes ==
  /\ status \in [Xfers -> Statuses] /\ data \in [Xfers -> BOOLEAN]
  /\ fileOf \in [Xfers -> Files] /\ target \in [Xfers -> AllTargets]
  /\ client \in {"up", "closing", "down"}
  /\ registry \in Seq(Xfers) /\ requests \in Seq(Requests)
  /\ slot \in [Files -> {"idle", "running", "complete", "cancelled"}]
  /\ sentTo \in [Xfers -> AllTargets \cup {NotSent}]

\* Some statements are executed as soon as they are there: nothing that is still to be
\* executed has one behind its head.
Plain(s) == s.do \notin {"cancel", "updateProgress"}

CallsOK ==
  /\ IsSequence(calls)
  /\ calls # <<>> => \A s \in ToSet(Tail(calls)) : Plain(s)
  /\ At("cancel") => Todo("cancelFunction", Head(calls).x)

\* An update of a file is handled from rest, and the file's slot is as it said.
UpdateOK ==
  At("updateProgress") =>
    LET f == Head(calls).f
        says == Head(calls).says
    IN  /\ client = "up" /\ ToSet(Tail(calls)) = {}
        /\ says = "complete" => slot[f] = "complete"
        /\ says = "noRemote" => slot[f] = "idle"

\* The client's destructor runs once it is closing.
CloseOK == (\E s \in todo : s.do \in {"closeTransfers", "closeRequests"}) => client # "up"

\* How far a transfer is
StageOK(x) ==
  /\ Registered(x) \/ Asked(x) => status[x] \notin {"none", "done"} /\ sentTo[x] = NotSent
  /\ Registered(x) => ~ Asked(x)
  /\ UploadAsked(x) => ~ ChatAsked(x)
  /\ status[x] = "none" => sentTo[x] = NotSent

\* What may still be executed for it
StatementsOK(x) ==
  /\ Todo("report", x) => ~ Asked(x) /\ status[x] # "none"
  /\ Todo("complete", x) \/ Todo("endUpload", x) \/ Todo("endFunction", x) =>
       ~ Registered(x) /\ ~ Asked(x) /\ status[x] # "none"

\* The transfer's data is there as long as it is needed: only its cancel function takes it.
DataOK(x) ==
  client = "up" =>
    /\ Registered(x) => data[x] /\ (Cancelled(x) => Todo("cancelFunction", x))
    /\ Asked(x) => \/ Cancelled(x)
                   \/ /\ data[x]
                      /\ Todo("cancelFunction", x) => At("cancel") /\ Head(calls).x = x

XferOK(x) == StageOK(x) /\ StatementsOK(x) /\ DataOK(x)

\* The slot of a file that somebody still needs was not cancelled, and one that runs is
\* needed, or is about to be cancelled.
SlotsOK ==
  client = "up" =>
    /\ \A x \in Xfers : Registered(x) \/ UploadAsked(x) => slot[fileOf[x]] # "cancelled"
    /\ \A f \in Files : slot[f] = "running" =>
         \/ \E x \in Xfers : fileOf[x] = f /\ (Registered(x) \/ UploadAsked(x))
         \/ f \in deferred /\ \E x \in Xfers : UploadAsked(x)

IInv ==
  /\ DataTypes /\ CallsOK /\ UpdateOK /\ CloseOK
  /\ \A x \in Xfers : XferOK(x)
  /\ SlotsOK

-----------------------------------------------------------------------------
(* What is still to be executed after a step *)

CallsInv == CallsOK /\ UpdateOK /\ CloseOK

\* Statements that may be anywhere, and ask nothing of the client
Ordinary(s) == s.do \notin {"cancel", "updateProgress", "closeTransfers", "closeRequests"}

LEMMA DoFields == \A what, x : Do(what, x).do = what /\ Do(what, x).x = x
BY DEF Do

\* A list of statements
LEMMA TupleSets ==
  /\ \A a, b : IsSequence(<<a, b>>) /\ ToSet(<<a, b>>) = {a, b}
  /\ \A a, b, c : IsSequence(<<a, b, c>>) /\ ToSet(<<a, b, c>>) = {a, b, c}
  /\ \A a, b, c, d : IsSequence(<<a, b, c, d>>) /\ ToSet(<<a, b, c, d>>) = {a, b, c, d}
  /\ \A a, b, c, d, e :
       IsSequence(<<a, b, c, d, e>>) /\ ToSet(<<a, b, c, d, e>>) = {a, b, c, d, e}
<1>1. ASSUME NEW a, NEW b PROVE IsSequence(<<a, b>>) /\ ToSet(<<a, b>>) = {a, b}
  <2> DEFINE s == <<a, b>>
  <2>1. s \in Seq({a, b}) /\ Len(s) = 2 /\ s[1] = a /\ s[2] = b
    OBVIOUS
  <2> HIDE DEF s
  <2>2. IsSequence(s) /\ ToSet(s) = {s[i] : i \in 1 .. 2}
    BY <2>1, SeqIsSequence, SequenceFacts
  <2>3. 1 .. 2 = {1, 2}
    OBVIOUS
  <2> QED
    BY <2>1, <2>2, <2>3 DEF s
<1>2. ASSUME NEW a, NEW b, NEW c PROVE IsSequence(<<a, b, c>>) /\ ToSet(<<a, b, c>>) = {a, b, c}
  <2> DEFINE s == <<a, b, c>>
  <2>1. s \in Seq({a, b, c}) /\ Len(s) = 3 /\ s[1] = a /\ s[2] = b /\ s[3] = c
    OBVIOUS
  <2> HIDE DEF s
  <2>2. IsSequence(s) /\ ToSet(s) = {s[i] : i \in 1 .. 3}
    BY <2>1, SeqIsSequence, SequenceFacts
  <2>3. 1 .. 3 = {1, 2, 3}
    OBVIOUS
  <2> QED
    BY <2>1, <2>2, <2>3 DEF s
<1>3. ASSUME NEW a, NEW b, NEW c, NEW d
      PROVE IsSequence(<<a, b, c, d>>) /\ ToSet(<<a, b, c, d>>) = {a, b, c, d}
  <2> DEFINE s == <<a, b, c, d>>
  <2>1. s \in Seq({a, b, c, d}) /\ Len(s) = 4 /\ s[1] = a /\ s[2] = b /\ s[3] = c /\ s[4] = d
    OBVIOUS
  <2> HIDE DEF s
  <2>2. IsSequence(s) /\ ToSet(s) = {s[i] : i \in 1 .. 4}
    BY <2>1, SeqIsSequence, SequenceFacts
  <2>3. 1 .. 4 = {1, 2, 3, 4}
    OBVIOUS
  <2> QED
    BY <2>1, <2>2, <2>3 DEF s
<1>4. ASSUME NEW a, NEW b, NEW c, NEW d, NEW e
      PROVE IsSequence(<<a, b, c, d, e>>) /\ ToSet(<<a, b, c, d, e>>) = {a, b, c, d, e}
  <2> DEFINE s == <<a, b, c, d, e>>
  <2>1. s \in Seq({a, b, c, d, e}) /\ Len(s) = 5 /\ s[1] = a /\ s[2] = b /\ s[3] = c /\ s[4] = d /\ s[5] = e
    OBVIOUS
  <2> HIDE DEF s
  <2>2. IsSequence(s) /\ ToSet(s) = {s[i] : i \in 1 .. 5}
    BY <2>1, SeqIsSequence, SequenceFacts
  <2>3. 1 .. 5 = {1, 2, 3, 4, 5}
    OBVIOUS
  <2> QED
    BY <2>1, <2>2, <2>3 DEF s
<1> QED
  BY <1>1, <1>2, <1>3, <1>4

\* Ordinary statements keep the list as it should be.
LEMMA OrdinaryCalls ==
  ASSUME IsSequence(calls'), \A s \in todo' : Ordinary(s) \/ (Plain(s) /\ client' # "up")
  PROVE  CallsInv' /\ ~ At("cancel")' /\ ~ At("updateProgress")'
<1>1. ASSUME calls' # <<>>
      PROVE  Head(calls') \in todo' /\ \A s \in ToSet(Tail(calls')) : s \in todo'
  BY <1>1, TailSet DEF todo
<1>2. \A s \in todo' : Plain(s) /\ (client' = "up" => Ordinary(s))
  BY DEF Ordinary, Plain
<1>3. ~ At("cancel")' /\ ~ At("updateProgress")'
  BY <1>1, <1>2 DEF At, Plain
<1> QED
  BY <1>1, <1>2, <1>3 DEF CallsInv, CallsOK, UpdateOK, CloseOK, Ordinary

\* The statement at the head is replaced by ordinary ones.
LEMMA NextCalls ==
  ASSUME CallsInv, calls # <<>>, client' = client,
         NEW new, IsSequence(new), \A s \in ToSet(new) : Ordinary(s), Calling(new)
  PROVE  /\ CallsInv' /\ ~ At("cancel")' /\ ~ At("updateProgress")'
         /\ todo' = ToSet(new) \cup ToSet(Tail(calls))
         /\ todo = {Head(calls)} \cup ToSet(Tail(calls))
<1>1. IsSequence(Tail(calls)) /\ todo = {Head(calls)} \cup ToSet(Tail(calls))
  BY TailSet DEF CallsInv, CallsOK, todo
<1>2. IsSequence(calls') /\ todo' = ToSet(new) \cup ToSet(Tail(calls))
  BY <1>1, ConcatSet DEF Calling, todo
<1>3. \A s \in ToSet(Tail(calls)) : Ordinary(s) \/ (Plain(s) /\ client' # "up")
  BY <1>1 DEF CallsInv, CallsOK, CloseOK, Ordinary, Plain
<1> QED
  BY <1>1, <1>2, <1>3, OrdinaryCalls

\* libpurple's cancellation of a transfer, on top of something
LEMMA CancelCalls ==
  ASSUME NEW x, NEW rest, IsSequence(rest), calls' = CancelXfer(x) \o rest,
         \A s \in ToSet(rest) : Ordinary(s) \/ (Plain(s) /\ client' # "up")
  PROVE  /\ CallsInv' /\ At("cancel")' /\ Head(calls').x = x
         /\ todo' = {Do("cancel", x), Do("cancelHandlers", x), Do("cancelFunction", x),
                     Do("unref", x)} \cup ToSet(rest)
<1> DEFINE more == <<Do("cancelHandlers", x), Do("cancelFunction", x),
                     Do("cancelHandlers", x), Do("unref", x)>>
           tail == more \o rest
<1>1. IsSequence(more) /\ ToSet(more) = {Do("cancelHandlers", x), Do("cancelFunction", x), Do("unref", x)}
  <2>1. IsSequence(more) /\ ToSet(more) = {Do("cancelHandlers", x), Do("cancelFunction", x),
                                           Do("cancelHandlers", x), Do("unref", x)}
    BY TupleSets
  <2> QED
    BY <2>1
<1>2. CancelXfer(x) = <<Do("cancel", x)>> \o more
  BY DEF CancelXfer
<1> HIDE DEF more
<1>3. IsSequence(tail) /\ ToSet(tail) = ToSet(more) \cup ToSet(rest)
  BY <1>1, ConcatSet
<1>4. calls' = <<Do("cancel", x)>> \o tail
  <2> DEFINE S == {Do("cancel", x)} \cup ToSet(more) \cup ToSet(rest)
  <2>1. <<Do("cancel", x)>> \in Seq(S) /\ more \in Seq(S) /\ rest \in Seq(S)
    BY <1>1, SingleSet, SequenceInto
  <2> HIDE DEF S
  <2> QED
    BY <1>2, <2>1, ConcatAssociative
<1> HIDE DEF tail
<1>5. IsSequence(calls') /\ todo' = {Do("cancel", x)} \cup ToSet(tail)
  BY <1>3, <1>4, SingleSet, ConcatSet DEF todo
<1>6. calls' # <<>> /\ Head(calls') = Do("cancel", x) /\ Tail(calls') = tail
  <2>1. tail \in Seq(ToSet(tail) \cup {Do("cancel", x)})
    BY <1>3, SequenceInto
  <2> QED
    BY <1>4, <2>1
<1>7. \A s \in ToSet(tail) : Plain(s) /\ (client' = "up" => Ordinary(s))
  BY <1>1, <1>3 DEF Ordinary, Plain, Do
<1>8. At("cancel")' /\ Head(calls').x = x
  BY <1>6 DEF At, Do
<1>9. CallsOK'
  <2>1. Do("cancelFunction", x) \in todo' /\ Do("cancelFunction", x).do = "cancelFunction"
        /\ Do("cancelFunction", x).x = x
    BY <1>1, <1>3, <1>5 DEF Do
  <2>2. Todo("cancelFunction", Head(calls).x)'
    BY <1>8, <2>1 DEF Todo
  <2> QED
    BY <1>5, <1>6, <1>7, <2>2 DEF CallsOK
<1>10. UpdateOK' /\ CloseOK'
  BY <1>5, <1>6, <1>7 DEF UpdateOK, CloseOK, At, Ordinary, Do
<1> QED
  BY <1>1, <1>3, <1>5, <1>8, <1>9, <1>10 DEF CallsInv

\* Nothing of this transfer changes, nor what is still to be executed for it.
Watched == {"report", "complete", "endUpload", "endFunction", "cancelFunction"}

LEMMA XferKept ==
  ASSUME NEW x, XferOK(x), client' = client,
         status'[x] = status[x], data'[x] = data[x], sentTo'[x] = sentTo[x],
         Registered(x)' = Registered(x), ChatAsked(x)' = ChatAsked(x), UploadAsked(x)' = UploadAsked(x),
         \A what \in Watched : Todo(what, x)' => Todo(what, x),
         Todo("cancelFunction", x) => Todo("cancelFunction", x)',
         At("cancel") => Head(calls).x # x
  PROVE  XferOK(x)'
<1>1. Asked(x)' = Asked(x) /\ Cancelled(x)' = Cancelled(x)
  BY DEF Asked, Cancelled
<1>2. /\ Todo("report", x)' => Todo("report", x)
      /\ Todo("complete", x)' => Todo("complete", x)
      /\ Todo("endUpload", x)' => Todo("endUpload", x)
      /\ Todo("endFunction", x)' => Todo("endFunction", x)
      /\ Todo("cancelFunction", x)' <=> Todo("cancelFunction", x)
  BY DEF Watched
<1>3. StageOK(x)'
  BY <1>1 DEF XferOK, StageOK
<1>4. StatementsOK(x)'
  BY <1>1, <1>2 DEF XferOK, StatementsOK
<1>5. DataOK(x)'
  BY <1>1, <1>2 DEF XferOK, DataOK
<1> QED
  BY <1>3, <1>4, <1>5 DEF XferOK

\* What is executed for a transfer after the head was replaced by new statements
LEMMA TodoNext ==
  ASSUME NEW new, NEW x, NEW what,
         todo' = ToSet(new) \cup ToSet(Tail(calls)), todo = {Head(calls)} \cup ToSet(Tail(calls))
  PROVE  /\ Todo(what, x)' => Todo(what, x) \/ \E s \in ToSet(new) : s.do = what /\ s.x = x
         /\ Todo(what, x) => Todo(what, x)' \/ (Head(calls).do = what /\ Head(calls).x = x)
BY DEF Todo

LEMMA SlotsSame ==
  ASSUME SlotsOK, UNCHANGED <<client, registry, requests, deferred, slot, fileOf>>
  PROVE  SlotsOK'
BY DEF SlotsOK, Registered, UploadAsked

\* Statements are executed that change nothing the invariant speaks of.
SameTransfers == UNCHANGED <<client, status, data, sentTo, registry, requests>>

LEMMA SilentStep ==
  ASSUME CallsInv, \A x \in Xfers : XferOK(x), SameTransfers,
         calls # <<>>, Head(calls).do \notin {"cancel", "cancelFunction"},
         NEW new, IsSequence(new), \A s \in ToSet(new) : Ordinary(s) /\ s.do \notin Watched,
         Calling(new)
  PROVE  CallsInv' /\ \A x \in Xfers : XferOK(x)'
<1>1. /\ CallsInv'
      /\ todo' = ToSet(new) \cup ToSet(Tail(calls)) /\ todo = {Head(calls)} \cup ToSet(Tail(calls))
  BY NextCalls DEF SameTransfers
<1>2. ASSUME NEW x \in Xfers PROVE XferOK(x)'
  <2>1. \A what \in Watched : Todo(what, x)' => Todo(what, x)
    BY <1>1, TodoNext
  <2>2. Todo("cancelFunction", x) => Todo("cancelFunction", x)'
    BY <1>1, TodoNext
  <2>3. /\ Registered(x)' = Registered(x) /\ ChatAsked(x)' = ChatAsked(x)
        /\ UploadAsked(x)' = UploadAsked(x) /\ ~ At("cancel")
    BY DEF SameTransfers, Registered, ChatAsked, UploadAsked, At
  <2> QED
    BY <2>1, <2>2, <2>3, XferKept DEF SameTransfers
<1> QED
  BY <1>1, <1>2

\* libpurple cancels a transfer whose data is still there.
LEMMA CancelStep ==
  ASSUME CallsInv, \A x \in Xfers : XferOK(x), SameTransfers, ~ At("cancel"),
         NEW x, NEW rest, IsSequence(rest), calls' = CancelXfer(x) \o rest,
         \A s \in ToSet(rest) : Ordinary(s) \/ (Plain(s) /\ client' # "up"),
         \A y \in Xfers, what \in Watched : Todo(what, y) = \E s \in ToSet(rest) : s.do = what /\ s.x = y
  PROVE  CallsInv' /\ \A y \in Xfers : XferOK(y)'
<1>1. /\ CallsInv' /\ At("cancel")' /\ Head(calls').x = x
      /\ todo' = {Do("cancel", x), Do("cancelHandlers", x), Do("cancelFunction", x),
                  Do("unref", x)} \cup ToSet(rest)
  BY CancelCalls
<1>2. ASSUME NEW y \in Xfers PROVE XferOK(y)'
  <2>1. /\ Registered(y)' = Registered(y) /\ ChatAsked(y)' = ChatAsked(y)
        /\ UploadAsked(y)' = UploadAsked(y)
    BY DEF SameTransfers, Registered, ChatAsked, UploadAsked
  <2>2. \A what \in Watched : Todo(what, y)' <=> Todo(what, y) \/ (what = "cancelFunction" /\ x = y)
    <3> TAKE what \in Watched
    <3>1. Todo(what, y)' <=> \/ \E s \in ToSet(rest) : s.do = what /\ s.x = y
                             \/ what = "cancelFunction" /\ x = y
      BY <1>1, DoFields DEF Todo, Watched
    <3> QED
      BY <3>1
  <2>3. CASE y # x
    <3>1. /\ \A what \in Watched : Todo(what, y)' => Todo(what, y)
          /\ Todo("cancelFunction", y) => Todo("cancelFunction", y)'
      BY <2>2, <2>3 DEF Watched
    <3> QED
      BY <2>1, <3>1, XferKept DEF SameTransfers
  <2>4. CASE y = x
    <3>1. /\ Todo("report", x)' <=> Todo("report", x)
          /\ Todo("complete", x)' <=> Todo("complete", x)
          /\ Todo("endUpload", x)' <=> Todo("endUpload", x)
          /\ Todo("endFunction", x)' <=> Todo("endFunction", x)
          /\ Todo("cancelFunction", x)'
      BY <2>2, <2>4 DEF Watched
    <3>2. Asked(x)' = Asked(x) /\ Cancelled(x)' = Cancelled(x) /\ Registered(x)' = Registered(x)
      BY <2>1, <2>4 DEF Asked, Cancelled, SameTransfers
    <3>3. XferOK(x)
      BY <2>4
    <3>4. StageOK(x)'
      BY <2>1, <2>4, <3>2, <3>3 DEF XferOK, StageOK, SameTransfers
    <3>5. StatementsOK(x)'
      BY <3>1, <3>2, <3>3 DEF XferOK, StatementsOK, SameTransfers
    <3>6. DataOK(x)'
      BY <1>1, <3>1, <3>2, <3>3 DEF XferOK, DataOK, SameTransfers
    <3> QED
      BY <2>4, <3>4, <3>5, <3>6 DEF XferOK
  <2> QED
    BY <2>3, <2>4
<1> QED
  BY <1>1, <1>2

-----------------------------------------------------------------------------
(* libpurple's functions and the handlers *)

\* What does not change outside the client
SameAccount == UNCHANGED <<fileOf, target, client, requests, registry, deferred, slot, sentTo>>

LEMMA CancelStays ==
  ASSUME IInv, Cancel, SameAccount
  PROVE  IInv'
<1> USE DEF IInv
<1>1. CallsInv
  BY DEF CallsInv
<1> DEFINE x == Head(calls).x
<1>2. calls # <<>> /\ Head(calls).do = "cancel" /\ status' = [status EXCEPT ![x] = "cancelled"]
      /\ Calling(<<>>) /\ data' = data
  BY DEF Cancel, At, Returning
<1>3. /\ CallsInv' /\ ~ At("cancel")'
      /\ todo' = ToSet(<<>>) \cup ToSet(Tail(calls)) /\ todo = {Head(calls)} \cup ToSet(Tail(calls))
  BY <1>1, <1>2, EmptySet, NextCalls DEF SameAccount
<1>4. DataTypes'
  BY <1>2 DEF DataTypes, SameAccount, Statuses
<1>5. ASSUME NEW y \in Xfers PROVE XferOK(y)'
  <2>1. /\ Registered(y)' = Registered(y) /\ ChatAsked(y)' = ChatAsked(y)
        /\ UploadAsked(y)' = UploadAsked(y) /\ Asked(y)' = Asked(y)
    BY DEF SameAccount, Registered, ChatAsked, UploadAsked, Asked
  <2>2. \A what \in Watched : Todo(what, y)' = Todo(what, y)
    BY <1>2, <1>3, EmptySet DEF Todo, Watched
  <2>3. XferOK(y)
    OBVIOUS
  <2>4. CASE y # x
    <3>1. status'[y] = status[y]
      BY <1>2, <2>4 DEF DataTypes
    <3>2. Todo("cancelFunction", y) => Todo("cancelFunction", y)'
      BY <2>2 DEF Watched
    <3> QED
      BY <1>2, <2>1, <2>2, <2>4, <3>1, <3>2, XferKept DEF SameAccount
  <2>5. CASE y = x
    <3>1. status'[y] = "cancelled" /\ Todo("cancelFunction", y)'
      <4>1. status'[y] = "cancelled"
        BY <1>2, <2>5 DEF DataTypes
      <4>2. Todo("cancelFunction", y)
        BY <1>1, <1>2, <2>5 DEF CallsInv, CallsOK, At
      <4> QED
        BY <2>2, <4>1, <4>2 DEF Watched
    <3>2. StageOK(y)'
      BY <2>1, <2>3, <3>1 DEF XferOK, StageOK, SameAccount
    <3>3. StatementsOK(y)'
      BY <2>1, <2>2, <2>3, <3>1 DEF XferOK, StatementsOK, Watched
    <3>4. DataOK(y)'
      BY <1>2, <2>1, <2>3, <3>1 DEF XferOK, DataOK, Cancelled, SameAccount
    <3> QED
      BY <3>2, <3>3, <3>4 DEF XferOK
  <2> QED
    BY <2>4, <2>5
<1>6. SlotsOK'
  BY SlotsSame DEF SameAccount
<1> QED
  BY <1>3, <1>4, <1>5, <1>6 DEF CallsInv

\* Nothing but the list of statements changes, or what the invariant does not speak of.
LEMMA OnlyCalls ==
  ASSUME IInv, UNCHANGED <<status, data>>, SameAccount
  PROVE  /\ DataTypes' /\ SlotsOK' /\ SameTransfers
         /\ CallsInv' /\ (\A x \in Xfers : XferOK(x)') => IInv'
<1>1. DataTypes' /\ SlotsOK' /\ SameTransfers
  BY SlotsSame DEF IInv, DataTypes, SameTransfers, SameAccount
<1> QED
  BY <1>1 DEF IInv, CallsInv

LEMMA SilentLibpurple ==
  ASSUME IInv, SameAccount, End \/ Unref \/ UnrefUnlessCancelled \/ HandlersReturn
  PROVE  IInv'
<1>1. /\ UNCHANGED <<status, data>> /\ calls # <<>>
      /\ Head(calls).do \notin {"cancel", "cancelFunction"}
      /\ \/ Calling(<<>>)
         \/ Calling(<<Do("unref", Head(calls).x)>>)
  BY DEF End, Unref, UnrefUnlessCancelled, HandlersReturn, At, HandlerKinds, xferVars, Returning
<1>2. \E new : /\ IsSequence(new) /\ (\A s \in ToSet(new) : Ordinary(s) /\ s.do \notin Watched)
               /\ Calling(new)
  <2>1. Ordinary(Do("unref", Head(calls).x)) /\ Do("unref", Head(calls).x).do \notin Watched
    BY DEF Do, Ordinary, Watched
  <2>2. CASE Calling(<<>>)
    BY <2>2, EmptySet
  <2>3. CASE Calling(<<Do("unref", Head(calls).x)>>)
    BY <2>1, <2>3, SingleSet
  <2> QED
    BY <1>1, <2>2, <2>3
<1> QED
  BY <1>1, <1>2, OnlyCalls, SilentStep DEF IInv, CallsInv

LEMMA CancelUnlessOverStays ==
  ASSUME IInv, CancelUnlessOver, SameAccount
  PROVE  IInv'
<1> DEFINE x == Head(calls).x
<1>1. /\ UNCHANGED <<status, data>> /\ calls # <<>> /\ Head(calls).do = "cancelUnlessOver"
      /\ Calling(<<>>) \/ Calling(CancelXfer(x))
  BY DEF CancelUnlessOver, At, xferVars
<1>2. CASE Calling(<<>>)
  BY <1>1, <1>2, EmptySet, OnlyCalls, SilentStep DEF IInv, CallsInv
<1>3. CASE Calling(CancelXfer(x))
  <2>1. IsSequence(Tail(calls)) /\ todo = {Head(calls)} \cup ToSet(Tail(calls))
    BY <1>1, TailSet DEF IInv, CallsOK, todo
  <2>2. \A s \in ToSet(Tail(calls)) : Ordinary(s) \/ (Plain(s) /\ client' # "up")
    BY <1>1, <2>1 DEF IInv, CallsOK, CloseOK, Ordinary, Plain, SameAccount
  <2>3. \A y \in Xfers, what \in Watched :
          Todo(what, y) = \E s \in ToSet(Tail(calls)) : s.do = what /\ s.x = y
    BY <1>1, <2>1 DEF Todo, Watched
  <2>4. calls' = CancelXfer(x) \o Tail(calls) /\ ~ At("cancel")
    BY <1>1, <1>3 DEF Calling, At
  <2> QED
    BY <1>1, <2>1, <2>2, <2>3, <2>4, OnlyCalls, CancelStep DEF IInv, CallsInv
<1> QED
  BY <1>1, <1>2, <1>3

\* Whoever acts from outside finds nothing but ordinary statements.
LEMMA OutsideCalls ==
  ASSUME CallsInv, Outside
  PROVE  /\ IsSequence(calls) /\ ~ At("cancel") /\ ~ At("updateProgress")
         /\ \A s \in todo : Ordinary(s) \/ (Plain(s) /\ client # "up")
<1>1. ~ At("cancel") /\ ~ At("updateProgress")
  BY HandlersAssumption DEF Outside, HandlersRun, HandlerKinds, At
<1>2. ASSUME NEW s \in todo PROVE Plain(s)
  <2>1. calls # <<>>
    BY EmptySet DEF todo
  <2>2. s = Head(calls) \/ s \in ToSet(Tail(calls))
    BY <2>1, TailSet DEF CallsInv, CallsOK, todo
  <2> QED
    BY <1>1, <2>1, <2>2 DEF CallsInv, CallsOK, Plain, At
<1> QED
  BY <1>1, <1>2 DEF CallsInv, CallsOK, CloseOK, Ordinary, Plain

LEMMA HandlersStay ==
  ASSUME IInv, SameAccount, NEW x \in Xfers, HandlersCancel(x) \/ HandlersEnd(x)
  PROVE  IInv'
<1>1. CASE HandlersCancel(x)
  <2>1. Outside /\ calls' = CancelXfer(x) \o calls /\ UNCHANGED <<status, data>>
    BY <1>1 DEF HandlersCancel, xferVars
  <2>2. /\ IsSequence(calls) /\ ~ At("cancel")
        /\ \A s \in ToSet(calls) : Ordinary(s) \/ (Plain(s) /\ client' # "up")
    BY <2>1, OutsideCalls DEF IInv, CallsInv, todo, SameAccount
  <2>3. \A y \in Xfers, what \in Watched :
          Todo(what, y) = \E s \in ToSet(calls) : s.do = what /\ s.x = y
    BY DEF Todo, todo
  <2> QED
    BY <2>1, <2>2, <2>3, OnlyCalls, CancelStep DEF IInv, CallsInv
<1>2. CASE HandlersEnd(x)
  <2> DEFINE new == <<Do("end", x), Do("endFunction", x), Do("unref", x)>>
  <2>1. /\ Outside /\ calls' = new \o calls /\ UNCHANGED <<status, data>> /\ status[x] = "done"
    BY <1>2 DEF HandlersEnd, xferVars, Outside, HandlersRun
  <2>2. /\ IsSequence(calls) /\ ~ At("cancel")
        /\ \A s \in ToSet(calls) : Ordinary(s) \/ (Plain(s) /\ client' # "up")
    BY <2>1, OutsideCalls DEF IInv, CallsInv, todo, SameAccount
  <2>3. IsSequence(new) /\ ToSet(new) = {Do("end", x), Do("endFunction", x), Do("unref", x)}
    BY TupleSets
  <2> HIDE DEF new
  <2>4. IsSequence(calls') /\ todo' = ToSet(new) \cup todo
    BY <2>1, <2>2, <2>3, ConcatSet DEF todo
  <2>5. CallsInv'
    <3>1. \A s \in ToSet(new) : Ordinary(s)
      BY <2>3 DEF Ordinary, Do
    <3> QED
      BY <2>2, <2>4, <3>1, OrdinaryCalls DEF todo
  <2>6. ASSUME NEW y \in Xfers PROVE XferOK(y)'
    <3>1. /\ Registered(y)' = Registered(y) /\ ChatAsked(y)' = ChatAsked(y)
          /\ UploadAsked(y)' = UploadAsked(y) /\ Asked(y)' = Asked(y)
      BY DEF SameAccount, Registered, ChatAsked, UploadAsked, Asked
    <3>2. \A what \in Watched :
            Todo(what, y)' <=> Todo(what, y) \/ (what = "endFunction" /\ x = y)
      BY <2>3, <2>4, DoFields DEF Todo, Watched
    <3>3. XferOK(y)
      BY DEF IInv
    <3>4. CASE y # x
      <4>1. /\ \A what \in Watched : Todo(what, y)' => Todo(what, y)
            /\ Todo("cancelFunction", y) => Todo("cancelFunction", y)'
        BY <3>2, <3>4 DEF Watched
      <4> QED
        BY <2>1, <2>2, <3>1, <3>3, <4>1, XferKept DEF SameAccount
    <3>5. CASE y = x
      <4>1. ~ Registered(y) /\ ~ Asked(y)
        BY <2>1, <3>3, <3>5 DEF XferOK, StageOK
      <4>2. StageOK(y)'
        BY <2>1, <3>1, <3>3 DEF XferOK, StageOK, SameAccount
      <4>3. StatementsOK(y)' /\ DataOK(y)'
        BY <2>1, <3>1, <3>5, <4>1 DEF StatementsOK, DataOK
      <4> QED
        BY <4>2, <4>3 DEF XferOK
    <3> QED
      BY <3>4, <3>5
  <2> QED
    BY <2>1, <2>5, <2>6, OnlyCalls
<1> QED
  BY <1>1, <1>2

LEMMA LibpurpleStays ==
  ASSUME IInv, Libpurple
  PROVE  IInv'
<1>1. SameAccount
  BY DEF Libpurple, SameAccount, upload, account
<1>2. LibpurpleSteps
  BY DEF Libpurple
<1> QED
  BY <1>1, <1>2, CancelStays, SilentLibpurple, CancelUnlessOverStays, HandlersStay DEF LibpurpleSteps

-----------------------------------------------------------------------------
(* The progress and the end of an upload *)

\* A transfer that nothing waits for any more
LEMMA GoneOK ==
  ASSUME NEW x, ~ Registered(x)', ~ Asked(x)', status'[x] # "none"
  PROVE  XferOK(x)'
BY DEF XferOK, StageOK, StatementsOK, DataOK, Asked

\* The head is executed, and only its transfer changes.
LEMMA HeadStep ==
  ASSUME IInv, calls # <<>>, Head(calls).do # "cancel", UNCHANGED <<client, sentTo, requests>>,
         NEW new, IsSequence(new), Calling(new),
         \A s \in ToSet(new) : Ordinary(s) /\ (s.do \in Watched => s.x = Head(calls).x),
         \A y \in Xfers \ {Head(calls).x} :
           status'[y] = status[y] /\ data'[y] = data[y] /\ Registered(y)' = Registered(y)
  PROVE  /\ CallsInv' /\ \A y \in Xfers \ {Head(calls).x} : XferOK(y)'
         /\ ~ At("cancel")'
         /\ todo' = ToSet(new) \cup ToSet(Tail(calls)) /\ todo = {Head(calls)} \cup ToSet(Tail(calls))
         /\ Todo(Head(calls).do, Head(calls).x)
<1>1. /\ CallsInv' /\ ~ At("cancel")'
      /\ todo' = ToSet(new) \cup ToSet(Tail(calls)) /\ todo = {Head(calls)} \cup ToSet(Tail(calls))
  BY NextCalls DEF IInv, CallsInv
<1>2. ASSUME NEW y \in Xfers \ {Head(calls).x} PROVE XferOK(y)'
  <2>1. ChatAsked(y)' = ChatAsked(y) /\ UploadAsked(y)' = UploadAsked(y) /\ ~ At("cancel")
    BY DEF ChatAsked, UploadAsked, At
  <2>2. ASSUME NEW what \in Watched, Todo(what, y)' PROVE Todo(what, y)
    BY <1>1, <2>2, TodoNext
  <2>3. Todo("cancelFunction", y) => Todo("cancelFunction", y)'
    BY <1>1, TodoNext
  <2> QED
    BY <2>1, <2>2, <2>3, XferKept DEF IInv
<1>3. Todo(Head(calls).do, Head(calls).x)
  BY <1>1 DEF Todo
<1> QED
  BY <1>1, <1>2, <1>3

\* What an upload's own functions leave alone
SameUploads == UNCHANGED <<fileOf, target, client, requests, registry, deferred, slot, sentTo>>

LEMMA SameUploadsKeep ==
  ASSUME IInv, SameUploads
  PROVE  /\ SlotsOK'
         /\ \A x \in Xfers : /\ Registered(x)' = Registered(x) /\ ChatAsked(x)' = ChatAsked(x)
                             /\ UploadAsked(x)' = UploadAsked(x) /\ Asked(x)' = Asked(x)
         /\ status' \in [Xfers -> Statuses] /\ data' \in [Xfers -> BOOLEAN] => DataTypes'
<1>1. SlotsOK'
  BY SlotsSame DEF IInv, SameUploads
<1> QED
  BY <1>1 DEF IInv, SameUploads, DataTypes, Registered, ChatAsked, UploadAsked, Asked

LEMMA ReportStays ==
  ASSUME IInv, Report
  PROVE  IInv'
<1> PICK x : x = Head(calls).x
  OBVIOUS
<1> DEFINE new == (IF status[x] = "started" THEN <<>> ELSE <<Do("handlers", x)>>)
                  \o <<Do("showProgress", x)>>
<1>1. calls # <<>> /\ Head(calls).do = "report" /\ SameUploads /\ data' = data
  BY DEF Report, At, SameUploads, upload, account
<1>2. CASE ~ data[x]
  <2>1. Calling(<<>>) /\ status' = status
    BY <1>2 DEF Report, Returning
  <2> QED
    BY <1>1, <2>1, EmptySet, OnlyCalls, SilentStep DEF IInv, CallsInv, SameUploads, SameAccount
<1>3. CASE data[x]
  <2>1. status' = [status EXCEPT ![x] = "started"] /\ Calling(new)
    BY <1>3 DEF Report
  <2>2. IsSequence(new) /\ ToSet(new) \subseteq {Do("handlers", x), Do("showProgress", x)}
    BY EmptySet, SingleSet, ConcatSet
  <2> HIDE DEF new
  <2>3. \A s \in ToSet(new) : Ordinary(s) /\ s.do \notin Watched
    BY <2>2, DoFields DEF Ordinary, Watched
  <2>4. \A y \in Xfers \ {x} : status'[y] = status[y] /\ Registered(y)' = Registered(y)
    BY <1>1, <2>1, SameUploadsKeep DEF IInv, DataTypes
  <2>5. /\ CallsInv' /\ \A y \in Xfers \ {x} : XferOK(y)'
        /\ todo' = ToSet(new) \cup ToSet(Tail(calls)) /\ todo = {Head(calls)} \cup ToSet(Tail(calls))
        /\ Todo("report", x)
    BY <1>1, <2>1, <2>2, <2>3, <2>4, HeadStep DEF SameUploads
  <2>6. ASSUME x \in Xfers PROVE XferOK(x)'
    <3>1. status[x] # "none" /\ ~ Asked(x) /\ XferOK(x)
      BY <2>5, <2>6 DEF IInv, XferOK, StatementsOK
    <3>2. status'[x] = "started" /\ ~ Asked(x)' /\ Registered(x)' = Registered(x)
      BY <1>1, <2>1, <2>6, <3>1, SameUploadsKeep DEF IInv, DataTypes
    <3>3. /\ Todo("complete", x)' => Todo("complete", x)
          /\ Todo("endUpload", x)' => Todo("endUpload", x)
          /\ Todo("endFunction", x)' => Todo("endFunction", x)
      BY <2>3, <2>5, TodoNext DEF Watched
    <3>4. StageOK(x)'
      BY <1>1, <3>1, <3>2 DEF XferOK, StageOK, SameUploads, Asked
    <3>5. StatementsOK(x)'
      BY <3>1, <3>2, <3>3 DEF XferOK, StatementsOK
    <3>6. DataOK(x)'
      BY <1>1, <1>3, <3>2 DEF DataOK, Cancelled
    <3> QED
      BY <3>4, <3>5, <3>6 DEF XferOK
  <2>7. DataTypes'
    BY <1>1, <2>1, SameUploadsKeep DEF IInv, DataTypes, Statuses
  <2> QED
    BY <1>1, <2>5, <2>6, <2>7, SameUploadsKeep DEF IInv, CallsInv
<1> QED
  BY <1>2, <1>3, <1>1 DEF IInv, DataTypes

LEMMA ShowProgressStays ==
  ASSUME IInv, ShowProgress
  PROVE  IInv'
<1> PICK x : x = Head(calls).x
  OBVIOUS
<1> DEFINE new == IF data[x] /\ ~ Cancelled(x) THEN <<Do("handlers", x)>> ELSE <<>>
<1>1. /\ calls # <<>> /\ Head(calls).do = "showProgress" /\ SameAccount /\ UNCHANGED <<status, data>>
      /\ Calling(new)
  BY DEF ShowProgress, At, SameAccount, upload, account, xferVars
<1>2. IsSequence(new) /\ ToSet(new) \subseteq {Do("handlers", x)}
  BY EmptySet, SingleSet
<1> HIDE DEF new
<1>3. \A s \in ToSet(new) : Ordinary(s) /\ s.do \notin Watched
  BY <1>2, DoFields DEF Ordinary, Watched
<1> QED
  BY <1>1, <1>2, <1>3, OnlyCalls, SilentStep DEF IInv, CallsInv

\* finishPurpleUpload of a transfer that nothing waits for any more
LEMMA FinishingStays ==
  ASSUME IInv, Complete \/ EndUpload \/ EndFunction
  PROVE  IInv'
<1> PICK x : x = Head(calls).x
  OBVIOUS
<1>1. calls # <<>> /\ Head(calls).do \in {"complete", "endUpload", "endFunction"} /\ SameUploads
  BY DEF Complete, EndUpload, EndFunction, At, SameUploads, upload, account
<1>2. /\ status' = status \/ status' = [status EXCEPT ![x] = "done"]
      /\ data' = data \/ data' = [data EXCEPT ![x] = FALSE]
  BY DEF Complete, EndUpload, EndFunction
<1>3. \/ Calling(<<>>)
      \/ Calling(<<Do("handlers", x)>>)
      \/ Calling(EndXfer(x) \o <<Do("unrefUnlessCancelled", x)>>)
  BY DEF Complete, EndUpload, EndFunction, Returning
<1>4. \E new : /\ Calling(new) /\ IsSequence(new)
               /\ \A s \in ToSet(new) : Ordinary(s) /\ (s.do \in Watched => s.x = x)
  <2>1. CASE Calling(<<>>)
    BY <2>1, EmptySet
  <2>2. CASE Calling(<<Do("handlers", x)>>)
    <3>1. Ordinary(Do("handlers", x)) /\ Do("handlers", x).do \notin Watched
      BY DoFields DEF Ordinary, Watched
    <3> QED
      BY <2>2, <3>1, SingleSet
  <2>3. CASE Calling(EndXfer(x) \o <<Do("unrefUnlessCancelled", x)>>)
    <3> DEFINE new == EndXfer(x) \o <<Do("unrefUnlessCancelled", x)>>
    <3>1. /\ IsSequence(EndXfer(x))
          /\ ToSet(EndXfer(x)) = {Do("end", x), Do("handlers", x), Do("endFunction", x), Do("unref", x)}
      BY TupleSets DEF EndXfer
    <3>2. /\ IsSequence(new)
          /\ ToSet(new) = {Do("end", x), Do("handlers", x), Do("endFunction", x), Do("unref", x),
                           Do("unrefUnlessCancelled", x)}
      BY <3>1, SingleSet, ConcatSet
    <3> HIDE DEF new
    <3>3. \A s \in ToSet(new) : Ordinary(s) /\ s.x = x
      BY <3>2, DoFields DEF Ordinary
    <3>4. Calling(new)
      BY <2>3 DEF new
    <3> QED
      BY <3>2, <3>3, <3>4
  <2> QED
    BY <1>3, <2>1, <2>2, <2>3
<1>5. \A y \in Xfers \ {x} :
        status'[y] = status[y] /\ data'[y] = data[y] /\ Registered(y)' = Registered(y)
  BY <1>1, <1>2, SameUploadsKeep DEF IInv, DataTypes
<1>6. CallsInv' /\ (\A y \in Xfers \ {x} : XferOK(y)') /\ Todo(Head(calls).do, x)
  BY <1>1, <1>4, <1>5, HeadStep DEF SameUploads
<1>7. ASSUME x \in Xfers PROVE XferOK(x)'
  <2>1. ~ Registered(x) /\ ~ Asked(x) /\ status[x] # "none"
    BY <1>1, <1>6, <1>7 DEF IInv, XferOK, StatementsOK
  <2>2. ~ Registered(x)' /\ ~ Asked(x)' /\ status'[x] # "none"
    BY <1>1, <1>2, <1>7, <2>1, SameUploadsKeep DEF IInv, DataTypes
  <2> QED
    BY <2>2, GoneOK
<1>8. DataTypes'
  BY <1>1, <1>2, SameUploadsKeep DEF IInv, DataTypes, Statuses
<1> QED
  BY <1>1, <1>6, <1>7, <1>8, SameUploadsKeep DEF IInv, CallsInv

-----------------------------------------------------------------------------
(* Who keeps TDLib at a file *)

LEMMA HasTransferIs ==
  ASSUME NEW reg, IsSequence(reg), NEW f
  PROVE  HasFileTransfer(reg, f) <=> \E x \in ToSet(reg) : fileOf[x] = f
BY DEF HasFileTransfer, ToSet

LEMMA PendingIs ==
  ASSUME NEW reqs, ToSet(reqs) \subseteq Requests
  PROVE  HasPendingUploadRequests(reqs) <=> \E x \in Xfers : Request("upload", x) \in ToSet(reqs)
<1>1. HasPendingUploadRequests(reqs) <=> \E r \in ToSet(reqs) : r.kind = "upload"
  BY DEF HasPendingUploadRequests, ToSet
<1>2. ASSUME NEW r \in ToSet(reqs), r.kind = "upload" PROVE r.x \in Xfers /\ r = Request("upload", r.x)
  BY <1>2 DEF Requests, Request
<1>3. \A x : Request("upload", x).kind = "upload"
  BY DEF Request
<1> QED
  BY <1>1, <1>2, <1>3

\* The registry and the requests of the invariant's states
LEMMA AccountSets ==
  ASSUME DataTypes
  PROVE  /\ IsSequence(registry) /\ ToSet(registry) \subseteq Xfers
         /\ IsSequence(requests) /\ ToSet(requests) \subseteq Requests
BY SeqIsSequence DEF DataTypes

\* cancelUpload
LEMMA CancelFunctionStays ==
  ASSUME IInv, CancelFunction
  PROVE  IInv'
<1> PICK x : x = Head(calls).x
  OBVIOUS
<1> DEFINE f == fileOf[x]
           reg == Without(registry, x)
           given == DeferOrCancelUpload(f, deferred, requests, reg)
           known == data[x] /\ client = "up" /\ x \in ToSet(registry)
           new == IF known THEN <<Do("unref", x)>> ELSE <<>>
<1>1. /\ calls # <<>> /\ Head(calls).do = "cancelFunction" /\ data' = [data EXCEPT ![x] = FALSE]
      /\ UNCHANGED <<status, fileOf, target, client, requests, sentTo>>
      /\ registry' = IF known THEN reg ELSE registry
      /\ deferred' = IF known THEN given.deferred ELSE deferred
      /\ slot' = IF known THEN CancelSlots(slot, given.cancel) ELSE slot
      /\ Calling(new)
  BY DEF CancelFunction, At, upload, Returning
<1>2. /\ IsSequence(registry) /\ ToSet(registry) \subseteq Xfers
      /\ ToSet(requests) \subseteq Requests
      /\ IsSequence(reg) /\ ToSet(reg) = ToSet(registry) \ {x}
  BY AccountSets, WithoutSet DEF IInv
<1>3. IsSequence(new) /\ \A s \in ToSet(new) : Ordinary(s) /\ s.do \notin Watched
  <2>1. Ordinary(Do("unref", x)) /\ Do("unref", x).do \notin Watched
    BY DoFields DEF Ordinary, Watched
  <2> QED
    BY <2>1, EmptySet, SingleSet
<1> HIDE DEF new, reg, given
<1>4. DataTypes'
  <2>1. registry' \in Seq(Xfers)
    BY <1>1, <1>2, SequenceInto
  <2>2. data' \in [Xfers -> BOOLEAN]
    BY <1>1 DEF IInv, DataTypes
  <2>3. slot' \in [Files -> {"idle", "running", "complete", "cancelled"}]
    BY <1>1 DEF IInv, DataTypes, CancelSlots
  <2> QED
    BY <1>1, <2>1, <2>2, <2>3 DEF IInv, DataTypes
<1>5. \A y \in Xfers : /\ ChatAsked(y)' = ChatAsked(y) /\ UploadAsked(y)' = UploadAsked(y)
                       /\ Registered(y)' <=> Registered(y) /\ ~ (known /\ y = x)
  BY <1>1, <1>2 DEF ChatAsked, UploadAsked, Registered
<1>6. \A y \in Xfers \ {x} : data'[y] = data[y] /\ Registered(y)' = Registered(y)
  <2>1. ToSet(registry') \ {x} = ToSet(registry) \ {x}
    BY <1>1, <1>2
  <2>2. \A y \in Xfers \ {x} : Registered(y)' = Registered(y)
    BY <2>1 DEF Registered
  <2>3. \A y \in Xfers \ {x} : data'[y] = data[y]
    BY <1>1 DEF IInv, DataTypes
  <2> QED
    BY <2>2, <2>3
<1>7. /\ CallsInv' /\ (\A y \in Xfers \ {x} : XferOK(y)') /\ ~ At("cancel")'
      /\ todo' = ToSet(new) \cup ToSet(Tail(calls)) /\ todo = {Head(calls)} \cup ToSet(Tail(calls))
  BY <1>1, <1>3, <1>6, HeadStep
<1>8. ASSUME x \in Xfers PROVE XferOK(x)'
  <2>1. XferOK(x)
    BY <1>8 DEF IInv
  <2>2. /\ Todo("report", x)' => Todo("report", x)
        /\ Todo("complete", x)' => Todo("complete", x)
        /\ Todo("endUpload", x)' => Todo("endUpload", x)
        /\ Todo("endFunction", x)' => Todo("endFunction", x)
        /\ Todo("cancelFunction", x)
    BY <1>1, <1>3, <1>7, TodoNext DEF Watched, Todo
  <2>3. Asked(x)' = Asked(x) /\ (Registered(x)' => Registered(x)) /\ Cancelled(x)' = Cancelled(x)
    BY <1>1, <1>5, <1>8 DEF Asked, Cancelled
  <2>4. StageOK(x)'
    BY <1>1, <1>5, <1>8, <2>1, <2>3 DEF XferOK, StageOK
  <2>5. StatementsOK(x)'
    BY <1>1, <2>1, <2>2, <2>3 DEF XferOK, StatementsOK
  <2>6. DataOK(x)'
    <3>1. client = "up" => ~ Registered(x)'
      BY <1>5, <1>8, <2>1, <2>3 DEF XferOK, DataOK, Registered
    <3>2. client = "up" /\ Asked(x) => Cancelled(x)
      BY <1>1, <2>1, <2>2 DEF XferOK, DataOK, At
    <3> QED
      BY <1>1, <2>3, <3>1, <3>2 DEF DataOK
  <2> QED
    BY <2>4, <2>5, <2>6 DEF XferOK
<1>9. SlotsOK'
  <2>1. CASE ~ known
    <3>1. UNCHANGED <<client, registry, requests, deferred, slot, fileOf>>
      BY <1>1, <2>1
    <3> QED
      BY <3>1, SlotsSame DEF IInv
  <2>2. CASE known
    <3> DEFINE kept == \E y \in Xfers : fileOf[y] = f /\ Registered(y)'
               open == \E y \in Xfers : UploadAsked(y)
    <3>1. HasFileTransfer(reg, f) <=> kept
      BY <1>1, <1>2, <2>2, HasTransferIs DEF Registered
    <3>2. HasPendingUploadRequests(requests) <=> open
      BY <1>2, PendingIs DEF UploadAsked
    <3>3. /\ given.deferred = IF ~ kept /\ open THEN deferred \cup {f} ELSE deferred \ {f}
          /\ given.cancel = IF ~ kept /\ ~ open THEN {f} ELSE {}
      BY <3>1, <3>2 DEF given, DeferOrCancelUpload
    <3> DEFINE cancel == given.cancel
    <3>4. \A g \in Files : slot'[g] = IF g \in cancel /\ slot[g] = "running" THEN "cancelled" ELSE slot[g]
      BY <1>1, <2>2 DEF CancelSlots
    <3>5. \A y \in Xfers : fileOf[y] \in Files
      BY DEF IInv, DataTypes
    <3>6. ASSUME NEW y \in Xfers, (Registered(y) \/ UploadAsked(y))' PROVE (slot[fileOf[y]] # "cancelled")'
      <4>1. Registered(y) \/ UploadAsked(y)
        BY <1>5, <3>6
      <4>2. slot[fileOf[y]] # "cancelled"
        BY <2>2, <4>1 DEF IInv, SlotsOK
      <4>3. fileOf[y] \notin cancel
        BY <1>5, <3>3, <3>6
      <4> QED
        BY <1>1, <3>4, <3>5, <4>2, <4>3
    <3>7. ASSUME NEW g \in Files, slot'[g] = "running"
          PROVE \/ \E y \in Xfers : fileOf'[y] = g /\ (Registered(y) \/ UploadAsked(y))'
                \/ g \in deferred' /\ \E y \in Xfers : UploadAsked(y)'
      <4>1. slot[g] = "running" /\ g \notin cancel
        BY <3>4, <3>7
      <4>2. CASE \E y \in Xfers : fileOf[y] = g /\ (Registered(y) \/ UploadAsked(y))
        <5>1. PICK y \in Xfers : fileOf[y] = g /\ (Registered(y) \/ UploadAsked(y))
          BY <4>2
        <5>2. CASE y = x /\ Registered(y)
          BY <1>1, <1>5, <2>2, <3>3, <4>1, <5>1, <5>2
        <5>3. CASE ~ (y = x /\ Registered(y))
          BY <1>1, <1>5, <5>1, <5>3
        <5> QED
          BY <5>2, <5>3
      <4>3. CASE g \in deferred /\ \E y \in Xfers : UploadAsked(y)
        BY <1>1, <1>5, <2>2, <3>3, <4>3
      <4> QED
        BY <2>2, <4>1, <4>2, <4>3 DEF IInv, SlotsOK
    <3> QED
      BY <3>6, <3>7 DEF SlotsOK
  <2> QED
    BY <2>1, <2>2
<1> QED
  BY <1>4, <1>7, <1>8, <1>9 DEF IInv, CallsInv

-----------------------------------------------------------------------------
(* The client is closed *)

LEMMA CloseRunsClosed ==
  ASSUME IInv, At("closeTransfers") \/ At("closeRequests")
  PROVE  client \in {"closing", "down"}
<1>1. Head(calls) \in todo /\ Head(calls).do \in {"closeTransfers", "closeRequests"}
  BY TailSet DEF IInv, CallsOK, At, todo
<1> QED
  BY <1>1 DEF IInv, DataTypes, CloseOK

\* With the client closing, nothing but the stages of its transfers is left to keep.
LEMMA ClosedXferOK ==
  ASSUME NEW x, XferOK(x), client' # "up", UNCHANGED <<status, sentTo>>,
         Registered(x)' => Registered(x), ChatAsked(x)' => ChatAsked(x), UploadAsked(x)' => UploadAsked(x),
         \A what \in Watched : Todo(what, x)' => Todo(what, x)
  PROVE  XferOK(x)'
<1>1. Asked(x)' => Asked(x)
  BY DEF Asked
<1>2. /\ Todo("report", x)' => Todo("report", x)
      /\ Todo("complete", x)' => Todo("complete", x)
      /\ Todo("endUpload", x)' => Todo("endUpload", x)
      /\ Todo("endFunction", x)' => Todo("endFunction", x)
  BY DEF Watched
<1>3. StageOK(x)'
  BY <1>1 DEF XferOK, StageOK, Asked
<1>4. StatementsOK(x)'
  BY <1>1, <1>2 DEF XferOK, StatementsOK
<1> QED
  BY <1>3, <1>4 DEF XferOK, DataOK

LEMMA DisconnectStays ==
  ASSUME IInv, Disconnect
  PROVE  IInv'
<1> DEFINE new == <<[do |-> "closeTransfers"], [do |-> "closeRequests"]>>
<1>1. /\ Outside /\ client' = "closing" /\ calls' = new \o calls
      /\ UNCHANGED <<status, data, fileOf, target, requests, registry, slot, sentTo>>
  BY DEF Disconnect, xferVars, upload
<1>2. IsSequence(new) /\ ToSet(new) = {[do |-> "closeTransfers"], [do |-> "closeRequests"]}
  BY TupleSets
<1> HIDE DEF new
<1>3. \A s \in ToSet(new) : s.do \in {"closeTransfers", "closeRequests"}
  BY <1>2
<1>4. IsSequence(calls) /\ \A s \in todo : Plain(s)
  BY <1>1, OutsideCalls DEF IInv, CallsInv, Ordinary, Plain
<1>5. IsSequence(calls') /\ todo' = ToSet(new) \cup todo
  BY <1>1, <1>2, <1>4, ConcatSet DEF todo
<1>6. CallsInv'
  BY <1>1, <1>3, <1>4, <1>5, OrdinaryCalls DEF Plain
<1>7. ASSUME NEW x \in Xfers PROVE XferOK(x)'
  <2>1. \A what \in Watched : Todo(what, x)' => Todo(what, x)
    BY <1>3, <1>5 DEF Todo, Watched
  <2>2. Registered(x)' = Registered(x) /\ ChatAsked(x)' = ChatAsked(x) /\ UploadAsked(x)' = UploadAsked(x)
    BY <1>1 DEF Registered, ChatAsked, UploadAsked
  <2> QED
    BY <1>1, <2>1, <2>2, ClosedXferOK DEF IInv
<1>8. DataTypes' /\ SlotsOK'
  BY <1>1 DEF IInv, DataTypes, SlotsOK
<1> QED
  BY <1>6, <1>7, <1>8 DEF IInv, CallsInv

\* Lists of these are all that the destructor calls.
LEMMA DropsSet ==
  ASSUME NEW xs, IsSequence(xs)
  PROVE  /\ IsSequence(ForEach(xs, DropUpload))
         /\ \A s \in ToSet(ForEach(xs, DropUpload)) : Ordinary(s) /\ s.do \notin Watched
<1> DEFINE ss == [i \in DOMAIN xs |-> DropUpload(xs[i])]
           S == {s \in UNION {ToSet(ss[i]) : i \in DOMAIN xs} : Ordinary(s) /\ s.do \notin Watched}
<1>1. ASSUME NEW i \in DOMAIN xs PROVE IsSequence(ss[i]) /\ ToSet(ss[i]) \subseteq S
  <2>1. ss[i] = <<Do("cancelUnlessOver", xs[i]), Do("unref", xs[i])>>
    BY DEF DropUpload
  <2>2. IsSequence(ss[i]) /\ ToSet(ss[i]) = {Do("cancelUnlessOver", xs[i]), Do("unref", xs[i])}
    BY <2>1, TupleSets
  <2>3. \A s \in ToSet(ss[i]) : Ordinary(s) /\ s.do \notin Watched
    BY <2>2, DoFields DEF Ordinary, Watched
  <2> HIDE DEF ss
  <2> QED
    BY <2>2, <2>3
<1>2. ss = [i \in DOMAIN xs |-> ss[i]] /\ ForEach(xs, DropUpload) = FlattenSeq(ss)
  BY DEF ForEach
<1>3. \A s \in S : Ordinary(s) /\ s.do \notin Watched
  OBVIOUS
<1> HIDE DEF ss, S
<1> QED
  BY <1>1, <1>2, <1>3, EachSet

LEMMA ClosingStays ==
  ASSUME IInv, CloseTransfers \/ CloseRequests
  PROVE  IInv'
<1>1. /\ calls # <<>> /\ Head(calls).do # "cancel"
      /\ UNCHANGED <<status, data, fileOf, target, slot, sentTo>>
      /\ client \in {"closing", "down"} /\ client' \in {"closing", "down"}
      /\ registry' = registry \/ registry' = <<>>
      /\ requests' = requests \/ requests' = <<>>
  BY CloseRunsClosed DEF CloseTransfers, CloseRequests, At, xferVars, upload
<1>2. /\ IsSequence(registry) /\ ToSet(registry) \subseteq Xfers
      /\ IsSequence(requests) /\ ToSet(requests) \subseteq Requests
  BY AccountSets DEF IInv
<1>3. \E xs : IsSequence(xs) /\ Calling(ForEach(xs, DropUpload))
  <2>1. CASE CloseTransfers
    BY <1>2, <2>1 DEF CloseTransfers
  <2>2. CASE CloseRequests
    <3> DEFINE xs == [i \in DOMAIN requests |-> requests[i].x]
    <3>1. Len(requests) \in Nat /\ DOMAIN requests = 1 .. Len(requests)
      BY <1>2, SequenceFacts
    <3>2. xs = [i \in 1 .. Len(requests) |-> xs[i]]
      BY <3>1
    <3>3. Calling(ForEach(xs, DropUpload))
      BY <2>2 DEF CloseRequests
    <3> HIDE DEF xs
    <3> QED
      BY <3>1, <3>2, <3>3, FunctionIsSequence
  <2> QED
    BY <2>1, <2>2
<1>4. PICK new : /\ IsSequence(new) /\ Calling(new)
                 /\ \A s \in ToSet(new) : Ordinary(s) /\ s.do \notin Watched
  BY <1>3, DropsSet
<1>5. IsSequence(Tail(calls)) /\ todo = {Head(calls)} \cup ToSet(Tail(calls))
      /\ \A s \in ToSet(Tail(calls)) : Plain(s)
  BY <1>1, TailSet DEF IInv, CallsOK, todo
<1>6. IsSequence(calls') /\ todo' = ToSet(new) \cup ToSet(Tail(calls))
  BY <1>4, <1>5, ConcatSet DEF Calling, todo
<1>7. CallsInv'
  BY <1>1, <1>4, <1>5, <1>6, OrdinaryCalls
<1>8. ASSUME NEW x \in Xfers PROVE XferOK(x)'
  <2>1. \A what \in Watched : Todo(what, x)' => Todo(what, x)
    BY <1>4, <1>5, <1>6 DEF Todo
  <2>2. Registered(x)' => Registered(x)
    BY <1>1, EmptySet DEF Registered
  <2>3. (ChatAsked(x)' => ChatAsked(x)) /\ (UploadAsked(x)' => UploadAsked(x))
    BY <1>1, EmptySet DEF ChatAsked, UploadAsked
  <2> QED
    BY <1>1, <2>1, <2>2, <2>3, ClosedXferOK DEF IInv
<1>9. DataTypes' /\ SlotsOK'
  BY <1>1, EmptySeq DEF IInv, DataTypes, SlotsOK
<1> QED
  BY <1>7, <1>8, <1>9 DEF IInv, CallsInv

-----------------------------------------------------------------------------
(* The user sends files, and TDLib answers *)

\* From rest, nothing was to be executed.
LEMMA RestCalls ==
  ASSUME calls = <<>>, IsSequence(calls'), \A s \in todo' : Ordinary(s)
  PROVE  CallsInv' /\ todo = {} /\ ~ At("cancel") /\ ~ At("cancel")' /\ ~ At("updateProgress")'
BY EmptySet, OrdinaryCalls DEF todo, At

\* The statements that answers leave: none of them is watched.
LEMMA Silent ==
  ASSUME NEW x
  PROVE  /\ IsSequence(<<Do("unref", x)>>) /\ \A s \in ToSet(<<Do("unref", x)>>) : Ordinary(s) /\ s.do \notin Watched
         /\ IsSequence(FailXfer(x)) /\ \A s \in ToSet(FailXfer(x)) : Ordinary(s) /\ s.do \notin Watched
<1>1. IsSequence(<<Do("unref", x)>>) /\ ToSet(<<Do("unref", x)>>) = {Do("unref", x)}
  BY SingleSet
<1>2. /\ IsSequence(FailXfer(x))
      /\ ToSet(FailXfer(x)) = {Do("errorHandlers", x), Do("cancelUnlessOver", x), Do("unref", x)}
  BY TupleSets DEF FailXfer
<1>3. \A s \in {Do("errorHandlers", x), Do("cancelUnlessOver", x), Do("unref", x)} :
        Ordinary(s) /\ s.do \notin Watched
  BY DoFields DEF Ordinary, Watched
<1> QED
  BY <1>1, <1>2, <1>3

\* What happens to the other transfers while one is sent or answered
LEMMA OthersKept ==
  ASSUME IInv, calls = <<>>, client' = client, NEW x, UNCHANGED sentTo,
         \A s \in todo' : s.do \in Watched => s.x = x,
         \A y \in Xfers \ {x} :
           /\ status'[y] = status[y] /\ data'[y] = data[y] /\ Registered(y)' = Registered(y)
           /\ ChatAsked(y)' = ChatAsked(y) /\ UploadAsked(y)' = UploadAsked(y)
  PROVE  \A y \in Xfers \ {x} : XferOK(y)'
<1> TAKE y \in Xfers \ {x}
<1>1. todo = {} /\ ~ At("cancel")
  BY EmptySet DEF todo, At
<1>2. \A what \in Watched : ~ Todo(what, y)'
  BY DEF Todo
<1>3. ~ Todo("cancelFunction", y)
  BY <1>1 DEF Todo
<1> QED
  BY <1>1, <1>2, <1>3, XferKept DEF IInv

\* The slot is started for an upload.
LEMMA StartedSlots ==
  ASSUME IInv, NEW x \in Xfers, slot' = StartSlot(slot, fileOf[x]), client = "up",
         UNCHANGED <<client, fileOf, deferred>>,
         \A y \in Xfers : /\ Registered(y)' = Registered(y)
                          /\ UploadAsked(y)' <=> UploadAsked(y) \/ y = x
  PROVE  SlotsOK'
<1> DEFINE f == fileOf[x]
<1>1. \A y \in Xfers : fileOf[y] \in Files
  BY DEF IInv, DataTypes
<1>2. \A g \in Files : slot'[g] = IF g = f /\ slot[g] \in {"idle", "cancelled"} THEN "running" ELSE slot[g]
  BY <1>1 DEF StartSlot, IInv, DataTypes
<1>3. ASSUME NEW y \in Xfers, (Registered(y) \/ UploadAsked(y))' PROVE (slot[fileOf[y]] # "cancelled")'
  <2>1. CASE fileOf[y] = f
    BY <1>1, <1>2, <2>1
  <2>2. CASE fileOf[y] # f
    <3>1. Registered(y) \/ UploadAsked(y)
      BY <1>3, <2>2
    <3> QED
      BY <1>1, <1>2, <2>2, <3>1 DEF IInv, SlotsOK
  <2> QED
    BY <2>1, <2>2
<1>4. ASSUME NEW g \in Files, slot'[g] = "running"
      PROVE \/ \E y \in Xfers : fileOf'[y] = g /\ (Registered(y) \/ UploadAsked(y))'
            \/ g \in deferred' /\ \E y \in Xfers : UploadAsked(y)'
  <2>1. CASE g = f
    BY <2>1
  <2>2. CASE g # f
    <3>1. slot[g] = "running"
      BY <1>2, <1>4, <2>2
    <3>2. \/ \E y \in Xfers : fileOf[y] = g /\ (Registered(y) \/ UploadAsked(y))
          \/ g \in deferred /\ \E y \in Xfers : UploadAsked(y)
      BY <3>1 DEF IInv, SlotsOK
    <3> QED
      BY <3>2
  <2> QED
    BY <2>1, <2>2
<1> QED
  BY <1>3, <1>4 DEF SlotsOK

\* What distinguishes requests
LEMMA RequestsDiffer ==
  /\ \A kind, other, x, y : Request(kind, x) = Request(other, y) <=> kind = other /\ x = y
  /\ \A x \in Xfers : Request("upload", x) \in Requests /\ Request("createPrivateChat", x) \in Requests
BY DEF Request, Requests

LEMMA SendStays ==
  ASSUME IInv, NEW x \in Xfers, SendToChat(x) \/ SendToUser(x) \/ SendToNobody(x)
  PROVE  IInv'
<1>1. /\ calls = <<>> /\ client = "up" /\ status[x] = "none"
      /\ status' = [status EXCEPT ![x] = "accepted"] /\ data' = [data EXCEPT ![x] = TRUE]
      /\ UNCHANGED <<fileOf, target, client, registry, deferred, sentTo>>
      /\ calls' = <<>> \/ calls' = CancelXfer(x)
  BY DEF SendToChat, SendToUser, SendToNobody, NewTransfer, upload
<1>2. XferOK(x) /\ IsSequence(requests) /\ ToSet(requests) \subseteq Requests /\ todo = {}
  BY <1>1, AccountSets, EmptySet DEF IInv, todo
<1>3. ~ Registered(x) /\ ~ Asked(x) /\ sentTo[x] = NotSent
  BY <1>1, <1>2 DEF XferOK, StageOK
<1>4. /\ status' \in [Xfers -> Statuses] /\ data' \in [Xfers -> BOOLEAN]
      /\ status'[x] = "accepted" /\ data'[x] = TRUE
      /\ \A y \in Xfers \ {x} : status'[y] = status[y] /\ data'[y] = data[y]
      /\ \A y \in Xfers : Registered(y)' = Registered(y)
  BY <1>1 DEF IInv, DataTypes, Statuses, Registered
<1>5. CASE SendToChat(x) \/ SendToUser(x)
  <2>1. PICK kind \in {"upload", "createPrivateChat"} :
          /\ requests' = Append(requests, Request(kind, x))
          /\ slot' = IF kind = "upload" THEN StartSlot(slot, fileOf[x]) ELSE slot
          /\ calls' = <<>>
    BY <1>1, <1>5 DEF SendToChat, SendToUser
  <2>2. IsSequence(requests') /\ ToSet(requests') = ToSet(requests) \cup {Request(kind, x)}
    BY <1>2, <2>1, AppendSet
  <2>3. CallsInv' /\ todo' = {} /\ ~ At("cancel")'
    BY <1>1, <2>1, EmptySet, RestCalls DEF todo
  <2>4. \A y \in Xfers : /\ ChatAsked(y)' <=> ChatAsked(y) \/ (kind = "createPrivateChat" /\ y = x)
                         /\ UploadAsked(y)' <=> UploadAsked(y) \/ (kind = "upload" /\ y = x)
    BY <2>2, RequestsDiffer DEF ChatAsked, UploadAsked
  <2>5. \A y \in Xfers \ {x} : ChatAsked(y)' = ChatAsked(y) /\ UploadAsked(y)' = UploadAsked(y)
    <3>1. \A y \in Xfers \ {x} : \A k : Request(k, y) # Request(kind, x)
      BY RequestsDiffer
    <3> QED
      BY <2>2, <3>1 DEF ChatAsked, UploadAsked
  <2>6. \A y \in Xfers \ {x} : XferOK(y)'
    BY <1>1, <1>4, <2>3, <2>5, OthersKept
  <2>7. XferOK(x)'
    <3>1. \A what : ~ Todo(what, x)'
      BY <2>3 DEF Todo
    <3>2. StageOK(x)'
      BY <1>1, <1>3, <1>4, <2>4 DEF StageOK, Asked
    <3>3. StatementsOK(x)'
      BY <3>1 DEF StatementsOK
    <3>4. DataOK(x)'
      BY <1>3, <1>4, <3>1 DEF DataOK
    <3> QED
      BY <3>2, <3>3, <3>4 DEF XferOK
  <2>8. SlotsOK'
    <3>1. CASE kind = "upload"
      BY <1>1, <1>4, <2>1, <2>4, <3>1, StartedSlots
    <3>2. CASE kind # "upload"
      BY <1>1, <1>4, <2>1, <2>4, <3>2 DEF IInv, SlotsOK
    <3> QED
      BY <3>1, <3>2
  <2>9. DataTypes'
    <3>1. requests' \in Seq(Requests)
      BY <1>2, <2>2, RequestsDiffer, SequenceInto
    <3>2. slot' \in [Files -> {"idle", "running", "complete", "cancelled"}]
      BY <2>1 DEF IInv, DataTypes, StartSlot
    <3> QED
      BY <1>1, <1>4, <3>1, <3>2 DEF IInv, DataTypes
  <2> QED
    BY <2>3, <2>6, <2>7, <2>8, <2>9 DEF IInv, CallsInv
<1>6. CASE SendToNobody(x)
  <2>1. calls' = CancelXfer(x) /\ UNCHANGED <<requests, slot>>
    BY <1>6 DEF SendToNobody
  <2>2. calls' = CancelXfer(x) \o <<>>
    BY <2>1 DEF CancelXfer
  <2>3. /\ CallsInv' /\ todo' = {Do("cancel", x), Do("cancelHandlers", x), Do("cancelFunction", x),
                                 Do("unref", x)}
    BY <2>2, EmptySet, CancelCalls
  <2>4. \A s \in todo' : s.x = x
    BY <2>3, DoFields
  <2>5. \A y \in Xfers : ChatAsked(y)' = ChatAsked(y) /\ UploadAsked(y)' = UploadAsked(y)
    BY <2>1 DEF ChatAsked, UploadAsked
  <2>6. \A y \in Xfers \ {x} : XferOK(y)'
    BY <1>1, <1>4, <2>4, <2>5, OthersKept
  <2>7. XferOK(x)'
    <3>1. ~ Registered(x)' /\ ~ Asked(x)' /\ status'[x] # "none"
      BY <1>3, <1>4, <2>5 DEF Asked
    <3> QED
      BY <3>1, GoneOK
  <2>8. SlotsOK'
    BY <1>1, <2>1, SlotsSame DEF IInv
  <2>9. DataTypes'
    BY <1>1, <1>4, <2>1 DEF IInv, DataTypes
  <2> QED
    BY <2>3, <2>6, <2>7, <2>8, <2>9 DEF IInv, CallsInv
<1> QED
  BY <1>5, <1>6

\* What TDLib's answer to the upload of x leaves of the slots: mid is what the answer says of
\* its file, first what is cancelled because of x itself, and waiting what is still to be
\* flushed then.
Needed(f) == \E y \in Xfers : fileOf[y] = f /\ (Registered(y) \/ UploadAsked(y))

AnswerLeaves(x, f, mid, first, waiting) ==
  LET flushed == FlushDeferredUploadCancels(waiting, requests', registry) IN
    /\ \A g \in Files : mid[g] = slot[g] \/ (g = f /\ mid[g] \in {"complete", "idle"})
    /\ first \subseteq {f} /\ (f \in first => ~ Needed(f)')
    /\ deferred \ {f} \subseteq waiting /\ (Registered(x)' => f \notin waiting)
    /\ mid[f] = "running" => f \in first \/ f \in waiting \/ Needed(f)'
    /\ deferred' = flushed.deferred
    /\ slot' = CancelSlots(mid, first \cup flushed.cancel)

LEMMA AnsweredSlots ==
  ASSUME IInv, client = "up", UNCHANGED <<client, fileOf>>, NEW x \in Xfers, UploadAsked(x),
         \A y \in Xfers : /\ Registered(y) => Registered(y)'
                          /\ Registered(y)' => Registered(y) \/ y = x
                          /\ UploadAsked(y)' <=> UploadAsked(y) /\ y # x,
         ToSet(requests') \subseteq Requests,
         NEW f, f = fileOf[x], NEW mid, NEW first, NEW waiting, AnswerLeaves(x, f, mid, first, waiting)
  PROVE  SlotsOK'
<1> USE DEF AnswerLeaves
<1> DEFINE flushed == FlushDeferredUploadCancels(waiting, requests', registry)
           open == \E y \in Xfers : UploadAsked(y)'
           cancel == first \cup flushed.cancel
<1>1. HasPendingUploadRequests(requests') <=> open
  BY PendingIs DEF UploadAsked
<1>2. \A g : HasFileTransfer(registry, g) <=> \E y \in Xfers : Registered(y) /\ fileOf[y] = g
  <2>1. IsSequence(registry) /\ ToSet(registry) \subseteq Xfers
    BY AccountSets DEF IInv
  <2> QED
    BY <2>1, HasTransferIs DEF Registered
<1>3. /\ flushed.deferred = IF open THEN waiting ELSE {}
      /\ flushed.cancel = IF open THEN {} ELSE {g \in waiting : ~ HasFileTransfer(registry, g)}
  BY <1>1 DEF FlushDeferredUploadCancels
<1>4. \A g \in Files : slot'[g] = IF g \in cancel /\ mid[g] = "running" THEN "cancelled" ELSE mid[g]
  BY DEF CancelSlots
<1>5. \A y \in Xfers : fileOf[y] \in Files
  BY DEF IInv, DataTypes
<1>6. deferred' = flushed.deferred
  OBVIOUS
<1> HIDE DEF flushed, open
<1>7. ASSUME NEW y \in Xfers, (Registered(y) \/ UploadAsked(y))' PROVE (slot[fileOf[y]] # "cancelled")'
  <2>1. Registered(y) \/ UploadAsked(y)
    BY <1>7
  <2>2. slot[fileOf[y]] # "cancelled"
    BY <2>1 DEF IInv, SlotsOK
  <2>3. mid[fileOf[y]] # "cancelled"
    BY <1>5, <2>2
  <2>4. fileOf[y] \notin first
    BY <1>7 DEF Needed
  <2>5. fileOf[y] \notin flushed.cancel
    <3>1. CASE open
      BY <1>3, <3>1
    <3>2. CASE ~ open
      <4>1. Registered(y)'
        BY <1>7, <3>2 DEF open
      <4>2. CASE Registered(y)
        BY <1>2, <1>3, <4>2
      <4>3. CASE ~ Registered(y)
        <5>1. y = x
          BY <4>1, <4>3
        <5> QED
          BY <1>3, <3>2, <4>1, <5>1
      <4> QED
        BY <4>2, <4>3
    <3> QED
      BY <3>1, <3>2
  <2> QED
    BY <1>4, <1>5, <2>3, <2>4, <2>5
<1>8. ASSUME NEW g \in Files, slot'[g] = "running"
      PROVE Needed(g)' \/ (g \in deferred' /\ open)
  <2>1. mid[g] = "running" /\ g \notin first /\ g \notin flushed.cancel /\ slot[g] = "running"
    BY <1>4, <1>8
  <2>2. g \in waiting => Needed(g)' \/ (g \in deferred' /\ open)
    <3>1. CASE open
      BY <1>3, <1>6, <3>1
    <3>2. CASE ~ open
      BY <1>2, <1>3, <2>1, <3>2 DEF Needed
    <3> QED
      BY <3>1, <3>2
  <2>3. CASE g = f
    BY <2>1, <2>2, <2>3
  <2>4. CASE g # f
    <3>1. \/ \E y \in Xfers : fileOf[y] = g /\ (Registered(y) \/ UploadAsked(y))
          \/ g \in deferred
      BY <2>1 DEF IInv, SlotsOK
    <3>2. CASE \E y \in Xfers : fileOf[y] = g /\ (Registered(y) \/ UploadAsked(y))
      <4>1. PICK y \in Xfers : fileOf[y] = g /\ (Registered(y) \/ UploadAsked(y))
        BY <3>2
      <4>2. y # x
        BY <2>4, <4>1
      <4> QED
        BY <4>1, <4>2 DEF Needed
    <3>3. CASE g \in deferred
      BY <2>2, <2>4, <3>3
    <3> QED
      BY <3>1, <3>2, <3>3
  <2> QED
    BY <2>3, <2>4
<1> QED
  BY <1>7, <1>8 DEF SlotsOK, Needed, open

\* A request was answered, and nothing waits for its transfer any more.
LEMMA AnswerEnds ==
  ASSUME IInv, NEW x \in Xfers, NEW kind \in {"createPrivateChat", "upload"}, Answered(kind, x),
         requests' = Without(requests, Request(kind, x)),
         UNCHANGED <<status, data, fileOf, target, client, registry, sentTo>>,
         IsSequence(calls'), \A s \in todo' : Ordinary(s) /\ s.do \notin Watched
  PROVE  /\ CallsInv' /\ \A y \in Xfers : XferOK(y)'
         /\ requests' \in Seq(Requests) /\ ToSet(requests') \subseteq Requests
         /\ \A y \in Xfers : /\ Registered(y)' = Registered(y)
                             /\ UploadAsked(y)' <=> UploadAsked(y) /\ ~ (kind = "upload" /\ y = x)
<1>1. /\ calls = <<>> /\ client = "up" /\ Request(kind, x) \in ToSet(requests)
      /\ IsSequence(requests) /\ ToSet(requests) \subseteq Requests /\ XferOK(x)
  BY AccountSets DEF Answered, IInv
<1>2. IsSequence(requests') /\ ToSet(requests') = ToSet(requests) \ {Request(kind, x)}
  BY <1>1, WithoutSet
<1>3. requests' \in Seq(Requests) /\ ToSet(requests') \subseteq Requests
  BY <1>1, <1>2, SequenceInto
<1>4. CallsInv'
  BY <1>1, RestCalls
<1>5. \A y \in Xfers : /\ Registered(y)' = Registered(y)
                       /\ UploadAsked(y)' <=> UploadAsked(y) /\ ~ (kind = "upload" /\ y = x)
                       /\ ChatAsked(y)' <=> ChatAsked(y) /\ ~ (kind = "createPrivateChat" /\ y = x)
  BY <1>2, RequestsDiffer DEF Registered, UploadAsked, ChatAsked
<1>6. \A y \in Xfers \ {x} : ChatAsked(y)' = ChatAsked(y) /\ UploadAsked(y)' = UploadAsked(y)
  <2>1. \A y \in Xfers \ {x} : \A k : Request(k, y) # Request(kind, x)
    BY RequestsDiffer
  <2> QED
    BY <1>2, <2>1 DEF ChatAsked, UploadAsked
<1>7. \A y \in Xfers \ {x} : XferOK(y)'
  BY <1>1, <1>5, <1>6, OthersKept
<1>8. XferOK(x)'
  <2>1. Asked(x) /\ (kind = "upload" <=> UploadAsked(x)) /\ (kind = "createPrivateChat" <=> ChatAsked(x))
    BY <1>1 DEF XferOK, StageOK, Asked, UploadAsked, ChatAsked
  <2>2. ~ Registered(x) /\ status[x] # "none"
    BY <1>1, <2>1 DEF XferOK, StageOK
  <2>3. ~ Registered(x)' /\ ~ Asked(x)' /\ status'[x] # "none"
    BY <1>5, <2>1, <2>2 DEF Asked
  <2> QED
    BY <2>3, GoneOK
<1> QED
  BY <1>3, <1>4, <1>5, <1>7, <1>8

LEMMA ChatAnswerStays ==
  ASSUME IInv, NEW x \in Xfers, PrivateChatNotNeeded(x) \/ PrivateChatRefused(x)
  PROVE  IInv'
<1>1. /\ Answered("createPrivateChat", x)
      /\ requests' = Without(requests, Request("createPrivateChat", x))
      /\ UNCHANGED <<status, data, fileOf, target, client, registry, deferred, slot, sentTo>>
      /\ calls' = <<Do("unref", x)>> \/ calls' = FailXfer(x)
  BY DEF PrivateChatNotNeeded, PrivateChatRefused, xferVars, upload
<1>2. IsSequence(calls') /\ \A s \in todo' : Ordinary(s) /\ s.do \notin Watched
  BY <1>1, Silent DEF todo
<1>3. /\ CallsInv' /\ \A y \in Xfers : XferOK(y)'
      /\ requests' \in Seq(Requests)
      /\ \A y \in Xfers : /\ Registered(y)' = Registered(y) /\ (UploadAsked(y)' <=> UploadAsked(y))
  BY <1>1, <1>2, AnswerEnds
<1>4. SlotsOK'
  BY <1>1, <1>3 DEF IInv, SlotsOK
<1>5. DataTypes'
  BY <1>1, <1>3 DEF IInv, DataTypes
<1> QED
  BY <1>3, <1>4, <1>5 DEF IInv, CallsInv

\* What SlotAfter and CancelSlots give
LEMMA SlotTypes ==
  ASSUME DataTypes, NEW f, NEW says
  PROVE  /\ SlotAfter(f, says) \in [Files -> {"idle", "running", "complete", "cancelled"}]
         /\ \A g \in Files :
              \/ SlotAfter(f, says)[g] = slot[g] /\ (g = f => says \notin {"complete", "noRemote"})
              \/ g = f /\ says = "complete" /\ SlotAfter(f, says)[g] = "complete"
              \/ g = f /\ says = "noRemote" /\ SlotAfter(f, says)[g] = "idle"
         /\ \A mid \in [Files -> {"idle", "running", "complete", "cancelled"}] : \A files :
              CancelSlots(mid, files) \in [Files -> {"idle", "running", "complete", "cancelled"}]
<1>1. \A mid \in [Files -> {"idle", "running", "complete", "cancelled"}] : \A files :
        CancelSlots(mid, files) \in [Files -> {"idle", "running", "complete", "cancelled"}]
  BY DEF CancelSlots
<1>2. CASE says = "complete"
  BY <1>1, <1>2 DEF SlotAfter, DataTypes
<1>3. CASE says = "noRemote"
  BY <1>1, <1>3 DEF SlotAfter, DataTypes
<1>4. CASE says \notin {"complete", "noRemote"}
  BY <1>1, <1>4 DEF SlotAfter, DataTypes
<1> QED
  BY <1>2, <1>3, <1>4

LEMMA ChatCreatedStays ==
  ASSUME IInv, NEW x \in Xfers, PrivateChatCreated(x)
  PROVE  IInv'
<1> DEFINE reqs == Without(requests, Request("createPrivateChat", x))
<1>1. /\ calls = <<>> /\ client = "up" /\ Request("createPrivateChat", x) \in ToSet(requests)
      /\ ~ Cancelled(x) /\ requests' = Append(reqs, Request("upload", x))
      /\ slot' = StartSlot(slot, fileOf[x]) /\ calls' = <<Do("unref", x)>>
      /\ UNCHANGED <<status, data, fileOf, target, client, registry, deferred, sentTo>>
  BY DEF PrivateChatCreated, Answered, upload
<1>2. /\ IsSequence(requests) /\ ToSet(requests) \subseteq Requests /\ XferOK(x)
  BY AccountSets DEF IInv
<1>3. IsSequence(reqs) /\ ToSet(reqs) = ToSet(requests) \ {Request("createPrivateChat", x)}
  BY <1>2, WithoutSet
<1> HIDE DEF reqs
<1>4. /\ IsSequence(requests')
      /\ ToSet(requests') = (ToSet(requests) \ {Request("createPrivateChat", x)}) \cup {Request("upload", x)}
  BY <1>1, <1>3, AppendSet
<1>5. requests' \in Seq(Requests)
  BY <1>2, <1>4, RequestsDiffer, SequenceInto
<1>6. \A y \in Xfers : /\ Registered(y)' = Registered(y)
                       /\ UploadAsked(y)' <=> UploadAsked(y) \/ y = x
                       /\ ChatAsked(y)' <=> ChatAsked(y) /\ y # x
  BY <1>1, <1>4, RequestsDiffer DEF Registered, UploadAsked, ChatAsked
<1>7. \A y \in Xfers \ {x} : ChatAsked(y)' = ChatAsked(y) /\ UploadAsked(y)' = UploadAsked(y)
  <2>1. \A y \in Xfers \ {x} : \A k, l : Request(k, y) # Request(l, x)
    BY RequestsDiffer
  <2> QED
    BY <1>4, <2>1 DEF ChatAsked, UploadAsked
<1>8. IsSequence(calls') /\ \A s \in todo' : Ordinary(s) /\ s.do \notin Watched
  BY <1>1, Silent DEF todo
<1>9. CallsInv'
  BY <1>1, <1>8, RestCalls
<1>10. \A y \in Xfers \ {x} : XferOK(y)'
  BY <1>1, <1>6, <1>7, <1>8, OthersKept
<1>11. XferOK(x)'
  <2>1. \A what \in Watched : ~ Todo(what, x)'
    BY <1>8 DEF Todo
  <2>2. ChatAsked(x)
    BY <1>1 DEF ChatAsked
  <2>3. StageOK(x)'
    BY <1>1, <1>2, <1>6, <2>2 DEF XferOK, StageOK, Asked
  <2>4. StatementsOK(x)'
    BY <2>1 DEF StatementsOK, Watched
  <2>5. DataOK(x)'
    <3>1. ~ Registered(x)' /\ data'[x]
      BY <1>1, <1>2, <1>6, <2>2 DEF XferOK, StageOK, DataOK, Asked
    <3> QED
      BY <2>1, <3>1 DEF DataOK, Watched
  <2> QED
    BY <2>3, <2>4, <2>5 DEF XferOK
<1>12. SlotsOK'
  BY <1>1, <1>6, StartedSlots
<1>13. DataTypes'
  BY <1>1, <1>5 DEF IInv, DataTypes, StartSlot
<1> QED
  BY <1>9, <1>10, <1>11, <1>12, <1>13 DEF IInv, CallsInv

\* What TDLib says of a file is handled next.
LEMMA UpdateCalls ==
  ASSUME NEW f, NEW says, calls' = <<UpdateProgress(f, says)>>, client' = "up",
         says = "complete" => slot'[f] = "complete", says = "noRemote" => slot'[f] = "idle"
  PROVE  CallsInv' /\ ~ At("cancel")' /\ \A s \in todo' : s.do \notin Watched
<1> DEFINE u == UpdateProgress(f, says)
<1>1. u.do = "updateProgress" /\ u.f = f /\ u.says = says
  BY DEF UpdateProgress
<1> HIDE DEF u
<1>2. calls' = <<u>> /\ IsSequence(calls') /\ todo' = {u}
  BY SingleSet DEF u, todo
<1>3. calls' # <<>> /\ Head(calls') = u /\ Tail(calls') = <<>>
  BY <1>2
<1>4. ~ At("cancel")' /\ ToSet(Tail(calls')) = {}
  BY <1>1, <1>3, EmptySet DEF At
<1>5. CallsOK' /\ UpdateOK' /\ CloseOK'
  BY <1>1, <1>2, <1>3, <1>4 DEF CallsOK, UpdateOK, CloseOK
<1> QED
  BY <1>1, <1>2, <1>4, <1>5 DEF CallsInv, Watched

LEMMA FileUpdateStays ==
  ASSUME IInv, NEW f \in Files, NEW says, FileUpdate(f, says)
  PROVE  IInv'
<1>1. /\ calls = <<>> /\ client = "up" /\ slot' = SlotAfter(f, says)
      /\ calls' = <<UpdateProgress(f, says)>>
      /\ UNCHANGED <<status, data, fileOf, target, client, requests, registry, deferred, sentTo>>
  BY DEF FileUpdate, xferVars, upload, account
<1>2. \A g \in Files : \/ slot'[g] = slot[g] /\ (g = f => says \notin {"complete", "noRemote"})
                       \/ g = f /\ says = "complete" /\ slot'[g] = "complete"
                       \/ g = f /\ says = "noRemote" /\ slot'[g] = "idle"
  BY <1>1, SlotTypes DEF IInv
<1>3. CallsInv' /\ \A s \in todo' : s.do \notin Watched
  BY <1>1, <1>2, UpdateCalls
<1>4. \A x \in Xfers : /\ Registered(x)' = Registered(x) /\ ChatAsked(x)' = ChatAsked(x)
                       /\ UploadAsked(x)' = UploadAsked(x)
  BY <1>1 DEF Registered, ChatAsked, UploadAsked
<1>5. ASSUME NEW x \in Xfers PROVE XferOK(x)'
  <2>1. \A what \in Watched : ~ Todo(what, x)'
    BY <1>3 DEF Todo
  <2>2. ~ Todo("cancelFunction", x) /\ ~ At("cancel")
    BY <1>1, EmptySet DEF Todo, todo, At
  <2> QED
    BY <1>1, <1>4, <2>1, <2>2, XferKept DEF IInv
<1>6. SlotsOK'
  <2>1. \A x \in Xfers : fileOf[x] \in Files
    BY DEF IInv, DataTypes
  <2>2. \A x \in Xfers : (Registered(x) \/ UploadAsked(x))' => slot'[fileOf'[x]] # "cancelled"
    BY <1>1, <1>2, <1>4, <2>1 DEF IInv, SlotsOK
  <2>3. \A g \in Files : slot'[g] = "running" => slot[g] = "running"
    BY <1>2
  <2> QED
    BY <1>1, <1>4, <2>2, <2>3 DEF IInv, SlotsOK
<1>7. DataTypes'
  BY <1>1, SlotTypes DEF IInv, DataTypes
<1> QED
  BY <1>3, <1>5, <1>6, <1>7 DEF IInv, CallsInv

\* uploadResponse
LEMMA UploadNotNeededStays ==
  ASSUME IInv, NEW x \in Xfers, NEW says, UploadNotNeeded(x, says)
  PROVE  IInv'
<1> DEFINE f == fileOf[x]
           reqs == Without(requests, Request("upload", x))
           given == DeferOrCancelUpload(f, deferred, reqs, registry)
           flushed == FlushDeferredUploadCancels(given.deferred, reqs, registry)
<1>1. /\ Answered("upload", x) /\ client = "up" /\ requests' = reqs
      /\ deferred' = flushed.deferred
      /\ slot' = CancelSlots(SlotAfter(f, says), given.cancel \cup flushed.cancel)
      /\ calls' = <<Do("unref", x)>>
      /\ UNCHANGED <<status, data, fileOf, target, client, registry, sentTo>>
  BY DEF UploadNotNeeded, Answered, xferVars, upload
<1>2. IsSequence(calls') /\ \A s \in todo' : Ordinary(s) /\ s.do \notin Watched
  BY <1>1, Silent DEF todo
<1>3. /\ CallsInv' /\ \A y \in Xfers : XferOK(y)'
      /\ requests' \in Seq(Requests) /\ ToSet(requests') \subseteq Requests
      /\ \A y \in Xfers : /\ Registered(y)' = Registered(y)
                          /\ UploadAsked(y)' <=> UploadAsked(y) /\ y # x
  BY <1>1, <1>2, AnswerEnds
<1>4. UploadAsked(x) /\ ~ Registered(x)
  BY <1>1 DEF IInv, XferOK, StageOK, Answered, Asked, UploadAsked
<1>5. SlotsOK'
  <2> DEFINE open == \E y \in Xfers : UploadAsked(y)'
             kept == \E y \in Xfers : Registered(y) /\ fileOf[y] = f
  <2>1. HasPendingUploadRequests(reqs) <=> open
    BY <1>1, <1>3, PendingIs DEF UploadAsked
  <2>2. HasFileTransfer(registry, f) <=> kept
    BY AccountSets, HasTransferIs DEF IInv, Registered
  <2>3. /\ given.deferred = IF ~ kept /\ open THEN deferred \cup {f} ELSE deferred \ {f}
        /\ given.cancel = IF ~ kept /\ ~ open THEN {f} ELSE {}
    BY <2>1, <2>2 DEF DeferOrCancelUpload
  <2> HIDE DEF reqs, given
  <2>4. kept => Needed(f)'
    BY <1>1, <1>3 DEF Needed
  <2>5. ~ kept /\ ~ open => ~ Needed(f)'
    BY <1>1, <1>3 DEF Needed
  <2>6. \A g \in Files : \/ SlotAfter(f, says)[g] = slot[g]
                         \/ g = f /\ SlotAfter(f, says)[g] \in {"complete", "idle"}
    BY SlotTypes DEF IInv
  <2>7. f \in given.cancel \/ f \in given.deferred \/ Needed(f)'
    BY <2>3, <2>4
  <2>8. given.cancel \subseteq {f} /\ (f \in given.cancel => ~ Needed(f)')
    BY <2>3, <2>5
  <2>9. deferred \ {f} \subseteq given.deferred
    BY <2>3
  <2>10. AnswerLeaves(x, f, SlotAfter(f, says), given.cancel, given.deferred)
    BY <1>1, <1>3, <1>4, <2>6, <2>7, <2>8, <2>9 DEF AnswerLeaves
  <2> QED
    BY <1>1, <1>3, <1>4, <2>10, AnsweredSlots
<1>6. DataTypes'
  BY <1>1, <1>3, SlotTypes DEF IInv, DataTypes
<1> QED
  BY <1>3, <1>5, <1>6 DEF IInv, CallsInv

LEMMA UploadFailedStays ==
  ASSUME IInv, NEW x \in Xfers, UploadFailed(x)
  PROVE  IInv'
<1> DEFINE f == fileOf[x]
           reqs == Without(requests, Request("upload", x))
           flushed == FlushDeferredUploadCancels(deferred, reqs, registry)
           failed == IF SharedWithAnother(x) THEN slot ELSE SlotAfter(f, "noRemote")
<1>1. /\ Answered("upload", x) /\ client = "up" /\ requests' = reqs
      /\ deferred' = flushed.deferred
      /\ slot' = CancelSlots(failed, flushed.cancel)
      /\ calls' = FailXfer(x)
      /\ UNCHANGED <<status, data, fileOf, target, client, registry, sentTo>>
  BY DEF UploadFailed, Answered, xferVars, upload
<1>2. IsSequence(calls') /\ \A s \in todo' : Ordinary(s) /\ s.do \notin Watched
  BY <1>1, Silent DEF todo
<1>3. /\ CallsInv' /\ \A y \in Xfers : XferOK(y)'
      /\ requests' \in Seq(Requests) /\ ToSet(requests') \subseteq Requests
      /\ \A y \in Xfers : /\ Registered(y)' = Registered(y)
                          /\ UploadAsked(y)' <=> UploadAsked(y) /\ y # x
  BY <1>1, <1>2, AnswerEnds
<1>4. UploadAsked(x) /\ ~ Registered(x)
  BY <1>1 DEF IInv, XferOK, StageOK, Answered, Asked, UploadAsked
<1>5. SlotsOK'
  <2>1. SharedWithAnother(x) => Needed(f)'
    BY <1>1, <1>3 DEF SharedWithAnother, Needed, Registered, UploadAsked
  <2>2. f \in Files /\ \A g \in Files : \/ failed[g] = slot[g]
                                        \/ g = f /\ failed[g] \in {"complete", "idle"}
    BY SlotTypes DEF IInv, DataTypes
  <2>3. failed[f] = "running" => Needed(f)'
    <3>1. CASE SharedWithAnother(x)
      BY <2>1, <3>1
    <3>2. CASE ~ SharedWithAnother(x)
      BY <2>2, <3>2, SlotTypes DEF IInv
    <3> QED
      BY <3>1, <3>2
  <2>4. slot' = CancelSlots(failed, {} \cup flushed.cancel)
    BY <1>1
  <2> HIDE DEF failed
  <2>5. AnswerLeaves(x, f, failed, {}, deferred)
    BY <1>1, <1>3, <1>4, <2>2, <2>3, <2>4 DEF AnswerLeaves
  <2> HIDE DEF reqs
  <2> QED
    BY <1>1, <1>3, <1>4, <2>5, AnsweredSlots
<1>6. DataTypes'
  <2>1. failed \in [Files -> {"idle", "running", "complete", "cancelled"}]
    BY SlotTypes DEF IInv, DataTypes
  <2> HIDE DEF failed
  <2>2. slot' \in [Files -> {"idle", "running", "complete", "cancelled"}]
    BY <1>1, <2>1, SlotTypes DEF IInv
  <2> QED
    BY <1>1, <1>3, <2>2 DEF IInv, DataTypes
<1> QED
  BY <1>3, <1>5, <1>6 DEF IInv, CallsInv

LEMMA UploadAcceptedStays ==
  ASSUME IInv, NEW x \in Xfers, NEW says, UploadAccepted(x, says)
  PROVE  IInv'
<1> DEFINE f == fileOf[x]
           reqs == Without(requests, Request("upload", x))
           flushed == FlushDeferredUploadCancels(deferred \ {f}, reqs, registry)
<1>1. /\ calls = <<>> /\ client = "up" /\ Request("upload", x) \in ToSet(requests)
      /\ ~ Cancelled(x) /\ requests' = reqs /\ registry' = Append(registry, x)
      /\ deferred' = flushed.deferred
      /\ slot' = CancelSlots(SlotAfter(f, says), flushed.cancel)
      /\ \/ calls' = <<Do("report", x), Do("unref", x)>>
         \/ calls' = <<UpdateProgress(f, says)>>
      /\ UNCHANGED <<status, data, fileOf, target, client, sentTo>>
  BY DEF UploadAccepted, Answered, upload
<1>2. /\ IsSequence(requests) /\ ToSet(requests) \subseteq Requests
      /\ IsSequence(registry) /\ ToSet(registry) \subseteq Xfers /\ XferOK(x) /\ f \in Files
  BY AccountSets DEF IInv, DataTypes
<1>3. /\ IsSequence(requests') /\ ToSet(requests') = ToSet(requests) \ {Request("upload", x)}
      /\ IsSequence(registry') /\ ToSet(registry') = ToSet(registry) \cup {x}
  BY <1>1, <1>2, WithoutSet, AppendSet
<1>4. requests' \in Seq(Requests) /\ ToSet(requests') \subseteq Requests /\ registry' \in Seq(Xfers)
  BY <1>2, <1>3, SequenceInto
<1>5. \A y \in Xfers : /\ Registered(y)' <=> Registered(y) \/ y = x
                       /\ UploadAsked(y)' <=> UploadAsked(y) /\ y # x
                       /\ ChatAsked(y)' <=> ChatAsked(y)
  BY <1>3, RequestsDiffer DEF Registered, UploadAsked, ChatAsked
<1>6. \A y \in Xfers \ {x} : /\ ChatAsked(y)' = ChatAsked(y) /\ UploadAsked(y)' = UploadAsked(y)
                             /\ Registered(y)' = Registered(y)
  <2>1. \A y \in Xfers \ {x} : \A k, l : Request(k, y) # Request(l, x)
    BY RequestsDiffer
  <2> QED
    BY <1>3, <2>1 DEF ChatAsked, UploadAsked, Registered
<1>7. UploadAsked(x) /\ ~ ChatAsked(x) /\ ~ Registered(x) /\ status[x] \notin {"none", "done"}
      /\ sentTo[x] = NotSent /\ data[x]
  BY <1>1, <1>2 DEF XferOK, StageOK, DataOK, UploadAsked, Asked
<1>8. SlotAfter(f, says) \in [Files -> {"idle", "running", "complete", "cancelled"}]
      /\ \A g \in Files : \/ SlotAfter(f, says)[g] = slot[g] /\ (g = f => says \notin {"complete", "noRemote"})
                          \/ g = f /\ says = "complete" /\ SlotAfter(f, says)[g] = "complete"
                          \/ g = f /\ says = "noRemote" /\ SlotAfter(f, says)[g] = "idle"
  BY SlotTypes DEF IInv
<1>9. CallsInv' /\ \A s \in todo' : s.do \in Watched => s.do = "report" /\ s.x = x
  <2>1. CASE calls' = <<Do("report", x), Do("unref", x)>>
    <3>1. IsSequence(calls') /\ todo' = {Do("report", x), Do("unref", x)}
      BY <2>1, TupleSets DEF todo
    <3>2. /\ Do("report", x).do = "report" /\ Do("report", x).x = x
          /\ Do("unref", x).do = "unref"
      BY DoFields
    <3>3. \A s \in todo' : Ordinary(s) /\ (s.do \in Watched => s.do = "report" /\ s.x = x)
      BY <3>1, <3>2 DEF Ordinary, Watched
    <3> QED
      BY <1>1, <3>1, <3>3, RestCalls
  <2>2. CASE calls' = <<UpdateProgress(f, says)>>
    <3>1. says = "complete" => slot'[f] = "complete"
      BY <1>1, <1>2, <1>8 DEF CancelSlots
    <3>2. says = "noRemote" => slot'[f] = "idle"
      BY <1>1, <1>2, <1>8 DEF CancelSlots
    <3> QED
      BY <1>1, <2>2, <3>1, <3>2, UpdateCalls
  <2> QED
    BY <1>1, <2>1, <2>2
<1>10. \A y \in Xfers \ {x} : XferOK(y)'
  BY <1>1, <1>6, <1>9, OthersKept
<1>11. XferOK(x)'
  <2>1. Registered(x)' /\ ~ Asked(x)' /\ ~ Cancelled(x)'
    BY <1>1, <1>5, <1>7 DEF Asked, Cancelled
  <2>2. /\ ~ Todo("complete", x)' /\ ~ Todo("endUpload", x)' /\ ~ Todo("endFunction", x)'
    BY <1>9 DEF Todo, Watched
  <2>3. StageOK(x)'
    BY <1>1, <1>7, <2>1 DEF StageOK, Asked
  <2>4. StatementsOK(x)'
    BY <1>1, <1>7, <2>1, <2>2 DEF StatementsOK
  <2>5. DataOK(x)'
    BY <1>1, <1>7, <2>1 DEF DataOK
  <2> QED
    BY <2>3, <2>4, <2>5 DEF XferOK
<1>12. SlotsOK'
  <2>1. Needed(f)'
    BY <1>1, <1>5 DEF Needed
  <2>2. \A g \in Files : \/ SlotAfter(f, says)[g] = slot[g]
                         \/ g = f /\ SlotAfter(f, says)[g] \in {"complete", "idle"}
    BY <1>8
  <2>3. slot' = CancelSlots(SlotAfter(f, says), {} \cup flushed.cancel)
    BY <1>1
  <2>4. AnswerLeaves(x, f, SlotAfter(f, says), {}, deferred \ {f})
    BY <1>1, <2>1, <2>2, <2>3 DEF AnswerLeaves
  <2> HIDE DEF reqs
  <2> QED
    BY <1>1, <1>4, <1>5, <1>7, <2>4, AnsweredSlots
<1>13. DataTypes'
  BY <1>1, <1>4, <1>8, SlotTypes DEF IInv, DataTypes
<1> QED
  BY <1>9, <1>10, <1>11, <1>12, <1>13 DEF IInv, CallsInv

-----------------------------------------------------------------------------
(* What TDLib says of a file reaches its transfers. *)

\* The transfers of a file, and those of the others
LEMMA UploadsSets ==
  ASSUME DataTypes, NEW f
  PROVE  /\ IsSequence(Uploads(f)) /\ IsSequence(OtherUploads(f)) /\ OtherUploads(f) \in Seq(Xfers)
         /\ \A x : x \in ToSet(Uploads(f)) <=> x \in Xfers /\ Registered(x) /\ fileOf[x] = f
         /\ \A x : x \in ToSet(OtherUploads(f)) <=> x \in Xfers /\ Registered(x) /\ fileOf[x] # f
<1>1. IsSequence(registry) /\ ToSet(registry) \subseteq Xfers
  BY AccountSets
<1>2. /\ IsSequence(Uploads(f)) /\ ToSet(Uploads(f)) = ToSet(registry) \cap {x \in Xfers : fileOf[x] = f}
      /\ IsSequence(OtherUploads(f))
      /\ ToSet(OtherUploads(f)) = ToSet(registry) \cap {x \in Xfers : fileOf[x] # f}
  BY <1>1, OnlySet DEF Uploads, OtherUploads
<1>3. OtherUploads(f) \in Seq(Xfers)
  BY <1>2, SequenceInto
<1> QED
  BY <1>2, <1>3 DEF Registered

\* What an update may leave to be executed and in the registry
Told(f, new) ==
  /\ IsSequence(new) /\ Calling(new)
  /\ \A s \in ToSet(new) : Ordinary(s) /\ s.do \notin {"endFunction", "cancelFunction"}
  /\ \/ /\ UNCHANGED <<registry, sentTo>>
        /\ \A s \in ToSet(new) : s.do \in Watched => s.do = "report" /\ s.x \in ToSet(Uploads(f))
     \/ /\ registry' = OtherUploads(f) /\ slot[f] # "running"
        /\ sentTo' \in [Xfers -> AllTargets \cup {NotSent}]
        /\ \A x \in Xfers \ ToSet(Uploads(f)) : sentTo'[x] = sentTo[x]
        /\ \A s \in ToSet(new) : s.do \in Watched => s.do # "report" /\ s.x \in ToSet(Uploads(f))

\* The statements for each of some transfers
LEMMA EachStatements ==
  ASSUME NEW xs, IsSequence(xs), NEW ss, ss = [i \in DOMAIN xs |-> ss[i]], NEW does,
         \A i \in DOMAIN xs : /\ IsSequence(ss[i])
                              /\ \A s \in ToSet(ss[i]) : s.do \in does /\ s.x = xs[i]
  PROVE  /\ IsSequence(FlattenSeq(ss))
         /\ \A s \in ToSet(FlattenSeq(ss)) : s.do \in does /\ s.x \in ToSet(xs)
<1> DEFINE S == {s \in UNION {ToSet(ss[i]) : i \in DOMAIN xs} : s.do \in does /\ s.x \in ToSet(xs)}
<1>1. ASSUME NEW i \in DOMAIN xs PROVE IsSequence(ss[i]) /\ ToSet(ss[i]) \subseteq S
  BY DEF ToSet
<1>2. \A s \in S : s.do \in does /\ s.x \in ToSet(xs)
  OBVIOUS
<1> HIDE DEF S
<1> QED
  BY <1>1, <1>2, EachSet

\* finishPurpleUpload, of a file that was sent or of one that was not
LEMMA FinishStatements ==
  ASSUME NEW x, NEW list,
         \/ list = <<Do("complete", x), Do("endUpload", x), Do("unref", x)>>
         \/ list = <<Do("cancelUnlessOver", x), Do("unref", x)>>
  PROVE  /\ IsSequence(list)
         /\ \A s \in ToSet(list) : s.x = x /\ s.do \in {"complete", "endUpload", "unref", "cancelUnlessOver"}
<1>1. CASE list = <<Do("complete", x), Do("endUpload", x), Do("unref", x)>>
  <2>1. IsSequence(list) /\ ToSet(list) = {Do("complete", x), Do("endUpload", x), Do("unref", x)}
    BY <1>1, TupleSets
  <2> QED
    BY <2>1, DoFields
<1>2. CASE list = <<Do("cancelUnlessOver", x), Do("unref", x)>>
  <2>1. IsSequence(list) /\ ToSet(list) = {Do("cancelUnlessOver", x), Do("unref", x)}
    BY <1>2, TupleSets
  <2> QED
    BY <2>1, DoFields
<1> QED
  BY <1>1, <1>2

LEMMA UpdateTells ==
  ASSUME IInv, UpdateFileTransferProgress
  PROVE  \E new : Told(Head(calls).f, new)
<1> PICK f : f = Head(calls).f
  OBVIOUS
<1> DEFINE says == Head(calls).says
<1>1. /\ At("updateProgress") /\ client = "up"
      /\ says = "complete" => slot[f] = "complete"
      /\ says = "noRemote" => slot[f] = "idle"
  BY DEF UpdateFileTransferProgress, IInv, UpdateOK
<1>2. IsSequence(Uploads(f)) /\ sentTo \in [Xfers -> AllTargets \cup {NotSent}]
  BY UploadsSets DEF IInv, DataTypes
<1>3. \/ Calling(<<>>) /\ UNCHANGED <<registry, sentTo>>
      \/ says = "noRemote" /\ CancelUploads(f)
      \/ ReportUploads(f)
      \/ says = "complete" /\ FinishUploads(f)
  BY DEF UpdateFileTransferProgress, Returning
<1>4. CASE Calling(<<>>) /\ UNCHANGED <<registry, sentTo>>
  BY <1>4, EmptySet DEF Told
<1>5. CASE says = "noRemote" /\ CancelUploads(f)
  <2> DEFINE xs == Uploads(f)
             ss == [i \in DOMAIN xs |-> FinishUpload(xs[i], FALSE)]
             does == {"unref", "cancelUnlessOver"}
  <2>1. registry' = OtherUploads(f) /\ sentTo' = sentTo /\ Calling(FlattenSeq(ss))
    BY <1>5 DEF CancelUploads, ForEach
  <2>2. ASSUME NEW i \in DOMAIN xs
        PROVE  IsSequence(ss[i]) /\ \A s \in ToSet(ss[i]) : s.do \in does /\ s.x = xs[i]
    <3>1. ss[i] = <<Do("cancelUnlessOver", xs[i]), Do("unref", xs[i])>>
      BY DEF FinishUpload
    <3> HIDE DEF ss
    <3>2. /\ IsSequence(ss[i])
          /\ ToSet(ss[i]) = {Do("cancelUnlessOver", xs[i]), Do("unref", xs[i])}
      BY <3>1, TupleSets
    <3>3. /\ Do("cancelUnlessOver", xs[i]).do \in does /\ Do("cancelUnlessOver", xs[i]).x = xs[i]
          /\ Do("unref", xs[i]).do \in does /\ Do("unref", xs[i]).x = xs[i]
      BY DoFields
    <3> QED
      BY <3>2, <3>3
  <2>3. ss = [i \in DOMAIN xs |-> ss[i]]
    OBVIOUS
  <2> HIDE DEF ss, does
  <2>4. /\ IsSequence(FlattenSeq(ss))
        /\ \A s \in ToSet(FlattenSeq(ss)) : s.do \in does /\ s.x \in ToSet(xs)
    BY <1>2, <2>2, <2>3, EachStatements
  <2>5. Told(f, FlattenSeq(ss))
    BY <1>1, <1>2, <1>5, <2>1, <2>4 DEF Told, Ordinary, Watched, does
  <2> QED
    BY <2>5
<1>6. CASE ReportUploads(f)
  <2> DEFINE xs == Uploads(f)
             reports == [i \in DOMAIN xs |-> <<Do("report", xs[i])>>]
             unrefs == [i \in DOMAIN xs |-> <<Do("unref", xs[i])>>]
             new == FlattenSeq(reports) \o FlattenSeq(unrefs)
             report == {"report"}
             unref == {"unref"}
  <2>1. UNCHANGED <<registry, sentTo>> /\ Calling(new)
    BY <1>6 DEF ReportUploads, ForEach
  <2>2. /\ \A i \in DOMAIN xs : /\ IsSequence(reports[i])
                                /\ \A s \in ToSet(reports[i]) : s.do \in report /\ s.x = xs[i]
        /\ \A i \in DOMAIN xs : /\ IsSequence(unrefs[i])
                                /\ \A s \in ToSet(unrefs[i]) : s.do \in unref /\ s.x = xs[i]
    BY SingleSet, DoFields
  <2>3. reports = [i \in DOMAIN xs |-> reports[i]] /\ unrefs = [i \in DOMAIN xs |-> unrefs[i]]
    OBVIOUS
  <2> HIDE DEF reports, unrefs, report, unref
  <2>4. /\ IsSequence(FlattenSeq(reports))
        /\ \A s \in ToSet(FlattenSeq(reports)) : s.do \in report /\ s.x \in ToSet(xs)
    BY <1>2, <2>2, <2>3, EachStatements
  <2>5. /\ IsSequence(FlattenSeq(unrefs))
        /\ \A s \in ToSet(FlattenSeq(unrefs)) : s.do \in unref /\ s.x \in ToSet(xs)
    BY <1>2, <2>2, <2>3, EachStatements
  <2>6. IsSequence(new) /\ ToSet(new) = ToSet(FlattenSeq(reports)) \cup ToSet(FlattenSeq(unrefs))
    BY <2>4, <2>5, ConcatSet
  <2> HIDE DEF new
  <2>7. Told(f, new)
    BY <2>1, <2>4, <2>5, <2>6 DEF Told, Ordinary, Watched, report, unref
  <2> QED
    BY <2>7
<1>7. CASE says = "complete" /\ FinishUploads(f)
  <2> DEFINE xs == Uploads(f)
  <2>1. PICK chat \in Chats :
          LET to == [x \in ToSet(xs) |-> ResolveTarget(target[x], chat)] IN
            /\ registry' = OtherUploads(f)
            /\ sentTo' = [x \in Xfers |-> IF x \in DOMAIN to THEN to[x] ELSE sentTo[x]]
            /\ Calling(ForEach(xs, LAMBDA x : FinishUpload(x, to[x] # NotSent)))
    BY <1>7 DEF FinishUploads
  <2> DEFINE to == [x \in ToSet(xs) |-> ResolveTarget(target[x], chat)]
             ss == [i \in DOMAIN xs |-> FinishUpload(xs[i], to[xs[i]] # NotSent)]
             does == {"complete", "endUpload", "unref", "cancelUnlessOver"}
  <2>2. /\ registry' = OtherUploads(f) /\ Calling(FlattenSeq(ss))
        /\ sentTo' = [x \in Xfers |-> IF x \in ToSet(xs) THEN to[x] ELSE sentTo[x]]
    BY <2>1 DEF ForEach
  <2>3. \A x \in ToSet(xs) : to[x] \in AllTargets \cup {NotSent}
    BY DEF ResolveTarget, AllTargets
  <2>4. ASSUME NEW i \in DOMAIN xs
        PROVE  IsSequence(ss[i]) /\ \A s \in ToSet(ss[i]) : s.do \in does /\ s.x = xs[i]
    <3>1. \/ ss[i] = <<Do("complete", xs[i]), Do("endUpload", xs[i]), Do("unref", xs[i])>>
          \/ ss[i] = <<Do("cancelUnlessOver", xs[i]), Do("unref", xs[i])>>
      BY DEF FinishUpload
    <3> HIDE DEF ss
    <3> QED
      BY <3>1, FinishStatements
  <2>5. ss = [i \in DOMAIN xs |-> ss[i]]
    OBVIOUS
  <2> HIDE DEF ss, to, does
  <2>6. /\ IsSequence(FlattenSeq(ss))
        /\ \A s \in ToSet(FlattenSeq(ss)) : s.do \in does /\ s.x \in ToSet(xs)
    BY <1>2, <2>4, <2>5, EachStatements
  <2>7. sentTo' \in [Xfers -> AllTargets \cup {NotSent}]
    BY <1>2, <2>2, <2>3
  <2>8. \A x \in Xfers \ ToSet(xs) : sentTo'[x] = sentTo[x]
    BY <2>2
  <2>9. Told(f, FlattenSeq(ss))
    BY <1>1, <1>7, <2>2, <2>6, <2>7, <2>8 DEF Told, Ordinary, Watched, does
  <2> QED
    BY <2>9
<1> QED
  BY <1>3, <1>4, <1>5, <1>6, <1>7

LEMMA UpdateStays ==
  ASSUME IInv, UpdateFileTransferProgress
  PROVE  IInv'
<1> PICK f : f = Head(calls).f
  OBVIOUS
<1>1. PICK new : Told(f, new)
  BY UpdateTells
<1>2. /\ calls # <<>> /\ Head(calls).do = "updateProgress" /\ client = "up"
      /\ ToSet(Tail(calls)) = {}
      /\ UNCHANGED <<status, data, fileOf, target, client, requests, deferred, slot>>
  BY DEF UpdateFileTransferProgress, IInv, UpdateOK, At, upload
<1>3. /\ CallsInv' /\ ~ At("cancel")' /\ todo' = ToSet(new) /\ todo = {Head(calls)}
  BY <1>1, <1>2, NextCalls DEF IInv, CallsInv, Told
<1>4. \A x : x \in ToSet(Uploads(f)) <=> x \in Xfers /\ Registered(x) /\ fileOf[x] = f
  BY UploadsSets DEF IInv
<1>5. \A x : x \in ToSet(OtherUploads(f)) <=> x \in Xfers /\ Registered(x) /\ fileOf[x] # f
  BY UploadsSets DEF IInv
<1>6. \A x \in Xfers : /\ ChatAsked(x)' = ChatAsked(x) /\ UploadAsked(x)' = UploadAsked(x)
                       /\ Asked(x)' = Asked(x)
                       /\ Registered(x)' <=> Registered(x) /\ (registry' = registry \/ fileOf[x] # f)
  <2>1. registry' = registry \/ registry' = OtherUploads(f)
    BY <1>1 DEF Told
  <2> QED
    BY <1>2, <1>5, <2>1 DEF ChatAsked, UploadAsked, Asked, Registered
<1>7. ASSUME NEW x \in Xfers PROVE XferOK(x)'
  <2>1. XferOK(x) /\ ~ Todo("cancelFunction", x)
    BY <1>2, <1>3 DEF IInv, Todo
  <2>2. ~ Todo("endFunction", x)' /\ ~ Todo("cancelFunction", x)'
    BY <1>1, <1>3 DEF Told, Todo
  <2>3. StageOK(x)'
    <3>1. Registered(x)' \/ Asked(x) \/ status[x] = "none" => sentTo'[x] = sentTo[x]
      BY <1>1, <1>4, <1>5, <1>6, <2>1 DEF Told, XferOK, StageOK, Registered
    <3> QED
      BY <1>2, <1>6, <2>1, <3>1 DEF XferOK, StageOK
  <2>4. StatementsOK(x)'
    <3>1. Todo("report", x)' => x \in ToSet(Uploads(f))
      BY <1>1, <1>3 DEF Told, Todo, Watched
    <3>2. Todo("complete", x)' \/ Todo("endUpload", x)' =>
            x \in ToSet(Uploads(f)) /\ registry' = OtherUploads(f)
      BY <1>1, <1>3 DEF Told, Todo, Watched
    <3>3. Registered(x) => ~ Asked(x) /\ status[x] # "none"
      BY <2>1 DEF XferOK, StageOK
    <3>4. x \in ToSet(Uploads(f)) /\ registry' = OtherUploads(f) => ~ Registered(x)'
      BY <1>4, <1>5 DEF Registered
    <3> QED
      BY <1>2, <1>4, <1>6, <2>2, <3>1, <3>2, <3>3, <3>4 DEF StatementsOK
  <2>5. DataOK(x)'
    <3>1. Cancelled(x)' = Cancelled(x) /\ (Registered(x)' => Registered(x)) /\ Asked(x)' = Asked(x)
      BY <1>2, <1>6 DEF Cancelled
    <3> QED
      BY <1>2, <2>1, <2>2, <3>1 DEF XferOK, DataOK
  <2> QED
    BY <2>3, <2>4, <2>5 DEF XferOK
<1>8. SlotsOK'
  <2>1. registry' = registry \/ slot[f] # "running"
    BY <1>1 DEF Told
  <2>2. \A x \in Xfers : (Registered(x) \/ UploadAsked(x))' => Registered(x) \/ UploadAsked(x)
    BY <1>6
  <2>3. ASSUME NEW g \in Files, slot[g] = "running", NEW x \in Xfers, fileOf[x] = g, Registered(x)
        PROVE  Registered(x)'
    BY <1>6, <2>1, <2>3
  <2>4. \A x \in Xfers : UploadAsked(x)' <=> UploadAsked(x)
    BY <1>6
  <2> QED
    BY <1>2, <2>2, <2>3, <2>4 DEF IInv, SlotsOK
<1>9. DataTypes'
  <2>1. registry' \in Seq(Xfers) /\ sentTo' \in [Xfers -> AllTargets \cup {NotSent}]
    BY <1>1, UploadsSets DEF IInv, DataTypes, Told
  <2> QED
    BY <1>2, <2>1 DEF IInv, DataTypes
<1> QED
  BY <1>3, <1>7, <1>8, <1>9 DEF IInv, CallsInv

-----------------------------------------------------------------------------
(* The theorems *)

LEMMA InitIInv == Init => IInv
<1> SUFFICES ASSUME Init PROVE IInv
  OBVIOUS
<1>1. /\ calls = <<>> /\ registry = <<>> /\ requests = <<>> /\ client = "up"
      /\ status = [x \in Xfers |-> "none"] /\ data = [x \in Xfers |-> FALSE]
      /\ fileOf \in [Xfers -> Files] /\ target \in [Xfers -> Targets]
      /\ slot = [f \in Files |-> "idle"] /\ sentTo = [x \in Xfers |-> NotSent]
  BY DEF Init, XferInit
<1>2. IsSequence(calls) /\ todo = {} /\ ToSet(registry) = {} /\ ToSet(requests) = {}
  BY <1>1, EmptySet DEF todo
<1>3. DataTypes
  BY <1>1, EmptySeq, TargetsAssumption DEF DataTypes, Statuses
<1>4. CallsOK /\ UpdateOK /\ CloseOK
  BY <1>1, <1>2 DEF CallsOK, UpdateOK, CloseOK, At
<1>5. \A x \in Xfers : ~ Registered(x) /\ ~ ChatAsked(x) /\ ~ UploadAsked(x) /\ ~ Asked(x)
  BY <1>2 DEF Registered, ChatAsked, UploadAsked, Asked
<1>6. \A x \in Xfers : XferOK(x)
  <2>1. \A what, x : ~ Todo(what, x)
    BY <1>2 DEF Todo
  <2> QED
    BY <1>1, <1>5, <2>1 DEF XferOK, StageOK, StatementsOK, DataOK
<1>7. SlotsOK
  BY <1>1, <1>5 DEF SlotsOK
<1> QED
  BY <1>3, <1>4, <1>6, <1>7 DEF IInv

LEMMA NextIInv == IInv /\ [Next]_vars => IInv'
<1> SUFFICES ASSUME IInv, [Next]_vars PROVE IInv'
  OBVIOUS
<1>1. CASE UNCHANGED vars
  BY <1>1 DEF vars, xferVars, upload, account, IInv, DataTypes, CallsOK, Todo, todo, At, UpdateOK,
              CloseOK, XferOK, StageOK, StatementsOK, DataOK, Registered, ChatAsked, UploadAsked,
              Asked, Cancelled, SlotsOK
<1>2. CASE Libpurple
  BY <1>2, LibpurpleStays
<1>3. ASSUME NEW x \in Xfers, SendToChat(x) \/ SendToUser(x) \/ SendToNobody(x) PROVE IInv'
  BY <1>3, SendStays
<1>4. ASSUME NEW x \in Xfers,
             PrivateChatCreated(x) \/ PrivateChatNotNeeded(x) \/ PrivateChatRefused(x)
      PROVE IInv'
  BY <1>4, ChatCreatedStays, ChatAnswerStays
<1>5. ASSUME NEW x \in Xfers, NEW says, UploadAccepted(x, says) \/ UploadNotNeeded(x, says)
      PROVE IInv'
  BY <1>5, UploadAcceptedStays, UploadNotNeededStays
<1>6. ASSUME NEW x \in Xfers, UploadFailed(x) PROVE IInv'
  BY <1>6, UploadFailedStays
<1>7. ASSUME NEW f \in Files, NEW says, FileUpdate(f, says) PROVE IInv'
  BY <1>7, FileUpdateStays
<1>8. CASE Report \/ ShowProgress \/ Complete \/ EndUpload \/ EndFunction
  BY <1>8, ReportStays, ShowProgressStays, FinishingStays
<1>9. CASE UpdateFileTransferProgress
  BY <1>9, UpdateStays
<1>10. CASE CancelFunction
  BY <1>10, CancelFunctionStays
<1>11. CASE Disconnect \/ CloseTransfers \/ CloseRequests
  BY <1>11, DisconnectStays, ClosingStays
<1> QED
  BY <1>1, <1>2, <1>3, <1>4, <1>5, <1>6, <1>7, <1>8, <1>9, <1>10, <1>11 DEF Next

\* The invariant of the uploads: what may still be executed, what has its data, what runs.
THEOREM UploadInvariance == Spec => []IInv
<1> QED
  BY InitIInv, NextIInv, PTL DEF Spec

LEMMA IInvGivesSlots == IInv => SlotsFollowTransfers
<1> SUFFICES ASSUME IInv, client = "up" PROVE SlotsFollowTransfers
  BY DEF SlotsFollowTransfers
<1>1. /\ IsSequence(registry) /\ ToSet(registry) \subseteq Xfers
      /\ ToSet(requests) \subseteq Requests
  BY AccountSets DEF IInv
<1>2. \A f : HasFileTransfer(registry, f) <=> \E x \in ToSet(registry) : fileOf[x] = f
  BY <1>1, HasTransferIs
<1>3. HasPendingUploadRequests(requests) <=> \E x \in Xfers : UploadAsked(x)
  BY <1>1, PendingIs DEF UploadAsked
<1>4. ASSUME NEW x \in Xfers, x \in ToSet(registry) \/ Request("upload", x) \in ToSet(requests)
      PROVE slot[fileOf[x]] # "cancelled"
  BY <1>4 DEF IInv, SlotsOK, Registered, UploadAsked
<1>5. ASSUME ~ HasPendingUploadRequests(requests), NEW f \in Files, slot[f] = "running"
      PROVE HasFileTransfer(registry, f)
  <2>1. \E x \in Xfers : fileOf[x] = f /\ Registered(x)
    BY <1>3, <1>5 DEF IInv, SlotsOK
  <2> QED
    BY <1>2, <2>1 DEF Registered
<1> QED
  BY <1>4, <1>5 DEF SlotsFollowTransfers

\* TDLib does not lose an upload that a transfer still needs, and does not go on with one
\* that none does (deferOrCancelUpload, flushDeferredUploadCancels).
THEOREM SlotsFollow == Spec => []SlotsFollowTransfers
<1> QED
  BY UploadInvariance, IInvGivesSlots, PTL

\* Only an update says that a file is there, and no transfer waits for one it was cancelled.
LEMMA SentSteps ==
  ASSUME IInv, [Next]_vars
  PROVE  \A x \in Xfers : sentTo'[x] # sentTo[x] => sentTo[x] = NotSent /\ ~ Cancelled(x)
<1>1. CASE UpdateFileTransferProgress
  <2> PICK f : f = Head(calls).f
    OBVIOUS
  <2>1. PICK new : Told(f, new)
    BY <1>1, UpdateTells
  <2>2. \A x : x \in ToSet(Uploads(f)) <=> x \in Xfers /\ Registered(x) /\ fileOf[x] = f
    BY UploadsSets DEF IInv
  <2>3. calls # <<>> /\ Head(calls).do = "updateProgress" /\ client = "up" /\ ToSet(Tail(calls)) = {}
    BY <1>1 DEF UpdateFileTransferProgress, IInv, UpdateOK, At
  <2>4. todo = {Head(calls)}
    BY <2>3, TailSet DEF IInv, CallsOK, todo
  <2>5. ASSUME NEW x \in Xfers, sentTo'[x] # sentTo[x] PROVE sentTo[x] = NotSent /\ ~ Cancelled(x)
    <3>1. Registered(x)
      BY <2>1, <2>2, <2>5 DEF Told
    <3>2. ~ Todo("cancelFunction", x)
      BY <2>3, <2>4 DEF Todo
    <3> QED
      BY <2>3, <3>1, <3>2 DEF IInv, XferOK, StageOK, DataOK
  <2> QED
    BY <2>5
<1>2. CASE ~ UpdateFileTransferProgress
  <2>1. sentTo' = sentTo
    BY <1>2 DEF Next, Libpurple, SendToChat, SendToUser, SendToNobody, NewTransfer, PrivateChatCreated,
                PrivateChatNotNeeded, PrivateChatRefused, UploadAccepted, UploadNotNeeded, UploadFailed,
                FileUpdate, Report, ShowProgress, Complete, EndUpload, CancelFunction, EndFunction,
                Disconnect, CloseTransfers, CloseRequests, vars
  <2> QED
    BY <2>1
<1> QED
  BY <1>1, <1>2

\* A file is sent at most once, and not after the user cancelled it, whatever handlers do
\* between the statements of finishDocumentUploads.
THEOREM SentOnce == Spec => SentOnceIfWanted
<1>1. IInv /\ [Next]_vars =>
        [\A x \in Xfers : sentTo'[x] # sentTo[x] => sentTo[x] = NotSent /\ ~ Cancelled(x)]_vars
  BY SentSteps
<1> QED
  BY <1>1, UploadInvariance, PTL DEF Spec, SentOnceIfWanted

-----------------------------------------------------------------------------
(* How often a sequence holds something *)

LEMMA ConcatAt ==
  ASSUME NEW a, NEW b, IsSequence(a), IsSequence(b)
  PROVE  /\ IsSequence(a \o b) /\ Len(a \o b) = Len(a) + Len(b)
         /\ Len(a) \in Nat /\ Len(b) \in Nat /\ DOMAIN (a \o b) = 1 .. Len(a) + Len(b)
         /\ DOMAIN a = 1 .. Len(a) /\ DOMAIN b = 1 .. Len(b)
         /\ \A i \in 1 .. Len(a) + Len(b) : (a \o b)[i] = IF i <= Len(a) THEN a[i] ELSE b[i - Len(a)]
<1> DEFINE S == ToSet(a) \cup ToSet(b)
<1>1. a \in Seq(S) /\ b \in Seq(S)
  BY SequenceInto
<1> HIDE DEF S
<1>2. /\ Len(a \o b) = Len(a) + Len(b)
      /\ \A i \in 1 .. Len(a) + Len(b) : (a \o b)[i] = IF i <= Len(a) THEN a[i] ELSE b[i - Len(a)]
  BY <1>1, ConcatProperties
<1>3. IsSequence(a \o b)
  BY ConcatSet
<1> QED
  BY <1>2, <1>3, SequenceFacts

\* What Occurrences computes
IsTally(f, s, S, n) ==
  f = [k \in 0 .. n |-> IF k = 0 THEN 0 ELSE f[k - 1] + (IF s[k] \in S THEN 1 ELSE 0)]

LEMMA TallyExists ==
  ASSUME NEW s, NEW S, NEW n \in Nat
  PROVE  \E f : IsTally(f, s, S, n)
<1> DEFINE G(r, x) == r + (IF x \in S THEN 1 ELSE 0)
           Upto(f, m) == f = [k \in 0 .. m |-> IF k = 0 THEN 0 ELSE G(f[k - 1], s[k])]
           T == {m \in Nat : \E f : Upto(f, m)}
<1> HIDE DEF G
<1>1. 0 \in T
  <2>1. Upto([k \in 0 .. 0 |-> 0], 0)
    OBVIOUS
  <2> QED
    BY <2>1
<1>2. ASSUME NEW m \in 1 .. n, m - 1 \in T PROVE m \in T
  <2>1. PICK f : Upto(f, m - 1)
    BY <1>2
  <2> DEFINE g == [k \in 0 .. m |-> IF k < m THEN f[k] ELSE G(f[k - 1], s[k])]
  <2>2. \A k \in 0 .. m : g[k] = IF k = 0 THEN 0 ELSE G(g[k - 1], s[k])
    <3> TAKE k \in 0 .. m
    <3>1. CASE k < m
      <4>1. k \in 0 .. m - 1 /\ (k # 0 => k - 1 \in 0 .. m - 1 /\ k - 1 \in 0 .. m /\ k - 1 < m)
        BY <3>1
      <4>2. f[k] = IF k = 0 THEN 0 ELSE G(f[k - 1], s[k])
        BY <2>1, <4>1
      <4>3. k # 0 => g[k - 1] = f[k - 1]
        BY <4>1
      <4> QED
        BY <3>1, <4>1, <4>2, <4>3
    <3>2. CASE k = m
      <4>1. k - 1 \in 0 .. m /\ k - 1 < m /\ k # 0 /\ ~(k < m)
        BY <3>2
      <4>2. g[k - 1] = f[k - 1]
        BY <4>1
      <4> QED
        BY <3>2, <4>1, <4>2
    <3> QED
      BY <3>1, <3>2
  <2> HIDE DEF g
  <2>3. DOMAIN g = 0 .. m /\ g = [k \in DOMAIN g |-> g[k]]
    BY DEF g
  <2>4. Upto(g, m)
    BY <2>2, <2>3
  <2> HIDE DEF Upto
  <2> QED
    BY <2>4
<1>3. n \in T
  <2> HIDE DEF T
  <2> QED
    BY <1>1, <1>2, Climbing
<1>4. PICK f : Upto(f, n)
  BY <1>3
<1> QED
  BY <1>4 DEF IsTally, G

\* The count, one element after the other
Tally(f, s, S) ==
  /\ Len(s) \in Nat /\ Occurrences(s, S) = f[Len(s)] /\ f[0] = 0
  /\ \A k \in 1 .. Len(s) : f[k] = f[k - 1] + (IF s[k] \in S THEN 1 ELSE 0)
  /\ \A k \in 0 .. Len(s) : f[k] \in Nat

LEMMA TallyIs ==
  ASSUME NEW s, IsSequence(s), NEW S
  PROVE  (\E f : Tally(f, s, S)) /\ Occurrences(s, S) \in Nat
<1>0. PICK n : n = Len(s)
  OBVIOUS
<1>1. n \in Nat
  BY <1>0, SequenceFacts
<1> DEFINE f == CHOOSE f : IsTally(f, s, S, n)
<1>2. IsTally(f, s, S, n)
  BY <1>1, TallyExists
<1>3. Occurrences(s, S) = f[n]
  BY <1>0 DEF Occurrences, IsTally
<1> HIDE DEF f
<1>4. f[0] = 0 /\ \A k \in 1 .. n : f[k] = f[k - 1] + (IF s[k] \in S THEN 1 ELSE 0)
  <2>1. f[0] = 0
    BY <1>1, <1>2 DEF IsTally
  <2>2. ASSUME NEW k \in 1 .. n
        PROVE f[k] = f[k - 1] + (IF s[k] \in S THEN 1 ELSE 0)
    <3>1. k \in 0 .. n /\ k # 0
      BY <1>1
    <3> QED
      BY <1>2, <3>1 DEF IsTally
  <2> QED
    BY <2>1, <2>2
<1>5. \A k \in 0 .. n : f[k] \in Nat
  <2> DEFINE T == {k \in 0 .. n : f[k] \in Nat}
  <2>1. 0 \in T
    BY <1>1, <1>4
  <2>2. ASSUME NEW k \in 1 .. n, k - 1 \in T PROVE k \in T
    BY <1>1, <1>4, <2>2
  <2> HIDE DEF T
  <2>3. \A k \in 0 .. n : k \in T
    BY <1>1, <2>1, <2>2, Climbing
  <2> QED
    BY <2>3 DEF T
<1>6. Tally(f, s, S)
  BY <1>0, <1>1, <1>3, <1>4, <1>5 DEF Tally
<1> QED
  BY <1>1, <1>3, <1>5, <1>6

LEMMA CountConcat ==
  ASSUME NEW a, NEW b, IsSequence(a), IsSequence(b), NEW S
  PROVE  Occurrences(a \o b, S) = Occurrences(a, S) + Occurrences(b, S)
<1>1. PICK m, n : m = Len(a) /\ n = Len(b)
  OBVIOUS
<1>2. PICK c : c = a \o b
  OBVIOUS
<1>3. /\ m \in Nat /\ n \in Nat /\ Len(c) = m + n /\ IsSequence(c)
      /\ \A i \in 1 .. m + n : c[i] = IF i <= m THEN a[i] ELSE b[i - m]
  BY <1>1, <1>2, ConcatAt
<1>4. PICK fa, fb, fc : Tally(fa, a, S) /\ Tally(fb, b, S) /\ Tally(fc, c, S)
  BY <1>3, TallyIs
<1>5. \A k \in 0 .. m : fc[k] = fa[k]
  <2> DEFINE T == {k \in 0 .. m : fc[k] = fa[k]}
  <2>1. 0 \in T
    BY <1>3, <1>4 DEF Tally
  <2>2. ASSUME NEW k \in 1 .. m, k - 1 \in T PROVE k \in T
    <3>1. c[k] = a[k] /\ k \in 1 .. m + n
      BY <1>3
    <3> QED
      BY <1>1, <1>3, <1>4, <2>2, <3>1 DEF Tally
  <2> HIDE DEF T
  <2>3. \A k \in 0 .. m : k \in T
    BY <1>3, <2>1, <2>2, Climbing
  <2> QED
    BY <2>3 DEF T
<1>6. \A k \in 0 .. n : fc[m + k] = fa[m] + fb[k]
  <2> DEFINE T == {k \in 0 .. n : fc[m + k] = fa[m] + fb[k]}
  <2>1. 0 \in T
    BY <1>1, <1>3, <1>4, <1>5 DEF Tally
  <2>2. ASSUME NEW k \in 1 .. n, k - 1 \in T PROVE k \in T
    <3>1. /\ m + k \in 1 .. m + n /\ ~(m + k <= m) /\ m + k - m = k /\ m + k - 1 = m + (k - 1)
          /\ k \in 0 .. n /\ k - 1 \in 0 .. n
      BY <1>3
    <3>2. c[m + k] = b[k]
      BY <1>3, <3>1
    <3>3. PICK j, i : j = m + k /\ i = m + (k - 1)
      OBVIOUS
    <3>4. j \in 1 .. Len(c) /\ j - 1 = i /\ c[j] = b[k]
      BY <1>3, <3>1, <3>2, <3>3
    <3>5. fc[j] = fc[i] + (IF b[k] \in S THEN 1 ELSE 0)
      BY <1>4, <3>4 DEF Tally
    <3>6. /\ fb[k] = fb[k - 1] + (IF b[k] \in S THEN 1 ELSE 0)
          /\ fa[m] \in Nat /\ fb[k - 1] \in Nat
      BY <1>1, <1>3, <1>4, <3>1 DEF Tally
    <3>7. fc[i] = fa[m] + fb[k - 1]
      BY <2>2, <3>3
    <3>8. fc[j] = fa[m] + fb[k]
      BY <3>5, <3>6, <3>7
    <3> QED
      BY <3>1, <3>3, <3>8
  <2> HIDE DEF T
  <2>3. \A k \in 0 .. n : k \in T
    BY <1>3, <2>1, <2>2, Climbing
  <2> QED
    BY <2>3 DEF T
<1>7. fc[m + n] = fa[m] + fb[n]
  BY <1>3, <1>6
<1> QED
  BY <1>1, <1>2, <1>3, <1>4, <1>7 DEF Tally

LEMMA CountFew ==
  ASSUME NEW S
  PROVE  /\ Occurrences(<<>>, S) = 0
         /\ \A e : Occurrences(<<e>>, S) = IF e \in S THEN 1 ELSE 0
<1>1. Occurrences(<<>>, S) = 0
  <2>1. PICK f : Tally(f, <<>>, S)
    BY EmptySet, TallyIs
  <2>2. Len(<<>>) = 0
    OBVIOUS
  <2> QED
    BY <2>1, <2>2 DEF Tally
<1>2. ASSUME NEW e PROVE Occurrences(<<e>>, S) = IF e \in S THEN 1 ELSE 0
  <2>1. PICK s : s = <<e>>
    OBVIOUS
  <2>2. Len(s) = 1 /\ s[1] = e /\ IsSequence(s)
    BY <2>1, SingleSet
  <2>3. PICK f : Tally(f, s, S)
    BY <2>2, TallyIs
  <2>4. f[1] = f[0] + (IF e \in S THEN 1 ELSE 0) /\ f[0] = 0 /\ Occurrences(s, S) = f[1]
    <3>1. 1 \in 1 .. Len(s) /\ 1 - 1 = 0
      BY <2>2
    <3> QED
      BY <2>2, <2>3, <3>1 DEF Tally
  <2> QED
    BY <2>1, <2>4
<1> QED
  BY <1>1, <1>2

LEMMA CountAppend ==
  ASSUME NEW s, IsSequence(s), NEW e, NEW S
  PROVE  Occurrences(Append(s, e), S) = Occurrences(s, S) + (IF e \in S THEN 1 ELSE 0)
<1>1. s \in Seq(ToSet(s) \cup {e})
  BY SequenceInto
<1>2. Append(s, e) = s \o <<e>>
  BY <1>1, AppendIsConcat
<1> QED
  BY <1>2, SingleSet, CountConcat, CountFew

LEMMA CountTail ==
  ASSUME NEW s, IsSequence(s), s # <<>>, NEW S
  PROVE  Occurrences(s, S) = Occurrences(Tail(s), S) + (IF Head(s) \in S THEN 1 ELSE 0)
<1>1. PICK t, h : t = Tail(s) /\ h = Head(s)
  OBVIOUS
<1>2. IsSequence(t) /\ IsSequence(<<h>>)
  BY <1>1, TailSet, SingleSet
<1>3. s = <<h>> \o t
  BY <1>1 DEF IsSequence
<1>4. Occurrences(s, S) = Occurrences(<<h>>, S) + Occurrences(t, S)
  BY <1>2, <1>3, CountConcat
<1>5. Occurrences(t, S) \in Nat
  BY <1>2, TallyIs
<1>6. Occurrences(<<h>>, S) = IF h \in S THEN 1 ELSE 0
  BY CountFew
<1>7. Occurrences(s, S) = Occurrences(t, S) + (IF h \in S THEN 1 ELSE 0)
  BY <1>4, <1>5, <1>6
<1> QED
  BY <1>1, <1>7

LEMMA CountNone ==
  ASSUME NEW s, IsSequence(s), NEW S
  PROVE  (Occurrences(s, S) = 0) <=> (ToSet(s) \cap S = {})
<1>1. PICK n, f : n = Len(s) /\ Tally(f, s, S)
  BY TallyIs
<1>2. n \in Nat /\ ToSet(s) = {s[i] : i \in 1 .. n}
  BY <1>1, SequenceFacts
<1>3. ASSUME ToSet(s) \cap S = {} PROVE Occurrences(s, S) = 0
  <2> DEFINE T == {k \in 0 .. n : f[k] = 0}
  <2>1. 0 \in T
    BY <1>1, <1>2 DEF Tally
  <2>2. ASSUME NEW k \in 1 .. n, k - 1 \in T PROVE k \in T
    <3>1. s[k] \notin S /\ k \in 0 .. n
      BY <1>2, <1>3
    <3>2. f[k] = f[k - 1] + (IF s[k] \in S THEN 1 ELSE 0) /\ f[k - 1] = 0
      BY <1>1, <2>2 DEF Tally
    <3> QED
      BY <3>1, <3>2
  <2> HIDE DEF T
  <2>3. n \in T
    BY <1>2, <2>1, <2>2, Climbing
  <2> QED
    BY <1>1, <2>3 DEF T, Tally
<1>4. ASSUME NEW i \in 1 .. n, s[i] \in S PROVE Occurrences(s, S) # 0
  <2> DEFINE T == {k \in 0 .. n : k < i \/ f[k] >= 1}
  <2>1. 0 \in T
    BY <1>2
  <2>2. ASSUME NEW k \in 1 .. n, k - 1 \in T PROVE k \in T
    <3>1. f[k] = f[k - 1] + (IF s[k] \in S THEN 1 ELSE 0) /\ f[k - 1] \in Nat
      BY <1>1, <1>2 DEF Tally
    <3>2. k < i \/ k = i \/ k - 1 >= i
      BY <1>2
    <3> QED
      BY <1>2, <1>4, <2>2, <3>1, <3>2
  <2> HIDE DEF T
  <2>3. n \in T
    BY <1>2, <2>1, <2>2, Climbing
  <2> QED
    BY <1>1, <1>2, <2>3 DEF T, Tally
<1> QED
  BY <1>2, <1>3, <1>4

LEMMA CountOnly ==
  ASSUME NEW s, IsSequence(s), NEW S, NEW R, ToSet(s) \cap R \subseteq S
  PROVE  Occurrences(Only(s, S), R) = Occurrences(s, R)
<1>1. PICK n, g : n = Len(s) /\ Tally(g, s, R)
  BY TallyIs
<1>2. n \in Nat /\ ToSet(s) = {s[i] : i \in 1 .. n}
  BY <1>1, SequenceFacts
<1>3. PICK f : IsOnly(f, s, S, n) /\ Only(s, S) = f[n]
  BY <1>1, <1>2, OnlyIs
<1>4. f[0] = <<>> /\ \A k \in 1 .. n : f[k] = IF s[k] \in S THEN Append(f[k - 1], s[k]) ELSE f[k - 1]
  <2>1. f[0] = <<>>
    BY <1>2, <1>3 DEF IsOnly
  <2>2. ASSUME NEW k \in 1 .. n
        PROVE f[k] = IF s[k] \in S THEN Append(f[k - 1], s[k]) ELSE f[k - 1]
    <3>1. k \in 0 .. n /\ k # 0
      BY <1>2
    <3> QED
      BY <1>3, <3>1 DEF IsOnly
  <2> QED
    BY <2>1, <2>2
<1> DEFINE T == {k \in 0 .. n : IsSequence(f[k]) /\ Occurrences(f[k], R) = g[k]}
<1>5. 0 \in T
  BY <1>1, <1>2, <1>4, EmptySet, CountFew DEF Tally
<1>6. ASSUME NEW k \in 1 .. n, k - 1 \in T PROVE k \in T
  <2>1. IsSequence(f[k - 1]) /\ Occurrences(f[k - 1], R) = g[k - 1] /\ k \in 0 .. n
    BY <1>2, <1>6
  <2>2. g[k] = g[k - 1] + (IF s[k] \in R THEN 1 ELSE 0) /\ g[k - 1] \in Nat
    BY <1>1, <1>2 DEF Tally
  <2>3. CASE s[k] \in S
    <3>1. f[k] = Append(f[k - 1], s[k])
      BY <1>4, <2>3
    <3>2. IsSequence(f[k]) /\ Occurrences(f[k], R) = Occurrences(f[k - 1], R) + (IF s[k] \in R THEN 1 ELSE 0)
      BY <2>1, <3>1, AppendSet, CountAppend
    <3> QED
      BY <2>1, <2>2, <3>2
  <2>4. CASE s[k] \notin S
    <3>1. f[k] = f[k - 1] /\ s[k] \notin R
      BY <1>2, <1>4, <2>4
    <3> QED
      BY <2>1, <2>2, <3>1
  <2> QED
    BY <2>3, <2>4
<1> HIDE DEF T
<1>7. n \in T
  BY <1>2, <1>5, <1>6, Climbing
<1> QED
  BY <1>1, <1>3, <1>7 DEF T, Tally

\* One list for each element: the count of what each list holds once
LEMMA CountEach ==
  ASSUME NEW xs, IsSequence(xs), NEW ss, ss = [i \in DOMAIN xs |-> ss[i]], NEW S, NEW R,
         \A i \in DOMAIN xs : IsSequence(ss[i]) /\ Occurrences(ss[i], S) = IF xs[i] \in R THEN 1 ELSE 0
  PROVE  Occurrences(FlattenSeq(ss), S) = Occurrences(xs, R)
<1>1. PICK n, g : n = Len(xs) /\ Tally(g, xs, R)
  BY TallyIs
<1>2. n \in Nat /\ DOMAIN xs = 1 .. n
  BY <1>1, SequenceFacts
<1>3. IsSequence(ss) /\ Len(ss) = n
  BY <1>2, FunctionIsSequence
<1>4. CASE n = 0
  <2>1. FlattenSeq(ss) = ss /\ ToSet(ss) = {}
    BY <1>2, <1>3, <1>4 DEF FlattenSeq, ToSet
  <2>2. Occurrences(ss, S) = 0
    BY <1>3, <2>1, CountNone
  <2> QED
    BY <1>1, <1>4, <2>1, <2>2 DEF Tally
<1>5. CASE n # 0
  <2>1. PICK f : IsFlat(f, ss, n) /\ FlattenSeq(ss) = f[n]
    BY <1>2, <1>3, <1>5, FlattenIs
  <2>2. \A i \in 1 .. n : f[i] = IF i = 1 THEN ss[i] ELSE f[i - 1] \o ss[i]
    BY <2>1 DEF IsFlat
  <2> DEFINE T == {k \in 0 .. n : k = 0 \/ (IsSequence(f[k]) /\ Occurrences(f[k], S) = g[k])}
  <2>3. ASSUME NEW k \in 1 .. n, k - 1 \in T PROVE k \in T
    <3>1. /\ IsSequence(ss[k]) /\ Occurrences(ss[k], S) = IF xs[k] \in R THEN 1 ELSE 0
          /\ g[k] = g[k - 1] + (IF xs[k] \in R THEN 1 ELSE 0) /\ g[k - 1] \in Nat /\ g[0] = 0
          /\ k \in 0 .. n
      BY <1>1, <1>2 DEF Tally
    <3>2. CASE k = 1
      <4>1. f[k] = ss[k]
        BY <2>2, <3>2
      <4> QED
        BY <3>1, <3>2, <4>1
    <3>3. CASE k # 1
      <4>0. f[k] = f[k - 1] \o ss[k]
        BY <2>2, <3>3
      <4>1. f[k] = f[k - 1] \o ss[k] /\ k - 1 # 0
        <5>1. k - 1 # 0
          BY <1>2, <3>3
        <5> QED
          BY <4>0, <5>1
      <4>2. IsSequence(f[k - 1]) /\ Occurrences(f[k - 1], S) = g[k - 1]
        BY <2>3, <4>1
      <4>3. IsSequence(f[k]) /\ Occurrences(f[k], S) = Occurrences(f[k - 1], S) + Occurrences(ss[k], S)
        BY <3>1, <4>1, <4>2, ConcatSet, CountConcat
      <4> QED
        BY <3>1, <4>2, <4>3
    <3> QED
      BY <3>2, <3>3
  <2>4. 0 \in T
    BY <1>2
  <2> HIDE DEF T
  <2>5. n \in T
    BY <1>2, <2>3, <2>4, Climbing
  <2> QED
    BY <1>1, <1>5, <2>1, <2>5 DEF T, Tally
<1> QED
  BY <1>4, <1>5

-----------------------------------------------------------------------------
(* The order of the statements *)

\* A transfer's data is taken by its own functions (Late), which come before what still
\* has to see it taken (Early).
Late == {"cancelFunction", "endFunction"}
Early == {"report", "endUpload", "unrefUnlessCancelled"}
LateFirst(s) == \A i, j \in DOMAIN s : i < j /\ s[j].do \in Late => s[i].do \notin Early

\* purple_xfer_end goes on as soon as it is called.
EndFirst(s) == \A i \in DOMAIN s : s[i].do = "end" => i = 1

\* Whatever is executed for a transfer is followed by the drop of a reference to it.
Nameless(e) == e.do \in {"updateProgress", "closeTransfers", "closeRequests"} /\ ~ Uses(e)
Named(e) == e.x \in Xfers /\ e = Do(e.do, e.x)
Covered(s) ==
  \A i \in DOMAIN s :
    \/ Nameless(s[i])
    \/ Named(s[i]) /\ \E j \in DOMAIN s : i <= j /\ s[j] = Do("unref", s[i].x)

StackOK(s) == LateFirst(s) /\ EndFirst(s) /\ Covered(s)

\* What may be below new statements
RestOK(s) == IsSequence(s) /\ StackOK(s) /\ \A e \in ToSet(s) : e.do # "end"

LEMMA LateFirstConcat ==
  ASSUME NEW a, NEW b, IsSequence(a), IsSequence(b), LateFirst(a), LateFirst(b),
         (\A e \in ToSet(a) : e.do \notin Early) \/ (\A e \in ToSet(b) : e.do \notin Late)
  PROVE  LateFirst(a \o b)
<1>1. PICK c, m, n : c = a \o b /\ m = Len(a) /\ n = Len(b)
  OBVIOUS
<1>2. /\ m \in Nat /\ n \in Nat /\ DOMAIN c = 1 .. m + n /\ DOMAIN a = 1 .. m /\ DOMAIN b = 1 .. n
      /\ \A i \in 1 .. m + n : c[i] = IF i <= m THEN a[i] ELSE b[i - m]
  BY <1>1, ConcatAt
<1>3. \A i \in 1 .. m : a[i] \in ToSet(a)
  BY <1>2 DEF ToSet
<1>4. \A i \in 1 .. n : b[i] \in ToSet(b)
  BY <1>2 DEF ToSet
<1>5. ASSUME NEW i \in 1 .. m + n, NEW j \in 1 .. m + n, i < j, c[j].do \in Late
      PROVE  c[i].do \notin Early
  <2>1. CASE j <= m
    <3>1. i \in 1 .. m /\ j \in 1 .. m /\ c[i] = a[i] /\ c[j] = a[j]
      BY <1>2, <1>5, <2>1
    <3> QED
      BY <1>2, <1>5, <3>1 DEF LateFirst
  <2>2. CASE i <= m /\ ~(j <= m)
    <3>1. c[i] = a[i] /\ c[j] = b[j - m] /\ i \in 1 .. m /\ j - m \in 1 .. n
      BY <1>2, <1>5, <2>2
    <3>2. c[i] \in ToSet(a) /\ c[j] \in ToSet(b)
      BY <1>3, <1>4, <3>1
    <3> QED
      BY <1>5, <3>2
  <2>3. CASE ~(i <= m) /\ ~(j <= m)
    <3>1. PICK k, l : k = i - m /\ l = j - m
      OBVIOUS
    <3>2. c[i] = b[k] /\ c[j] = b[l] /\ k \in 1 .. n /\ l \in 1 .. n /\ k < l
      BY <1>2, <1>5, <2>3, <3>1
    <3> QED
      BY <1>2, <1>5, <3>2 DEF LateFirst
  <2>4. i <= m \/ ~(j <= m)
    BY <1>2, <1>5
  <2> QED
    BY <2>1, <2>2, <2>3, <2>4
<1> QED
  BY <1>1, <1>2, <1>5 DEF LateFirst

LEMMA CoveredConcat ==
  ASSUME NEW a, NEW b, IsSequence(a), IsSequence(b), Covered(b),
         \/ Covered(a)
         \/ \A e \in ToSet(a) : Named(e) /\ Do("unref", e.x) \in ToSet(b)
  PROVE  Covered(a \o b)
<1>1. PICK c, m, n : c = a \o b /\ m = Len(a) /\ n = Len(b)
  OBVIOUS
<1>2. /\ m \in Nat /\ n \in Nat /\ DOMAIN c = 1 .. m + n /\ DOMAIN a = 1 .. m /\ DOMAIN b = 1 .. n
      /\ \A i \in 1 .. m + n : c[i] = IF i <= m THEN a[i] ELSE b[i - m]
  BY <1>1, ConcatAt
<1> DEFINE Good(i) == \/ Nameless(c[i])
                      \/ Named(c[i]) /\ \E j \in 1 .. m + n : i <= j /\ c[j] = Do("unref", c[i].x)
<1>3. ASSUME NEW i \in 1 .. m PROVE Good(i)
  <2>1. c[i] = a[i] /\ a[i] \in ToSet(a)
    BY <1>2 DEF ToSet
  <2>2. CASE Covered(a)
    <3>1. CASE Nameless(a[i])
      BY <2>1, <3>1
    <3>2. CASE Named(a[i]) /\ \E j \in 1 .. m : i <= j /\ a[j] = Do("unref", a[i].x)
      <4>1. PICK j \in 1 .. m : i <= j /\ a[j] = Do("unref", a[i].x)
        BY <3>2
      <4>2. c[j] = a[j] /\ j \in 1 .. m + n
        BY <1>2
      <4> QED
        BY <2>1, <3>2, <4>1, <4>2
    <3> QED
      BY <1>2, <2>2, <3>1, <3>2 DEF Covered
  <2>3. CASE Named(a[i]) /\ Do("unref", a[i].x) \in ToSet(b)
    <3>1. PICK l \in 1 .. n : b[l] = Do("unref", a[i].x)
      BY <1>2, <2>3 DEF ToSet
    <3>2. PICK j : j = m + l
      OBVIOUS
    <3>3. j \in 1 .. m + n /\ ~(j <= m) /\ j - m = l /\ i <= j
      BY <1>2, <3>2
    <3>4. c[j] = b[l]
      BY <1>2, <3>3
    <3> QED
      BY <2>1, <2>3, <3>1, <3>3, <3>4
  <2> QED
    BY <2>1, <2>2, <2>3
<1>4. ASSUME NEW i \in 1 .. m + n, ~(i <= m) PROVE Good(i)
  <2>1. PICK k : k = i - m
    OBVIOUS
  <2>2. k \in 1 .. n /\ c[i] = b[k] /\ i = m + k
    BY <1>2, <1>4, <2>1
  <2>3. CASE Nameless(b[k])
    BY <2>2, <2>3
  <2>4. CASE Named(b[k]) /\ \E l \in 1 .. n : k <= l /\ b[l] = Do("unref", b[k].x)
    <3>1. PICK l \in 1 .. n : k <= l /\ b[l] = Do("unref", b[k].x)
      BY <2>4
    <3>2. PICK j : j = m + l
      OBVIOUS
    <3>3. j \in 1 .. m + n /\ ~(j <= m) /\ j - m = l /\ i <= j
      BY <1>2, <2>2, <3>1, <3>2
    <3>4. c[j] = b[l]
      BY <1>2, <3>3
    <3> QED
      BY <2>2, <2>4, <3>1, <3>3, <3>4
  <2> QED
    BY <1>2, <2>2, <2>3, <2>4 DEF Covered
<1>5. \A i \in 1 .. m + n : i <= m => i \in 1 .. m
  BY <1>2
<1>6. \A i \in 1 .. m + n : Good(i)
  BY <1>3, <1>4, <1>5
<1> QED
  BY <1>1, <1>2, <1>6 DEF Covered

\* New statements on top of others
LEMMA StackConcat ==
  ASSUME NEW a, NEW b, IsSequence(a), LateFirst(a), EndFirst(a), RestOK(b),
         (\A e \in ToSet(a) : e.do \notin Early) \/ (\A e \in ToSet(b) : e.do \notin Late),
         \/ Covered(a)
         \/ \A e \in ToSet(a) : Named(e) /\ Do("unref", e.x) \in ToSet(b)
  PROVE  IsSequence(a \o b) /\ StackOK(a \o b)
<1>1. PICK c, m, n : c = a \o b /\ m = Len(a) /\ n = Len(b)
  OBVIOUS
<1>2. /\ m \in Nat /\ n \in Nat /\ DOMAIN c = 1 .. m + n /\ DOMAIN a = 1 .. m /\ DOMAIN b = 1 .. n
      /\ \A i \in 1 .. m + n : c[i] = IF i <= m THEN a[i] ELSE b[i - m]
      /\ IsSequence(c)
  BY <1>1, ConcatAt DEF RestOK
<1>3. ASSUME NEW i \in 1 .. m + n, c[i].do = "end" PROVE i = 1
  <2>1. CASE i <= m
    <3>1. i \in 1 .. m /\ c[i] = a[i]
      BY <1>2, <2>1
    <3> QED
      BY <1>2, <1>3, <3>1 DEF EndFirst
  <2>2. CASE ~(i <= m)
    <3>1. i - m \in 1 .. n /\ c[i] = b[i - m]
      BY <1>2, <2>2
    <3>2. c[i] \in ToSet(b)
      BY <1>2, <3>1 DEF ToSet
    <3> QED
      BY <1>3, <3>2 DEF RestOK
  <2> QED
    BY <2>1, <2>2
<1>4. LateFirst(c)
  BY <1>1, LateFirstConcat DEF RestOK, StackOK
<1>5. Covered(c)
  BY <1>1, CoveredConcat DEF RestOK, StackOK
<1> QED
  BY <1>1, <1>2, <1>3, <1>4, <1>5 DEF StackOK, EndFirst

\* What is left when the head is executed
LEMMA StackTail ==
  ASSUME NEW s, IsSequence(s), StackOK(s), s # <<>>
  PROVE  /\ RestOK(Tail(s))
         /\ Head(s).do \in Early => \A e \in ToSet(Tail(s)) : e.do \notin Late
         /\ \/ Nameless(Head(s))
            \/ /\ Named(Head(s))
               /\ Do("unref", Head(s).x) \in ToSet(s)
               /\ Head(s).do # "unref" => Do("unref", Head(s).x) \in ToSet(Tail(s))
<1>1. PICK t, n : t = Tail(s) /\ n = Len(s)
  OBVIOUS
<1>2. Len(t) = n - 1 /\ \A i \in 1 .. Len(t) : t[i] = s[i + 1]
  BY <1>1, HeadTailProperties DEF IsSequence
<1>3. /\ n \in Nat /\ DOMAIN s = 1 .. n /\ Head(s) = s[1] /\ 1 \in 1 .. n /\ IsSequence(t)
      /\ ToSet(s) = {Head(s)} \cup ToSet(t) /\ Head(s) \in ToSet(s)
  BY <1>1, SequenceFacts, TailSet
<1>4. DOMAIN t = 1 .. n - 1 /\ ToSet(t) = {t[i] : i \in 1 .. n - 1} /\ \A i \in 1 .. n - 1 : t[i] = s[i + 1]
  BY <1>2, <1>3, SequenceFacts
<1>5. \A i \in 1 .. n - 1 : i + 1 \in 1 .. n /\ i + 1 # 1
  BY <1>3
<1>6. LateFirst(t)
  <2>1. ASSUME NEW i \in 1 .. n - 1, NEW j \in 1 .. n - 1, i < j, t[j].do \in Late
        PROVE  t[i].do \notin Early
    <3>1. i + 1 \in 1 .. n /\ j + 1 \in 1 .. n /\ i + 1 < j + 1 /\ t[i] = s[i + 1] /\ t[j] = s[j + 1]
      BY <1>3, <1>4, <2>1
    <3> QED
      BY <1>3, <2>1, <3>1 DEF StackOK, LateFirst
  <2> QED
    BY <1>4, <2>1 DEF LateFirst
<1>7. EndFirst(t) /\ \A e \in ToSet(t) : e.do # "end"
  BY <1>3, <1>4, <1>5 DEF StackOK, EndFirst
<1>8. Covered(t)
  <2>1. ASSUME NEW i \in 1 .. n - 1, ~ Nameless(t[i])
        PROVE  Named(t[i]) /\ \E j \in 1 .. n - 1 : i <= j /\ t[j] = Do("unref", t[i].x)
    <3>1. i + 1 \in 1 .. n /\ t[i] = s[i + 1]
      BY <1>4, <1>5
    <3>2. PICK j \in 1 .. n : i + 1 <= j /\ s[j] = Do("unref", t[i].x)
      BY <1>3, <2>1, <3>1 DEF StackOK, Covered
    <3>3. j - 1 \in 1 .. n - 1 /\ i <= j - 1 /\ j - 1 + 1 = j
      BY <1>3, <3>2
    <3>4. t[j - 1] = s[j]
      BY <1>4, <3>3
    <3>5. Named(t[i])
      BY <1>3, <2>1, <3>1 DEF StackOK, Covered
    <3> QED
      BY <3>2, <3>3, <3>4, <3>5
  <2> QED
    BY <1>4, <2>1 DEF Covered
<1>9. ASSUME Head(s).do \in Early PROVE \A e \in ToSet(t) : e.do \notin Late
  <2>1. ASSUME NEW i \in 1 .. n - 1 PROVE t[i].do \notin Late
    <3>1. i + 1 \in 1 .. n /\ 1 < i + 1 /\ t[i] = s[i + 1]
      BY <1>3, <1>4
    <3> QED
      BY <1>3, <1>9, <3>1 DEF StackOK, LateFirst
  <2> QED
    BY <1>4, <2>1
<1>10. ASSUME ~ Nameless(Head(s))
       PROVE  /\ Named(Head(s)) /\ Do("unref", Head(s).x) \in ToSet(s)
              /\ Head(s).do # "unref" => Do("unref", Head(s).x) \in ToSet(t)
  <2>1. PICK j \in 1 .. n : s[j] = Do("unref", Head(s).x)
    BY <1>3, <1>10 DEF StackOK, Covered
  <2>2. Named(Head(s))
    BY <1>3, <1>10 DEF StackOK, Covered
  <2>3. s[j] \in ToSet(s)
    BY <1>3 DEF ToSet
  <2>4. Head(s).do # "unref" => Head(s) # Do("unref", Head(s).x)
    BY DoFields
  <2> QED
    BY <1>3, <2>1, <2>2, <2>3, <2>4
<1> QED
  BY <1>1, <1>3, <1>6, <1>7, <1>8, <1>9, <1>10 DEF RestOK, StackOK

-----------------------------------------------------------------------------
(* The lists that are executed for one transfer *)

LEMMA DoDiffer == \A v, w, x, y : Do(v, x) = Do(w, y) <=> v = w /\ x = y
BY DEF Do

\* A list that drops a reference at its end
LEMMA CoveredByLast ==
  ASSUME NEW s, IsSequence(s), NEW x \in Xfers, \A e \in ToSet(s) : e = Do(e.do, x),
         s # <<>>, s[Len(s)] = Do("unref", x)
  PROVE  Covered(s)
<1>1. PICK n : n = Len(s)
  OBVIOUS
<1>2. n \in Nat /\ DOMAIN s = 1 .. n /\ 1 \in 1 .. n
  BY <1>1, SequenceFacts
<1>3. ASSUME NEW i \in 1 .. n
      PROVE  Named(s[i]) /\ i <= n /\ s[n] = Do("unref", s[i].x)
  <2>1. s[i] \in ToSet(s)
    BY <1>2 DEF ToSet
  <2>2. s[i] = Do(s[i].do, x)
    BY <2>1
  <2>3. s[i].x = x
    BY <2>2, DoFields
  <2> QED
    BY <1>1, <1>2, <2>2, <2>3 DEF Named
<1> QED
  BY <1>2, <1>3 DEF Covered

LEMMA CoveredEach ==
  ASSUME NEW xs, IsSequence(xs), NEW ss, ss = [i \in DOMAIN xs |-> ss[i]],
         \A i \in DOMAIN xs : IsSequence(ss[i]) /\ Covered(ss[i])
  PROVE  Covered(FlattenSeq(ss))
<1>1. PICK n : n = Len(xs)
  OBVIOUS
<1>2. n \in Nat /\ DOMAIN xs = 1 .. n
  BY <1>1, SequenceFacts
<1>3. IsSequence(ss) /\ Len(ss) = n /\ DOMAIN ss = 1 .. n
  BY <1>2, FunctionIsSequence
<1>4. CASE n = 0
  <2>1. FlattenSeq(ss) = ss /\ DOMAIN ss = {}
    BY <1>3, <1>4 DEF FlattenSeq
  <2> QED
    BY <2>1 DEF Covered
<1>5. CASE n # 0
  <2>1. PICK f : IsFlat(f, ss, n) /\ FlattenSeq(ss) = f[n]
    BY <1>2, <1>3, <1>5, FlattenIs
  <2>2. \A i \in 1 .. n : f[i] = IF i = 1 THEN ss[i] ELSE f[i - 1] \o ss[i]
    BY <2>1 DEF IsFlat
  <2> DEFINE T == {k \in 0 .. n : k = 0 \/ (IsSequence(f[k]) /\ Covered(f[k]))}
  <2>3. ASSUME NEW k \in 1 .. n, k - 1 \in T PROVE k \in T
    <3>1. IsSequence(ss[k]) /\ Covered(ss[k]) /\ k \in 0 .. n
      BY <1>2
    <3>2. CASE k = 1
      <4>1. f[k] = ss[k]
        BY <2>2, <3>2
      <4> QED
        BY <3>1, <4>1
    <3>3. CASE k # 1
      <4>1. f[k] = f[k - 1] \o ss[k]
        BY <2>2, <3>3
      <4>2. k - 1 # 0
        BY <1>2, <3>3
      <4>3. IsSequence(f[k - 1]) /\ Covered(f[k - 1])
        BY <2>3, <4>2
      <4>4. IsSequence(f[k]) /\ Covered(f[k])
        BY <3>1, <4>1, <4>3, ConcatSet, CoveredConcat
      <4> QED
        BY <3>1, <4>4
    <3> QED
      BY <3>2, <3>3
  <2>4. 0 \in T
    BY <1>2
  <2> HIDE DEF T
  <2>5. n \in T
    BY <1>2, <2>3, <2>4, Climbing
  <2> QED
    BY <1>5, <2>1, <2>5 DEF T
<1> QED
  BY <1>4, <1>5

\* Lists without the statements that have an order
LEMMA PlainOrder ==
  ASSUME NEW s, IsSequence(s), \A e \in ToSet(s) : e.do # "end",
         (\A e \in ToSet(s) : e.do \notin Early) \/ (\A e \in ToSet(s) : e.do \notin Late)
  PROVE  LateFirst(s) /\ EndFirst(s)
<1>1. \A i \in DOMAIN s : s[i] \in ToSet(s)
  BY DEF ToSet
<1> QED
  BY <1>1 DEF LateFirst, EndFirst

LEMMA TupleCounts ==
  ASSUME NEW S
  PROVE  /\ \A a, b : Occurrences(<<a, b>>, S) = (IF a \in S THEN 1 ELSE 0) + (IF b \in S THEN 1 ELSE 0)
         /\ \A a, b, c : Occurrences(<<a, b, c>>, S) =
              (IF a \in S THEN 1 ELSE 0) + (IF b \in S THEN 1 ELSE 0) + (IF c \in S THEN 1 ELSE 0)
         /\ \A a, b, c, d : Occurrences(<<a, b, c, d>>, S) =
              (IF a \in S THEN 1 ELSE 0) + (IF b \in S THEN 1 ELSE 0) + (IF c \in S THEN 1 ELSE 0)
              + (IF d \in S THEN 1 ELSE 0)
         /\ \A a, b, c, d, e : Occurrences(<<a, b, c, d, e>>, S) =
              (IF a \in S THEN 1 ELSE 0) + (IF b \in S THEN 1 ELSE 0) + (IF c \in S THEN 1 ELSE 0)
              + (IF d \in S THEN 1 ELSE 0) + (IF e \in S THEN 1 ELSE 0)
<1>1. ASSUME NEW a, NEW b
      PROVE  Occurrences(<<a, b>>, S) = (IF a \in S THEN 1 ELSE 0) + (IF b \in S THEN 1 ELSE 0)
  <2>1. PICK s, t : s = <<a>> /\ t = <<a, b>>
    OBVIOUS
  <2>2. t = Append(s, b)
    BY <2>1
  <2>3. IsSequence(s)
    BY <2>1, SingleSet
  <2>4. Occurrences(t, S) = Occurrences(s, S) + (IF b \in S THEN 1 ELSE 0)
    BY <2>2, <2>3, CountAppend
  <2> QED
    BY CountFew, <2>1, <2>4
<1>2. ASSUME NEW a, NEW b, NEW c
      PROVE  Occurrences(<<a, b, c>>, S) =
               (IF a \in S THEN 1 ELSE 0) + (IF b \in S THEN 1 ELSE 0) + (IF c \in S THEN 1 ELSE 0)
  <2>1. PICK s, t : s = <<a, b>> /\ t = <<a, b, c>>
    OBVIOUS
  <2>2. t = Append(s, c)
    BY <2>1
  <2>3. IsSequence(s)
    BY <2>1, TupleSets
  <2>4. Occurrences(t, S) = Occurrences(s, S) + (IF c \in S THEN 1 ELSE 0)
    BY <2>2, <2>3, CountAppend
  <2> QED
    BY <1>1, <2>1, <2>4
<1>3. ASSUME NEW a, NEW b, NEW c, NEW d
      PROVE  Occurrences(<<a, b, c, d>>, S) =
               (IF a \in S THEN 1 ELSE 0) + (IF b \in S THEN 1 ELSE 0) + (IF c \in S THEN 1 ELSE 0)
               + (IF d \in S THEN 1 ELSE 0)
  <2>1. PICK s, t : s = <<a, b, c>> /\ t = <<a, b, c, d>>
    OBVIOUS
  <2>2. t = Append(s, d)
    BY <2>1
  <2>3. IsSequence(s)
    BY <2>1, TupleSets
  <2>4. Occurrences(t, S) = Occurrences(s, S) + (IF d \in S THEN 1 ELSE 0)
    BY <2>2, <2>3, CountAppend
  <2> QED
    BY <1>2, <2>1, <2>4
<1>4. ASSUME NEW a, NEW b, NEW c, NEW d, NEW e
      PROVE  Occurrences(<<a, b, c, d, e>>, S) =
               (IF a \in S THEN 1 ELSE 0) + (IF b \in S THEN 1 ELSE 0) + (IF c \in S THEN 1 ELSE 0)
               + (IF d \in S THEN 1 ELSE 0) + (IF e \in S THEN 1 ELSE 0)
  <2>1. PICK s, t : s = <<a, b, c, d>> /\ t = <<a, b, c, d, e>>
    OBVIOUS
  <2>2. t = Append(s, e)
    BY <2>1
  <2>3. IsSequence(s)
    BY <2>1, TupleSets
  <2>4. Occurrences(t, S) = Occurrences(s, S) + (IF e \in S THEN 1 ELSE 0)
    BY <2>2, <2>3, CountAppend
  <2> QED
    BY <1>3, <2>1, <2>4
<1> QED
  BY <1>1, <1>2, <1>3, <1>4

\* What such a list holds of a statement
Often(s, what, x) == Occurrences(s, {Do(what, x)})

\* A list for one transfer, as new statements
ListFor(s, x) ==
  /\ IsSequence(s) /\ LateFirst(s) /\ EndFirst(s)
  /\ \A e \in ToSet(s) : e = Do(e.do, x)

\* libpurple's cancellation and its end of a transfer, and what an upload leaves
LEMMA CancelList ==
  ASSUME NEW x \in Xfers
  PROVE  /\ ListFor(CancelXfer(x), x) /\ Covered(CancelXfer(x)) /\ CancelXfer(x) # <<>>
         /\ Head(CancelXfer(x)).do = "cancel"
         /\ \A e \in ToSet(CancelXfer(x)) : e.do \notin Early /\ e.do # "end"
         /\ \A what : Often(CancelXfer(x), what, x) =
              CASE what \in {"cancel", "cancelFunction", "unref"} -> 1
                [] what = "cancelHandlers" -> 2
                [] OTHER -> 0
<1>1. PICK s : s = CancelXfer(x)
  OBVIOUS
<1>2. /\ Len(s) = 5 /\ s[5] = Do("unref", x) /\ s # <<>> /\ Head(s) = Do("cancel", x)
      /\ IsSequence(s)
      /\ ToSet(s) = {Do("cancel", x), Do("cancelHandlers", x), Do("cancelFunction", x),
                     Do("cancelHandlers", x), Do("unref", x)}
  BY <1>1, TupleSets DEF CancelXfer
<1>3. \A e \in ToSet(s) : e = Do(e.do, x) /\ e.do \notin Early /\ e.do # "end"
  BY <1>2, DoFields DEF Early
<1>4. Covered(s)
  BY <1>2, <1>3, CoveredByLast
<1>5. LateFirst(s) /\ EndFirst(s)
  BY <1>2, <1>3, PlainOrder
<1>6. ASSUME NEW what
      PROVE  Often(s, what, x) =
               CASE what \in {"cancel", "cancelFunction", "unref"} -> 1
                 [] what = "cancelHandlers" -> 2
                 [] OTHER -> 0
  BY <1>1, TupleCounts, DoDiffer DEF CancelXfer, Often
<1> QED
  BY <1>1, <1>2, <1>3, <1>4, <1>5, <1>6, DoFields DEF ListFor

LEMMA EndLists ==
  ASSUME NEW x \in Xfers, NEW s,
         \/ s = <<Do("end", x), Do("handlers", x), Do("endFunction", x), Do("unref", x)>>
         \/ s = <<Do("end", x), Do("endFunction", x), Do("unref", x)>>
  PROVE  /\ ListFor(s, x) /\ Covered(s) /\ s # <<>> /\ Head(s).do = "end"
         /\ \A e \in ToSet(s) : e.do \notin Early
         /\ \A what \in {"unref", "endFunction"} : Often(s, what, x) = 1
         /\ \A what \in {"unrefUnlessCancelled", "cancelFunction"} : Often(s, what, x) = 0
<1>1. /\ Len(s) \in {3, 4} /\ s[Len(s)] = Do("unref", x) /\ s # <<>> /\ Head(s) = Do("end", x)
      /\ DOMAIN s = 1 .. Len(s)
      /\ \A i \in 2 .. Len(s) : s[i] \in {Do("handlers", x), Do("endFunction", x), Do("unref", x)}
  <2>1. CASE s = <<Do("end", x), Do("handlers", x), Do("endFunction", x), Do("unref", x)>>
    <3>1. /\ Len(s) = 4 /\ DOMAIN s = 1 .. 4 /\ Head(s) = Do("end", x) /\ s # <<>>
          /\ s[2] = Do("handlers", x) /\ s[3] = Do("endFunction", x) /\ s[4] = Do("unref", x)
      BY <2>1
    <3>2. 2 .. 4 = {2, 3, 4}
      OBVIOUS
    <3> QED
      BY <3>1, <3>2
  <2>2. CASE s = <<Do("end", x), Do("endFunction", x), Do("unref", x)>>
    <3>1. /\ Len(s) = 3 /\ DOMAIN s = 1 .. 3 /\ Head(s) = Do("end", x) /\ s # <<>>
          /\ s[2] = Do("endFunction", x) /\ s[3] = Do("unref", x)
      BY <2>2
    <3>2. 2 .. 3 = {2, 3}
      OBVIOUS
    <3> QED
      BY <3>1, <3>2
  <2> QED
    BY <2>1, <2>2
<1>2. /\ IsSequence(s)
      /\ ToSet(s) \subseteq {Do("end", x), Do("handlers", x), Do("endFunction", x), Do("unref", x)}
  BY TupleSets
<1>3. \A e \in ToSet(s) : e = Do(e.do, x) /\ e.do \notin Early
  BY <1>2, DoFields DEF Early
<1>4. Covered(s)
  BY <1>1, <1>2, <1>3, CoveredByLast
<1>5. LateFirst(s)
  <2>1. \A i \in DOMAIN s : s[i] \in ToSet(s)
    BY DEF ToSet
  <2> QED
    BY <1>3, <2>1 DEF LateFirst
<1>6. EndFirst(s)
  BY <1>1, DoFields DEF EndFirst
<1>7. /\ \A what \in {"unref", "endFunction"} : Often(s, what, x) = 1
      /\ \A what \in {"unrefUnlessCancelled", "cancelFunction"} : Often(s, what, x) = 0
  BY TupleCounts, DoDiffer DEF Often
<1> QED
  BY <1>1, <1>2, <1>3, <1>4, <1>5, <1>6, <1>7, DoFields DEF ListFor

\* The other lists that drop a reference at their end
LEMMA DropLists ==
  ASSUME NEW x \in Xfers, NEW s,
         \/ s = <<Do("unref", x)>>
         \/ s = <<Do("cancelUnlessOver", x), Do("unref", x)>>
         \/ s = <<Do("report", x), Do("unref", x)>>
         \/ s = <<Do("complete", x), Do("endUpload", x), Do("unref", x)>>
         \/ s = FailXfer(x)
  PROVE  /\ ListFor(s, x) /\ Covered(s) /\ s # <<>>
         /\ \A e \in ToSet(s) : e.do \notin Late /\ e.do \notin {"end", "cancel", "unrefUnlessCancelled"}
         /\ Often(s, "unref", x) = 1
         /\ \A what \in {"unrefUnlessCancelled", "endFunction", "cancelFunction"} : Often(s, what, x) = 0
<1>1. s[Len(s)] = Do("unref", x) /\ s # <<>>
  BY DEF FailXfer
<1>2. /\ IsSequence(s)
      /\ ToSet(s) \subseteq {Do("unref", x), Do("cancelUnlessOver", x), Do("report", x), Do("complete", x),
                             Do("endUpload", x), Do("errorHandlers", x)}
  BY TupleSets, SingleSet DEF FailXfer
<1>3. \A e \in ToSet(s) : /\ e = Do(e.do, x) /\ e.do \notin Late
                          /\ e.do \notin {"end", "cancel", "unrefUnlessCancelled"}
  BY <1>2, DoFields DEF Late
<1>4. Covered(s)
  BY <1>1, <1>2, <1>3, CoveredByLast
<1>5. LateFirst(s) /\ EndFirst(s)
  BY <1>2, <1>3, PlainOrder
<1>6. ASSUME NEW what \in {"unref", "unrefUnlessCancelled", "endFunction", "cancelFunction"}
      PROVE  Often(s, what, x) = IF what = "unref" THEN 1 ELSE 0
  <2> DEFINE S == {Do(what, x)}
  <2>1. \A other : Do(other, x) \in S <=> other = what
    BY DoDiffer
  <2> HIDE DEF S
  <2>2. CASE s = <<Do("unref", x)>>
    BY <2>1, <2>2, CountFew DEF Often, S
  <2>3. CASE \/ s = <<Do("cancelUnlessOver", x), Do("unref", x)>>
             \/ s = <<Do("report", x), Do("unref", x)>>
    BY <2>1, <2>3, TupleCounts DEF Often, S
  <2>4. CASE \/ s = <<Do("complete", x), Do("endUpload", x), Do("unref", x)>>
             \/ s = FailXfer(x)
    BY <2>1, <2>4, TupleCounts DEF Often, S, FailXfer
  <2> QED
    BY <2>2, <2>3, <2>4
<1> QED
  BY <1>1, <1>2, <1>3, <1>4, <1>5, <1>6 DEF ListFor

\* Statements that say something to others and drop nothing
Quiet(s, x) ==
  /\ IsSequence(s)
  /\ \A e \in ToSet(s) : e = Do(e.do, x) /\ e.do \in {"handlers", "showProgress"}

LEMMA QuietList ==
  ASSUME NEW x, NEW s, Quiet(s, x)
  PROVE  /\ ListFor(s, x) /\ \A e \in ToSet(s) : e.do \notin Early
         /\ \A what \in {"unref", "unrefUnlessCancelled", "endFunction", "cancelFunction"} : Often(s, what, x) = 0
<1>1. \A e \in ToSet(s) : e = Do(e.do, x) /\ e.do \notin Early \cup Late \cup {"end", "unref"}
  BY DEF Quiet, Early, Late
<1>2. LateFirst(s) /\ EndFirst(s)
  BY <1>1, PlainOrder DEF Quiet
<1>3. ASSUME NEW what \in {"unref", "unrefUnlessCancelled", "endFunction", "cancelFunction"}
      PROVE Often(s, what, x) = 0
  <2>1. ToSet(s) \cap {Do(what, x)} = {}
    BY <1>1, DoFields DEF Early, Late
  <2> QED
    BY <2>1, CountNone DEF Often, Quiet
<1> QED
  BY <1>1, <1>2, <1>3 DEF ListFor, Quiet

-----------------------------------------------------------------------------
(* The invariant of the references *)

Count(what, x) == Occurrences(calls, {Do(what, x)})
Nexts(what, x) == At(what) /\ Head(calls).x = x

RequestsOf(x) == {r \in Requests : r.x = x}

\* A transfer is in the registry once, and has one request.
HoldsOK(x) ==
  /\ Occurrences(registry, {x}) = IF Registered(x) THEN 1 ELSE 0
  /\ Occurrences(requests, RequestsOf(x)) = IF Asked(x) THEN 1 ELSE 0

Over(x) == ended[x] \/ Nexts("cancel", x) \/ Nexts("end", x)

\* References are libpurple's, until a terminal function is called, and what is going to be
\* dropped.
RefsOK(x) ==
  refs[x] = (IF status[x] # "none" /\ ~ Over(x) THEN 1 ELSE 0)
            + Count("unref", x)
            + (IF Cancelled(x) \/ Nexts("cancel", x) THEN 0 ELSE Count("unrefUnlessCancelled", x))
            + (IF Registered(x) THEN 1 ELSE 0) + (IF Asked(x) THEN 1 ELSE 0)

\* A cancelled transfer has its data until its cancel function, which nothing else calls,
\* takes it.
CancelOK(x) ==
  /\ Cancelled(x) /\ data[x] => Count("cancelFunction", x) > 0
  /\ Nexts("cancel", x) => Count("cancelFunction", x) > 0
  /\ Count("cancelFunction", x) > 0 => Cancelled(x) \/ Nexts("cancel", x)

\* A transfer that is not cancelled is ended once. Until its end function is called, its data
\* is there, and the guard around purple_xfer_end.
EndOK(x) ==
  /\ ended[x] \/ data[x] \/ Nexts("end", x) => status[x] # "none"
  /\ Nexts("end", x) => ~ Cancelled(x)
  /\ ~ Cancelled(x) =>
       IF ended[x] \/ Nexts("end", x)
       THEN /\ Count("endFunction", x) = IF data[x] THEN 1 ELSE 0
            /\ data[x] => \/ Count("unrefUnlessCancelled", x) = 1
                          \/ Nexts("endFunction", x)
                          \/ Nexts("end", x) /\ Head(Tail(calls)) = Do("endFunction", x)
       ELSE /\ Count("unrefUnlessCancelled", x) = 0 /\ Count("endFunction", x) = 0
            /\ status[x] = "done" => data[x]

XferRefs(x) == HoldsOK(x) /\ RefsOK(x) /\ CancelOK(x) /\ EndOK(x)

RefTypes ==
  /\ refs \in [Xfers -> Nat] /\ ended \in [Xfers -> BOOLEAN] /\ deferred \subseteq Files

RInv == RefTypes /\ StackOK(calls) /\ \A x \in Xfers : XferRefs(x)

Counted == {"unref", "unrefUnlessCancelled", "endFunction", "cancelFunction"}

-----------------------------------------------------------------------------
(* Steps and the references *)

\* Who keeps a reference to a transfer is the same.
SameHolders(x) ==
  /\ Registered(x)' <=> Registered(x)
  /\ Asked(x)' <=> Asked(x)
  /\ Occurrences(registry, {x})' = Occurrences(registry, {x})
  /\ Occurrences(requests, RequestsOf(x))' = Occurrences(requests, RequestsOf(x))

\* ... and it is where it was, or completed.
SameXfer(x) ==
  /\ refs'[x] = refs[x] /\ ended'[x] = ended[x] /\ data'[x] = data[x]
  /\ status'[x] = "none" <=> status[x] = "none"
  /\ Cancelled(x)' <=> Cancelled(x)
  /\ status'[x] = "done" => status[x] = "done" \/ data[x]

\* Nothing happens to a transfer.
LEMMA Untouched ==
  ASSUME NEW x \in Xfers, XferRefs(x), SameHolders(x), SameXfer(x),
         \A what \in Counted : Count(what, x)' = Count(what, x),
         ~ Nexts("cancel", x), ~ Nexts("end", x), ~ Nexts("endFunction", x),
         ~ Nexts("cancel", x)', ~ Nexts("end", x)'
  PROVE  XferRefs(x)'
<1>1. /\ Count("unref", x)' = Count("unref", x)
      /\ Count("unrefUnlessCancelled", x)' = Count("unrefUnlessCancelled", x)
      /\ Count("endFunction", x)' = Count("endFunction", x)
      /\ Count("cancelFunction", x)' = Count("cancelFunction", x)
  BY DEF Counted
<1>2. Cancelled(x)' <=> Cancelled(x)
  BY DEF SameXfer, Cancelled
<1>3. Over(x)' <=> Over(x)
  BY DEF Over, SameXfer
<1>4. HoldsOK(x)'
  BY DEF XferRefs, HoldsOK, SameHolders
<1>5. RefsOK(x)'
  BY <1>1, <1>2, <1>3 DEF XferRefs, RefsOK, SameHolders, SameXfer
<1>6. CancelOK(x)'
  BY <1>1, <1>2 DEF XferRefs, CancelOK, SameXfer
<1>7. EndOK(x)'
  BY <1>1, <1>2 DEF XferRefs, EndOK, SameXfer
<1> QED
  BY <1>4, <1>5, <1>6, <1>7 DEF XferRefs

\* What the sequences of the state are, and the counts
LEMMA RefSequences ==
  ASSUME IInv
  PROVE  /\ IsSequence(calls) /\ IsSequence(registry) /\ IsSequence(requests)
         /\ \A what, x : Count(what, x) \in Nat
         /\ calls # <<>> => \A s \in ToSet(Tail(calls)) : s.do # "cancel"
BY AccountSets, TallyIs DEF IInv, CallsOK, Count, Plain

\* New statements in the place of the head, or on top of all
LEMMA CountsAfter ==
  ASSUME IInv, StackOK(calls), NEW rest, NEW new, IsSequence(new), calls' = new \o rest,
         \/ rest = calls /\ ~ At("cancel") /\ ~ At("end")
         \/ rest = Tail(calls) /\ calls # <<>>
  PROVE  /\ RestOK(rest) /\ IsSequence(calls')
         /\ \A what, x : /\ Count(what, x)' \in Nat /\ Often(new, what, x) \in Nat
                         /\ Often(rest, what, x) \in Nat
                         /\ Count(what, x)' = Often(new, what, x) + Often(rest, what, x)
                         /\ Count(what, x) = Often(rest, what, x)
                              + IF rest # calls /\ Head(calls) = Do(what, x) THEN 1 ELSE 0
         /\ rest = calls \/ (calls # <<>> /\ rest # calls)
         /\ new = <<>> => ~ At("cancel")' /\ ~ At("end")'
         /\ new # <<>> => calls' # <<>> /\ Head(calls') = Head(new)
<1>1. IsSequence(calls) /\ (calls # <<>> => \A s \in ToSet(Tail(calls)) : s.do # "cancel")
  BY RefSequences
<1>2. RestOK(rest) /\ \A e \in ToSet(rest) : e.do # "cancel"
  <2>1. CASE rest = Tail(calls) /\ calls # <<>>
    BY <1>1, <2>1, StackTail
  <2>2. CASE rest = calls /\ calls = <<>>
    BY <2>2, EmptySet DEF RestOK
  <2>3. CASE rest = calls /\ calls # <<>> /\ ~ At("cancel") /\ ~ At("end")
    <3>1. RestOK(Tail(calls)) /\ ToSet(calls) = {Head(calls)} \cup ToSet(Tail(calls))
      BY <1>1, <2>3, StackTail, TailSet
    <3> QED
      BY <1>1, <2>3, <3>1 DEF RestOK, At
  <2> QED
    BY <2>1, <2>2, <2>3
<1>3. IsSequence(rest)
  BY <1>2 DEF RestOK
<1>4. IsSequence(calls')
  BY <1>3, ConcatSet
<1>5. ASSUME NEW what, NEW x
      PROVE  /\ Count(what, x)' \in Nat /\ Often(new, what, x) \in Nat
             /\ Often(rest, what, x) \in Nat
             /\ Count(what, x)' = Often(new, what, x) + Often(rest, what, x)
             /\ Count(what, x) = Often(rest, what, x)
                  + IF rest # calls /\ Head(calls) = Do(what, x) THEN 1 ELSE 0
  <2> DEFINE S == {Do(what, x)}
  <2>1. Often(new, what, x) \in Nat /\ Often(rest, what, x) \in Nat
    BY <1>3, TallyIs DEF Often
  <2>2. Count(what, x)' = Often(new, what, x) + Often(rest, what, x)
    BY <1>3, CountConcat DEF Count, Often
  <2>3. Count(what, x) = Often(rest, what, x)
          + IF rest # calls /\ Head(calls) = Do(what, x) THEN 1 ELSE 0
    <3>1. CASE rest = calls
      BY <2>1, <3>1 DEF Count, Often
    <3>2. CASE rest = Tail(calls) /\ calls # <<>> /\ rest # calls
      <4>1. Occurrences(calls, S) = Occurrences(rest, S) + (IF Head(calls) \in S THEN 1 ELSE 0)
        BY <1>1, <3>2, CountTail
      <4> QED
        BY <3>2, <4>1 DEF Count, Often
    <3> QED
      BY <3>1, <3>2
  <2> QED
    BY <2>1, <2>2, <2>3
<1>6. ASSUME new = <<>> PROVE ~ At("cancel")' /\ ~ At("end")'
  <2>1. calls' = rest
    BY <1>3, <1>6, ConcatEmptySeq DEF IsSequence
  <2>2. calls' # <<>> => Head(calls') \in ToSet(rest)
    BY <1>3, <2>1, TailSet
  <2> QED
    BY <1>2, <2>2 DEF At, RestOK
<1>7. ASSUME new # <<>> PROVE calls' # <<>> /\ Head(calls') = Head(new)
  <2>1. PICK c, m, n : c = calls' /\ m = Len(new) /\ n = Len(rest)
    OBVIOUS
  <2>2. /\ m \in Nat /\ n \in Nat /\ IsSequence(c) /\ Len(c) = m + n
        /\ \A i \in 1 .. m + n : c[i] = IF i <= m THEN new[i] ELSE rest[i - m]
    BY <1>3, <2>1, ConcatAt
  <2>3. 1 \in 1 .. m /\ Head(new) = new[1]
    BY <1>7, <2>1, SequenceFacts
  <2>4. Len(c) # 0 /\ c[1] = new[1]
    BY <2>2, <2>3
  <2>5. c # <<>>
    BY <2>4
  <2>6. Head(c) = c[1]
    BY <2>2, <2>5, SequenceFacts
  <2> QED
    BY <2>1, <2>3, <2>4, <2>5, <2>6
<1>8. calls # <<>> => Tail(calls) # calls
  BY <1>1, HeadTailProperties, LenProperties DEF IsSequence
<1> QED
  BY <1>2, <1>4, <1>5, <1>6, <1>7, <1>8

LEMMA HeadNamed ==
  ASSUME IInv, RInv, NEW what, At(what), what \notin {"updateProgress", "closeTransfers", "closeRequests"}
  PROVE  calls # <<>> /\ Head(calls).x \in Xfers /\ Head(calls) = Do(what, Head(calls).x)
BY RefSequences, StackTail DEF RInv, At, Nameless, Named

\* The step of a transfer: new statements for it in the place of the head, which is also its,
\* or on top of all.
StepFor(x, rest, new) ==
  /\ ListFor(new, x) /\ calls' = new \o rest
  /\ \/ rest = calls /\ Outside
     \/ rest = Tail(calls) /\ calls # <<>> /\ Head(calls) = Do(Head(calls).do, x)
  /\ \/ \A e \in ToSet(new) : e.do \notin Early
     \/ rest # calls /\ Head(calls).do \in Early
     \/ calls = <<>>
  /\ Covered(new) \/ (rest # calls /\ Head(calls).do # "unref")

LEMMA OutsideHead ==
  ASSUME Outside, NEW what \in {"cancel", "end", "endFunction"}
  PROVE  ~ At(what)
BY HandlersAssumption DEF Outside, HandlersRun, HandlerKinds, At

LEMMA StepForOthers ==
  ASSUME IInv, RInv, NEW x \in Xfers, NEW rest, NEW new, StepFor(x, rest, new)
  PROVE  /\ StackOK(calls')
         /\ \A y \in Xfers \ {x} : SameHolders(y) /\ SameXfer(y) => XferRefs(y)'
<1>1. /\ IsSequence(new) /\ \A e \in ToSet(new) : e = Do(e.do, x)
      /\ LateFirst(new) /\ EndFirst(new)
  BY DEF StepFor, ListFor
<1>2. /\ rest = calls => ~ At("cancel") /\ ~ At("end") /\ ~ At("endFunction")
      /\ rest # calls => rest = Tail(calls) /\ calls # <<>> /\ Head(calls) = Do(Head(calls).do, x)
  BY OutsideHead DEF StepFor
<1>3. /\ RestOK(rest) /\ IsSequence(calls')
      /\ \A what, y : /\ Count(what, y)' \in Nat /\ Often(new, what, y) \in Nat
                      /\ Often(rest, what, y) \in Nat
                      /\ Count(what, y)' = Often(new, what, y) + Often(rest, what, y)
                      /\ Count(what, y) = Often(rest, what, y)
                           + IF rest # calls /\ Head(calls) = Do(what, y) THEN 1 ELSE 0
      /\ new = <<>> => ~ At("cancel")' /\ ~ At("end")'
      /\ new # <<>> => calls' # <<>> /\ Head(calls') = Head(new)
  BY <1>1, <1>2, CountsAfter DEF RInv, StepFor
<1>4. StackOK(calls')
  <2>1. /\ rest # calls => RestOK(Tail(calls))
        /\ rest # calls /\ Head(calls).do \in Early => \A e \in ToSet(rest) : e.do \notin Late
        /\ rest # calls /\ Head(calls).do # "unref" =>
             Nameless(Head(calls)) \/ Do("unref", Head(calls).x) \in ToSet(rest)
    BY <1>2, RefSequences, StackTail DEF RInv
  <2>2. rest # calls => ~ Nameless(Head(calls))
    BY <1>2 DEF Nameless, Uses, Do
  <2>3. \/ \A e \in ToSet(new) : e.do \notin Early
        \/ \A e \in ToSet(rest) : e.do \notin Late
    BY <1>2, <2>1, EmptySet DEF StepFor
  <2>4. \/ Covered(new)
        \/ \A e \in ToSet(new) : Named(e) /\ Do("unref", e.x) \in ToSet(rest)
    <3>1. ASSUME ~ Covered(new), NEW e \in ToSet(new)
          PROVE  Named(e) /\ Do("unref", e.x) \in ToSet(rest)
      <4>1. e = Do(e.do, x) /\ e.x = x
        BY <1>1, DoFields
      <4>2. Head(calls).x = x
        BY <1>2, <3>1, DoFields DEF StepFor
      <4> QED
        BY <2>1, <2>2, <3>1, <4>1, <4>2 DEF StepFor, Named
    <3> QED
      BY <3>1
  <2> QED
    BY <1>1, <1>3, <2>3, <2>4, StackConcat DEF StepFor
<1>5. ASSUME NEW y \in Xfers \ {x}, SameHolders(y), SameXfer(y) PROVE XferRefs(y)'
  <2>1. ASSUME NEW what PROVE Often(new, what, y) = 0
    <3>1. ToSet(new) \cap {Do(what, y)} = {}
      BY <1>1, DoFields
    <3> QED
      BY <1>1, <3>1, CountNone DEF Often
  <2>2. rest # calls => \A what : Head(calls) # Do(what, y)
    BY <1>2, DoFields
  <2>3. \A what \in Counted : Count(what, y)' = Count(what, y)
    BY <1>3, <2>1, <2>2
  <2>4. ~ Nexts("cancel", y) /\ ~ Nexts("end", y) /\ ~ Nexts("endFunction", y)
    BY <1>2, DoFields DEF Nexts
  <2>5. ~ Nexts("cancel", y)' /\ ~ Nexts("end", y)'
    <3>1. CASE new = <<>>
      BY <1>3, <3>1 DEF Nexts
    <3>2. CASE new # <<>>
      <4>1. Head(new) \in ToSet(new)
        BY <1>1, <3>2, TailSet
      <4>2. Head(calls').x # y
        BY <1>1, <1>3, <3>2, <4>1, DoFields
      <4> QED
        BY <4>2 DEF Nexts
    <3> QED
      BY <3>1, <3>2
  <2>6. XferRefs(y)
    BY DEF RInv
  <2> QED
    BY <1>5, <2>3, <2>4, <2>5, <2>6, Untouched
<1> QED
  BY <1>4, <1>5

\* What such a step means for the transfer
LEMMA StepForIt ==
  ASSUME IInv, RInv, NEW x \in Xfers, NEW rest, NEW new, StepFor(x, rest, new)
  PROVE  /\ \A what : /\ Count(what, x) \in Nat /\ Count(what, x)' \in Nat /\ Often(new, what, x) \in Nat
                      /\ Count(what, x)' + (IF rest # calls /\ Head(calls).do = what THEN 1 ELSE 0)
                           = Often(new, what, x) + Count(what, x)
         /\ \A what \in {"cancel", "end", "endFunction"} :
              Nexts(what, x) <=> rest # calls /\ Head(calls).do = what
         /\ \A what \in {"cancel", "end"} :
              Nexts(what, x)' <=> new # <<>> /\ Head(new).do = what
         /\ new # <<>> => \A what : Nexts(what, x)' <=> Head(new).do = what
         /\ rest # calls /\ Head(calls).do \in Early =>
              \A what \in Late : Count(what, x) = 0
<1>1. /\ IsSequence(new) /\ \A e \in ToSet(new) : e = Do(e.do, x)
  BY DEF StepFor, ListFor
<1>2. /\ rest = calls => ~ At("cancel") /\ ~ At("end") /\ ~ At("endFunction")
      /\ rest # calls => rest = Tail(calls) /\ calls # <<>> /\ Head(calls) = Do(Head(calls).do, x)
  BY OutsideHead DEF StepFor
<1>3. /\ RestOK(rest) /\ IsSequence(calls')
      /\ \A what, y : /\ Count(what, y)' \in Nat /\ Often(new, what, y) \in Nat
                      /\ Often(rest, what, y) \in Nat
                      /\ Count(what, y)' = Often(new, what, y) + Often(rest, what, y)
                      /\ Count(what, y) = Often(rest, what, y)
                           + IF rest # calls /\ Head(calls) = Do(what, y) THEN 1 ELSE 0
      /\ new = <<>> => ~ At("cancel")' /\ ~ At("end")'
      /\ new # <<>> => calls' # <<>> /\ Head(calls') = Head(new)
  BY <1>1, <1>2, CountsAfter DEF RInv, StepFor
<1>4. ASSUME NEW what
      PROVE  /\ Count(what, x) \in Nat /\ Count(what, x)' \in Nat /\ Often(new, what, x) \in Nat
             /\ Count(what, x)' + (IF rest # calls /\ Head(calls).do = what THEN 1 ELSE 0)
                  = Often(new, what, x) + Count(what, x)
  <2>1. rest # calls => (Head(calls) = Do(what, x) <=> Head(calls).do = what)
    BY <1>2, DoFields
  <2>2. /\ Count(what, x)' \in Nat /\ Often(new, what, x) \in Nat
        /\ Often(rest, what, x) \in Nat
        /\ Count(what, x)' = Often(new, what, x) + Often(rest, what, x)
        /\ Count(what, x) = Often(rest, what, x)
             + IF rest # calls /\ Head(calls) = Do(what, x) THEN 1 ELSE 0
    BY <1>3
  <2> QED
    BY <2>1, <2>2
<1>5. ASSUME NEW what \in {"cancel", "end", "endFunction"}
      PROVE  Nexts(what, x) <=> rest # calls /\ Head(calls).do = what
  BY <1>2, DoFields DEF Nexts, At
<1>6. ASSUME new # <<>>, NEW what PROVE Nexts(what, x)' <=> Head(new).do = what
  <2>1. Head(new).x = x
    BY <1>1, <1>6, TailSet, DoFields
  <2> QED
    BY <1>3, <1>6, <2>1 DEF Nexts, At
<1>7. ASSUME NEW what \in {"cancel", "end"}
      PROVE  Nexts(what, x)' <=> new # <<>> /\ Head(new).do = what
  BY <1>3, <1>6 DEF Nexts
<1>8. ASSUME rest # calls, Head(calls).do \in Early, NEW what \in Late PROVE Count(what, x) = 0
  <2>0. \A e \in ToSet(rest) : e.do \notin Late
    BY <1>2, <1>8, RefSequences, StackTail DEF RInv
  <2>1. Do(what, x) \notin ToSet(rest) /\ Head(calls) # Do(what, x)
    BY <1>8, <2>0, DoFields DEF Early, Late
  <2>2. ToSet(calls) = {Head(calls)} \cup ToSet(rest)
    BY <1>2, <1>8, RefSequences, TailSet
  <2> QED
    BY <2>1, <2>2, RefSequences, CountNone DEF Count
<1> QED
  BY <1>4, <1>5, <1>6, <1>7, <1>8

LEMMA SameRegisters ==
  ASSUME UNCHANGED <<registry, requests>>
  PROVE  \A x : SameHolders(x)
BY DEF SameHolders, Registered, Asked, ChatAsked, UploadAsked

LEMMA StepDone ==
  ASSUME IInv, RInv, NEW x \in Xfers, NEW rest, NEW new, StepFor(x, rest, new),
         \A y \in Xfers \ {x} : SameHolders(y) /\ SameXfer(y), XferRefs(x)', RefTypes'
  PROVE  RInv'
BY StepForOthers DEF RInv

-----------------------------------------------------------------------------
(* libpurple's steps and the references *)

\* The head is replaced by statements that change nothing of the references.
LEMMA QuietStep ==
  ASSUME IInv, RInv, NEW what, At(what),
         what \notin Counted \cup {"cancel", "end", "updateProgress", "closeTransfers", "closeRequests"},
         NEW new, Quiet(new, Head(calls).x), Calling(new),
         UNCHANGED <<refs, ended, registry, requests, deferred>>, \A y \in Xfers : SameXfer(y)
  PROVE  RInv'
<1>1. PICK x : x = Head(calls).x
  OBVIOUS
<1>2. calls # <<>> /\ x \in Xfers /\ Head(calls) = Do(what, x) /\ Head(calls).do = what
  BY <1>1, HeadNamed, DoFields
<1>3. /\ ListFor(new, x) /\ \A e \in ToSet(new) : e.do \notin Early
      /\ \A other \in Counted : Often(new, other, x) = 0
  BY <1>1, QuietList DEF Counted
<1>4. StepFor(x, Tail(calls), new) /\ Tail(calls) # calls
  <2>1. Tail(calls) # calls
    BY <1>2, RefSequences, HeadTailProperties, LenProperties DEF IsSequence
  <2> QED
    BY <1>2, <1>3, <2>1 DEF StepFor, Calling, Counted
<1>5. \A y \in Xfers : SameHolders(y)
  BY SameRegisters
<1>6. XferRefs(x)'
  <2>1. \A other \in Counted : Count(other, x)' = Count(other, x)
    <3> TAKE other \in Counted
    <3>1. /\ Count(other, x) \in Nat /\ Count(other, x)' \in Nat
          /\ Count(other, x)' + (IF Tail(calls) # calls /\ Head(calls).do = other THEN 1 ELSE 0)
               = Often(new, other, x) + Count(other, x)
      BY <1>2, <1>4, StepForIt
    <3> QED
      BY <1>2, <1>3, <3>1
  <2>2. ~ Nexts("cancel", x) /\ ~ Nexts("end", x) /\ ~ Nexts("endFunction", x)
    BY <1>2 DEF Nexts, At, Counted
  <2>3. ~ Nexts("cancel", x)' /\ ~ Nexts("end", x)'
    <3>1. new # <<>> => Head(new).do \notin {"cancel", "end"}
      BY TailSet DEF Quiet
    <3> QED
      BY <1>2, <1>4, <3>1, StepForIt
  <2> QED
    BY <1>2, <1>5, <2>1, <2>2, <2>3, Untouched DEF RInv
<1>7. RefTypes'
  BY DEF RInv, RefTypes
<1> QED
  BY <1>2, <1>4, <1>5, <1>6, <1>7, StepDone

\* The head's transfer, the statements in its place, and what becomes of the counts
HeadCounts(x, what, new) ==
  /\ x \in Xfers /\ calls # <<>> /\ Head(calls) = Do(what, x) /\ Head(calls).do = what
  /\ StepFor(x, Tail(calls), new)
  /\ \A other : /\ Count(other, x) \in Nat /\ Count(other, x)' \in Nat
                /\ Count(other, x)' + (IF what = other THEN 1 ELSE 0)
                     = Often(new, other, x) + Count(other, x)
  /\ \A other \in {"cancel", "end", "endFunction"} : Nexts(other, x) <=> what = other
  /\ \A other \in {"cancel", "end"} : Nexts(other, x)' <=> new # <<>> /\ Head(new).do = other
  /\ what \in Early => \A late \in Late : Count(late, x) = 0

LEMMA HeadCountsIs ==
  ASSUME IInv, RInv, NEW what, At(what),
         what \notin {"updateProgress", "closeTransfers", "closeRequests"},
         NEW new, ListFor(new, Head(calls).x), Calling(new),
         (\A e \in ToSet(new) : e.do \notin Early) \/ what \in Early,
         Covered(new) \/ what # "unref"
  PROVE  HeadCounts(Head(calls).x, what, new)
<1>1. PICK x : x = Head(calls).x
  OBVIOUS
<1>2. calls # <<>> /\ x \in Xfers /\ Head(calls) = Do(what, x) /\ Head(calls).do = what
  BY <1>1, HeadNamed, DoFields
<1>3. Tail(calls) # calls
  BY <1>2, RefSequences, HeadTailProperties, LenProperties DEF IsSequence
<1>4. StepFor(x, Tail(calls), new)
  BY <1>1, <1>2, <1>3 DEF StepFor, Calling
<1>5. ASSUME NEW other
      PROVE  /\ Count(other, x) \in Nat /\ Count(other, x)' \in Nat
             /\ Count(other, x)' + (IF what = other THEN 1 ELSE 0) = Often(new, other, x) + Count(other, x)
  <2>1. /\ Count(other, x) \in Nat /\ Count(other, x)' \in Nat
        /\ Count(other, x)' + (IF Tail(calls) # calls /\ Head(calls).do = other THEN 1 ELSE 0)
             = Often(new, other, x) + Count(other, x)
    BY <1>2, <1>4, StepForIt
  <2> QED
    BY <1>2, <1>3, <2>1
<1>6. /\ \A other \in {"cancel", "end", "endFunction"} : Nexts(other, x) <=> what = other
      /\ \A other \in {"cancel", "end"} : Nexts(other, x)' <=> new # <<>> /\ Head(new).do = other
  BY <1>2, <1>3, <1>4, StepForIt
<1>7. what \in Early => \A late \in Late : Count(late, x) = 0
  BY <1>2, <1>3, <1>4, StepForIt
<1>8. HeadCounts(x, what, new)
  BY <1>2, <1>4, <1>5, <1>6, <1>7 DEF HeadCounts
<1> QED
  BY <1>1, <1>8

LEMMA EmptyList ==
  ASSUME NEW x
  PROVE  ListFor(<<>>, x) /\ Covered(<<>>) /\ ToSet(<<>>) = {} /\ \A what : Often(<<>>, what, x) = 0
<1>1. IsSequence(<<>>) /\ ToSet(<<>>) = {} /\ DOMAIN <<>> = {}
  BY EmptySet
<1> QED
  BY <1>1, CountFew DEF ListFor, LateFirst, EndFirst, Covered, Often

LEMMA CancelRefs ==
  ASSUME IInv, RInv, Cancel, UNCHANGED <<registry, requests, deferred>>
  PROVE  RInv'
<1>1. PICK x : x = Head(calls).x
  OBVIOUS
<1>2. /\ At("cancel") /\ Calling(<<>>) /\ UNCHANGED <<refs, data>>
      /\ status' = [status EXCEPT ![x] = "cancelled"] /\ ended' = [ended EXCEPT ![x] = TRUE]
  BY <1>1 DEF Cancel, Returning
<1>3. HeadCounts(x, "cancel", <<>>)
  BY <1>1, <1>2, EmptyList, HeadCountsIs
<1>4. /\ x \in Xfers /\ status'[x] = "cancelled" /\ ended'[x] = TRUE
      /\ \A y \in Xfers \ {x} : SameXfer(y)
  BY <1>2, <1>3 DEF IInv, DataTypes, RInv, RefTypes, HeadCounts, SameXfer, Cancelled
<1>5. \A what \in Counted : Count(what, x)' = Count(what, x)
  <2> TAKE what \in Counted
  <2>1. Often(<<>>, what, x) = 0 /\ what # "cancel"
    BY EmptyList DEF Counted
  <2>2. /\ Count(what, x) \in Nat /\ Count(what, x)' \in Nat
        /\ Count(what, x)' + (IF "cancel" = what THEN 1 ELSE 0) = Often(<<>>, what, x) + Count(what, x)
    BY <1>3 DEF HeadCounts
  <2> QED
    BY <2>1, <2>2
<1>6. XferRefs(x) /\ SameHolders(x) /\ Nexts("cancel", x) /\ ~ Nexts("cancel", x)' /\ ~ Nexts("end", x)'
  BY <1>3, SameRegisters DEF RInv, HeadCounts
<1>7. XferRefs(x)'
  <2>1. HoldsOK(x)'
    BY <1>6 DEF XferRefs, HoldsOK, SameHolders
  <2>2. RefsOK(x)'
    BY <1>2, <1>4, <1>5, <1>6 DEF XferRefs, RefsOK, Over, Cancelled, SameHolders, Counted
  <2>3. CancelOK(x)' /\ EndOK(x)'
    BY <1>2, <1>4, <1>5, <1>6 DEF XferRefs, CancelOK, EndOK, Cancelled, Counted
  <2> QED
    BY <2>1, <2>2, <2>3 DEF XferRefs
<1>8. RefTypes'
  BY <1>2 DEF RInv, RefTypes
<1> QED
  BY <1>3, <1>4, <1>7, <1>8, SameRegisters, StepDone DEF HeadCounts

LEMMA EndRefs ==
  ASSUME IInv, RInv, End, UNCHANGED <<registry, requests, deferred>>
  PROVE  RInv'
<1>1. PICK x : x = Head(calls).x
  OBVIOUS
<1>2. /\ At("end") /\ Calling(<<>>) /\ UNCHANGED <<refs, data, status>>
      /\ ended' = [ended EXCEPT ![x] = TRUE]
  BY <1>1 DEF End, Returning
<1>3. HeadCounts(x, "end", <<>>)
  BY <1>1, <1>2, EmptyList, HeadCountsIs
<1>4. /\ x \in Xfers /\ ended'[x] = TRUE
      /\ \A y \in Xfers \ {x} : SameXfer(y)
  BY <1>2, <1>3 DEF RInv, RefTypes, HeadCounts, SameXfer, Cancelled
<1>5. \A what \in Counted : Count(what, x)' = Count(what, x)
  <2> TAKE what \in Counted
  <2>1. Often(<<>>, what, x) = 0 /\ what # "end"
    BY EmptyList DEF Counted
  <2>2. /\ Count(what, x) \in Nat /\ Count(what, x)' \in Nat
        /\ Count(what, x)' + (IF "end" = what THEN 1 ELSE 0) = Often(<<>>, what, x) + Count(what, x)
    BY <1>3 DEF HeadCounts
  <2> QED
    BY <2>1, <2>2
<1>6. /\ XferRefs(x) /\ SameHolders(x) /\ Nexts("end", x) /\ ~ Nexts("endFunction", x)
      /\ ~ Nexts("cancel", x) /\ ~ Nexts("cancel", x)' /\ ~ Nexts("end", x)'
  BY <1>3, SameRegisters DEF RInv, HeadCounts
<1>7. ASSUME Head(Tail(calls)) = Do("endFunction", x), Count("endFunction", x)' = 1
      PROVE  Nexts("endFunction", x)'
  <2>1. calls' = Tail(calls)
    BY <1>2, <1>3, RefSequences, TailSet, ConcatEmptySeq DEF Calling, IsSequence, HeadCounts
  <2>2. calls' # <<>>
    BY <1>7, CountFew DEF Count
  <2> QED
    BY <1>7, <2>1, <2>2, DoFields DEF Nexts, At
<1>8. XferRefs(x)'
  <2>1. HoldsOK(x)'
    BY <1>6 DEF XferRefs, HoldsOK, SameHolders
  <2>2. RefsOK(x)'
    BY <1>2, <1>4, <1>5, <1>6 DEF XferRefs, RefsOK, Over, Cancelled, SameHolders, Counted
  <2>3. CancelOK(x)'
    BY <1>2, <1>5, <1>6 DEF XferRefs, CancelOK, Cancelled, Counted
  <2>4. EndOK(x)'
    BY <1>2, <1>4, <1>5, <1>6, <1>7 DEF XferRefs, EndOK, Cancelled, Counted
  <2> QED
    BY <2>1, <2>2, <2>3, <2>4 DEF XferRefs
<1>9. RefTypes'
  BY <1>2 DEF RInv, RefTypes
<1> QED
  BY <1>3, <1>4, <1>8, <1>9, SameRegisters, StepDone DEF HeadCounts

LEMMA UnrefRefs ==
  ASSUME IInv, RInv, Unref, UNCHANGED <<registry, requests, deferred>>
  PROVE  RInv'
<1>1. PICK x : x = Head(calls).x
  OBVIOUS
<1>2. /\ At("unref") /\ Calling(<<>>) /\ UNCHANGED <<status, data, ended>>
      /\ refs' = [refs EXCEPT ![x] = @ - 1]
  BY <1>1 DEF Unref, Returning
<1>3. HeadCounts(x, "unref", <<>>)
  BY <1>1, <1>2, EmptyList, HeadCountsIs
<1>4. /\ \A what \in Counted \ {"unref"} : Count(what, x)' = Count(what, x)
      /\ Count("unref", x)' + 1 = Count("unref", x) /\ Count("unref", x)' \in Nat
  <2>1. ASSUME NEW what \in Counted
        PROVE  /\ Count(what, x) \in Nat /\ Count(what, x)' \in Nat
               /\ Count(what, x)' + (IF "unref" = what THEN 1 ELSE 0) = 0 + Count(what, x)
    <3>1. /\ Count(what, x) \in Nat /\ Count(what, x)' \in Nat
          /\ Count(what, x)' + (IF "unref" = what THEN 1 ELSE 0) = Often(<<>>, what, x) + Count(what, x)
      BY <1>3 DEF HeadCounts
    <3>2. Often(<<>>, what, x) = 0
      BY EmptyList
    <3> QED
      BY <3>1, <3>2
  <2> QED
    BY <2>1 DEF Counted
<1>0. /\ Count("unrefUnlessCancelled", x)' = Count("unrefUnlessCancelled", x)
      /\ Count("endFunction", x)' = Count("endFunction", x)
      /\ Count("cancelFunction", x)' = Count("cancelFunction", x)
  BY <1>4 DEF Counted
<1>5. /\ XferRefs(x) /\ SameHolders(x) /\ ~ Nexts("end", x) /\ ~ Nexts("endFunction", x)
      /\ ~ Nexts("cancel", x) /\ ~ Nexts("cancel", x)' /\ ~ Nexts("end", x)' /\ x \in Xfers
  BY <1>3, SameRegisters DEF RInv, HeadCounts
<1>6. Count("unrefUnlessCancelled", x) \in Nat
  BY RefSequences
<1>7. /\ refs'[x] = refs[x] - 1 /\ refs[x] - 1 \in Nat /\ refs' \in [Xfers -> Nat]
      /\ \A y \in Xfers \ {x} : SameXfer(y)
  <2>1. refs[x] - 1 \in Nat
    BY <1>4, <1>5, <1>6 DEF XferRefs, RefsOK
  <2>2. refs \in [Xfers -> Nat]
    BY DEF RInv, RefTypes
  <2>3. refs' \in [Xfers -> Nat] /\ refs'[x] = refs[x] - 1 /\ \A y \in Xfers \ {x} : refs'[y] = refs[y]
    BY <1>2, <1>5, <2>1, <2>2
  <2> QED
    BY <1>2, <2>1, <2>3 DEF SameXfer, Cancelled
<1>8. XferRefs(x)'
  <2>1. HoldsOK(x)'
    BY <1>5 DEF XferRefs, HoldsOK, SameHolders
  <2>2. RefsOK(x)'
    <3>1. /\ Over(x)' <=> Over(x)
          /\ Cancelled(x)' \/ Nexts("cancel", x)' <=> Cancelled(x) \/ Nexts("cancel", x)
          /\ Registered(x)' <=> Registered(x)
          /\ Asked(x)' <=> Asked(x)
          /\ status'[x] = status[x]
      BY <1>2, <1>5 DEF Over, Cancelled, SameHolders
    <3>2. PICK a, g, r, q :
            /\ a = IF status[x] # "none" /\ ~ Over(x) THEN 1 ELSE 0
            /\ g = IF Cancelled(x) \/ Nexts("cancel", x) THEN 0 ELSE Count("unrefUnlessCancelled", x)
            /\ r = IF Registered(x) THEN 1 ELSE 0
            /\ q = IF Asked(x) THEN 1 ELSE 0
      OBVIOUS
    <3>3. a \in Nat /\ g \in Nat /\ r \in Nat /\ q \in Nat
      BY <1>6, <3>2
    <3>4. refs[x] = a + Count("unref", x) + g + r + q
      BY <1>5, <3>2 DEF XferRefs, RefsOK
    <3>5. refs'[x] = a + Count("unref", x)' + g + r + q
      BY <1>4, <1>7, <3>3, <3>4
    <3> QED
      BY <1>0, <3>1, <3>2, <3>5 DEF RefsOK
  <2>3. CancelOK(x)'
    BY <1>0, <1>2, <1>5 DEF XferRefs, CancelOK, Cancelled
  <2>4. EndOK(x)'
    BY <1>0, <1>2, <1>5 DEF XferRefs, EndOK, Cancelled
  <2> QED
    BY <2>1, <2>2, <2>3, <2>4 DEF XferRefs
<1>9. RefTypes'
  BY <1>2, <1>7 DEF RInv, RefTypes
<1> QED
  BY <1>3, <1>7, <1>8, <1>9, SameRegisters, StepDone DEF HeadCounts

LEMMA UnrefUnlessCancelledRefs ==
  ASSUME IInv, RInv, UnrefUnlessCancelled, UNCHANGED <<registry, requests, deferred>>
  PROVE  RInv'
<1>1. PICK x : x = Head(calls).x
  OBVIOUS
<1>2. PICK new : new = IF Cancelled(x) THEN <<>> ELSE <<Do("unref", x)>>
  OBVIOUS
<1>3. At("unrefUnlessCancelled") /\ Calling(new) /\ UNCHANGED <<refs, status, data, ended>>
  BY <1>1, <1>2 DEF UnrefUnlessCancelled, xferVars
<1>4. x \in Xfers
  BY <1>1, <1>3, HeadNamed
<1>5. /\ ListFor(new, x) /\ Covered(new)
      /\ \A what \in Counted : Often(new, what, x) = IF what = "unref" /\ ~ Cancelled(x) THEN 1 ELSE 0
      /\ new # <<>> => Head(new).do = "unref"
  <2>1. CASE Cancelled(x)
    BY <1>2, <2>1, EmptyList
  <2>2. CASE ~ Cancelled(x)
    BY <1>2, <1>4, <2>2, DropLists, DoFields DEF Counted
  <2> QED
    BY <2>1, <2>2
<1>6. HeadCounts(x, "unrefUnlessCancelled", new)
  BY <1>1, <1>3, <1>5, HeadCountsIs DEF Early
<1>7. ASSUME NEW what \in Counted
      PROVE  /\ Count(what, x) \in Nat /\ Count(what, x)' \in Nat
             /\ Count(what, x)' + (IF "unrefUnlessCancelled" = what THEN 1 ELSE 0)
                  = (IF what = "unref" /\ ~ Cancelled(x) THEN 1 ELSE 0) + Count(what, x)
  <2>1. /\ Count(what, x) \in Nat /\ Count(what, x)' \in Nat
        /\ Count(what, x)' + (IF "unrefUnlessCancelled" = what THEN 1 ELSE 0)
             = Often(new, what, x) + Count(what, x)
    BY <1>6 DEF HeadCounts
  <2> QED
    BY <1>5, <2>1
<1>8. /\ Count("unref", x)' = Count("unref", x) + IF Cancelled(x) THEN 0 ELSE 1
      /\ Count("unrefUnlessCancelled", x) = Count("unrefUnlessCancelled", x)' + 1
      /\ Count("endFunction", x)' = Count("endFunction", x)
      /\ Count("cancelFunction", x)' = Count("cancelFunction", x)
      /\ Count("unref", x) \in Nat /\ Count("unrefUnlessCancelled", x)' \in Nat
  BY <1>7 DEF Counted
<1>9. /\ XferRefs(x) /\ SameHolders(x) /\ ~ Nexts("end", x) /\ ~ Nexts("endFunction", x)
      /\ ~ Nexts("cancel", x) /\ ~ Nexts("cancel", x)' /\ ~ Nexts("end", x)'
      /\ Count("endFunction", x) = 0
  BY <1>4, <1>5, <1>6, SameRegisters DEF RInv, HeadCounts, Early, Late
<1>10. XferRefs(x)'
  <2>1. HoldsOK(x)'
    BY <1>9 DEF XferRefs, HoldsOK, SameHolders
  <2>2. RefsOK(x)'
    BY <1>3, <1>8, <1>9 DEF XferRefs, RefsOK, Over, Cancelled, SameHolders
  <2>3. CancelOK(x)'
    BY <1>3, <1>8, <1>9 DEF XferRefs, CancelOK, Cancelled
  <2>4. EndOK(x)'
    BY <1>3, <1>8, <1>9 DEF XferRefs, EndOK, Cancelled
  <2> QED
    BY <2>1, <2>2, <2>3, <2>4 DEF XferRefs
<1>11. RefTypes'
  BY <1>3 DEF RInv, RefTypes
<1>12. \A y \in Xfers : SameXfer(y)
  BY <1>3 DEF SameXfer, Cancelled
<1> QED
  BY <1>4, <1>6, <1>10, <1>11, <1>12, SameRegisters, StepDone DEF HeadCounts

\* A transfer that is not over is cancelled.
LEMMA CancelXferRefs ==
  ASSUME IInv, RInv, NEW x \in Xfers, NEW rest, StepFor(x, rest, CancelXfer(x)),
         rest # calls => Head(calls).do \notin Counted \cup {"cancel", "end"},
         status[x] # "none", ~ Cancelled(x),
         ~ ended[x] \/ data[x] \/ Count("endFunction", x) # 0,
         UNCHANGED <<refs, status, data, ended, registry, requests, deferred>>
  PROVE  RInv'
<1>1. PICK new : new = CancelXfer(x)
  OBVIOUS
<1>2. /\ StepFor(x, rest, new) /\ new # <<>> /\ Head(new).do = "cancel"
      /\ \A what \in Counted : Often(new, what, x) = IF what \in {"unref", "cancelFunction"} THEN 1 ELSE 0
  BY <1>1, CancelList DEF Counted
<1>3. ASSUME NEW what \in Counted
      PROVE  /\ Count(what, x) \in Nat /\ Count(what, x)' \in Nat
             /\ Count(what, x)' = Count(what, x) + IF what \in {"unref", "cancelFunction"} THEN 1 ELSE 0
  <2>1. /\ Count(what, x) \in Nat /\ Count(what, x)' \in Nat
        /\ Count(what, x)' + (IF rest # calls /\ Head(calls).do = what THEN 1 ELSE 0)
             = Often(new, what, x) + Count(what, x)
    BY <1>2, StepForIt
  <2>2. ~(rest # calls /\ Head(calls).do = what)
    OBVIOUS
  <2> QED
    BY <1>2, <2>1, <2>2
<1>4. /\ Count("unref", x)' = Count("unref", x) + 1 /\ Count("unref", x) \in Nat
      /\ Count("unrefUnlessCancelled", x)' = Count("unrefUnlessCancelled", x)
      /\ Count("endFunction", x)' = Count("endFunction", x)
      /\ Count("cancelFunction", x)' = Count("cancelFunction", x) + 1 /\ Count("cancelFunction", x) \in Nat
  BY <1>3 DEF Counted
<1>5. /\ XferRefs(x) /\ SameHolders(x) /\ ~ Nexts("end", x) /\ ~ Nexts("endFunction", x)
      /\ ~ Nexts("cancel", x) /\ Nexts("cancel", x)' /\ ~ Nexts("end", x)'
  BY <1>2, StepForIt, SameRegisters DEF RInv, Counted
<1>6. XferRefs(x)'
  <2>1. HoldsOK(x)'
    BY <1>5 DEF XferRefs, HoldsOK, SameHolders
  <2>2. ~ ended[x] => Count("unrefUnlessCancelled", x) = 0
    BY <1>5 DEF XferRefs, EndOK
  <2>3. ended[x] => Count("unrefUnlessCancelled", x) = 1
    BY <1>5 DEF XferRefs, EndOK
  <2>4. RefsOK(x)'
    BY <1>4, <1>5, <2>2, <2>3 DEF XferRefs, RefsOK, Over, Cancelled, SameHolders
  <2>5. CancelOK(x)'
    BY <1>4, <1>5 DEF XferRefs, CancelOK, Cancelled
  <2>6. EndOK(x)'
    BY <1>4, <1>5 DEF XferRefs, EndOK, Cancelled
  <2> QED
    BY <2>1, <2>4, <2>5, <2>6 DEF XferRefs
<1>7. RefTypes' /\ \A y \in Xfers : SameXfer(y)
  BY DEF RInv, RefTypes, SameXfer, Cancelled
<1> QED
  BY <1>2, <1>6, <1>7, SameRegisters, StepDone

\* A handler of the completion ends the transfer.
LEMMA HandlersEndRefs ==
  ASSUME IInv, RInv, NEW x \in Xfers, HandlersEnd(x), UNCHANGED <<registry, requests, deferred>>
  PROVE  RInv'
<1>1. PICK new : new = <<Do("end", x), Do("endFunction", x), Do("unref", x)>>
  OBVIOUS
<1>2. /\ calls' = new \o calls /\ Outside /\ status[x] = "done" /\ ~ ended[x]
      /\ UNCHANGED <<refs, status, data, ended>>
  BY <1>1 DEF HandlersEnd, Outside, HandlersRun, xferVars
<1>3. /\ ListFor(new, x) /\ Covered(new) /\ new # <<>> /\ Head(new).do = "end"
      /\ \A e \in ToSet(new) : e.do \notin Early
      /\ \A what \in Counted : Often(new, what, x) = IF what \in {"unref", "endFunction"} THEN 1 ELSE 0
  BY <1>1, EndLists DEF Counted
<1>4. StepFor(x, calls, new)
  BY <1>2, <1>3 DEF StepFor
<1>5. ASSUME NEW what \in Counted
      PROVE  /\ Count(what, x) \in Nat /\ Count(what, x)' \in Nat
             /\ Count(what, x)' = Count(what, x) + IF what \in {"unref", "endFunction"} THEN 1 ELSE 0
  <2>1. /\ Count(what, x) \in Nat /\ Count(what, x)' \in Nat
        /\ Count(what, x)' + (IF calls # calls /\ Head(calls).do = what THEN 1 ELSE 0)
             = Often(new, what, x) + Count(what, x)
    BY <1>4, StepForIt
  <2> QED
    BY <1>3, <2>1
<1>6. /\ Count("unref", x)' = Count("unref", x) + 1 /\ Count("unref", x) \in Nat
      /\ Count("unrefUnlessCancelled", x)' = Count("unrefUnlessCancelled", x)
      /\ Count("endFunction", x)' = Count("endFunction", x) + 1
      /\ Count("cancelFunction", x)' = Count("cancelFunction", x)
  BY <1>5 DEF Counted
<1>7. /\ XferRefs(x) /\ SameHolders(x) /\ ~ Nexts("end", x)
      /\ ~ Nexts("cancel", x) /\ ~ Nexts("cancel", x)' /\ Nexts("end", x)'
  BY <1>3, <1>4, StepForIt, SameRegisters DEF RInv
<1>8. Head(Tail(calls')) = Do("endFunction", x)
  <2>1. PICK c, m, n : c = calls' /\ m = Len(new) /\ n = Len(calls)
    OBVIOUS
  <2>2. /\ n \in Nat /\ IsSequence(c) /\ Len(c) = m + n /\ m = 3 /\ new[2] = Do("endFunction", x)
        /\ \A i \in 1 .. m + n : c[i] = IF i <= m THEN new[i] ELSE calls[i - m]
    BY <1>1, <1>2, <1>3, <2>1, RefSequences, ConcatAt DEF ListFor
  <2>3. c # <<>> /\ c[2] = Do("endFunction", x)
    BY <2>2
  <2>4. PICK t : t = Tail(c)
    OBVIOUS
  <2>5. IsSequence(t) /\ Len(t) = m + n - 1 /\ \A i \in 1 .. Len(t) : t[i] = c[i + 1]
    BY <2>2, <2>3, <2>4, TailSet, HeadTailProperties DEF IsSequence
  <2>6. t # <<>> /\ t[1] = c[2]
    BY <2>2, <2>5
  <2>7. Head(t) = t[1]
    BY <2>5, <2>6, SequenceFacts
  <2> QED
    BY <2>1, <2>3, <2>4, <2>6, <2>7
<1>9. XferRefs(x)'
  <2>1. HoldsOK(x)'
    BY <1>7 DEF XferRefs, HoldsOK, SameHolders
  <2>2. ~ Cancelled(x) /\ data[x] /\ Count("unrefUnlessCancelled", x) = 0 /\ Count("endFunction", x) = 0
    BY <1>2, <1>7 DEF XferRefs, EndOK, Cancelled
  <2>3. RefsOK(x)'
    BY <1>2, <1>6, <1>7, <2>2 DEF XferRefs, RefsOK, Over, Cancelled, SameHolders
  <2>4. CancelOK(x)'
    BY <1>2, <1>6, <1>7 DEF XferRefs, CancelOK, Cancelled
  <2>5. EndOK(x)'
    <3>1. Count("endFunction", x)' = 1 /\ data'[x] = TRUE /\ status'[x] # "none"
      BY <1>2, <1>6, <2>2 DEF IInv, DataTypes
    <3> QED
      BY <1>2, <1>7, <1>8, <2>2, <3>1 DEF EndOK, Cancelled
  <2> QED
    BY <2>1, <2>3, <2>4, <2>5 DEF XferRefs
<1>10. RefTypes' /\ \A y \in Xfers : SameXfer(y)
  BY <1>2 DEF RInv, RefTypes, SameXfer, Cancelled
<1> QED
  BY <1>4, <1>9, <1>10, SameRegisters, StepDone

LEMMA LibpurpleRefs ==
  ASSUME IInv, RInv, LibpurpleSteps, UNCHANGED <<registry, requests, deferred>>
  PROVE  RInv'
<1>1. CASE CancelUnlessOver
  <2>1. PICK x : x = Head(calls).x
    OBVIOUS
  <2>2. /\ At("cancelUnlessOver") /\ UNCHANGED <<refs, status, data, ended>>
        /\ Calling(IF data[x] /\ ~ Cancelled(x) THEN CancelXfer(x) ELSE <<>>)
    BY <1>1, <2>1 DEF CancelUnlessOver, xferVars
  <2>3. CASE data[x] /\ ~ Cancelled(x)
    <3>1. calls # <<>> /\ x \in Xfers /\ Head(calls) = Do("cancelUnlessOver", x)
          /\ Head(calls).do = "cancelUnlessOver"
      BY <2>1, <2>2, HeadNamed, DoFields
    <3>2. Tail(calls) # calls
      BY <3>1, RefSequences, HeadTailProperties, LenProperties DEF IsSequence
    <3>3. StepFor(x, Tail(calls), CancelXfer(x))
      BY <2>2, <2>3, <3>1, <3>2, CancelList DEF StepFor, Calling
    <3>4. status[x] # "none"
      BY <2>3, <3>1 DEF RInv, XferRefs, EndOK
    <3> QED
      BY <2>2, <2>3, <3>1, <3>2, <3>3, <3>4, CancelXferRefs DEF Counted
  <2>4. CASE ~(data[x] /\ ~ Cancelled(x))
    <3>1. Calling(<<>>) /\ Quiet(<<>>, x) /\ \A y \in Xfers : SameXfer(y)
      BY <2>2, <2>4, EmptySet DEF Quiet, SameXfer, Cancelled
    <3> QED
      BY <2>1, <2>2, <3>1, QuietStep DEF Counted
  <2> QED
    BY <2>3, <2>4
<1>2. CASE HandlersReturn
  <2>1. PICK kind \in HandlerKinds : At(kind)
    BY <1>2 DEF HandlersReturn
  <2>2. /\ UNCHANGED <<refs, status, data, ended>> /\ Calling(<<>>)
        /\ Quiet(<<>>, Head(calls).x) /\ \A y \in Xfers : SameXfer(y)
    BY <1>2, EmptySet DEF HandlersReturn, Returning, xferVars, Quiet, SameXfer, Cancelled
  <2> QED
    BY <2>1, <2>2, QuietStep DEF HandlerKinds, Counted
<1>3. ASSUME NEW x \in Xfers, HandlersCancel(x) PROVE RInv'
  <2>1. /\ Outside /\ calls' = CancelXfer(x) \o calls /\ UNCHANGED <<refs, status, data, ended>>
        /\ status[x] # "none" /\ ~ Cancelled(x)
        /\ ~ ended[x] \/ \E i \in DOMAIN calls : calls[i] = Do("endFunction", x)
    BY <1>3 DEF HandlersCancel, Cancellable, xferVars, Cancelled
  <2>2. ~ ended[x] \/ Count("endFunction", x) # 0
    <3>1. ASSUME NEW i \in DOMAIN calls, calls[i] = Do("endFunction", x)
          PROVE  Count("endFunction", x) # 0
      BY <3>1, RefSequences, CountNone DEF Count, ToSet
    <3> QED
      BY <2>1, <3>1
  <2>3. StepFor(x, calls, CancelXfer(x))
    BY <2>1, CancelList DEF StepFor
  <2> QED
    BY <2>1, <2>2, <2>3, CancelXferRefs
<1> QED
  BY <1>1, <1>2, <1>3, CancelRefs, EndRefs, UnrefRefs, UnrefUnlessCancelledRefs, HandlersEndRefs
  DEF LibpurpleSteps

-----------------------------------------------------------------------------
(* Uploads that are asked for and answered, and the references *)

LEMMA RequestsOfTwo ==
  ASSUME NEW x \in Xfers
  PROVE  RequestsOf(x) = {Request("createPrivateChat", x), Request("upload", x)}
BY DEF RequestsOf, Requests, Request

\* A transfer's request is taken out; it has no other one.
LEMMA RequestGone ==
  ASSUME IInv, NEW x \in Xfers, NEW kind \in {"createPrivateChat", "upload"},
         Request(kind, x) \in ToSet(requests), NEW reqs, reqs = Without(requests, Request(kind, x))
  PROVE  /\ IsSequence(reqs) /\ Occurrences(reqs, RequestsOf(x)) = 0
         /\ \A k \in {"createPrivateChat", "upload"} : Request(k, x) \notin ToSet(reqs)
         /\ \A y \in Xfers \ {x} :
              /\ Occurrences(reqs, RequestsOf(y)) = Occurrences(requests, RequestsOf(y))
              /\ \A k : Request(k, y) \in ToSet(reqs) <=> Request(k, y) \in ToSet(requests)
<1>1. IsSequence(requests)
  BY AccountSets DEF IInv
<1>2. IsSequence(reqs) /\ ToSet(reqs) = ToSet(requests) \ {Request(kind, x)}
  BY <1>1, WithoutSet
<1>3. \A k \in {"createPrivateChat", "upload"} : Request(k, x) \notin ToSet(reqs)
  <2>1. ~ (ChatAsked(x) /\ UploadAsked(x))
    BY DEF IInv, XferOK, StageOK
  <2> QED
    BY <1>2, <2>1 DEF ChatAsked, UploadAsked
<1>4. Occurrences(reqs, RequestsOf(x)) = 0
  BY <1>2, <1>3, RequestsOfTwo, CountNone
<1>5. ASSUME NEW y \in Xfers \ {x}
      PROVE  /\ Occurrences(reqs, RequestsOf(y)) = Occurrences(requests, RequestsOf(y))
             /\ \A k : Request(k, y) \in ToSet(reqs) <=> Request(k, y) \in ToSet(requests)
  <2>1. \A k : Request(k, y) # Request(kind, x)
    BY RequestsDiffer
  <2>2. ToSet(requests) \cap RequestsOf(y) \subseteq ToSet(requests) \ {Request(kind, x)}
    BY <2>1, RequestsOfTwo
  <2>3. Occurrences(reqs, RequestsOf(y)) = Occurrences(requests, RequestsOf(y))
    BY <1>1, <2>2, CountOnly DEF Without
  <2> QED
    BY <1>2, <2>1, <2>3
<1> QED
  BY <1>2, <1>3, <1>4, <1>5

\* A step from rest: what is executed next is all there is.
LEMMA FromRest ==
  ASSUME IInv, RInv, calls = <<>>, NEW x \in Xfers, NEW new, ListFor(new, x), Covered(new), calls' = new
  PROVE  /\ StepFor(x, calls, new) /\ Outside
         /\ \A what : Count(what, x) = 0 /\ Count(what, x)' = Often(new, what, x)
         /\ \A what : ~ Nexts(what, x)
         /\ \A what \in {"cancel", "end"} : Nexts(what, x)' <=> new # <<>> /\ Head(new).do = what
<1>1. IsSequence(new)
  BY DEF ListFor
<1>2. calls' = new \o calls
  BY <1>1, ConcatEmptySeq DEF IsSequence
<1>3. StepFor(x, calls, new)
  BY <1>2 DEF StepFor, Outside
<1>4. \A what : Count(what, x) = 0 /\ Count(what, x)' = Often(new, what, x)
  BY CountFew DEF Count, Often
<1>5. \A what : ~ Nexts(what, x)
  BY DEF Nexts, At
<1>6. \A what \in {"cancel", "end"} : Nexts(what, x)' <=> new # <<>> /\ Head(new).do = what
  BY <1>3, StepForIt
<1> QED
  BY <1>3, <1>4, <1>5, <1>6 DEF Outside

\* sendFileToChat
LEMMA SendRefs ==
  ASSUME IInv, RInv, NEW x \in Xfers, SendToChat(x) \/ SendToUser(x) \/ SendToNobody(x)
  PROVE  RInv'
<1>1. PICK references, new :
        /\ NewTransfer(x, references) /\ calls' = new
        /\ \/ /\ references = 2 /\ new = <<>>
              /\ \E kind \in {"upload", "createPrivateChat"} : requests' = Append(requests, Request(kind, x))
           \/ references = 1 /\ new = CancelXfer(x) /\ requests' = requests
  BY DEF SendToChat, SendToUser, SendToNobody, NewTransfer
<1>2. /\ calls = <<>> /\ status[x] = "none"
      /\ status' = [status EXCEPT ![x] = "accepted"] /\ refs' = [refs EXCEPT ![x] = references]
      /\ data' = [data EXCEPT ![x] = TRUE] /\ UNCHANGED <<ended, registry, deferred>>
  BY <1>1 DEF NewTransfer
<1>3. /\ ListFor(new, x) /\ Covered(new)
      /\ \A what \in Counted : Often(new, what, x) =
           IF new # <<>> /\ what \in {"unref", "cancelFunction"} THEN 1 ELSE 0
      /\ new # <<>> => Head(new).do = "cancel"
  BY <1>1, EmptyList, CancelList DEF Counted
<1>4. /\ StepFor(x, calls, new)
      /\ \A what : Count(what, x) = 0 /\ Count(what, x)' = Often(new, what, x)
      /\ \A what : ~ Nexts(what, x)
      /\ Nexts("cancel", x)' <=> new # <<>>
      /\ ~ Nexts("end", x)'
  BY <1>2, <1>1, <1>3, FromRest
<1>5. XferRefs(x) /\ XferOK(x) /\ IsSequence(requests) /\ IsSequence(registry)
  BY AccountSets DEF IInv, RInv
<1>6. /\ ~ Registered(x) /\ ~ Asked(x) /\ ~ ended[x]
      /\ Occurrences(registry, {x}) = 0 /\ Occurrences(requests, RequestsOf(x)) = 0
  BY <1>2, <1>5 DEF XferOK, StageOK, XferRefs, EndOK, HoldsOK
<1>7. /\ status'[x] = "accepted" /\ refs'[x] = references /\ data'[x] = TRUE
      /\ ended'[x] = FALSE /\ RefTypes'
      /\ \A y \in Xfers \ {x} : SameXfer(y)
  BY <1>1, <1>2, <1>6 DEF IInv, DataTypes, RInv, RefTypes, SameXfer, Cancelled
<1>8. /\ Occurrences(requests, RequestsOf(x))' = (IF new = <<>> THEN 1 ELSE 0)
      /\ Asked(x)' <=> new = <<>>
      /\ \A y \in Xfers \ {x} : SameHolders(y)
  <2>1. CASE new = <<>>
    <3>1. PICK kind \in {"upload", "createPrivateChat"} : requests' = Append(requests, Request(kind, x))
      BY <1>1, <2>1, CancelList
    <3>2. IsSequence(requests') /\ ToSet(requests') = ToSet(requests) \cup {Request(kind, x)}
      BY <1>5, <3>1, AppendSet
    <3>3. \A S : Occurrences(requests', S) = Occurrences(requests, S) + (IF Request(kind, x) \in S THEN 1 ELSE 0)
      BY <1>5, <3>1, CountAppend
    <3>4. Request(kind, x) \in RequestsOf(x)
      BY RequestsOfTwo
    <3>5. Occurrences(requests, RequestsOf(x))' = 1
      <4>1. Occurrences(requests', RequestsOf(x)) = 1
        BY <1>6, <3>3, <3>4
      <4> QED
        BY <4>1 DEF RequestsOf
    <3>6. Asked(x)'
      BY <3>2 DEF Asked, ChatAsked, UploadAsked
    <3>7. ASSUME NEW y \in Xfers \ {x} PROVE SameHolders(y)
      <4>1. \A k : Request(k, y) # Request(kind, x)
        BY RequestsDiffer
      <4>2. Request(kind, x) \notin RequestsOf(y)
        BY <4>1, RequestsOfTwo
      <4>3. Occurrences(requests, RequestsOf(y)) \in Nat
        BY <1>5, TallyIs
      <4>4. Occurrences(requests', RequestsOf(y)) = Occurrences(requests, RequestsOf(y))
        BY <3>3, <4>2, <4>3
      <4>5. Asked(y)' <=> Asked(y)
        BY <3>2, <4>1 DEF Asked, ChatAsked, UploadAsked
      <4> QED
        BY <1>2, <4>4, <4>5 DEF SameHolders, Registered, RequestsOf
    <3> QED
      BY <2>1, <3>5, <3>6, <3>7
  <2>2. CASE new # <<>>
    <3>1. requests' = requests /\ registry' = registry
      BY <1>1, <1>2, <2>2
    <3> QED
      BY <1>6, <2>2, <3>1, SameRegisters DEF RequestsOf, Asked, ChatAsked, UploadAsked
  <2> QED
    BY <2>1, <2>2
<1>9. XferRefs(x)'
  <2>1. /\ Count("unref", x)' = (IF new # <<>> THEN 1 ELSE 0)
        /\ Count("cancelFunction", x)' = (IF new # <<>> THEN 1 ELSE 0)
        /\ Count("unrefUnlessCancelled", x)' = 0 /\ Count("endFunction", x)' = 0
    BY <1>3, <1>4 DEF Counted
  <2>2. /\ ~ Registered(x)' /\ Occurrences(registry, {x})' = 0 /\ ~ Cancelled(x)'
        /\ references = IF new = <<>> THEN 2 ELSE 1
    BY <1>1, <1>2, <1>6, <1>7, CancelList DEF Registered, Cancelled
  <2>3. HoldsOK(x)'
    BY <1>8, <2>2 DEF HoldsOK
  <2>4. RefsOK(x)'
    BY <1>4, <1>7, <1>8, <2>1, <2>2 DEF RefsOK, Over
  <2>5. CancelOK(x)'
    BY <1>4, <2>1, <2>2 DEF CancelOK
  <2>6. EndOK(x)'
    BY <1>4, <1>7, <2>1, <2>2 DEF EndOK
  <2> QED
    BY <2>3, <2>4, <2>5, <2>6 DEF XferRefs
<1> QED
  BY <1>4, <1>7, <1>8, <1>9, StepDone

\* An answer that ends the upload drops its reference.
LEMMA AnswerRefs ==
  ASSUME IInv, RInv, NEW x \in Xfers, NEW kind \in {"createPrivateChat", "upload"}, Answered(kind, x),
         requests' = Without(requests, Request(kind, x)),
         calls' = <<Do("unref", x)>> \/ calls' = FailXfer(x),
         UNCHANGED <<refs, status, data, ended, registry>>, deferred' \subseteq Files
  PROVE  RInv'
<1>1. PICK new : calls' = new /\ (new = <<Do("unref", x)>> \/ new = FailXfer(x))
  OBVIOUS
<1>2. /\ ListFor(new, x) /\ Covered(new) /\ new # <<>>
      /\ Head(new).do \notin {"cancel", "end"}
      /\ \A what \in Counted : Often(new, what, x) = IF what = "unref" THEN 1 ELSE 0
  <2>1. /\ ListFor(new, x) /\ Covered(new) /\ new # <<>>
        /\ \A e \in ToSet(new) : e.do \notin {"cancel", "end"}
        /\ \A what \in Counted : Often(new, what, x) = IF what = "unref" THEN 1 ELSE 0
    BY <1>1, DropLists DEF Counted
  <2> QED
    BY <2>1, TailSet DEF ListFor
<1>3. /\ StepFor(x, calls, new)
      /\ \A what : Count(what, x) = 0 /\ Count(what, x)' = Often(new, what, x)
      /\ \A what : ~ Nexts(what, x)
      /\ ~ Nexts("cancel", x)' /\ ~ Nexts("end", x)'
  BY <1>1, <1>2, FromRest DEF Answered
<1>4. /\ Occurrences(requests', RequestsOf(x)) = 0
      /\ \A k \in {"createPrivateChat", "upload"} : Request(k, x) \notin ToSet(requests')
      /\ \A y \in Xfers \ {x} :
           /\ Occurrences(requests', RequestsOf(y)) = Occurrences(requests, RequestsOf(y))
           /\ \A k : Request(k, y) \in ToSet(requests') <=> Request(k, y) \in ToSet(requests)
  BY RequestGone DEF Answered
<1>5. /\ XferRefs(x) /\ XferOK(x) /\ Asked(x)
  BY DEF IInv, RInv, Answered, Asked, ChatAsked, UploadAsked
<1>6. \A y \in Xfers \ {x} : SameHolders(y) /\ SameXfer(y)
  BY <1>4 DEF SameHolders, SameXfer, Registered, Asked, ChatAsked, UploadAsked, RequestsOf, Cancelled
<1>7. XferRefs(x)'
  <2>1. ~ Registered(x) /\ ~ Registered(x)' /\ ~ Asked(x)'
    BY <1>4, <1>5 DEF XferOK, StageOK, Registered, Asked, ChatAsked, UploadAsked
  <2>2. /\ Count("unref", x) = 0 /\ Count("unref", x)' = 1
        /\ Count("unrefUnlessCancelled", x) = 0 /\ Count("unrefUnlessCancelled", x)' = 0
        /\ Count("endFunction", x) = 0 /\ Count("endFunction", x)' = 0
        /\ Count("cancelFunction", x) = 0 /\ Count("cancelFunction", x)' = 0
    BY <1>2, <1>3 DEF Counted
  <2>3. HoldsOK(x)'
    BY <1>4, <1>5, <2>1 DEF XferRefs, HoldsOK, RequestsOf, Registered
  <2>4. RefsOK(x)'
    BY <1>3, <1>5, <2>1, <2>2 DEF XferRefs, RefsOK, Over, Cancelled
  <2>5. CancelOK(x)' /\ EndOK(x)'
    BY <1>3, <1>5, <2>2 DEF XferRefs, CancelOK, EndOK, Cancelled
  <2> QED
    BY <2>3, <2>4, <2>5 DEF XferRefs
<1>8. RefTypes'
  BY DEF RInv, RefTypes
<1> QED
  BY <1>3, <1>6, <1>7, <1>8, StepDone

\* Statements that are for no transfer, on top of the others
LEMMA NamelessPush ==
  ASSUME IInv, RInv, Outside, NEW new, IsSequence(new), \A e \in ToSet(new) : Nameless(e),
         calls' = new \o calls
  PROVE  /\ StackOK(calls')
         /\ \A what, x : Count(what, x)' = Count(what, x)
         /\ \A what \in {"cancel", "end", "endFunction"} : ~ At(what)
         /\ ~ At("cancel")' /\ ~ At("end")'
<1>1. \A what \in {"cancel", "end", "endFunction"} : ~ At(what)
  BY OutsideHead
<1>2. /\ RestOK(calls) /\ IsSequence(calls')
      /\ \A what, y : /\ Count(what, y)' \in Nat /\ Often(new, what, y) \in Nat
                      /\ Often(calls, what, y) \in Nat
                      /\ Count(what, y)' = Often(new, what, y) + Often(calls, what, y)
                      /\ Count(what, y) = Often(calls, what, y)
                           + IF calls # calls /\ Head(calls) = Do(what, y) THEN 1 ELSE 0
      /\ new = <<>> => ~ At("cancel")' /\ ~ At("end")'
      /\ new # <<>> => calls' # <<>> /\ Head(calls') = Head(new)
  BY <1>1, CountsAfter DEF RInv
<1>3. ASSUME NEW what, NEW x PROVE Count(what, x)' = Count(what, x)
  <2>1. ToSet(new) \cap {Do(what, x)} = {}
    BY DEF Nameless, Uses, Do
  <2>2. Often(new, what, x) = 0
    BY <2>1, CountNone DEF Often
  <2>3. /\ Often(calls, what, x) \in Nat
        /\ Count(what, x)' = Often(new, what, x) + Often(calls, what, x)
        /\ Count(what, x) = Often(calls, what, x)
             + IF calls # calls /\ Head(calls) = Do(what, x) THEN 1 ELSE 0
    BY <1>2
  <2> QED
    BY <2>2, <2>3
<1>4. \A e \in ToSet(new) : e.do # "end" /\ e.do # "cancel" /\ e.do \notin Early /\ e.do \notin Late
  BY DEF Nameless, Early, Late
<1>5. LateFirst(new) /\ EndFirst(new)
  BY <1>4, PlainOrder
<1>6. Covered(new)
  BY SequenceFacts DEF Covered, ToSet
<1>7. StackOK(calls')
  BY <1>2, <1>4, <1>5, <1>6, StackConcat
<1>8. ~ At("cancel")' /\ ~ At("end")'
  <2>1. new # <<>> => Head(new) \in ToSet(new)
    BY TailSet
  <2> QED
    BY <1>2, <1>4, <2>1 DEF At
<1> QED
  BY <1>1, <1>3, <1>7, <1>8

\* updateFile, tgprpl_close
LEMMA PushedRefs ==
  ASSUME IInv, RInv,
         Disconnect \/ \E f \in Files : \E says \in FileSays(f) : FileUpdate(f, says)
  PROVE  RInv'
<1>1. PICK new : /\ calls' = new \o calls /\ Outside /\ IsSequence(new)
                 /\ \A e \in ToSet(new) : Nameless(e)
  <2>1. CASE Disconnect
    <3>1. PICK a, b, new : /\ a = [do |-> "closeTransfers"] /\ b = [do |-> "closeRequests"]
                           /\ new = <<a, b>> /\ calls' = new \o calls /\ Outside
      BY <2>1 DEF Disconnect
    <3>2. IsSequence(new) /\ ToSet(new) = {a, b}
      BY <3>1, TupleSets
    <3>3. Nameless(a) /\ Nameless(b)
      BY <3>1 DEF Nameless, Uses
    <3> QED
      BY <3>1, <3>2, <3>3
  <2>2. ASSUME NEW f \in Files, NEW says \in FileSays(f), FileUpdate(f, says)
        PROVE  \E new : /\ calls' = new \o calls /\ Outside /\ IsSequence(new)
                        /\ \A e \in ToSet(new) : Nameless(e)
    <3>1. PICK u, new : u = UpdateProgress(f, says) /\ new = <<u>> /\ calls' = new /\ calls = <<>>
      BY <2>2 DEF FileUpdate
    <3>2. Nameless(u)
      BY <3>1 DEF UpdateProgress, Nameless, Uses
    <3>3. IsSequence(new) /\ ToSet(new) = {u}
      BY <3>1, SingleSet
    <3>4. calls' = new \o calls
      BY <3>1, <3>3, ConcatEmptySeq DEF IsSequence
    <3> QED
      BY <3>1, <3>2, <3>3, <3>4 DEF Outside
  <2> QED
    BY <2>1, <2>2
<1>2. UNCHANGED <<refs, status, ended, data, registry, requests, deferred>>
  BY DEF Disconnect, FileUpdate, xferVars, account
<1>3. /\ StackOK(calls')
      /\ \A what, x : Count(what, x)' = Count(what, x)
      /\ \A what \in {"cancel", "end", "endFunction"} : ~ At(what)
      /\ ~ At("cancel")' /\ ~ At("end")'
  BY <1>1, NamelessPush
<1>4. ASSUME NEW x \in Xfers PROVE XferRefs(x)'
  <2>1. SameHolders(x) /\ SameXfer(x) /\ XferRefs(x)
    BY <1>2, SameRegisters DEF SameXfer, Cancelled, RInv
  <2> QED
    BY <1>3, <2>1, Untouched DEF Nexts
<1>5. RefTypes'
  BY <1>2 DEF RInv, RefTypes
<1> QED
  BY <1>3, <1>4, <1>5 DEF RInv

LEMMA DeferredTypes ==
  ASSUME NEW waiting, waiting \subseteq Files, NEW f \in Files, NEW reqs, NEW reg
  PROVE  /\ DeferOrCancelUpload(f, waiting, reqs, reg).deferred \subseteq Files
         /\ FlushDeferredUploadCancels(waiting, reqs, reg).deferred \subseteq Files
BY DEF DeferOrCancelUpload, FlushDeferredUploadCancels

LEMMA AnswersRefs ==
  ASSUME IInv, RInv, NEW x \in Xfers, NEW says,
         \/ PrivateChatNotNeeded(x) \/ PrivateChatRefused(x)
         \/ UploadNotNeeded(x, says) \/ UploadFailed(x)
  PROVE  RInv'
<1>1. deferred \subseteq Files /\ fileOf[x] \in Files
  BY DEF IInv, DataTypes, RInv, RefTypes
<1>2. CASE PrivateChatNotNeeded(x) \/ PrivateChatRefused(x)
  <2>1. /\ Answered("createPrivateChat", x)
        /\ requests' = Without(requests, Request("createPrivateChat", x))
        /\ calls' = <<Do("unref", x)>> \/ calls' = FailXfer(x)
        /\ UNCHANGED <<refs, status, data, ended, registry, deferred>>
    BY <1>2 DEF PrivateChatNotNeeded, PrivateChatRefused, xferVars
  <2> QED
    BY <1>1, <2>1, AnswerRefs
<1>3. CASE UploadNotNeeded(x, says)
  <2>1. PICK given : given = DeferOrCancelUpload(fileOf[x], deferred, requests', registry)
    OBVIOUS
  <2>2. /\ Answered("upload", x) /\ requests' = Without(requests, Request("upload", x))
        /\ calls' = <<Do("unref", x)>>
        /\ UNCHANGED <<refs, status, data, ended, registry>>
        /\ deferred' = FlushDeferredUploadCancels(given.deferred, requests', registry).deferred
    BY <1>3, <2>1 DEF UploadNotNeeded, xferVars
  <2>3. given.deferred \subseteq Files
    BY <1>1, <2>1, DeferredTypes
  <2>4. deferred' \subseteq Files
    BY <1>1, <2>2, <2>3, DeferredTypes
  <2> QED
    BY <2>2, <2>4, AnswerRefs
<1>4. CASE UploadFailed(x)
  <2>1. /\ Answered("upload", x) /\ requests' = Without(requests, Request("upload", x))
        /\ calls' = FailXfer(x)
        /\ UNCHANGED <<refs, status, data, ended, registry>>
        /\ deferred' = FlushDeferredUploadCancels(deferred, requests', registry).deferred
    BY <1>4 DEF UploadFailed, xferVars
  <2>2. deferred' \subseteq Files
    BY <1>1, <2>1, DeferredTypes
  <2> QED
    BY <2>1, <2>2, AnswerRefs
<1> QED
  BY <1>2, <1>3, <1>4

\* sendMessageCreatePrivateChatResponse: the upload's request keeps the reference, and what
\* the answer had is dropped.
LEMMA ChatCreatedRefs ==
  ASSUME IInv, RInv, NEW x \in Xfers, PrivateChatCreated(x)
  PROVE  RInv'
<1>1. PICK new, reqs : new = <<Do("unref", x)>> /\ reqs = Without(requests, Request("createPrivateChat", x))
  OBVIOUS
<1>2. /\ calls = <<>> /\ calls' = new /\ Request("createPrivateChat", x) \in ToSet(requests)
      /\ requests' = Append(reqs, Request("upload", x)) /\ refs' = [refs EXCEPT ![x] = @ + 1]
      /\ UNCHANGED <<status, ended, data, registry, deferred>>
  BY <1>1 DEF PrivateChatCreated, Answered
<1>3. /\ ListFor(new, x) /\ Covered(new) /\ new # <<>> /\ Head(new).do = "unref"
      /\ \A what \in Counted : Often(new, what, x) = IF what = "unref" THEN 1 ELSE 0
  BY <1>1, DropLists, DoFields DEF Counted
<1>4. /\ StepFor(x, calls, new)
      /\ \A what : Count(what, x) = 0 /\ Count(what, x)' = Often(new, what, x)
      /\ \A what : ~ Nexts(what, x)
      /\ ~ Nexts("cancel", x)' /\ ~ Nexts("end", x)'
  BY <1>2, <1>3, FromRest
<1>5. /\ IsSequence(reqs) /\ Occurrences(reqs, RequestsOf(x)) = 0
      /\ \A y \in Xfers \ {x} :
           /\ Occurrences(reqs, RequestsOf(y)) = Occurrences(requests, RequestsOf(y))
           /\ \A k : Request(k, y) \in ToSet(reqs) <=> Request(k, y) \in ToSet(requests)
  BY <1>1, <1>2, RequestGone
<1>6. /\ ToSet(requests') = ToSet(reqs) \cup {Request("upload", x)}
      /\ \A S : Occurrences(requests', S) = Occurrences(reqs, S) + (IF Request("upload", x) \in S THEN 1 ELSE 0)
  BY <1>2, <1>5, AppendSet, CountAppend
<1>7. /\ XferRefs(x) /\ XferOK(x) /\ Asked(x) /\ refs \in [Xfers -> Nat]
  BY <1>2 DEF IInv, RInv, RefTypes, Asked, ChatAsked
<1>8. refs'[x] = refs[x] + 1 /\ refs' \in [Xfers -> Nat] /\ \A y \in Xfers \ {x} : SameXfer(y)
  BY <1>2, <1>7 DEF SameXfer, Cancelled
<1>9. ASSUME NEW y \in Xfers \ {x} PROVE SameHolders(y)
  <2>1. Request("upload", x) \notin RequestsOf(y) /\ \A k : Request(k, y) # Request("upload", x)
    BY RequestsOfTwo, RequestsDiffer
  <2>2. Occurrences(requests', RequestsOf(y)) = Occurrences(requests, RequestsOf(y))
    BY <1>5, <1>6, <2>1, TallyIs
  <2> QED
    BY <1>2, <1>5, <1>6, <2>1, <2>2 DEF SameHolders, Registered, Asked, ChatAsked, UploadAsked, RequestsOf
<1>10. XferRefs(x)'
  <2>1. /\ Count("unref", x) = 0 /\ Count("unref", x)' = 1
        /\ Count("unrefUnlessCancelled", x) = 0 /\ Count("unrefUnlessCancelled", x)' = 0
        /\ Count("endFunction", x) = 0 /\ Count("endFunction", x)' = 0
        /\ Count("cancelFunction", x) = 0 /\ Count("cancelFunction", x)' = 0
    BY <1>3, <1>4 DEF Counted
  <2>2. Asked(x)' /\ Registered(x)' = Registered(x) /\ ~ Registered(x)
    BY <1>2, <1>6, <1>7 DEF Asked, UploadAsked, Registered, XferOK, StageOK
  <2>3. Request("upload", x) \in RequestsOf(x)
    BY RequestsOfTwo
  <2>4. Occurrences(requests', RequestsOf(x)) = 1
    BY <1>5, <1>6, <2>3
  <2>5. HoldsOK(x)'
    BY <1>2, <1>7, <2>2, <2>4 DEF XferRefs, HoldsOK, RequestsOf
  <2>6. RefsOK(x)'
    BY <1>2, <1>4, <1>7, <1>8, <2>1, <2>2 DEF XferRefs, RefsOK, Over, Cancelled
  <2>7. CancelOK(x)' /\ EndOK(x)'
    BY <1>2, <1>4, <1>7, <2>1 DEF XferRefs, CancelOK, EndOK, Cancelled
  <2> QED
    BY <2>5, <2>6, <2>7 DEF XferRefs
<1>11. RefTypes'
  BY <1>2, <1>8 DEF RInv, RefTypes
<1> QED
  BY <1>4, <1>8, <1>9, <1>10, <1>11, StepDone

\* uploadResponse: the registry keeps the reference that the request had.
LEMMA AcceptedRefs ==
  ASSUME IInv, RInv, NEW x \in Xfers, NEW says, UploadAccepted(x, says)
  PROVE  RInv'
<1>1. PICK reqs : reqs = Without(requests, Request("upload", x))
  OBVIOUS
<1>2. /\ calls = <<>> /\ Request("upload", x) \in ToSet(requests)
      /\ requests' = reqs /\ registry' = Append(registry, x)
      /\ deferred' = FlushDeferredUploadCancels(deferred \ {fileOf[x]}, reqs, registry).deferred
      /\ UNCHANGED <<status, ended, data>>
      /\ \/ calls' = <<Do("report", x), Do("unref", x)>> /\ refs' = [refs EXCEPT ![x] = @ + 1]
         \/ calls' = <<UpdateProgress(fileOf[x], says)>> /\ refs' = refs
  BY <1>1 DEF UploadAccepted, Answered
<1>3. XferRefs(x) /\ XferOK(x) /\ Asked(x) /\ refs \in [Xfers -> Nat] /\ IsSequence(registry)
  BY <1>2, AccountSets DEF IInv, RInv, RefTypes, Asked, UploadAsked
<1>4. ~ Registered(x) /\ Occurrences(registry, {x}) = 0
  BY <1>3 DEF XferOK, StageOK, XferRefs, HoldsOK
<1>5. /\ Occurrences(reqs, RequestsOf(x)) = 0
      /\ \A k \in {"createPrivateChat", "upload"} : Request(k, x) \notin ToSet(reqs)
      /\ \A y \in Xfers \ {x} :
           /\ Occurrences(reqs, RequestsOf(y)) = Occurrences(requests, RequestsOf(y))
           /\ \A k : Request(k, y) \in ToSet(reqs) <=> Request(k, y) \in ToSet(requests)
  BY <1>1, <1>2, RequestGone
<1>6. /\ ToSet(registry') = ToSet(registry) \cup {x}
      /\ \A S : Occurrences(registry', S) = Occurrences(registry, S) + (IF x \in S THEN 1 ELSE 0)
  BY <1>2, <1>3, AppendSet, CountAppend
<1>7. /\ Registered(x)' /\ ~ Asked(x)' /\ HoldsOK(x)'
      /\ \A y \in Xfers \ {x} : SameHolders(y)
  <2>1. Registered(x)' /\ ~ Asked(x)'
    BY <1>2, <1>5, <1>6 DEF Registered, Asked, ChatAsked, UploadAsked
  <2>2. Occurrences(registry', {x}) = 1
    BY <1>4, <1>6
  <2>3. HoldsOK(x)'
    BY <1>2, <1>5, <2>1, <2>2 DEF HoldsOK, RequestsOf
  <2>4. ASSUME NEW y \in Xfers \ {x} PROVE SameHolders(y)
    <3>1. Occurrences(registry', {y}) = Occurrences(registry, {y})
      BY <1>3, <1>6, TallyIs
    <3> QED
      BY <1>2, <1>5, <1>6, <3>1 DEF SameHolders, Registered, Asked, ChatAsked, UploadAsked, RequestsOf
  <2> QED
    BY <2>1, <2>3, <2>4
<1>8. deferred' \subseteq Files
  <2>1. fileOf[x] \in Files /\ deferred \ {fileOf[x]} \subseteq Files
    BY DEF IInv, DataTypes, RInv, RefTypes
  <2> QED
    BY <1>2, <2>1, DeferredTypes
<1>9. CASE calls' = <<Do("report", x), Do("unref", x)>> /\ refs' = [refs EXCEPT ![x] = @ + 1]
  <2>1. PICK new : new = <<Do("report", x), Do("unref", x)>> /\ calls' = new
    BY <1>9
  <2>2. /\ ListFor(new, x) /\ Covered(new) /\ new # <<>> /\ Head(new).do = "report"
        /\ \A what \in Counted : Often(new, what, x) = IF what = "unref" THEN 1 ELSE 0
    BY <2>1, DropLists, DoFields DEF Counted
  <2>3. /\ StepFor(x, calls, new)
        /\ \A what : Count(what, x) = 0 /\ Count(what, x)' = Often(new, what, x)
        /\ \A what : ~ Nexts(what, x)
        /\ ~ Nexts("cancel", x)' /\ ~ Nexts("end", x)'
    BY <1>2, <2>1, <2>2, FromRest
  <2>4. refs'[x] = refs[x] + 1 /\ refs' \in [Xfers -> Nat] /\ \A y \in Xfers \ {x} : SameXfer(y)
    BY <1>2, <1>3, <1>9 DEF SameXfer, Cancelled
  <2>5. /\ Count("unref", x) = 0 /\ Count("unref", x)' = 1
        /\ Count("unrefUnlessCancelled", x) = 0 /\ Count("unrefUnlessCancelled", x)' = 0
        /\ Count("endFunction", x) = 0 /\ Count("endFunction", x)' = 0
        /\ Count("cancelFunction", x) = 0 /\ Count("cancelFunction", x)' = 0
    BY <2>2, <2>3 DEF Counted
  <2>6. RefsOK(x)'
    BY <1>2, <1>3, <1>4, <1>7, <2>3, <2>4, <2>5 DEF XferRefs, RefsOK, Over, Cancelled
  <2>7. CancelOK(x)' /\ EndOK(x)'
    BY <1>2, <1>3, <2>3, <2>5 DEF XferRefs, CancelOK, EndOK, Cancelled
  <2>8. XferRefs(x)' /\ RefTypes'
    BY <1>2, <1>7, <1>8, <2>4, <2>6, <2>7 DEF XferRefs, RInv, RefTypes
  <2> QED
    BY <1>7, <2>3, <2>4, <2>8, StepDone
<1>10. CASE calls' = <<UpdateProgress(fileOf[x], says)>> /\ refs' = refs
  <2>1. PICK u, new : u = UpdateProgress(fileOf[x], says) /\ new = <<u>> /\ calls' = new
    BY <1>10
  <2>2. Nameless(u)
    BY <2>1 DEF UpdateProgress, Nameless, Uses
  <2>3. IsSequence(new) /\ ToSet(new) = {u}
    BY <2>1, SingleSet
  <2>4. calls' = new \o calls
    BY <1>2, <2>1, <2>3, ConcatEmptySeq DEF IsSequence
  <2>5. /\ StackOK(calls')
        /\ \A what, y : Count(what, y)' = Count(what, y)
        /\ \A what \in {"cancel", "end", "endFunction"} : ~ At(what)
        /\ ~ At("cancel")' /\ ~ At("end")'
    BY <1>2, <2>2, <2>3, <2>4, NamelessPush DEF Outside
  <2>6. ASSUME NEW y \in Xfers \ {x} PROVE XferRefs(y)'
    <3>1. SameHolders(y) /\ SameXfer(y) /\ XferRefs(y)
      BY <1>2, <1>7, <1>10 DEF SameXfer, Cancelled, RInv
    <3> QED
      BY <2>5, <3>1, Untouched DEF Nexts
  <2>7. XferRefs(x)'
    <3>1. RefsOK(x)'
      <4>1. /\ Count("unref", x)' = Count("unref", x)
            /\ Count("unrefUnlessCancelled", x)' = Count("unrefUnlessCancelled", x)
            /\ Count("unref", x) = 0 /\ Count("unrefUnlessCancelled", x) = 0
        BY <1>2, <2>5, CountFew DEF Count
      <4>2. /\ ~ Nexts("cancel", x) /\ ~ Nexts("end", x)
            /\ ~ Nexts("cancel", x)' /\ ~ Nexts("end", x)'
        BY <2>5 DEF Nexts
      <4> QED
        BY <1>2, <1>3, <1>4, <1>7, <1>10, <4>1, <4>2 DEF XferRefs, RefsOK, Over, Cancelled
    <3>2. CancelOK(x)' /\ EndOK(x)'
      BY <1>2, <1>3, <2>5 DEF XferRefs, CancelOK, EndOK, Cancelled, Nexts
    <3> QED
      BY <1>7, <3>1, <3>2 DEF XferRefs
  <2>8. RefTypes'
    BY <1>2, <1>8, <1>10 DEF RInv, RefTypes
  <2> QED
    BY <2>5, <2>6, <2>7, <2>8 DEF RInv
<1> QED
  BY <1>2, <1>9, <1>10

-----------------------------------------------------------------------------
(* Progress and the end, and the references *)

\* What still has to see the data comes before the functions that take it.
LEMMA EarlyHead ==
  ASSUME IInv, RInv, NEW what \in Early, At(what)
  PROVE  /\ \A late \in Late : Count(late, Head(calls).x) = 0
         /\ data[Head(calls).x] => ~ Cancelled(Head(calls).x) /\ ~ ended[Head(calls).x]
<1>1. PICK x : x = Head(calls).x
  OBVIOUS
<1>2. calls # <<>> /\ x \in Xfers /\ Head(calls).do = what
  BY <1>1, HeadNamed DEF Early, At
<1>3. ASSUME NEW late \in Late PROVE Count(late, x) = 0
  <2>1. \A e \in ToSet(Tail(calls)) : e.do \notin Late
    BY <1>2, RefSequences, StackTail DEF RInv
  <2>2. ToSet(calls) = {Head(calls)} \cup ToSet(Tail(calls)) /\ Head(calls).do \notin Late
    BY <1>2, RefSequences, TailSet DEF Early, Late
  <2>3. Do(late, x) \notin ToSet(calls)
    BY <2>1, <2>2, DoFields
  <2> QED
    BY <2>3, RefSequences, CountNone DEF Count
<1>4. ~ Nexts("cancel", x) /\ ~ Nexts("end", x) /\ XferRefs(x)
  BY <1>2 DEF Nexts, At, Early, RInv
<1>5. /\ Count("cancelFunction", x) = 0 /\ Count("endFunction", x) = 0
  BY <1>3 DEF Late
<1>6. ASSUME data[x] PROVE ~ Cancelled(x) /\ ~ ended[x]
  BY <1>4, <1>5, <1>6 DEF XferRefs, CancelOK, EndOK
<1> QED
  BY <1>1, <1>3, <1>6

LEMMA QuietLists ==
  ASSUME NEW x
  PROVE  /\ Quiet(<<>>, x) /\ Quiet(<<Do("handlers", x)>>, x) /\ Quiet(<<Do("showProgress", x)>>, x)
         /\ Quiet(<<Do("handlers", x)>> \o <<Do("showProgress", x)>>, x)
<1>1. \A e : IsSequence(<<e>>) /\ ToSet(<<e>>) = {e}
  BY SingleSet
<1>2. /\ IsSequence(<<Do("handlers", x)>> \o <<Do("showProgress", x)>>)
      /\ ToSet(<<Do("handlers", x)>> \o <<Do("showProgress", x)>>) = {Do("handlers", x), Do("showProgress", x)}
  BY <1>1, ConcatSet
<1> QED
  BY <1>1, <1>2, EmptySet, DoFields DEF Quiet

LEMMA ReportRefs ==
  ASSUME IInv, RInv, Report \/ ShowProgress \/ Complete
  PROVE  RInv'
<1>1. PICK x : x = Head(calls).x
  OBVIOUS
<1>2. PICK what \in {"report", "showProgress", "complete"} : At(what)
  BY DEF Report, ShowProgress, Complete
<1>3. x \in Xfers
  BY <1>1, <1>2, HeadNamed
<1>4. /\ UNCHANGED <<refs, ended, data, registry, requests, deferred>>
      /\ \/ UNCHANGED status
         \/ /\ At("report") /\ data[x]
            /\ status' = [status EXCEPT ![x] = "started"]
         \/ ~ Cancelled(x) /\ data[x] /\ status' = [status EXCEPT ![x] = "done"]
  BY <1>1 DEF Report, ShowProgress, Complete, xferVars, account
<1>5. \E new : Quiet(new, x) /\ Calling(new)
  <2>1. \/ Calling(<<>>) \/ Calling(<<Do("handlers", x)>>)
        \/ Calling(<<>> \o <<Do("showProgress", x)>>)
        \/ Calling(<<Do("handlers", x)>> \o <<Do("showProgress", x)>>)
    BY <1>1 DEF Report, ShowProgress, Complete, Returning
  <2>2. <<>> \o <<Do("showProgress", x)>> = <<Do("showProgress", x)>>
    BY SingleSet, ConcatEmptySeq DEF IsSequence
  <2> QED
    BY <2>1, <2>2, QuietLists
<1>6. ASSUME NEW y \in Xfers PROVE SameXfer(y)
  <2>1. At("report") /\ data[x] => ~ Cancelled(x)
    BY <1>1, EarlyHead DEF Early
  <2>2. data[x] => status[x] # "none"
    BY <1>3 DEF RInv, XferRefs, EndOK
  <2> QED
    BY <1>3, <1>4, <2>1, <2>2 DEF SameXfer, Cancelled, IInv, DataTypes
<1> QED
  BY <1>1, <1>2, <1>4, <1>5, <1>6, QuietStep DEF Counted

\* The guarded purple_xfer_end
LEMMA GuardedEndTuple ==
  ASSUME NEW x, NEW s,
         s = <<Do("end", x), Do("handlers", x), Do("endFunction", x), Do("unref", x),
               Do("unrefUnlessCancelled", x)>>
  PROVE  /\ ListFor(s, x) /\ s # <<>> /\ Head(s).do = "end"
         /\ \A what \in Counted : Often(s, what, x) = IF what = "cancelFunction" THEN 0 ELSE 1
<1>2. /\ IsSequence(s) /\ DOMAIN s = 1 .. 5 /\ s # <<>> /\ Head(s) = Do("end", x)
      /\ ToSet(s) = {Do("end", x), Do("handlers", x), Do("endFunction", x), Do("unref", x),
                     Do("unrefUnlessCancelled", x)}
      /\ s[1] = Do("end", x) /\ s[2] = Do("handlers", x) /\ s[3] = Do("endFunction", x)
      /\ s[4] = Do("unref", x) /\ s[5] = Do("unrefUnlessCancelled", x)
  BY TupleSets
<1>3. \A e \in ToSet(s) : e = Do(e.do, x)
  BY <1>2, DoFields
<1>4. \A i \in 1 .. 5 : i = 1 \/ i = 2 \/ i = 3 \/ i = 4 \/ i = 5
  OBVIOUS
<1>5. EndFirst(s)
  BY <1>2, <1>4, DoFields DEF EndFirst
<1>6. \A i \in 1 .. 5 : s[i].do \in Early => i = 5
  BY <1>2, <1>4, DoFields DEF Early
<1>7. \A i \in 1 .. 5 : s[i].do \in Late => i = 3
  BY <1>2, <1>4, DoFields DEF Late
<1>8. LateFirst(s)
  <2>1. ASSUME NEW i \in 1 .. 5, NEW j \in 1 .. 5, i < j, s[j].do \in Late PROVE s[i].do \notin Early
    <3>1. j = 3
      BY <1>7, <2>1
    <3>2. i # 5
      BY <2>1, <3>1
    <3> QED
      BY <1>6, <3>2
  <2> QED
    BY <1>2, <2>1 DEF LateFirst
<1>9. ASSUME NEW what \in Counted PROVE Often(s, what, x) = IF what = "cancelFunction" THEN 0 ELSE 1
  <2> DEFINE S == {Do(what, x)}
  <2>1. \A other : Do(other, x) \in S <=> other = what
    BY DoDiffer
  <2> HIDE DEF S
  <2>2. Occurrences(s, S) =
          (IF Do("end", x) \in S THEN 1 ELSE 0) + (IF Do("handlers", x) \in S THEN 1 ELSE 0)
          + (IF Do("endFunction", x) \in S THEN 1 ELSE 0) + (IF Do("unref", x) \in S THEN 1 ELSE 0)
          + (IF Do("unrefUnlessCancelled", x) \in S THEN 1 ELSE 0)
    BY TupleCounts
  <2>3. Occurrences(s, S) = IF what = "cancelFunction" THEN 0 ELSE 1
    BY <2>1, <2>2 DEF Counted
  <2> QED
    BY <2>3 DEF Often, S
<1> QED
  BY <1>2, <1>3, <1>5, <1>8, <1>9, DoFields DEF ListFor

LEMMA GuardedEndList ==
  ASSUME NEW x
  PROVE  EndXfer(x) \o <<Do("unrefUnlessCancelled", x)>> =
           <<Do("end", x), Do("handlers", x), Do("endFunction", x), Do("unref", x),
             Do("unrefUnlessCancelled", x)>>
<1>1. ASSUME NEW a, NEW b, NEW c, NEW d, NEW e
      PROVE  <<a, b, c, d>> \o <<e>> = <<a, b, c, d, e>>
  <2>1. PICK s, t : s = <<a, b, c, d>> /\ t = <<a, b, c, d, e>>
    OBVIOUS
  <2>2. t = Append(s, e)
    BY <2>1
  <2>3. s \in Seq({a, b, c, d, e})
    BY <2>1
  <2>4. t = s \o <<e>>
    BY <2>2, <2>3, AppendIsConcat
  <2> QED
    BY <2>1, <2>4
<1> QED
  BY <1>1 DEF EndXfer

LEMMA EndUploadRefs ==
  ASSUME IInv, RInv, EndUpload
  PROVE  RInv'
<1>1. PICK x, new : x = Head(calls).x /\ new = EndXfer(x) \o <<Do("unrefUnlessCancelled", x)>>
  OBVIOUS
<1>2. /\ At("endUpload") /\ UNCHANGED <<status, ended, data, registry, requests, deferred>>
      /\ \/ ~ Cancelled(x) /\ data[x] /\ refs' = [refs EXCEPT ![x] = @ + 1] /\ Calling(new)
         \/ Calling(<<>>) /\ refs' = refs
  BY <1>1 DEF EndUpload, Returning, account
<1>3. CASE Calling(<<>>) /\ refs' = refs
  <2>1. Quiet(<<>>, Head(calls).x) /\ \A y \in Xfers : SameXfer(y)
    BY <1>2, <1>3, QuietLists DEF SameXfer, Cancelled
  <2> QED
    BY <1>2, <1>3, <2>1, QuietStep DEF Counted
<1>4. CASE ~ Cancelled(x) /\ data[x] /\ refs' = [refs EXCEPT ![x] = @ + 1] /\ Calling(new)
  <2>1. /\ ListFor(new, x) /\ new # <<>> /\ Head(new).do = "end"
        /\ \A what \in Counted : Often(new, what, x) = IF what = "cancelFunction" THEN 0 ELSE 1
    BY <1>1, GuardedEndList, GuardedEndTuple
  <2>2. HeadCounts(x, "endUpload", new)
    BY <1>1, <1>2, <1>4, <2>1, HeadCountsIs DEF Early
  <2>3. ASSUME NEW what \in Counted
        PROVE  /\ Count(what, x) \in Nat /\ Count(what, x)' \in Nat
               /\ Count(what, x)' = Count(what, x) + IF what = "cancelFunction" THEN 0 ELSE 1
    <3>1. /\ Count(what, x) \in Nat /\ Count(what, x)' \in Nat
          /\ Count(what, x)' + (IF "endUpload" = what THEN 1 ELSE 0) = Often(new, what, x) + Count(what, x)
      BY <2>2 DEF HeadCounts
    <3>2. what # "endUpload" /\ Often(new, what, x) = IF what = "cancelFunction" THEN 0 ELSE 1
      BY <2>1 DEF Counted
    <3> QED
      BY <3>1, <3>2
  <2>4. /\ Count("unref", x)' = Count("unref", x) + 1 /\ Count("unref", x) \in Nat
        /\ Count("unrefUnlessCancelled", x)' = Count("unrefUnlessCancelled", x) + 1
        /\ Count("endFunction", x)' = Count("endFunction", x) + 1
        /\ Count("cancelFunction", x)' = Count("cancelFunction", x)
    BY <2>3 DEF Counted
  <2>5. /\ x \in Xfers /\ XferRefs(x) /\ SameHolders(x)
        /\ ~ Nexts("end", x) /\ ~ Nexts("cancel", x) /\ Nexts("end", x)' /\ ~ Nexts("cancel", x)'
    BY <1>2, <2>1, <2>2, SameRegisters DEF RInv, HeadCounts
  <2>6. ~ ended[x]
    BY <1>1, <1>2, <1>4, EarlyHead DEF Early
  <2>7. /\ Count("unrefUnlessCancelled", x) = 0 /\ Count("endFunction", x) = 0 /\ status[x] # "none"
    BY <1>4, <2>5, <2>6 DEF XferRefs, EndOK
  <2>8. refs'[x] = refs[x] + 1 /\ refs' \in [Xfers -> Nat] /\ \A y \in Xfers \ {x} : SameXfer(y)
    BY <1>2, <1>4, <2>5 DEF RInv, RefTypes, SameXfer, Cancelled
  <2>9. XferRefs(x)'
    <3>1. HoldsOK(x)'
      BY <2>5 DEF XferRefs, HoldsOK, SameHolders
    <3>2. RefsOK(x)'
      BY <1>2, <1>4, <2>4, <2>5, <2>6, <2>7, <2>8 DEF XferRefs, RefsOK, Over, Cancelled, SameHolders
    <3>3. CancelOK(x)'
      BY <1>2, <2>4, <2>5 DEF XferRefs, CancelOK, Cancelled
    <3>4. EndOK(x)'
      BY <1>2, <1>4, <2>4, <2>5, <2>7 DEF EndOK, Cancelled
    <3> QED
      BY <3>1, <3>2, <3>3, <3>4 DEF XferRefs
  <2>10. RefTypes'
    BY <1>2, <2>8 DEF RInv, RefTypes
  <2>11. StepFor(x, Tail(calls), new)
    BY <2>2 DEF HeadCounts
  <2> QED
    BY <1>2, <2>5, <2>8, <2>9, <2>10, <2>11, SameRegisters, StepDone
<1> QED
  BY <1>2, <1>3, <1>4

\* endUpload of tdlib-purple.cpp
LEMMA EndFunctionRefs ==
  ASSUME IInv, RInv, EndFunction
  PROVE  RInv'
<1>1. PICK x : x = Head(calls).x
  OBVIOUS
<1>2. /\ At("endFunction") /\ Calling(<<>>) /\ data' = [data EXCEPT ![x] = FALSE]
      /\ UNCHANGED <<refs, status, ended, registry, requests, deferred>>
  BY <1>1 DEF EndFunction, Returning, account
<1>3. HeadCounts(x, "endFunction", <<>>)
  BY <1>1, <1>2, EmptyList, HeadCountsIs
<1>4. ASSUME NEW what
      PROVE  /\ Count(what, x) \in Nat /\ Count(what, x)' \in Nat
             /\ Count(what, x)' + (IF "endFunction" = what THEN 1 ELSE 0) = Count(what, x)
  <2>1. /\ Count(what, x) \in Nat /\ Count(what, x)' \in Nat
        /\ Count(what, x)' + (IF "endFunction" = what THEN 1 ELSE 0) = Often(<<>>, what, x) + Count(what, x)
    BY <1>3 DEF HeadCounts
  <2>2. Often(<<>>, what, x) = 0
    BY EmptyList
  <2> QED
    BY <2>1, <2>2
<1>5. /\ Count("unref", x)' = Count("unref", x)
      /\ Count("unrefUnlessCancelled", x)' = Count("unrefUnlessCancelled", x)
      /\ Count("endFunction", x) = Count("endFunction", x)' + 1 /\ Count("endFunction", x)' \in Nat
      /\ Count("cancelFunction", x)' = Count("cancelFunction", x)
  <2>1. /\ Count("unref", x)' = Count("unref", x)
        /\ Count("unrefUnlessCancelled", x)' = Count("unrefUnlessCancelled", x)
        /\ Count("cancelFunction", x)' = Count("cancelFunction", x)
    BY <1>4
  <2>2. Count("endFunction", x) = Count("endFunction", x)' + 1 /\ Count("endFunction", x)' \in Nat
    BY <1>4
  <2> QED
    BY <2>1, <2>2
<1>6. /\ x \in Xfers /\ XferRefs(x) /\ SameHolders(x)
      /\ ~ Nexts("end", x) /\ ~ Nexts("cancel", x) /\ ~ Nexts("end", x)' /\ ~ Nexts("cancel", x)'
  BY <1>2, <1>3, SameRegisters DEF RInv, HeadCounts
<1>7. /\ data'[x] = FALSE /\ RefTypes' /\ \A y \in Xfers \ {x} : SameXfer(y)
  BY <1>2, <1>6 DEF IInv, DataTypes, RInv, RefTypes, SameXfer, Cancelled
<1>8. XferRefs(x)'
  <2>1. HoldsOK(x)'
    BY <1>6 DEF XferRefs, HoldsOK, SameHolders
  <2>2. RefsOK(x)'
    BY <1>2, <1>5, <1>6 DEF XferRefs, RefsOK, Over, Cancelled, SameHolders
  <2>3. CancelOK(x)'
    BY <1>2, <1>5, <1>6, <1>7 DEF XferRefs, CancelOK, Cancelled
  <2>4. EndOK(x)'
    BY <1>2, <1>5, <1>6, <1>7 DEF XferRefs, EndOK, Cancelled
  <2> QED
    BY <2>1, <2>2, <2>3, <2>4 DEF XferRefs
<1>9. StepFor(x, Tail(calls), <<>>)
  BY <1>3 DEF HeadCounts
<1> QED
  BY <1>2, <1>6, <1>7, <1>8, <1>9, SameRegisters, StepDone

\* cancelUpload: the registry's reference is dropped.
LEMMA CancelFunctionRefs ==
  ASSUME IInv, RInv, CancelFunction
  PROVE  RInv'
<1>1. PICK x, new :
        /\ x = Head(calls).x /\ At("cancelFunction") /\ Calling(new)
        /\ data' = [data EXCEPT ![x] = FALSE]
        /\ UNCHANGED <<refs, status, ended, requests>>
        /\ \/ /\ new = <<Do("unref", x)>> /\ Registered(x) /\ registry' = Without(registry, x)
              /\ deferred' = DeferOrCancelUpload(fileOf[x], deferred, requests, Without(registry, x)).deferred
           \/ new = <<>> /\ UNCHANGED <<registry, deferred>>
  BY DEF CancelFunction, Returning, Registered
<1>2. x \in Xfers
  BY <1>1, HeadNamed
<1>3. /\ ListFor(new, x) /\ Covered(new)
      /\ \A e \in ToSet(new) : e.do \notin Early
      /\ \A what \in Counted : Often(new, what, x) = IF what = "unref" /\ new # <<>> THEN 1 ELSE 0
      /\ new # <<>> => Head(new).do = "unref"
  <2>1. CASE new = <<>>
    BY <2>1, EmptyList
  <2>2. CASE new = <<Do("unref", x)>>
    <3>1. ToSet(new) = {Do("unref", x)} /\ Head(new) = Do("unref", x)
      BY <2>2, SingleSet
    <3> QED
      BY <1>2, <2>2, <3>1, DropLists, DoFields DEF Counted, Early
  <2> QED
    BY <1>1, <2>1, <2>2
<1>4. HeadCounts(x, "cancelFunction", new)
  BY <1>1, <1>3, HeadCountsIs
<1>5. ASSUME NEW what \in Counted
      PROVE  /\ Count(what, x) \in Nat /\ Count(what, x)' \in Nat
             /\ Count(what, x)' + (IF "cancelFunction" = what THEN 1 ELSE 0)
                  = (IF what = "unref" /\ new # <<>> THEN 1 ELSE 0) + Count(what, x)
  <2>1. /\ Count(what, x) \in Nat /\ Count(what, x)' \in Nat
        /\ Count(what, x)' + (IF "cancelFunction" = what THEN 1 ELSE 0) = Often(new, what, x) + Count(what, x)
    BY <1>4 DEF HeadCounts
  <2> QED
    BY <1>3, <2>1
<1>6. /\ Count("unref", x)' = Count("unref", x) + IF new # <<>> THEN 1 ELSE 0
      /\ Count("unref", x) \in Nat
      /\ Count("cancelFunction", x) = Count("cancelFunction", x)' + 1
      /\ Count("cancelFunction", x)' \in Nat
  BY <1>5 DEF Counted
<1>7. /\ XferRefs(x) /\ ~ Nexts("end", x) /\ ~ Nexts("cancel", x)
      /\ ~ Nexts("end", x)' /\ ~ Nexts("cancel", x)'
  BY <1>2, <1>3, <1>4 DEF RInv, HeadCounts
<1>8. Cancelled(x) /\ Cancelled(x)'
  BY <1>1, <1>6, <1>7 DEF XferRefs, CancelOK, Cancelled
<1>9. /\ HoldsOK(x)' /\ (Registered(x)' <=> Registered(x) /\ new = <<>>) /\ (Asked(x)' <=> Asked(x))
      /\ \A y \in Xfers \ {x} : SameHolders(y)
  <2>1. CASE UNCHANGED registry /\ new = <<>>
    <3>1. \A y : SameHolders(y)
      BY <1>1, <2>1, SameRegisters
    <3>2. HoldsOK(x)'
      BY <1>7, <3>1 DEF XferRefs, HoldsOK, SameHolders
    <3> QED
      BY <2>1, <3>1, <3>2 DEF SameHolders
  <2>2. CASE registry' = Without(registry, x) /\ new # <<>>
    <3>1. IsSequence(registry)
      BY RefSequences
    <3>2. IsSequence(registry') /\ ToSet(registry') = ToSet(registry) \ {x}
      BY <2>2, <3>1, WithoutSet
    <3>3. Occurrences(registry', {x}) = 0
      BY <3>2, CountNone
    <3>4. \A y \in Xfers \ {x} : Occurrences(registry', {y}) = Occurrences(registry, {y})
      BY <2>2, <3>1, CountOnly DEF Without
    <3>5. \A y : Asked(y)' <=> Asked(y)
      BY <1>1 DEF Asked, ChatAsked, UploadAsked
    <3>6. \A y \in Xfers \ {x} : SameHolders(y)
      BY <1>1, <3>2, <3>4, <3>5 DEF SameHolders, Registered, RequestsOf
    <3>7. ~ Registered(x)'
      BY <3>2 DEF Registered
    <3>8. HoldsOK(x)'
      BY <1>1, <1>7, <3>3, <3>5, <3>7 DEF XferRefs, HoldsOK, RequestsOf
    <3> QED
      BY <2>2, <3>5, <3>6, <3>7, <3>8
  <2> QED
    BY <1>1, <2>1, <2>2
<1>10. /\ data'[x] = FALSE /\ \A y \in Xfers \ {x} : SameXfer(y)
  BY <1>1, <1>2 DEF IInv, DataTypes, SameXfer, Cancelled
<1>11. RefTypes'
  <2>1. deferred' \subseteq Files
    <3>1. deferred \subseteq Files /\ fileOf[x] \in Files
      BY <1>2 DEF RInv, RefTypes, IInv, DataTypes
    <3> QED
      BY <1>1, <3>1, DeferredTypes
  <2> QED
    BY <1>1, <2>1 DEF RInv, RefTypes
<1>12. XferRefs(x)'
  <2>1. RefsOK(x)'
    <3>1. new # <<>> => Registered(x)
      BY <1>1
    <3> QED
      BY <1>1, <1>6, <1>7, <1>8, <1>9, <3>1 DEF XferRefs, RefsOK, Over
  <2>2. CancelOK(x)' /\ EndOK(x)'
    BY <1>1, <1>7, <1>8, <1>10 DEF XferRefs, CancelOK, EndOK
  <2> QED
    BY <1>9, <2>1, <2>2 DEF XferRefs
<1>13. StepFor(x, Tail(calls), new)
  BY <1>4 DEF HeadCounts
<1> QED
  BY <1>2, <1>9, <1>10, <1>11, <1>12, <1>13, StepDone

-----------------------------------------------------------------------------
(* Steps for many transfers, and the references *)

\* What is put in the place of the head for many transfers at once
Dropping(new) ==
  /\ IsSequence(new) /\ Covered(new)
  /\ \A e \in ToSet(new) : e.do \notin Late \cup {"end", "cancel", "unrefUnlessCancelled"}

\* References come and go with the entries of the registry and the requests, and with what is
\* still to be dropped.
Balanced(x, new) ==
  /\ HoldsOK(x)'
  /\ refs'[x] + Occurrences(registry, {x}) + Occurrences(requests, RequestsOf(x))
       = refs[x] + Often(new, "unref", x) + Occurrences(registry', {x}) + Occurrences(requests', RequestsOf(x))

LEMMA ManySteps ==
  ASSUME IInv, RInv, NEW what \in {"updateProgress", "closeTransfers", "closeRequests"}, At(what),
         NEW new, Dropping(new), Calling(new),
         (\A e \in ToSet(new) : e.do \notin Early) \/ what = "updateProgress",
         UNCHANGED <<status, data, ended>>, RefTypes', \A x \in Xfers : Balanced(x, new)
  PROVE  RInv'
<1>1. calls # <<>> /\ Head(calls).do = what /\ calls' = new \o Tail(calls) /\ IsSequence(new)
  BY DEF At, Calling, Dropping
<1>2. /\ RestOK(Tail(calls)) /\ IsSequence(calls')
      /\ \A other, x : /\ Count(other, x)' \in Nat /\ Often(new, other, x) \in Nat
                       /\ Often(Tail(calls), other, x) \in Nat
                       /\ Count(other, x)' = Often(new, other, x) + Often(Tail(calls), other, x)
                       /\ Count(other, x) = Often(Tail(calls), other, x)
                            + IF Tail(calls) # calls /\ Head(calls) = Do(other, x) THEN 1 ELSE 0
      /\ new = <<>> => ~ At("cancel")' /\ ~ At("end")'
      /\ new # <<>> => calls' # <<>> /\ Head(calls') = Head(new)
  BY <1>1, CountsAfter DEF RInv
<1>3. StackOK(calls')
  <2>1. \A e \in ToSet(new) : e.do # "end" /\ e.do \notin Late
    BY DEF Dropping
  <2>2. LateFirst(new) /\ EndFirst(new) /\ Covered(new)
    BY <1>1, <2>1, PlainOrder DEF Dropping
  <2>3. (\A e \in ToSet(new) : e.do \notin Early) \/ (\A e \in ToSet(Tail(calls)) : e.do \notin Late)
    BY DEF IInv, UpdateOK
  <2> QED
    BY <1>1, <1>2, <2>2, <2>3, StackConcat
<1>4. ~ At("cancel")' /\ ~ At("end")' /\ \A other \in {"cancel", "end", "endFunction"} : ~ At(other)
  <2>1. new # <<>> => Head(new).do \notin {"cancel", "end"}
    BY <1>1, TailSet DEF Dropping
  <2> QED
    BY <1>1, <1>2, <2>1 DEF At
<1>5. ASSUME NEW other \in Counted, NEW x
      PROVE  /\ Count(other, x) \in Nat /\ Count(other, x)' \in Nat /\ Often(new, other, x) \in Nat
             /\ Count(other, x)' = Count(other, x) + Often(new, other, x)
             /\ other # "unref" => Often(new, other, x) = 0
  <2>1. Head(calls) # Do(other, x)
    BY <1>1, DoFields DEF Counted
  <2>2. /\ Count(other, x)' \in Nat /\ Often(new, other, x) \in Nat
        /\ Often(Tail(calls), other, x) \in Nat
        /\ Count(other, x)' = Often(new, other, x) + Often(Tail(calls), other, x)
        /\ Count(other, x) = Often(Tail(calls), other, x)
             + IF Tail(calls) # calls /\ Head(calls) = Do(other, x) THEN 1 ELSE 0
    BY <1>2
  <2>3. ASSUME other # "unref" PROVE Often(new, other, x) = 0
    <3>1. Do(other, x) \notin ToSet(new)
      BY <2>3, DoFields DEF Dropping, Counted, Late
    <3> QED
      BY <1>1, <3>1, CountNone DEF Often
  <2> QED
    BY <2>1, <2>2, <2>3
<1>6. ASSUME NEW x \in Xfers PROVE XferRefs(x)'
  <2>1. /\ Count("unref", x)' = Count("unref", x) + Often(new, "unref", x)
        /\ Count("unref", x) \in Nat /\ Often(new, "unref", x) \in Nat
        /\ Count("unrefUnlessCancelled", x)' = Count("unrefUnlessCancelled", x)
        /\ Count("unrefUnlessCancelled", x) \in Nat
        /\ Count("endFunction", x)' = Count("endFunction", x)
        /\ Count("cancelFunction", x)' = Count("cancelFunction", x)
    <3>1. "unref" \in Counted /\ "unrefUnlessCancelled" \in Counted
          /\ "endFunction" \in Counted /\ "cancelFunction" \in Counted
      BY DEF Counted
    <3>2. /\ Count("unref", x)' = Count("unref", x) + Often(new, "unref", x)
          /\ Count("unref", x) \in Nat /\ Often(new, "unref", x) \in Nat
      BY <1>5, <3>1
    <3>3. /\ Count("unrefUnlessCancelled", x)' = Count("unrefUnlessCancelled", x)
          /\ Count("unrefUnlessCancelled", x) \in Nat
      BY <1>5, <3>1
    <3>4. Count("endFunction", x)' = Count("endFunction", x)
      BY <1>5, <3>1
    <3>5. Count("cancelFunction", x)' = Count("cancelFunction", x)
      BY <1>5, <3>1
    <3> QED
      BY <3>2, <3>3, <3>4, <3>5
  <2>2. XferRefs(x) /\ Balanced(x, new) /\ refs[x] \in Nat /\ refs'[x] \in Nat
    BY DEF RInv, RefTypes
  <2>3. /\ ~ Nexts("cancel", x) /\ ~ Nexts("end", x) /\ ~ Nexts("endFunction", x)
        /\ ~ Nexts("cancel", x)' /\ ~ Nexts("end", x)'
    BY <1>4 DEF Nexts
  <2>4. RefsOK(x)'
    <3>1. /\ Over(x)' <=> Over(x)
          /\ Cancelled(x)' \/ Nexts("cancel", x)' <=> Cancelled(x) \/ Nexts("cancel", x)
      BY <2>3 DEF Over, Cancelled
    <3>2. PICK a, g, r, q, r2, q2 :
            /\ a = IF status[x] # "none" /\ ~ Over(x) THEN 1 ELSE 0
            /\ g = IF Cancelled(x) \/ Nexts("cancel", x) THEN 0 ELSE Count("unrefUnlessCancelled", x)
            /\ r = IF Registered(x) THEN 1 ELSE 0
            /\ q = IF Asked(x) THEN 1 ELSE 0
            /\ r2 = IF Registered(x)' THEN 1 ELSE 0
            /\ q2 = IF Asked(x)' THEN 1 ELSE 0
      OBVIOUS
    <3>3. a \in Nat /\ g \in Nat /\ r \in Nat /\ q \in Nat /\ r2 \in Nat /\ q2 \in Nat
      BY <2>1, <3>2
    <3>4. refs[x] = a + Count("unref", x) + g + r + q
      BY <2>2, <3>2 DEF XferRefs, RefsOK
    <3>5. /\ Occurrences(registry, {x}) = r /\ Occurrences(requests, RequestsOf(x)) = q
          /\ Occurrences(registry', {x}) = r2 /\ Occurrences(requests', RequestsOf(x)) = q2
      BY <2>2, <3>2 DEF XferRefs, HoldsOK, Balanced, RequestsOf
    <3>6. refs'[x] + r + q = refs[x] + Often(new, "unref", x) + r2 + q2
      BY <2>2, <3>5 DEF Balanced
    <3>7. refs'[x] = a + Count("unref", x)' + g + r2 + q2
      BY <2>1, <2>2, <3>3, <3>4, <3>6
    <3>8. status'[x] = status[x] /\ Count("unrefUnlessCancelled", x)' = Count("unrefUnlessCancelled", x)
      BY <2>1
    <3> QED
      BY <3>1, <3>2, <3>7, <3>8 DEF RefsOK
  <2>5. CancelOK(x)'
    BY <2>1, <2>2, <2>3 DEF XferRefs, CancelOK, Cancelled
  <2>6. EndOK(x)'
    BY <2>1, <2>2, <2>3 DEF XferRefs, EndOK, Cancelled
  <2> QED
    BY <2>2, <2>4, <2>5, <2>6 DEF XferRefs, Balanced
<1> QED
  BY <1>3, <1>6 DEF RInv

\* A list for each transfer (own), which drops one reference to it
LEMMA DropEach ==
  ASSUME NEW xs, IsSequence(xs), NEW ss, ss = [i \in DOMAIN xs |-> ss[i]], NEW own,
         \A i \in DOMAIN xs :
           /\ own[i] \in Xfers
           /\ \/ ss[i] = <<Do("unref", own[i])>>
              \/ ss[i] = <<Do("cancelUnlessOver", own[i]), Do("unref", own[i])>>
              \/ ss[i] = <<Do("complete", own[i]), Do("endUpload", own[i]), Do("unref", own[i])>>
  PROVE  /\ Dropping(FlattenSeq(ss))
         /\ \A x, R : (\A i \in DOMAIN xs : xs[i] \in R <=> own[i] = x)
                        => Often(FlattenSeq(ss), "unref", x) = Occurrences(xs, R)
<1>1. ASSUME NEW i \in DOMAIN xs
      PROVE  /\ IsSequence(ss[i]) /\ Covered(ss[i])
             /\ \A e \in ToSet(ss[i]) : e.do \notin Late \cup {"end", "cancel", "unrefUnlessCancelled"}
             /\ \A e \in ToSet(ss[i]) : e = Do(e.do, own[i])
             /\ Often(ss[i], "unref", own[i]) = 1
  <2>1. PICK s, y : s = ss[i] /\ y = own[i]
    OBVIOUS
  <2>2. /\ y \in Xfers
        /\ \/ s = <<Do("unref", y)>>
           \/ s = <<Do("cancelUnlessOver", y), Do("unref", y)>>
           \/ s = <<Do("complete", y), Do("endUpload", y), Do("unref", y)>>
    BY <2>1
  <2>3. /\ ListFor(s, y) /\ Covered(s)
        /\ \A e \in ToSet(s) : e.do \notin Late /\ e.do \notin {"end", "cancel", "unrefUnlessCancelled"}
        /\ Often(s, "unref", y) = 1
    BY <2>2, DropLists
  <2> QED
    BY <2>1, <2>3 DEF ListFor
<1>2. Covered(FlattenSeq(ss))
  BY <1>1, CoveredEach
<1>3. IsSequence(ss) /\ DOMAIN ss = DOMAIN xs
  BY SequenceFacts, FunctionIsSequence
<1>4. IsSequence(FlattenSeq(ss)) /\ ToSet(FlattenSeq(ss)) = UNION {ToSet(ss[i]) : i \in DOMAIN ss}
  BY <1>1, <1>3, FlattenedSet
<1>5. Dropping(FlattenSeq(ss))
  BY <1>1, <1>2, <1>3, <1>4 DEF Dropping
<1>6. ASSUME NEW x, NEW R, \A i \in DOMAIN xs : xs[i] \in R <=> own[i] = x
      PROVE  Often(FlattenSeq(ss), "unref", x) = Occurrences(xs, R)
  <2> DEFINE S == {Do("unref", x)}
  <2>1. ASSUME NEW i \in DOMAIN xs
        PROVE  IsSequence(ss[i]) /\ Occurrences(ss[i], S) = IF xs[i] \in R THEN 1 ELSE 0
    <3>1. CASE own[i] = x
      BY <1>1, <1>6, <3>1 DEF Often
    <3>2. CASE own[i] # x
      <4>1. ToSet(ss[i]) \cap S = {}
        BY <1>1, <3>2, DoFields
      <4> QED
        BY <1>1, <1>6, <3>2, <4>1, CountNone
    <3> QED
      BY <3>1, <3>2
  <2> HIDE DEF S
  <2>2. Occurrences(FlattenSeq(ss), S) = Occurrences(xs, R)
    BY <2>1, CountEach
  <2> QED
    BY <2>2 DEF Often, S
<1> QED
  BY <1>5, <1>6

\* What is taken out of a sequence is counted there no more, and the rest is.
LEMMA CountTaken ==
  ASSUME NEW s, IsSequence(s), NEW S, NEW x
  PROVE  Occurrences(Only(s, S), {x}) = IF x \in S THEN Occurrences(s, {x}) ELSE 0
<1>1. CASE x \in S
  BY <1>1, CountOnly
<1>2. CASE x \notin S
  BY <1>2, OnlySet, CountNone
<1> QED
  BY <1>1, <1>2

\* A file's uploads that are taken out of the registry, with a reference to each to drop
LEMMA TakenRefs ==
  ASSUME IInv, RInv, At("updateProgress"), NEW f, NEW new, Dropping(new), Calling(new),
         \A x : Often(new, "unref", x) = Occurrences(Uploads(f), {x}),
         registry' = OtherUploads(f), UNCHANGED <<refs, status, data, ended, requests, deferred>>
  PROVE  RInv'
<1>1. IsSequence(registry)
  BY RefSequences
<1>2. ASSUME NEW x \in Xfers PROVE Balanced(x, new)
  <2>1. XferRefs(x)
    BY DEF RInv
  <2>2. /\ Occurrences(Uploads(f), {x}) = IF fileOf[x] = f THEN Occurrences(registry, {x}) ELSE 0
        /\ Occurrences(OtherUploads(f), {x}) = IF fileOf[x] = f THEN 0 ELSE Occurrences(registry, {x})
    BY <1>1, CountTaken DEF Uploads, OtherUploads
  <2>3. Registered(x)' <=> Registered(x) /\ fileOf[x] # f
    BY UploadsSets DEF IInv, Registered
  <2>4. HoldsOK(x)'
    BY <2>1, <2>2, <2>3 DEF XferRefs, HoldsOK, RequestsOf, Asked, ChatAsked, UploadAsked
  <2>5. refs[x] \in Nat /\ Occurrences(registry, {x}) \in Nat /\ Occurrences(requests, RequestsOf(x)) \in Nat
    BY <1>1, RefSequences, TallyIs DEF RInv, RefTypes
  <2> QED
    BY <2>2, <2>4, <2>5 DEF Balanced
<1>3. RefTypes'
  BY DEF RInv, RefTypes
<1> QED
  BY <1>2, <1>3, ManySteps

LEMMA UpdateRefs ==
  ASSUME IInv, RInv, UpdateFileTransferProgress
  PROVE  RInv'
<1>1. PICK f : f = Head(calls).f
  OBVIOUS
<1>2. /\ At("updateProgress") /\ UNCHANGED <<status, data, ended, requests, deferred>>
      /\ \/ Calling(<<>>) /\ UNCHANGED <<refs, registry>>
         \/ CancelUploads(f) \/ ReportUploads(f) \/ FinishUploads(f)
  BY <1>1 DEF UpdateFileTransferProgress, Returning
<1>3. PICK xs : xs = Uploads(f)
  OBVIOUS
<1>4. IsSequence(xs) /\ ToSet(xs) \subseteq Xfers /\ \A x : x \in ToSet(xs) => Registered(x)
  BY <1>3, UploadsSets DEF IInv
<1>5. \A i \in DOMAIN xs : xs[i] \in ToSet(xs) /\ xs[i] \in Xfers
  BY <1>4 DEF ToSet
<1>6. CASE Calling(<<>>) /\ UNCHANGED <<refs, registry>>
  <2>1. Dropping(<<>>) /\ \A x : Often(<<>>, "unref", x) = 0
    BY EmptySet, EmptyList DEF Dropping
  <2>2. ASSUME NEW x \in Xfers PROVE Balanced(x, <<>>)
    <3>1. HoldsOK(x)'
      BY <1>2, <1>6, SameRegisters DEF RInv, XferRefs, HoldsOK, SameHolders
    <3>2. refs[x] \in Nat /\ Occurrences(registry, {x}) \in Nat /\ Occurrences(requests, RequestsOf(x)) \in Nat
      BY RefSequences, TallyIs DEF RInv, RefTypes
    <3> QED
      BY <1>2, <1>6, <2>1, <3>1, <3>2 DEF Balanced
  <2>3. RefTypes'
    BY <1>2, <1>6 DEF RInv, RefTypes
  <2> QED
    BY <1>2, <1>6, <2>1, <2>2, <2>3, ManySteps
<1>7. CASE CancelUploads(f)
  <2>1. PICK ss : ss = [i \in DOMAIN xs |-> <<Do("cancelUnlessOver", xs[i]), Do("unref", xs[i])>>]
    OBVIOUS
  <2>2. /\ registry' = OtherUploads(f) /\ refs' = refs /\ Calling(FlattenSeq(ss))
    BY <1>3, <1>7, <2>1 DEF CancelUploads, ForEach, FinishUpload
  <2>3. ss = [i \in DOMAIN xs |-> ss[i]]
    BY <2>1
  <2>4. \A i \in DOMAIN xs : ss[i] = <<Do("cancelUnlessOver", xs[i]), Do("unref", xs[i])>>
    BY <2>1
  <2>5. /\ Dropping(FlattenSeq(ss))
        /\ \A x : Often(FlattenSeq(ss), "unref", x) = Occurrences(xs, {x})
    BY <1>4, <1>5, <2>3, <2>4, DropEach
  <2> QED
    BY <1>2, <1>3, <2>2, <2>5, TakenRefs
<1>8. CASE FinishUploads(f)
  <2>0. PICK chat \in Chats :
          LET to == [x \in ToSet(Uploads(f)) |-> ResolveTarget(target[x], chat)]
          IN  /\ registry' = OtherUploads(f) /\ refs' = refs
              /\ Calling(ForEach(Uploads(f), LAMBDA x : FinishUpload(x, to[x] # NotSent)))
    BY <1>8 DEF FinishUploads
  <2> DEFINE to == [x \in ToSet(Uploads(f)) |-> ResolveTarget(target[x], chat)]
             ss == [i \in DOMAIN xs |-> FinishUpload(xs[i], to[xs[i]] # NotSent)]
  <2>1. registry' = OtherUploads(f) /\ refs' = refs /\ Calling(FlattenSeq(ss))
    BY <1>3, <2>0 DEF ForEach
  <2>3. ss = [i \in DOMAIN xs |-> ss[i]]
    OBVIOUS
  <2>4. \A i \in DOMAIN xs :
          \/ ss[i] = <<Do("cancelUnlessOver", xs[i]), Do("unref", xs[i])>>
          \/ ss[i] = <<Do("complete", xs[i]), Do("endUpload", xs[i]), Do("unref", xs[i])>>
    BY DEF FinishUpload
  <2> HIDE DEF to, ss
  <2>5. /\ Dropping(FlattenSeq(ss))
        /\ \A x : Often(FlattenSeq(ss), "unref", x) = Occurrences(xs, {x})
    BY <1>4, <1>5, <2>3, <2>4, DropEach
  <2> QED
    BY <1>2, <1>3, <2>1, <2>5, TakenRefs
<1>9. CASE ReportUploads(f)
  <2>0. PICK rr, ss :
          /\ rr = [i \in DOMAIN xs |-> <<Do("report", xs[i])>>]
          /\ ss = [i \in DOMAIN xs |-> <<Do("unref", xs[i])>>]
    OBVIOUS
  <2>1. PICK rs, us : rs = FlattenSeq(rr) /\ us = FlattenSeq(ss)
    OBVIOUS
  <2>2. /\ Calling(rs \o us) /\ registry' = registry
        /\ refs' = [x \in Xfers |-> IF x \in ToSet(xs) THEN refs[x] + 1 ELSE refs[x]]
    BY <1>3, <1>9, <2>0, <2>1 DEF ReportUploads, ForEach
  <2>3. /\ ss = [i \in DOMAIN xs |-> ss[i]] /\ \A i \in DOMAIN xs : ss[i] = <<Do("unref", xs[i])>>
    BY <2>0
  <2>4. /\ Dropping(us) /\ \A x : Often(us, "unref", x) = Occurrences(xs, {x})
    BY <1>4, <1>5, <2>1, <2>3, DropEach
  <2>5. /\ rr = [i \in DOMAIN xs |-> rr[i]]
        /\ \A i \in DOMAIN xs : IsSequence(rr[i]) /\ ToSet(rr[i]) = {Do("report", xs[i])}
    BY <2>0, SingleSet
  <2>6. IsSequence(rs) /\ \A e \in ToSet(rs) : \E i \in DOMAIN xs : e = Do("report", xs[i])
    <3>1. IsSequence(rr) /\ DOMAIN rr = DOMAIN xs
      BY <1>4, <2>5, SequenceFacts, FunctionIsSequence
    <3>2. IsSequence(rs) /\ ToSet(rs) = UNION {ToSet(rr[i]) : i \in DOMAIN rr}
      BY <2>1, <2>5, <3>1, FlattenedSet
    <3> QED
      BY <2>5, <3>1, <3>2
  <2>7. \A x : Often(rs, "unref", x) = 0
    <3>1. \A x : ToSet(rs) \cap {Do("unref", x)} = {}
      BY <2>6, DoFields
    <3> QED
      BY <2>6, <3>1, CountNone DEF Often
  <2>8. \A e \in ToSet(rs) : Named(e) /\ Do("unref", e.x) \in ToSet(us)
    <3>1. ASSUME NEW i \in DOMAIN xs PROVE Do("unref", xs[i]) \in ToSet(us)
      <4>1. Occurrences(xs, {xs[i]}) # 0
        BY <1>4, <1>5, CountNone
      <4>2. Often(us, "unref", xs[i]) # 0
        BY <2>4, <4>1
      <4> QED
        BY <2>4, <4>2, CountNone DEF Often, Dropping
    <3>2. ASSUME NEW e \in ToSet(rs) PROVE Named(e) /\ Do("unref", e.x) \in ToSet(us)
      <4>1. PICK i \in DOMAIN xs : e = Do("report", xs[i])
        BY <2>6
      <4> QED
        BY <1>5, <3>1, <4>1, DoFields DEF Named
    <3> QED
      BY <3>2
  <2>9. Dropping(rs \o us)
    <3>1. Covered(rs \o us) /\ IsSequence(rs \o us) /\ ToSet(rs \o us) = ToSet(rs) \cup ToSet(us)
      BY <2>4, <2>6, <2>8, CoveredConcat, ConcatSet DEF Dropping
    <3> QED
      BY <2>4, <2>6, <3>1, DoFields DEF Dropping, Late
  <2>10. ASSUME NEW x \in Xfers PROVE Balanced(x, rs \o us)
    <3>1. Often(rs \o us, "unref", x) = Occurrences(xs, {x})
      <4>1. Occurrences(xs, {x}) \in Nat
        BY <1>4, TallyIs
      <4>2. Occurrences(rs \o us, {Do("unref", x)}) =
              Occurrences(rs, {Do("unref", x)}) + Occurrences(us, {Do("unref", x)})
        BY <2>4, <2>6, CountConcat DEF Dropping
      <4> QED
        BY <2>4, <2>7, <4>1, <4>2 DEF Often
    <3>2. Occurrences(xs, {x}) = IF x \in ToSet(xs) THEN 1 ELSE 0
      <4>1. XferRefs(x) /\ IsSequence(registry)
        BY RefSequences DEF RInv
      <4>2. Occurrences(xs, {x}) = IF fileOf[x] = f THEN Occurrences(registry, {x}) ELSE 0
        BY <1>3, <4>1, CountTaken DEF Uploads
      <4>3. x \in ToSet(xs) <=> Registered(x) /\ fileOf[x] = f
        BY <1>3, UploadsSets DEF IInv
      <4> QED
        BY <4>1, <4>2, <4>3 DEF XferRefs, HoldsOK
    <3>3. HoldsOK(x)'
      BY <1>2, <2>2, SameRegisters DEF RInv, XferRefs, HoldsOK, SameHolders
    <3>4. refs[x] \in Nat /\ Occurrences(registry, {x}) \in Nat /\ Occurrences(requests, RequestsOf(x)) \in Nat
      BY RefSequences, TallyIs DEF RInv, RefTypes
    <3>5. refs'[x] = refs[x] + Often(rs \o us, "unref", x)
      BY <2>2, <3>1, <3>2, <3>4
    <3>6. Often(rs \o us, "unref", x) \in Nat
      BY <3>1, <3>2
    <3> QED
      BY <1>2, <2>2, <3>3, <3>4, <3>5, <3>6 DEF Balanced
  <2>11. RefTypes'
    BY <1>2, <2>2 DEF RInv, RefTypes
  <2> QED
    BY <1>2, <2>2, <2>9, <2>10, <2>11, ManySteps
<1> QED
  BY <1>2, <1>6, <1>7, <1>8, <1>9

\* ~PurpleTdClient
LEMMA ClosingRefs ==
  ASSUME IInv, RInv, CloseTransfers \/ CloseRequests
  PROVE  RInv'
<1>1. /\ IsSequence(registry) /\ IsSequence(requests) /\ ToSet(registry) \subseteq Xfers
      /\ ToSet(requests) \subseteq Requests
  BY AccountSets DEF IInv
<1>2. \A x : Occurrences(<<>>, {x}) = 0 /\ Occurrences(<<>>, RequestsOf(x)) = 0 /\ ToSet(<<>>) = {}
  BY CountFew, EmptySet
<1>3. \A x \in Xfers : /\ XferRefs(x) /\ refs[x] \in Nat /\ Occurrences(registry, {x}) \in Nat
                       /\ Occurrences(requests, RequestsOf(x)) \in Nat
  BY <1>1, TallyIs DEF RInv, RefTypes
<1>4. PICK does : does = {"cancelUnlessOver", "unref"}
  OBVIOUS
<1>5. ASSUME NEW y, NEW list, list = <<Do("cancelUnlessOver", y), Do("unref", y)>>
      PROVE  IsSequence(list) /\ \A s \in ToSet(list) : s.do \in does
  <2>1. IsSequence(list) /\ ToSet(list) = {Do("cancelUnlessOver", y), Do("unref", y)}
    BY <1>5, TupleSets
  <2> QED
    BY <1>4, <2>1, DoFields
<1>6. CASE CloseTransfers
  <2>1. PICK ss : ss = [i \in DOMAIN registry |-> <<Do("cancelUnlessOver", registry[i]), Do("unref", registry[i])>>]
    OBVIOUS
  <2>2. /\ At("closeTransfers") /\ registry' = <<>> /\ Calling(FlattenSeq(ss))
        /\ UNCHANGED <<refs, status, data, ended, requests, deferred>>
    BY <1>6, <2>1 DEF CloseTransfers, ForEach, DropUpload, xferVars
  <2>3. /\ ss = [i \in DOMAIN registry |-> ss[i]]
        /\ \A i \in DOMAIN registry :
             /\ ss[i] = <<Do("cancelUnlessOver", registry[i]), Do("unref", registry[i])>>
             /\ registry[i] \in Xfers
    BY <1>1, <2>1 DEF ToSet
  <2>4. /\ Dropping(FlattenSeq(ss))
        /\ \A x : Often(FlattenSeq(ss), "unref", x) = Occurrences(registry, {x})
    BY <1>1, <2>3, DropEach
  <2>5. \A e \in ToSet(FlattenSeq(ss)) : e.do \notin Early
    <3>1. IsSequence(ss) /\ DOMAIN ss = DOMAIN registry
      BY <1>1, <2>3, SequenceFacts, FunctionIsSequence
    <3>2. \A i \in DOMAIN ss : IsSequence(ss[i]) /\ \A s \in ToSet(ss[i]) : s.do \in does
      BY <1>5, <2>3, <3>1
    <3>3. ToSet(FlattenSeq(ss)) = UNION {ToSet(ss[i]) : i \in DOMAIN ss}
      BY <3>1, <3>2, FlattenedSet
    <3> QED
      BY <1>4, <3>2, <3>3 DEF Early
  <2>6. ASSUME NEW x \in Xfers PROVE Balanced(x, FlattenSeq(ss))
    <3>1. ~ Registered(x)' /\ Occurrences(registry', {x}) = 0
      BY <1>2, <2>2 DEF Registered
    <3>2. HoldsOK(x)'
      BY <1>3, <2>2, <3>1 DEF XferRefs, HoldsOK, RequestsOf, Asked, ChatAsked, UploadAsked
    <3>3. /\ refs' = refs /\ Occurrences(requests', RequestsOf(x)) = Occurrences(requests, RequestsOf(x))
          /\ Often(FlattenSeq(ss), "unref", x) = Occurrences(registry, {x})
      BY <2>2, <2>4
    <3>4. /\ refs[x] \in Nat /\ Occurrences(registry, {x}) \in Nat
          /\ Occurrences(requests, RequestsOf(x)) \in Nat
      BY <1>3
    <3>5. refs'[x] = refs[x]
      BY <3>3
    <3> QED
      BY <3>1, <3>2, <3>3, <3>4, <3>5 DEF Balanced
  <2>7. RefTypes'
    BY <2>2 DEF RInv, RefTypes
  <2> QED
    BY <2>2, <2>4, <2>5, <2>6, <2>7, ManySteps
<1>7. CASE CloseRequests
  <2>1. PICK own, ss :
          /\ own = [i \in DOMAIN requests |-> requests[i].x]
          /\ ss = [i \in DOMAIN own |-> <<Do("cancelUnlessOver", own[i]), Do("unref", own[i])>>]
    OBVIOUS
  <2>2. /\ At("closeRequests") /\ requests' = <<>> /\ Calling(FlattenSeq(ss))
        /\ UNCHANGED <<refs, status, data, ended, registry, deferred>>
    BY <1>7, <2>1 DEF CloseRequests, ForEach, DropUpload, xferVars
  <2>3. /\ ss = [i \in DOMAIN requests |-> ss[i]]
        /\ \A i \in DOMAIN requests :
             /\ ss[i] = <<Do("cancelUnlessOver", own[i]), Do("unref", own[i])>>
             /\ own[i] = requests[i].x /\ requests[i] \in Requests
    BY <1>1, <2>1 DEF ToSet
  <2>4. \A i \in DOMAIN requests : own[i] \in Xfers
    BY <2>3 DEF Requests
  <2>5. /\ Dropping(FlattenSeq(ss))
        /\ \A x, R : (\A i \in DOMAIN requests : requests[i] \in R <=> own[i] = x)
                       => Often(FlattenSeq(ss), "unref", x) = Occurrences(requests, R)
    BY <1>1, <2>3, <2>4, DropEach
  <2>6. ASSUME NEW x \in Xfers PROVE Often(FlattenSeq(ss), "unref", x) = Occurrences(requests, RequestsOf(x))
    <3>1. \A i \in DOMAIN requests : requests[i] \in RequestsOf(x) <=> own[i] = x
      BY <2>3 DEF RequestsOf
    <3> QED
      BY <2>5, <3>1
  <2>7. \A e \in ToSet(FlattenSeq(ss)) : e.do \notin Early
    <3>1. IsSequence(ss) /\ DOMAIN ss = DOMAIN requests
      BY <1>1, <2>3, SequenceFacts, FunctionIsSequence
    <3>2. \A i \in DOMAIN ss : IsSequence(ss[i]) /\ \A s \in ToSet(ss[i]) : s.do \in does
      BY <1>5, <2>3, <3>1
    <3>3. ToSet(FlattenSeq(ss)) = UNION {ToSet(ss[i]) : i \in DOMAIN ss}
      BY <3>1, <3>2, FlattenedSet
    <3> QED
      BY <1>4, <3>2, <3>3 DEF Early
  <2>8. ASSUME NEW x \in Xfers PROVE Balanced(x, FlattenSeq(ss))
    <3>1. ~ Asked(x)' /\ Occurrences(requests', RequestsOf(x)) = 0
      BY <1>2, <2>2 DEF Asked, ChatAsked, UploadAsked
    <3>2. HoldsOK(x)'
      BY <1>3, <2>2, <3>1 DEF XferRefs, HoldsOK, RequestsOf, Registered
    <3>3. /\ refs' = refs /\ registry' = registry
          /\ Often(FlattenSeq(ss), "unref", x) = Occurrences(requests, RequestsOf(x))
      BY <2>2, <2>6
    <3>4. /\ refs[x] \in Nat /\ Occurrences(registry, {x}) \in Nat
          /\ Occurrences(requests, RequestsOf(x)) \in Nat
      BY <1>3
    <3>5. refs'[x] = refs[x]
      BY <3>3
    <3> QED
      BY <3>1, <3>2, <3>3, <3>4, <3>5 DEF Balanced
  <2>9. RefTypes'
    BY <2>2 DEF RInv, RefTypes
  <2> QED
    BY <2>2, <2>5, <2>7, <2>8, <2>9, ManySteps
<1> QED
  BY <1>6, <1>7

LEMMA InitRInv == Init => RInv
<1> SUFFICES ASSUME Init PROVE RInv
  OBVIOUS
<1>1. /\ calls = <<>> /\ registry = <<>> /\ requests = <<>> /\ deferred = {}
      /\ refs = [x \in Xfers |-> 0] /\ status = [x \in Xfers |-> "none"]
      /\ ended = [x \in Xfers |-> FALSE] /\ data = [x \in Xfers |-> FALSE]
  BY DEF Init, XferInit
<1>2. StackOK(calls)
  BY <1>1, EmptySet DEF StackOK, LateFirst, EndFirst, Covered, ToSet
<1>3. ASSUME NEW x \in Xfers PROVE XferRefs(x)
  <2>1. /\ \A what : Count(what, x) = 0 /\ ~ Nexts(what, x)
        /\ Occurrences(registry, {x}) = 0 /\ Occurrences(requests, RequestsOf(x)) = 0
        /\ ~ Registered(x) /\ ~ Asked(x)
    BY <1>1, CountFew, EmptySet DEF Count, Nexts, At, Registered, Asked, ChatAsked, UploadAsked
  <2>2. refs[x] = 0 /\ status[x] = "none" /\ ~ ended[x] /\ ~ data[x]
    BY <1>1
  <2> QED
    BY <2>1, <2>2 DEF XferRefs, HoldsOK, RefsOK, CancelOK, EndOK, Over, Cancelled
<1>4. RefTypes
  BY <1>1 DEF RefTypes
<1> QED
  BY <1>2, <1>3, <1>4 DEF RInv

LEMMA StutterRefs ==
  ASSUME RInv, UNCHANGED vars
  PROVE  RInv'
<1>1. UNCHANGED <<calls, refs, status, ended, data, registry, requests, deferred>>
  BY DEF vars, xferVars, account
<1>2. StackOK(calls') /\ RefTypes'
  BY <1>1 DEF RInv, RefTypes
<1>3. ASSUME NEW x \in Xfers PROVE XferRefs(x)'
  <2>1. /\ XferRefs(x)
        /\ \A what : Count(what, x)' = Count(what, x) /\ (Nexts(what, x)' <=> Nexts(what, x))
        /\ SameHolders(x) /\ Head(Tail(calls'))  = Head(Tail(calls))
    BY <1>1, SameRegisters DEF RInv, Count, Nexts, At
  <2>2. HoldsOK(x)'
    BY <2>1 DEF XferRefs, HoldsOK, SameHolders
  <2>3. RefsOK(x)'
    BY <1>1, <2>1 DEF XferRefs, RefsOK, Over, Cancelled, SameHolders
  <2>4. CancelOK(x)'
    BY <1>1, <2>1 DEF XferRefs, CancelOK, Cancelled
  <2>5. EndOK(x)'
    BY <1>1, <2>1 DEF XferRefs, EndOK, Cancelled
  <2> QED
    BY <2>2, <2>3, <2>4, <2>5 DEF XferRefs
<1> QED
  BY <1>2, <1>3 DEF RInv

LEMMA NextRInv == IInv /\ RInv /\ [Next]_vars => RInv'
<1> SUFFICES ASSUME IInv, RInv, [Next]_vars PROVE RInv'
  OBVIOUS
<1>1. CASE UNCHANGED vars
  BY <1>1, StutterRefs
<1>2. CASE Libpurple
  BY <1>2, LibpurpleRefs DEF Libpurple, account
<1>3. ASSUME NEW x \in Xfers, SendToChat(x) \/ SendToUser(x) \/ SendToNobody(x) PROVE RInv'
  BY <1>3, SendRefs
<1>4. ASSUME NEW x \in Xfers, PrivateChatCreated(x) PROVE RInv'
  BY <1>4, ChatCreatedRefs
<1>5. ASSUME NEW x \in Xfers, NEW says,
             \/ PrivateChatNotNeeded(x) \/ PrivateChatRefused(x)
             \/ UploadNotNeeded(x, says) \/ UploadFailed(x)
      PROVE RInv'
  BY <1>5, AnswersRefs
<1>6. ASSUME NEW x \in Xfers, NEW says, UploadAccepted(x, says) PROVE RInv'
  BY <1>6, AcceptedRefs
<1>7. ASSUME NEW f \in Files, NEW says \in FileSays(f), FileUpdate(f, says) PROVE RInv'
  BY <1>7, PushedRefs
<1>8. CASE Report \/ ShowProgress \/ Complete
  BY <1>8, ReportRefs
<1>9. CASE EndUpload \/ CancelFunction \/ EndFunction
  BY <1>9, EndUploadRefs, CancelFunctionRefs, EndFunctionRefs
<1>10. CASE UpdateFileTransferProgress
  BY <1>10, UpdateRefs
<1>11. CASE Disconnect \/ CloseTransfers \/ CloseRequests
  BY <1>11, PushedRefs, ClosingRefs
<1> QED
  BY <1>1, <1>2, <1>3, <1>4, <1>5, <1>6, <1>7, <1>8, <1>9, <1>10, <1>11 DEF Next

LEMMA RInvAccounts == IInv /\ RInv => RefsAccounted
<1> SUFFICES ASSUME IInv, RInv PROVE RefsAccounted
  OBVIOUS
<1>1. TypeOK
  BY DEF IInv, DataTypes, RInv, RefTypes, TypeOK, XferTypeOK
<1>2. IsSequence(calls) /\ \A what, x : Count(what, x) \in Nat
  BY RefSequences
<1>3. ASSUME NEW x \in Xfers
      PROVE  refs[x] = LibpurpleHolds(x) + Occurrences(registry, {x})
                       + Occurrences(requests, {r \in Requests : r.x = x})
  <2>1. XferRefs(x)
    BY DEF RInv
  <2>2. PICK next : next = IF calls = <<>> THEN Do("nothing", x) ELSE Head(calls)
    OBVIOUS
  <2>3. ASSUME NEW what \in {"cancel", "end"} PROVE next = Do(what, x) <=> Nexts(what, x)
    <3>1. ASSUME Nexts(what, x) PROVE next = Do(what, x)
      <4>1. At(what) /\ Head(calls).x = x /\ what \notin {"updateProgress", "closeTransfers", "closeRequests"}
        BY <3>1 DEF Nexts
      <4>2. calls # <<>> /\ Head(calls) = Do(what, x)
        BY <4>1, HeadNamed
      <4> QED
        BY <2>2, <4>2
    <3>2. ASSUME next = Do(what, x) PROVE Nexts(what, x)
      <4>1. calls # <<>>
        BY <2>2, <3>2, DoDiffer
      <4> QED
        BY <2>2, <3>2, <4>1, DoFields DEF Nexts, At
    <3> QED
      BY <3>1, <3>2
  <2>4. /\ Over(x) <=> ended[x] \/ next \in {Do("cancel", x), Do("end", x)}
        /\ Cancelled(x) \/ Nexts("cancel", x) <=> Cancelled(x) \/ next = Do("cancel", x)
    BY <2>3 DEF Over
  <2>5. LibpurpleHolds(x) =
          (IF status[x] # "none" /\ ~ Over(x) THEN 1 ELSE 0)
          + Count("unref", x)
          + (IF Cancelled(x) \/ Nexts("cancel", x) THEN 0 ELSE Count("unrefUnlessCancelled", x))
    BY <2>2, <2>4 DEF LibpurpleHolds, Count
  <2>6. /\ Occurrences(registry, {x}) = IF Registered(x) THEN 1 ELSE 0
        /\ Occurrences(requests, {r \in Requests : r.x = x}) = IF Asked(x) THEN 1 ELSE 0
    BY <2>1 DEF XferRefs, HoldsOK, RequestsOf
  <2> QED
    BY <2>1, <2>5, <2>6 DEF XferRefs, RefsOK
<1>4. ASSUME calls # <<>>, Uses(Head(calls)) PROVE refs[Head(calls).x] > 0
  <2>1. PICK x : x = Head(calls).x
    OBVIOUS
  <2>2. x \in Xfers /\ Do("unref", x) \in ToSet(calls)
    BY <1>2, <1>4, <2>1, StackTail DEF RInv, Nameless, Named
  <2>3. Count("unref", x) # 0
    BY <1>2, <2>2, CountNone DEF Count
  <2>4. RefsOK(x) /\ Count("unref", x) \in Nat /\ Count("unrefUnlessCancelled", x) \in Nat
    BY <1>2, <2>2 DEF RInv, XferRefs
  <2>5. refs[x] > 0
    BY <2>3, <2>4 DEF RefsOK
  <2> QED
    BY <2>1, <2>5
<1> QED
  BY <1>1, <1>3, <1>4 DEF RefsAccounted

\* Every reference of a transfer is accounted for, and what is executed next for a transfer
\* finds it alive, whatever handlers do and however many transfers share a file.
THEOREM ReferencesAccounted == Spec => []RefsAccounted
<1>1. IInv /\ RInv /\ [Next]_vars => IInv' /\ RInv'
  BY NextIInv, NextRInv
<1> QED
  BY <1>1, InitIInv, InitRInv, RInvAccounts, PTL DEF Spec
================================================================================
