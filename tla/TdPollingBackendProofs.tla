------------------------ MODULE TdPollingBackendProofs ------------------------
(***************************************************************************)
(* The client outlives its use, and all close callbacks hear one result,   *)
(* for every set of close callbacks and whatever prepareDeadline can make. *)
(*                                                                         *)
(* What a thread still has to do is its stack todo[t]. The invariant says  *)
(* which entries may be on which stack, how often, in which order, and     *)
(* what holds as long as they are there.                                   *)
(***************************************************************************)
EXTENDS TdPollingBackend, SequenceTheorems, FiniteSetTheorems, TLAPS

-----------------------------------------------------------------------------
(* Stacks *)

Stacks == [Threads -> Seq(Entries)]

\* At most one entry of s is in S.
Single(S, s) == \A i, j \in DOMAIN s : s[i] \in S /\ s[j] \in S => i = j

\* The entries of C come before those of A.
Above(A, C, s) == \A i, j \in DOMAIN s : s[i] \in A /\ s[j] \in C => j <= i

\* The stacks f hold at most one entry of S together.
Alone(S, f) ==
  /\ \A t \in Threads : Single(S, f[t])
  /\ \A t, u \in Threads :
       Range(f[t]) \cap S # {} /\ Range(f[u]) \cap S # {} => t = u

Nowhere(S, f) == \A t \in Threads : Range(f[t]) \cap S = {}

Has(t, entry) == entry \in Range(todo[t])
HasAny(t, S) == Range(todo[t]) \cap S # {}

\* What is left of the stack s when its first entry is replaced, or is kept.
Rest(r, s) == r = s \/ (s # <<>> /\ r = Tail(s))

\* Thread t puts the entries e on what is left.
Puts(t, e, r, f, g) ==
  /\ e \in Seq(Entries)
  /\ Rest(r, f[t])
  /\ g = [f EXCEPT ![t] = e \o r]

\* e holds each entry of E once, and no other; a source is scheduled at once.
Spells(e, E) ==
  /\ e \in Seq(Entries) /\ Range(e) = E
  /\ \A x : Single({x}, e)
  /\ \A i \in DOMAIN e : e[i] = "scheduleLogical" => i = 1

Cond(condition, entry) == IF condition THEN {entry} ELSE {}

\* Thread t puts the entries E on what is left, or in the place of the first entry, and
\* nothing else happens to the stacks.
Pushes(t, E, f, g) ==
  \E e \in Seq(Entries), r \in Seq(Entries) : Spells(e, E) /\ Puts(t, e, r, f, g)

Replaces(t, E, f, g) ==
  /\ f[t] # <<>>
  /\ \E e \in Seq(Entries) : Spells(e, E) /\ Puts(t, e, Tail(f[t]), f, g)

LEMMA RestRange ==
  ASSUME NEW s \in Seq(Entries), NEW r, Rest(r, s)
  PROVE  /\ r \in Seq(Entries)
         /\ Range(r) \subseteq Range(s)
         /\ s # <<>> => Range(s) = {Head(s)} \cup Range(Tail(s))
<1>1. CASE s = <<>>
  BY <1>1 DEF Rest
<1>2. CASE s # <<>>
  <2>1. /\ Tail(s) \in Seq(Entries) /\ Len(Tail(s)) = Len(s) - 1
        /\ \A i \in 1 .. Len(Tail(s)) : Tail(s)[i] = s[i + 1]
        /\ Head(s) = s[1] /\ Len(s) \in Nat \ {0}
    BY <1>2, HeadTailProperties, EmptySeq, LenProperties
  <2>2. Range(Tail(s)) = {Tail(s)[i] : i \in 1 .. Len(Tail(s))}
    BY <2>1, RangeEquality
  <2>3. Range(s) = {s[i] : i \in 1 .. Len(s)}
    BY RangeEquality
  <2>4. Range(Tail(s)) \subseteq Range(s) /\ Head(s) \in Range(s)
    BY <2>1, <2>2, <2>3
  <2>5. ASSUME NEW x \in Range(s) PROVE x = Head(s) \/ x \in Range(Tail(s))
    <3>1. PICK i \in 1 .. Len(s) : x = s[i]
      BY <2>3
    <3>2. CASE i = 1
      BY <2>1, <3>1, <3>2
    <3>3. CASE i # 1
      <4>1. i - 1 \in 1 .. Len(Tail(s))
        BY <2>1, <3>3
      <4>2. Tail(s)[i - 1] = x
        BY <2>1, <3>1, <4>1
      <4> QED
        BY <2>2, <4>1, <4>2
    <3> QED
      BY <3>2, <3>3
  <2> QED
    BY <1>2, <2>1, <2>4, <2>5 DEF Rest
<1> QED
  BY <1>1, <1>2

LEMMA PutsFacts ==
  ASSUME NEW f \in Stacks, NEW t \in Threads, NEW e, NEW r, NEW g, Puts(t, e, r, f, g)
  PROVE  /\ g \in Stacks
         /\ r \in Seq(Entries) /\ e \in Seq(Entries)
         /\ g[t] = e \o r
         /\ Range(g[t]) = Range(e) \cup Range(r)
         /\ Range(r) \subseteq Range(f[t])
         /\ \A u \in Threads : u # t => g[u] = f[u]
<1>1. f[t] \in Seq(Entries) /\ e \in Seq(Entries)
  BY DEF Stacks, Puts
<1>2. r \in Seq(Entries) /\ Range(r) \subseteq Range(f[t])
  BY <1>1, RestRange DEF Puts
<1>3. e \o r \in Seq(Entries) /\ Range(e \o r) = Range(e) \cup Range(r)
  BY <1>1, <1>2, ConcatProperties, RangeConcatenation
<1> QED
  BY <1>1, <1>2, <1>3 DEF Stacks, Puts

LEMMA SingleConcat ==
  ASSUME NEW S, NEW e \in Seq(Entries), NEW r \in Seq(Entries), Single(S, e), Single(S, r),
         Range(e) \cap S = {} \/ Range(r) \cap S = {}
  PROVE  Single(S, e \o r)
<1> DEFINE s == e \o r
<1>1. /\ Len(s) = Len(e) + Len(r) /\ Len(e) \in Nat /\ Len(r) \in Nat
      /\ \A i \in 1 .. Len(s) : s[i] = IF i <= Len(e) THEN e[i] ELSE r[i - Len(e)]
      /\ DOMAIN s = 1 .. Len(s) /\ DOMAIN e = 1 .. Len(e) /\ DOMAIN r = 1 .. Len(r)
  BY ConcatProperties, LenProperties
<1> HIDE DEF s
<1> SUFFICES ASSUME NEW i \in DOMAIN s, NEW j \in DOMAIN s, s[i] \in S, s[j] \in S
             PROVE  i = j
  BY DEF Single, s
<1>2. (\A k \in DOMAIN e : e[k] \in Range(e)) /\ (\A k \in DOMAIN r : r[k] \in Range(r))
  BY DEF Range
<1>3. CASE i <= Len(e) /\ j <= Len(e)
  BY <1>1, <1>3 DEF Single
<1>4. CASE i > Len(e) /\ j > Len(e)
  <2>1. i - Len(e) \in DOMAIN r /\ j - Len(e) \in DOMAIN r
    BY <1>1, <1>4
  <2>2. i - Len(e) = j - Len(e)
    BY <1>1, <1>4, <2>1 DEF Single
  <2> QED
    BY <1>1, <2>2
<1>5. CASE i <= Len(e) /\ j > Len(e)
  <2>1. i \in DOMAIN e /\ j - Len(e) \in DOMAIN r
    BY <1>1, <1>5
  <2> QED
    BY <1>1, <1>2, <1>5, <2>1
<1>6. CASE i > Len(e) /\ j <= Len(e)
  <2>1. j \in DOMAIN e /\ i - Len(e) \in DOMAIN r
    BY <1>1, <1>6
  <2> QED
    BY <1>1, <1>2, <1>6, <2>1
<1> QED
  BY <1>1, <1>3, <1>4, <1>5, <1>6

LEMMA AboveConcat ==
  ASSUME NEW A, NEW C, NEW e \in Seq(Entries), NEW r \in Seq(Entries),
         Above(A, C, e), Above(A, C, r),
         Range(e) \cap A = {} \/ Range(r) \cap C = {}
  PROVE  Above(A, C, e \o r)
<1> DEFINE s == e \o r
<1>1. /\ Len(s) = Len(e) + Len(r) /\ Len(e) \in Nat /\ Len(r) \in Nat
      /\ \A i \in 1 .. Len(s) : s[i] = IF i <= Len(e) THEN e[i] ELSE r[i - Len(e)]
      /\ DOMAIN s = 1 .. Len(s) /\ DOMAIN e = 1 .. Len(e) /\ DOMAIN r = 1 .. Len(r)
  BY ConcatProperties, LenProperties
<1> HIDE DEF s
<1> SUFFICES ASSUME NEW i \in DOMAIN s, NEW j \in DOMAIN s, s[i] \in A, s[j] \in C
             PROVE  j <= i
  BY DEF Above, s
<1>2. (\A k \in DOMAIN e : e[k] \in Range(e)) /\ (\A k \in DOMAIN r : r[k] \in Range(r))
  BY DEF Range
<1>3. CASE i <= Len(e) /\ j <= Len(e)
  BY <1>1, <1>3 DEF Above
<1>4. CASE i > Len(e) /\ j > Len(e)
  <2>1. i - Len(e) \in DOMAIN r /\ j - Len(e) \in DOMAIN r
    BY <1>1, <1>4
  <2>2. j - Len(e) <= i - Len(e)
    BY <1>1, <1>4, <2>1, SMTT(30) DEF Above
  <2> QED
    BY <1>1, <2>2
<1>5. CASE i <= Len(e) /\ j > Len(e)
  <2>1. i \in DOMAIN e /\ j - Len(e) \in DOMAIN r
    BY <1>1, <1>5
  <2> QED
    BY <1>1, <1>2, <1>5, <2>1
<1>6. CASE i > Len(e) /\ j <= Len(e)
  BY <1>1, <1>6
<1> QED
  BY <1>1, <1>3, <1>4, <1>5, <1>6

LEMMA RestShape ==
  ASSUME NEW s \in Seq(Entries), NEW r, Rest(r, s)
  PROVE  /\ \A S : Single(S, s) => Single(S, r)
         /\ \A A, C : Above(A, C, s) => Above(A, C, r)
         /\ s # <<>> =>
              /\ \A S : Single(S, s) /\ Head(s) \in S => Range(Tail(s)) \cap S = {}
              /\ \A A, C : Above(A, C, s) /\ Head(s) \in A => Range(Tail(s)) \cap C = {}
<1>1. CASE s = <<>>
  BY <1>1 DEF Rest
<1>2. CASE s # <<>>
  <2>1. /\ Len(Tail(s)) = Len(s) - 1 /\ Len(s) \in Nat \ {0} /\ Head(s) = s[1]
        /\ \A i \in 1 .. Len(Tail(s)) : Tail(s)[i] = s[i + 1]
        /\ DOMAIN s = 1 .. Len(s) /\ DOMAIN Tail(s) = 1 .. Len(Tail(s))
    BY <1>2, HeadTailProperties, EmptySeq, LenProperties
  <2>2. \A i \in DOMAIN Tail(s) : i + 1 \in DOMAIN s /\ Tail(s)[i] = s[i + 1] /\ i \in Nat /\ i # 0
    BY <2>1
  <2>3. ASSUME NEW S, Single(S, s) PROVE Single(S, Tail(s))
    <3> SUFFICES ASSUME NEW i \in DOMAIN Tail(s), NEW j \in DOMAIN Tail(s),
                        Tail(s)[i] \in S, Tail(s)[j] \in S
                 PROVE  i = j
      BY DEF Single
    <3>1. i + 1 = j + 1
      BY <2>2, <2>3 DEF Single
    <3> QED
      BY <2>2, <3>1
  <2>4. ASSUME NEW A, NEW C, Above(A, C, s) PROVE Above(A, C, Tail(s))
    <3> SUFFICES ASSUME NEW i \in DOMAIN Tail(s), NEW j \in DOMAIN Tail(s),
                        Tail(s)[i] \in A, Tail(s)[j] \in C
                 PROVE  j <= i
      BY DEF Above
    <3>1. j + 1 <= i + 1
      BY <2>2, <2>4 DEF Above
    <3> QED
      BY <2>2, <3>1
  <2>5. 1 \in DOMAIN s
    BY <2>1
  <2>6. ASSUME NEW S, Single(S, s), Head(s) \in S, NEW x \in Range(Tail(s)), x \in S PROVE FALSE
    <3>1. PICK i \in DOMAIN Tail(s) : x = Tail(s)[i]
      BY <2>6 DEF Range
    <3>2. i + 1 = 1
      BY <2>1, <2>2, <2>5, <2>6, <3>1 DEF Single
    <3> QED
      BY <2>2, <3>2
  <2>7. ASSUME NEW A, NEW C, Above(A, C, s), Head(s) \in A, NEW x \in Range(Tail(s)), x \in C PROVE FALSE
    <3>1. PICK i \in DOMAIN Tail(s) : x = Tail(s)[i]
      BY <2>7 DEF Range
    <3>2. i + 1 <= 1
      BY <2>1, <2>2, <2>5, <2>7, <3>1 DEF Above
    <3> QED
      BY <2>2, <3>2
  <2>8. r = s \/ r = Tail(s)
    BY DEF Rest
  <2>9. \A S : Single(S, s) => Single(S, r)
    BY <2>3, <2>8
  <2>10. \A A, C : Above(A, C, s) => Above(A, C, r)
    BY <2>4, <2>8
  <2> QED
    BY <2>6, <2>7, <2>9, <2>10
<1> QED
  BY <1>1, <1>2

\* An entry that may be there once stays so when it is replaced, or was nowhere.
LEMMA AlonePuts ==
  ASSUME NEW f \in Stacks, NEW t \in Threads, NEW e, NEW r, NEW g, NEW S,
         Puts(t, e, r, f, g), Alone(S, f), Single(S, e),
         \/ Range(e) \cap S = {}
         \/ f[t] # <<>> /\ Head(f[t]) \in S /\ r = Tail(f[t])
         \/ Nowhere(S, f)
  PROVE  /\ Alone(S, g)
         /\ (f[t] # <<>> /\ Head(f[t]) \in S /\ r = Tail(f[t])) =>
              \A u \in Threads : Range(g[u]) \cap S = IF u = t THEN Range(e) \cap S ELSE {}
<1>0. f[t] \in Seq(Entries) /\ Rest(r, f[t])
  BY DEF Stacks, Puts
<1>1. /\ f[t] \in Seq(Entries) /\ Rest(r, f[t]) /\ e \in Seq(Entries) /\ r \in Seq(Entries)
      /\ g[t] = e \o r /\ Range(g[t]) = Range(e) \cup Range(r) /\ Range(r) \subseteq Range(f[t])
      /\ \A u \in Threads : u # t => g[u] = f[u]
  BY <1>0, PutsFacts
<1>2. Single(S, f[t])
  BY DEF Alone
<1>3. Single(S, r) /\ (f[t] # <<>> /\ Head(f[t]) \in S => Range(Tail(f[t])) \cap S = {})
  BY <1>1, <1>2, RestShape
<1>4. Single(S, e \o r)
  <2>1. Range(e) \cap S = {} \/ Range(r) \cap S = {}
    BY <1>1, <1>3 DEF Nowhere
  <2> QED
    BY <1>1, <1>3, <2>1, SingleConcat
<1>5. \A u \in Threads : Single(S, g[u])
  BY <1>1, <1>4 DEF Alone
<1>6. ASSUME f[t] # <<>> /\ Head(f[t]) \in S /\ r = Tail(f[t])
      PROVE  \A u \in Threads : Range(g[u]) \cap S = IF u = t THEN Range(e) \cap S ELSE {}
  <2>1. Head(f[t]) \in Range(f[t]) /\ Range(r) \cap S = {}
    BY <1>1, <1>3, <1>6, RestRange
  <2>2. \A u \in Threads : u # t => Range(f[u]) \cap S = {}
    BY <1>6, <2>1 DEF Alone
  <2> QED
    BY <1>1, <2>1, <2>2
<1>7. \A u, v \in Threads : Range(g[u]) \cap S # {} /\ Range(g[v]) \cap S # {} => u = v
  <2>1. CASE Range(e) \cap S = {}
    BY <1>1, <2>1 DEF Alone
  <2>2. CASE f[t] # <<>> /\ Head(f[t]) \in S /\ r = Tail(f[t])
    BY <1>6, <2>2
  <2>3. CASE Nowhere(S, f)
    BY <1>1, <2>3 DEF Nowhere
  <2> QED
    BY <2>1, <2>2, <2>3
<1> QED
  BY <1>5, <1>6, <1>7 DEF Alone

LEMMA ShortSeqs ==
  /\ \A S : <<>> \in Seq(S)
  /\ \A S : \A a \in S : <<a>> \in Seq(S)
  /\ \A S : \A a, b \in S : <<a, b>> \in Seq(S)
  /\ \A S : \A a, b, c \in S : <<a, b, c>> \in Seq(S)
OBVIOUS

LEMMA ShortRanges ==
  /\ Range(<<>>) = {}
  /\ \A a : Range(<<a>>) = {a}
  /\ \A a, b : Range(<<a, b>>) = {a, b}
  /\ \A a, b, c : Range(<<a, b, c>>) = {a, b, c}
<1>1. Range(<<>>) = {}
  BY DEF Range
<1>2. ASSUME NEW a PROVE Range(<<a>>) = {a}
  <2>1. DOMAIN <<a>> = {1} /\ <<a>>[1] = a
    OBVIOUS
  <2> QED
    BY <2>1 DEF Range
<1>3. ASSUME NEW a, NEW b PROVE Range(<<a, b>>) = {a, b}
  <2>1. DOMAIN <<a, b>> = {1, 2} /\ <<a, b>>[1] = a /\ <<a, b>>[2] = b
    OBVIOUS
  <2> QED
    BY <2>1 DEF Range
<1>4. ASSUME NEW a, NEW b, NEW c PROVE Range(<<a, b, c>>) = {a, b, c}
  <2>1. /\ DOMAIN <<a, b, c>> = {1, 2, 3}
        /\ <<a, b, c>>[1] = a /\ <<a, b, c>>[2] = b /\ <<a, b, c>>[3] = c
    OBVIOUS
  <2> QED
    BY <2>1 DEF Range
<1> QED
  BY <1>1, <1>2, <1>3, <1>4

LEMMA SpellsShort ==
  /\ Spells(<<>>, {})
  /\ \A a \in Entries : Spells(<<a>>, {a})
  /\ \A a, b \in Entries : a # b /\ b # "scheduleLogical" => Spells(<<a, b>>, {a, b})
<1>1. Spells(<<>>, {})
  <2>1. DOMAIN <<>> = {} /\ <<>> \in Seq(Entries) /\ Range(<<>>) = {}
    BY ShortRanges, ShortSeqs
  <2> QED
    BY <2>1 DEF Spells, Single
<1>2. ASSUME NEW a \in Entries PROVE Spells(<<a>>, {a})
  <2>1. DOMAIN <<a>> = {1} /\ <<a>> \in Seq(Entries) /\ Range(<<a>>) = {a}
    BY ShortRanges, ShortSeqs
  <2> QED
    BY <2>1 DEF Spells, Single
<1>3. ASSUME NEW a \in Entries, NEW b \in Entries, a # b, b # "scheduleLogical"
      PROVE  Spells(<<a, b>>, {a, b})
  <2>1. DOMAIN <<a, b>> = {1, 2} /\ <<a, b>> \in Seq(Entries) /\ Range(<<a, b>>) = {a, b}
    BY ShortRanges, ShortSeqs
  <2>2. <<a, b>>[1] = a /\ <<a, b>>[2] = b
    OBVIOUS
  <2> QED
    BY <1>3, <2>1, <2>2 DEF Spells, Single
<1> QED
  BY <1>1, <1>2, <1>3

LEMMA SpellsThree ==
  ASSUME NEW a \in Entries, NEW b \in Entries, NEW c \in Entries,
         a # b, b # c, a # c, b # "scheduleLogical", c # "scheduleLogical"
  PROVE  Spells(<<a, b, c>>, {a, b, c})
<1>1. /\ DOMAIN <<a, b, c>> = {1, 2, 3} /\ <<a, b, c>> \in Seq(Entries)
      /\ Range(<<a, b, c>>) = {a, b, c}
  BY ShortRanges, ShortSeqs
<1>2. <<a, b, c>>[1] = a /\ <<a, b, c>>[2] = b /\ <<a, b, c>>[3] = c
  OBVIOUS
<1> QED
  BY <1>1, <1>2 DEF Spells, Single

LEMMA SpellsIf ==
  ASSUME NEW c \in BOOLEAN, NEW x \in Entries
  PROVE  Spells(If(c, x), Cond(c, x))
<1>1. CASE c
  BY <1>1, SpellsShort DEF If, Cond
<1>2. CASE ~c
  BY <1>2, SpellsShort DEF If, Cond
<1> QED
  BY <1>1, <1>2

LEMMA SpellsConcat ==
  ASSUME NEW e, NEW E, NEW d, NEW D, Spells(e, E), Spells(d, D),
         E \cap D = {}, "scheduleLogical" \notin D
  PROVE  Spells(e \o d, E \cup D)
<1>1. /\ e \in Seq(Entries) /\ Range(e) = E /\ d \in Seq(Entries) /\ Range(d) = D
      /\ (\A x : Single({x}, e)) /\ (\A x : Single({x}, d))
      /\ \A i \in DOMAIN e : e[i] = "scheduleLogical" => i = 1
  BY DEF Spells
<1>2. e \o d \in Seq(Entries) /\ Range(e \o d) = E \cup D
  BY <1>1, ConcatProperties, RangeConcatenation
<1>3. ASSUME NEW x PROVE Single({x}, e \o d)
  <2>1. Range(e) \cap {x} = {} \/ Range(d) \cap {x} = {}
    BY <1>1
  <2> QED
    BY <1>1, <2>1, SingleConcat
<1>4. ASSUME NEW i \in DOMAIN (e \o d), (e \o d)[i] = "scheduleLogical" PROVE i = 1
  <2>1. /\ Len(e \o d) = Len(e) + Len(d) /\ Len(e) \in Nat /\ Len(d) \in Nat
        /\ (e \o d)[i] = IF i <= Len(e) THEN e[i] ELSE d[i - Len(e)]
        /\ i \in 1 .. Len(e \o d) /\ DOMAIN e = 1 .. Len(e) /\ DOMAIN d = 1 .. Len(d)
    BY <1>1, <1>2, ConcatProperties, LenProperties
  <2>2. CASE i <= Len(e)
    BY <1>1, <1>4, <2>1, <2>2
  <2>3. CASE i > Len(e)
    <3>1. i - Len(e) \in DOMAIN d /\ d[i - Len(e)] = "scheduleLogical"
      BY <1>4, <2>1, <2>3
    <3> QED
      BY <1>1, <3>1 DEF Range
  <2> QED
    BY <2>1, <2>2, <2>3
<1> QED
  BY <1>2, <1>3, <1>4 DEF Spells

LEMMA ContinueReplaces ==
  ASSUME todo \in Stacks, NEW t \in Threads, NEW x, At(t, x), NEW e, NEW E, Spells(e, E),
         Continue(t, e)
  PROVE  Replaces(t, E, todo, todo')
<1>1. todo[t] \in Seq(Entries) /\ todo[t] # <<>> /\ e \in Seq(Entries)
  BY DEF Stacks, At, Spells
<1>2. Puts(t, e, Tail(todo[t]), todo, todo')
  BY <1>1 DEF Puts, Continue, Rest
<1> QED
  BY <1>1, <1>2 DEF Replaces

LEMMA ReplacesPushes ==
  ASSUME NEW f \in Stacks, NEW t \in Threads, NEW E, NEW g, Replaces(t, E, f, g)
  PROVE  Pushes(t, E, f, g)
<1>1. Tail(f[t]) \in Seq(Entries)
  BY HeadTailProperties DEF Stacks, Replaces
<1> QED
  BY <1>1 DEF Replaces, Pushes

LEMMA LoadPushes ==
  ASSUME todo \in Stacks, NEW t \in Threads, Idle(t),
         NEW e, NEW E, Spells(e, E), todo' = [todo EXCEPT ![t] = e]
  PROVE  Pushes(t, E, todo, todo')
<1>1. e \in Seq(Entries) /\ <<>> \in Seq(Entries)
  BY ShortSeqs DEF Spells
<1>2. e \o <<>> = e /\ todo[t] = <<>>
  BY <1>1, ConcatEmptySeq DEF Idle
<1>3. Puts(t, e, <<>>, todo, todo')
  BY <1>1, <1>2 DEF Puts, Rest
<1> QED
  BY <1>1, <1>3 DEF Pushes

LEMMA StutterPushes ==
  ASSUME todo \in Stacks, todo' = todo, NEW t \in Threads
  PROVE  Pushes(t, {}, todo, todo')
<1>1. todo[t] \in Seq(Entries) /\ <<>> \in Seq(Entries)
  BY ShortSeqs DEF Stacks
<1>2. <<>> \o todo[t] = todo[t]
  BY <1>1, ConcatEmptySeq
<1>3. Puts(t, <<>>, todo[t], todo, todo')
  BY <1>1, <1>2 DEF Puts, Rest, Stacks
<1> QED
  BY <1>1, <1>3, SpellsShort DEF Pushes

\* What every step of a thread leaves alone.
LEMMA PushesFacts ==
  ASSUME NEW f \in Stacks, NEW t \in Threads, NEW E, NEW g, Pushes(t, E, f, g)
  PROVE  /\ g \in Stacks
         /\ \A u \in Threads : u # t => g[u] = f[u]
         /\ E \subseteq Range(g[t]) /\ Range(g[t]) \subseteq Range(f[t]) \cup E
<1>1. PICK e \in Seq(Entries), r \in Seq(Entries) : Spells(e, E) /\ Puts(t, e, r, f, g)
  BY DEF Pushes
<1>2. Range(e) = E
  BY <1>1 DEF Spells
<1> QED
  BY <1>1, <1>2, PutsFacts

LEMMA SpellsSingle ==
  ASSUME NEW e, NEW E, Spells(e, E), NEW S, NEW x, E \cap S \subseteq {x}
  PROVE  Single(S, e)
<1>1. /\ Single({x}, e) /\ \A i \in DOMAIN e : e[i] \in S => e[i] = x
  BY DEF Spells, Range
<1> QED
  BY <1>1 DEF Single

\* Entries of S stay alone when none is added, or one is where none was.
LEMMA PushesAlone ==
  ASSUME NEW f \in Stacks, NEW t \in Threads, NEW E, NEW g, Pushes(t, E, f, g),
         NEW S, NEW x, E \cap S \subseteq {x}, Alone(S, f),
         E \cap S = {} \/ Nowhere(S, f)
  PROVE  Alone(S, g)
<1>1. PICK e \in Seq(Entries), r \in Seq(Entries) : Spells(e, E) /\ Puts(t, e, r, f, g)
  BY DEF Pushes
<1>2. Range(e) = E /\ Single(S, e)
  BY <1>1, SpellsSingle DEF Spells
<1> QED
  BY <1>1, <1>2, AlonePuts

\* An entry of S is replaced by at most one.
LEMMA ReplacesAlone ==
  ASSUME NEW f \in Stacks, NEW t \in Threads, NEW E, NEW g, Replaces(t, E, f, g),
         NEW S, NEW x, E \cap S \subseteq {x}, Alone(S, f), Head(f[t]) \in S
  PROVE  /\ Alone(S, g)
         /\ \A u \in Threads : Range(g[u]) \cap S = IF u = t THEN E \cap S ELSE {}
<1>1. PICK e \in Seq(Entries) : Spells(e, E) /\ Puts(t, e, Tail(f[t]), f, g)
  BY DEF Replaces
<1>2. Range(e) = E /\ Single(S, e) /\ f[t] # <<>>
  BY <1>1, SpellsSingle DEF Spells, Replaces
<1>3. /\ \/ Range(e) \cap S = {}
         \/ f[t] # <<>> /\ Head(f[t]) \in S /\ Tail(f[t]) = Tail(f[t])
         \/ Nowhere(S, f)
  BY <1>2
<1>4. Alone(S, g)
  BY <1>1, <1>2, <1>3, AlonePuts
<1>5. ASSUME NEW u \in Threads
      PROVE  Range(g[u]) \cap S = IF u = t THEN Range(e) \cap S ELSE {}
  BY <1>1, <1>2, <1>3, AlonePuts, ZenonT(40)
<1> QED
  BY <1>2, <1>4, <1>5

\* What is left when the first entry of a stack is replaced.
LEMMA ReplacesFacts ==
  ASSUME NEW f \in Stacks, NEW t \in Threads, NEW E, NEW g, Replaces(t, E, f, g)
  PROVE  /\ g \in Stacks
         /\ \A u \in Threads : u # t => g[u] = f[u]
         /\ f[t] # <<>> /\ f[t] \in Seq(Entries) /\ Tail(f[t]) \in Seq(Entries)
         /\ Range(f[t]) = {Head(f[t])} \cup Range(Tail(f[t]))
         /\ Range(g[t]) = E \cup Range(Tail(f[t]))
<1> DEFINE r == Tail(f[t])
<1>1. PICK e \in Seq(Entries) : Spells(e, E) /\ Puts(t, e, r, f, g)
  BY DEF Replaces
<1>2. f[t] # <<>> /\ f[t] \in Seq(Entries) /\ Rest(r, f[t]) /\ Range(e) = E
  BY <1>1 DEF Replaces, Stacks, Puts, Spells
<1>3. r \in Seq(Entries) /\ Range(f[t]) = {Head(f[t])} \cup Range(r)
  BY <1>2, RestRange
<1>4. /\ g \in Stacks /\ Range(g[t]) = Range(e) \cup Range(r)
      /\ \A u \in Threads : u # t => g[u] = f[u]
  BY <1>1, PutsFacts
<1> QED
  BY <1>2, <1>3, <1>4

LEMMA AbovePuts ==
  ASSUME NEW f \in Stacks, NEW t \in Threads, NEW e, NEW r, NEW g, NEW A, NEW C,
         Puts(t, e, r, f, g), Above(A, C, f[t]),
         Range(e) \cap A = {} \/ Range(e) \cap C = {},
         Range(e) \cap A = {} \/ Range(r) \cap C = {}
  PROVE  Above(A, C, g[t])
<1>1. f[t] \in Seq(Entries) /\ Rest(r, f[t])
  BY DEF Stacks, Puts
<1>2. e \in Seq(Entries) /\ r \in Seq(Entries) /\ g[t] = e \o r
  BY PutsFacts
<1>3. Above(A, C, r)
  BY <1>1, RestShape
<1>4. Above(A, C, e)
  BY DEF Above, Range
<1> QED
  BY <1>2, <1>3, <1>4, AboveConcat

\* The entries of C stay before those of A when a stack's first entry is replaced.
LEMMA ReplacesAbove ==
  ASSUME NEW f \in Stacks, NEW t \in Threads, NEW E, NEW g, Replaces(t, E, f, g),
         NEW A, NEW C, Above(A, C, f[t]),
         E \cap A = {} \/ E \cap C = {},
         E \cap A = {} \/ Head(f[t]) \in A
  PROVE  Above(A, C, g[t])
<1> DEFINE r == Tail(f[t])
<1>1. PICK e \in Seq(Entries) : Spells(e, E) /\ Puts(t, e, r, f, g)
  BY DEF Replaces
<1>2. f[t] # <<>> /\ f[t] \in Seq(Entries) /\ Rest(r, f[t]) /\ Range(e) = E
  BY <1>1 DEF Replaces, Stacks, Puts, Spells
<1>3. Range(e) \cap A = {} \/ Range(r) \cap C = {}
  BY <1>2, RestShape
<1>4. Range(e) \cap A = {} \/ Range(e) \cap C = {}
  BY <1>2
<1> HIDE DEF r
<1> QED
  BY <1>1, <1>3, <1>4, AbovePuts

\* A source that delivers the logical failure is scheduled before anything else.
SchedulesFirst(s) == s # <<>> => "scheduleLogical" \notin Range(Tail(s))

LEMMA ReplacesFirst ==
  ASSUME NEW f \in Stacks, NEW t \in Threads, NEW E, NEW g, Replaces(t, E, f, g),
         SchedulesFirst(f[t])
  PROVE  SchedulesFirst(g[t]) /\ "scheduleLogical" \notin Range(Tail(f[t]))
<1> DEFINE r == Tail(f[t])
<1>1. PICK e \in Seq(Entries) : Spells(e, E) /\ Puts(t, e, r, f, g)
  BY DEF Replaces
<1>2. r \in Seq(Entries) /\ g[t] = e \o r /\ "scheduleLogical" \notin Range(r)
  <2>1. Tail(f[t]) \in Seq(Entries) /\ f[t] # <<>>
    BY ReplacesFacts
  <2>2. r \in Seq(Entries) /\ "scheduleLogical" \notin Range(r)
    BY <2>1 DEF SchedulesFirst
  <2> HIDE DEF r
  <2> QED
    BY <1>1, <2>2, PutsFacts
<1>3. \A i \in DOMAIN e : e[i] = "scheduleLogical" => i = 1
  BY <1>1 DEF Spells
<1> HIDE DEF r
<1>4. SUFFICES ASSUME e \o r # <<>>, "scheduleLogical" \in Range(Tail(e \o r))
               PROVE  FALSE
  BY <1>2 DEF SchedulesFirst, r
<1> DEFINE s == e \o r
<1>5. /\ s \in Seq(Entries) /\ Len(s) = Len(e) + Len(r) /\ Len(e) \in Nat /\ Len(r) \in Nat
      /\ \A i \in 1 .. Len(s) : s[i] = IF i <= Len(e) THEN e[i] ELSE r[i - Len(e)]
      /\ DOMAIN e = 1 .. Len(e) /\ DOMAIN r = 1 .. Len(r)
  BY <1>2, ConcatProperties, LenProperties
<1> HIDE DEF s
<1>6. /\ Len(Tail(s)) = Len(s) - 1 /\ Tail(s) \in Seq(Entries)
      /\ \A i \in 1 .. Len(Tail(s)) : Tail(s)[i] = s[i + 1]
      /\ DOMAIN Tail(s) = 1 .. Len(Tail(s))
  <2>1. s # <<>>
    BY <1>4 DEF s
  <2> QED
    BY <1>5, <2>1, HeadTailProperties, LenProperties
<1>7. PICK i \in DOMAIN Tail(s) : Tail(s)[i] = "scheduleLogical"
  BY <1>4 DEF Range, s
<1>8. i \in Nat \ {0} /\ i + 1 \in 1 .. Len(s) /\ s[i + 1] = "scheduleLogical"
  BY <1>5, <1>6, <1>7
<1>9. CASE i + 1 <= Len(e)
  BY <1>3, <1>5, <1>8, <1>9
<1>10. CASE i + 1 > Len(e)
  <2>1. i + 1 - Len(e) \in DOMAIN r /\ r[i + 1 - Len(e)] = "scheduleLogical"
    BY <1>5, <1>8, <1>10
  <2> QED
    BY <1>2, <2>1 DEF Range
<1> QED
  BY <1>5, <1>8, <1>9, <1>10

LEMMA Names ==
  /\ {"complete", "completeUnexpected", "finishHandoff", "finishUnexpected"} \subseteq Entries
  /\ {"handOff", "handOffUnexpected", "reportLogicalFailure", "scheduleLogical"} \subseteq Entries
  /\ {"attachFinalizer", "markSendFailure", "unlockSend", "settle"} \subseteq Entries
  /\ {"leaveDelivery", "failureCallback", "invokeCallbacks", "inCallback"} \subseteq Entries
  /\ {"reserve", "prepareFinalizer", "createClient", "createWorker"} \subseteq Entries
  /\ {"createReaper", "activate", "openGate", "close"} \subseteq Entries
  /\ {"closeSend", "sendClose", "installDeadline", "lockSend"} \subseteq Entries
  /\ {"send", "waitGate", "poll", "lockClose"} \subseteq Entries
  /\ {"receive", "noteClosed", "deliverClosed", "destroyClient"} \subseteq Entries
  /\ {"finish", "joinWorker"} \subseteq Entries
BY DEF Entries

Step(t, E) == Replaces(t, E, todo, todo')

LEMMA StepFacts ==
  ASSUME todo \in Stacks, NEW t \in Threads
  PROVE  \A E : Step(t, E) =>
           /\ todo' \in Stacks
           /\ \A u \in Threads : u # t => todo'[u] = todo[u]
           /\ todo[t] # <<>> /\ todo[t] \in Seq(Entries) /\ Tail(todo[t]) \in Seq(Entries)
           /\ Range(todo[t]) = {Head(todo[t])} \cup Range(Tail(todo[t]))
           /\ Range(todo'[t]) = E \cup Range(Tail(todo[t]))
<1> SUFFICES ASSUME NEW E, Step(t, E)
             PROVE  /\ todo' \in Stacks
                    /\ \A u \in Threads : u # t => todo'[u] = todo[u]
                    /\ todo[t] # <<>> /\ todo[t] \in Seq(Entries)
                    /\ Tail(todo[t]) \in Seq(Entries)
                    /\ Range(todo[t]) = {Head(todo[t])} \cup Range(Tail(todo[t]))
                    /\ Range(todo'[t]) = E \cup Range(Tail(todo[t]))
  OBVIOUS
<1> DEFINE g == todo'
<1>1. Replaces(t, E, todo, g)
  BY DEF Step
<1> HIDE DEF g
<1>2. /\ g \in Stacks
      /\ \A u \in Threads : u # t => g[u] = todo[u]
      /\ todo[t] # <<>> /\ todo[t] \in Seq(Entries) /\ Tail(todo[t]) \in Seq(Entries)
      /\ Range(todo[t]) = {Head(todo[t])} \cup Range(Tail(todo[t]))
      /\ Range(g[t]) = E \cup Range(Tail(todo[t]))
  BY <1>1, ReplacesFacts
<1> QED
  BY <1>2 DEF g

LEMMA ContinueShort ==
  ASSUME todo \in Stacks, NEW t \in Threads, NEW x, At(t, x)
  PROVE  /\ Continue(t, <<>>) => Step(t, {})
         /\ \A a \in Entries : Continue(t, <<a>>) => Step(t, {a})
         /\ \A a, b \in Entries :
              a # b /\ b # "scheduleLogical" /\ Continue(t, <<a, b>>) => Step(t, {a, b})
<1>1. Continue(t, <<>>) => Step(t, {})
  BY ContinueReplaces, SpellsShort DEF Step
<1>2. ASSUME NEW a \in Entries, Continue(t, <<a>>) PROVE Step(t, {a})
  <2>1. Spells(<<a>>, {a})
    BY SpellsShort
  <2> QED
    BY <1>2, <2>1, ContinueReplaces DEF Step
<1>3. ASSUME NEW a \in Entries, NEW b \in Entries, a # b, b # "scheduleLogical",
             Continue(t, <<a, b>>)
      PROVE  Step(t, {a, b})
  <2>1. Spells(<<a, b>>, {a, b})
    BY <1>3, SpellsShort
  <2> QED
    BY <1>3, <2>1, ContinueReplaces DEF Step
<1> QED
  BY <1>1, <1>2, <1>3

LEMMA OwnerShort ==
  /\ "owner" \in Threads /\ "worker" \in Threads /\ "reaper" \in Threads
  /\ "sender" \in Threads /\ "helper" \in Threads
BY DEF Threads

\* What each action puts in the place of the entry it is at.
LEMMA SimpleEffects ==
  ASSUME todo \in Stacks
  PROVE  /\ InvokeFailure => Step("owner", {"inCallback"})
         /\ InvokeCallbacks => Step("owner", {"inCallback"})
         /\ CallbackReturns => Step("owner", {})
         /\ PrepareFinalizer => Step("owner", {"createClient"})
         /\ CreateClient => Step("owner", {"createWorker"})
         /\ ActivationFails => Step("owner", {"openGate", "reportLogicalFailure"})
         /\ OpenGate => Step("owner", {})
         /\ CloseQueues => Step("owner", {"installDeadline"})
         /\ OwnerSendsClose => (Step("owner", {"unlockSend"}) \/ Step("owner", {"markSendFailure", "unlockSend"}))
         /\ SenderLocks => (IF sendMutex' = "sender" THEN Step("sender", {"send"}) ELSE Step("sender", {}))
         /\ SenderSends => (Step("sender", {"unlockSend"}) \/ Step("sender", {"markSendFailure", "unlockSend"}))
         /\ DestroyClient => Step("worker", {"finish"})
         /\ FinishWorker => Step("worker", {})
         /\ NoteClosed => Step("worker", {"deliverClosed"})
         /\ WaitGate => (Step("worker", {"destroyClient"}) \/ Step("worker", {"poll"}))
         /\ Poll => (\E x \in {"lockClose", "destroyClient", "receive"} : Step("worker", {x}))
         /\ Receive => (Step("worker", {"destroyClient"}) \/ Step("worker", {"poll"}))
         /\ ReceiveClosed => (Step("worker", {"destroyClient"}) \/ Step("worker", {"noteClosed"}))
         /\ DeliverClosed => (IF receipt' = "held" THEN Step("worker", {"destroyClient"})
                                        ELSE Step("worker", {"settle", "destroyClient"}))
         /\ LockClose => (IF sendMutex' = "worker" THEN Step("worker", {"sendClose"})
              ELSE \E x \in {"destroyClient", "receive"} : Step("worker", {x}))
<1>1. InvokeFailure => (Step("owner", {"inCallback"}))
  BY OwnerShort, ContinueShort, Names DEF InvokeFailure
<1>2. InvokeCallbacks => (Step("owner", {"inCallback"}))
  BY OwnerShort, ContinueShort, Names DEF InvokeCallbacks
<1>3. CallbackReturns => (Step("owner", {}))
  BY OwnerShort, ContinueShort, Names DEF CallbackReturns
<1>4. PrepareFinalizer => (Step("owner", {"createClient"}))
  BY OwnerShort, ContinueShort, Names DEF PrepareFinalizer
<1>5. CreateClient => (Step("owner", {"createWorker"}))
  BY OwnerShort, ContinueShort, Names DEF CreateClient
<1>6. ActivationFails => (Step("owner", {"openGate", "reportLogicalFailure"}))
  BY OwnerShort, ContinueShort, Names DEF ActivationFails
<1>7. OpenGate => (Step("owner", {}))
  BY OwnerShort, ContinueShort, Names DEF OpenGate
<1>8. CloseQueues => (Step("owner", {"installDeadline"}))
  BY OwnerShort, ContinueShort, Names DEF CloseQueues
<1>9. OwnerSendsClose => (Step("owner", {"unlockSend"}) \/ Step("owner", {"markSendFailure", "unlockSend"}))
  BY OwnerShort, ContinueShort, Names DEF OwnerSendsClose
<1>10. SenderLocks => (IF sendMutex' = "sender" THEN Step("sender", {"send"}) ELSE Step("sender", {}))
  BY OwnerShort, ContinueShort, Names DEF SenderLocks
<1>11. SenderSends => (Step("sender", {"unlockSend"}) \/ Step("sender", {"markSendFailure", "unlockSend"}))
  BY OwnerShort, ContinueShort, Names DEF SenderSends
<1>12. DestroyClient => (Step("worker", {"finish"}))
  BY OwnerShort, ContinueShort, Names DEF DestroyClient
<1>13. FinishWorker => (Step("worker", {}))
  BY OwnerShort, ContinueShort, Names DEF FinishWorker
<1>14. NoteClosed => (Step("worker", {"deliverClosed"}))
  BY OwnerShort, ContinueShort, Names DEF NoteClosed
<1>15. WaitGate => (Step("worker", {"destroyClient"}) \/ Step("worker", {"poll"}))
  BY OwnerShort, ContinueShort, Names DEF WaitGate
<1>16. Poll => (\E x \in {"lockClose", "destroyClient", "receive"} : Step("worker", {x}))
  BY OwnerShort, ContinueShort, Names DEF Poll, AfterQueuedClose
<1>17. Receive => (Step("worker", {"destroyClient"}) \/ Step("worker", {"poll"}))
  BY OwnerShort, ContinueShort, Names DEF Receive
<1>18. ReceiveClosed => (Step("worker", {"destroyClient"}) \/ Step("worker", {"noteClosed"}))
  BY OwnerShort, ContinueShort, Names DEF ReceiveClosed
<1>19. DeliverClosed => (IF receipt' = "held" THEN Step("worker", {"destroyClient"})
                                        ELSE Step("worker", {"settle", "destroyClient"}))
  BY OwnerShort, ContinueShort, Names DEF DeliverClosed
<1>20. LockClose => (IF sendMutex' = "worker" THEN Step("worker", {"sendClose"})
              ELSE \E x \in {"destroyClient", "receive"} : Step("worker", {x}))
  BY OwnerShort, ContinueShort, Names DEF LockClose, AfterQueuedClose
<1> QED
  BY <1>1, <1>2, <1>3, <1>4, <1>5, <1>6, <1>7, <1>8, <1>9, <1>10, <1>11, <1>12, <1>13, <1>14, <1>15, <1>16, <1>17, <1>18, <1>19, <1>20

\* A thread that has nothing to do is given the entries E.
Loads(t, E, f, g) ==
  f[t] = <<>> /\ \E e \in Seq(Entries) : Spells(e, E) /\ g = [f EXCEPT ![t] = e]

Given(t, E) == Loads(t, E, todo, todo')

LEMMA LoadsFacts ==
  ASSUME NEW f \in Stacks, NEW t \in Threads, NEW E, NEW g, Loads(t, E, f, g)
  PROVE  /\ g \in Stacks
         /\ \A u \in Threads : u # t => g[u] = f[u]
         /\ f[t] = <<>> /\ Range(f[t]) = {} /\ Range(g[t]) = E
         /\ \E e \in Seq(Entries) : Spells(e, E) /\ g[t] = e
<1>1. PICK e \in Seq(Entries) : Spells(e, E) /\ g = [f EXCEPT ![t] = e]
  BY DEF Loads
<1>2. Range(e) = E /\ g[t] = e
  BY <1>1 DEF Spells, Stacks
<1>3. f[t] = <<>> /\ Range(<<>>) = {}
  BY ShortRanges DEF Loads
<1> QED
  BY <1>1, <1>2, <1>3 DEF Stacks

\* Entries of S are alone where none was.
LEMMA LoadsAlone ==
  ASSUME NEW f \in Stacks, NEW t \in Threads, NEW E, NEW g, Loads(t, E, f, g),
         NEW S, NEW x, E \cap S \subseteq {x}, Alone(S, f),
         E \cap S = {} \/ Nowhere(S, f)
  PROVE  Alone(S, g)
<1>1. PICK e \in Seq(Entries) : Spells(e, E) /\ g[t] = e
  BY LoadsFacts
<1>2. Single(S, e) /\ Range(g[t]) = E
  <2>1. Single(S, e)
    BY <1>1, SpellsSingle
  <2>2. Range(g[t]) = E
    BY LoadsFacts
  <2> QED
    BY <2>1, <2>2
<1>3. \A u \in Threads : u # t => g[u] = f[u]
  BY LoadsFacts
<1>4. \A u \in Threads : Single(S, g[u])
  BY <1>1, <1>2, <1>3 DEF Alone
<1>5. \A u, v \in Threads : Range(g[u]) \cap S # {} /\ Range(g[v]) \cap S # {} => u = v
  BY <1>2, <1>3 DEF Alone, Nowhere
<1> QED
  BY <1>4, <1>5 DEF Alone

LEMMA LoadsOrder ==
  ASSUME NEW f \in Stacks, NEW t \in Threads, NEW E, NEW g, Loads(t, E, f, g)
  PROVE  /\ \A A, C : E \cap A = {} \/ E \cap C = {} => Above(A, C, g[t])
         /\ SchedulesFirst(g[t])
<1>1. PICK e \in Seq(Entries) : Spells(e, E) /\ g[t] = e
  BY LoadsFacts
<1>2. ASSUME NEW A, NEW C, E \cap A = {} \/ E \cap C = {} PROVE Above(A, C, e)
  BY <1>1, <1>2 DEF Spells, Above, Range
<1>3. SchedulesFirst(e)
  <2> SUFFICES ASSUME e # <<>>, "scheduleLogical" \in Range(Tail(e)) PROVE FALSE
    BY DEF SchedulesFirst
  <2>1. /\ Len(Tail(e)) = Len(e) - 1 /\ Tail(e) \in Seq(Entries) /\ Len(e) \in Nat
        /\ \A i \in 1 .. Len(Tail(e)) : Tail(e)[i] = e[i + 1]
        /\ DOMAIN Tail(e) = 1 .. Len(Tail(e)) /\ DOMAIN e = 1 .. Len(e)
    BY HeadTailProperties, LenProperties
  <2>2. PICK i \in DOMAIN Tail(e) : Tail(e)[i] = "scheduleLogical"
    BY DEF Range
  <2>3. i + 1 \in DOMAIN e /\ e[i + 1] = "scheduleLogical" /\ i + 1 # 1
    BY <2>1, <2>2
  <2> QED
    BY <1>1, <2>3 DEF Spells
<1> QED
  BY <1>1, <1>2, <1>3

LEMMA LoadShort ==
  ASSUME todo \in Stacks, NEW t \in Threads, Idle(t)
  PROVE  /\ \A a \in Entries : todo' = [todo EXCEPT ![t] = <<a>>] => Given(t, {a})
         /\ \A a, b \in Entries :
              a # b /\ b # "scheduleLogical" /\ todo' = [todo EXCEPT ![t] = <<a, b>>]
                => Given(t, {a, b})
<1>1. ASSUME NEW a \in Entries, todo' = [todo EXCEPT ![t] = <<a>>] PROVE Given(t, {a})
  <2>1. Spells(<<a>>, {a}) /\ <<a>> \in Seq(Entries)
    BY SpellsShort DEF Spells
  <2> QED
    BY <1>1, <2>1 DEF Given, Loads, Idle
<1>2. ASSUME NEW a \in Entries, NEW b \in Entries, a # b, b # "scheduleLogical",
             todo' = [todo EXCEPT ![t] = <<a, b>>]
      PROVE  Given(t, {a, b})
  <2>1. Spells(<<a, b>>, {a, b}) /\ <<a, b>> \in Seq(Entries)
    BY <1>2, SpellsShort DEF Spells
  <2> QED
    BY <1>2, <2>1 DEF Given, Loads, Idle
<1> QED
  BY <1>1, <1>2

\* The callbacks run, after the failure they stand for if there is one to be told.
LEMMA LoadCallbacks ==
  ASSUME todo \in Stacks, Idle("owner"), NEW c \in BOOLEAN,
         todo' = [todo EXCEPT !["owner"] = If(c, "failureCallback") \o <<"invokeCallbacks">>]
  PROVE  Given("owner", Cond(c, "failureCallback") \cup {"invokeCallbacks"})
<1> DEFINE e == If(c, "failureCallback")
           d == <<"invokeCallbacks">>
           E == Cond(c, "failureCallback")
<1>1. {"failureCallback", "invokeCallbacks"} \subseteq Entries
  BY DEF Entries
<1>2. Spells(e, E)
  BY <1>1, SpellsIf
<1>3. Spells(d, {"invokeCallbacks"})
  BY <1>1, SpellsShort
<1>4. E \cap {"invokeCallbacks"} = {} /\ "scheduleLogical" \notin {"invokeCallbacks"}
  BY DEF Cond
<1>5. todo' = [todo EXCEPT !["owner"] = e \o d]
  OBVIOUS
<1> HIDE DEF e, d, E
<1>6. Spells(e \o d, E \cup {"invokeCallbacks"})
  BY <1>2, <1>3, <1>4, SpellsConcat
<1>7. e \o d \in Seq(Entries)
  BY <1>6 DEF Spells
<1>8. Given("owner", E \cup {"invokeCallbacks"})
  BY <1>5, <1>6, <1>7 DEF Given, Loads, Idle
<1> QED
  BY <1>8 DEF E

LEMMA TakeEffects ==
  ASSUME todo \in Stacks, failureCallback \in BOOLEAN, Idle("owner"), NEW F, NEW result,
         TakeCallbacks(F, result)
  PROVE  Given("owner", Cond("failureFallbackPending" \in F /\ failureCallback, "failureCallback")
                          \cup {"invokeCallbacks"})
<1> DEFINE c == "failureFallbackPending" \in F /\ failureCallback
<1>1. c \in BOOLEAN
  OBVIOUS
<1>2. todo' = [todo EXCEPT !["owner"] = If(c, "failureCallback") \o <<"invokeCallbacks">>]
  BY DEF TakeCallbacks
<1> HIDE DEF c
<1>3. Given("owner", Cond(c, "failureCallback") \cup {"invokeCallbacks"})
  BY <1>1, <1>2, LoadCallbacks
<1> QED
  BY <1>3 DEF c

\* What the sources of the owner's context, and the calls from outside, give a thread.
LEMMA LoadEffects ==
  ASSUME todo \in Stacks, failureCallback \in BOOLEAN
  PROVE  /\ Start => Given("owner", {"reserve"})
         /\ SenderCalled => Given("sender", {"lockSend"})
         /\ \A t \in Threads : ReceiptReleased(t) => Given(t, {"settle"})
         /\ KnownResultRuns => Given("owner", {"inCallback"})
         /\ FailureSourceRuns =>
              IF failureSource = "runtime"
              THEN Given("owner", {"failureCallback", "complete"})
              ELSE Given("owner", {"failureCallback", "completeUnexpected"})
         /\ FinalizeWorker =>
              Given("owner", Cond("failureFallbackPending" \in flags /\ failureCallback,
                                  "failureCallback") \cup {"invokeCallbacks"})
<1>1. Start => Given("owner", {"reserve"})
  BY OwnerShort, LoadShort, Names DEF Start
<1>2. SenderCalled => Given("sender", {"lockSend"})
  BY OwnerShort, LoadShort, Names DEF SenderCalled
<1>3. ASSUME NEW t \in Threads, ReceiptReleased(t) PROVE Given(t, {"settle"})
  <2>1. Idle(t) /\ todo' = [todo EXCEPT ![t] = <<"settle">>]
    BY <1>3 DEF ReceiptReleased
  <2> QED
    BY <2>1, LoadShort, Names
<1>4. KnownResultRuns => Given("owner", {"inCallback"})
  BY OwnerShort, LoadShort, Names DEF KnownResultRuns
<1>5. ASSUME FailureSourceRuns
      PROVE  IF failureSource = "runtime"
             THEN Given("owner", {"failureCallback", "complete"})
             ELSE Given("owner", {"failureCallback", "completeUnexpected"})
  BY <1>5, OwnerShort, LoadShort, Names DEF FailureSourceRuns
<1>6. ASSUME FinalizeWorker
      PROVE  Given("owner", Cond("failureFallbackPending" \in flags /\ failureCallback,
                                 "failureCallback") \cup {"invokeCallbacks"})
  <2> DEFINE c == "failureFallbackPending" \in flags /\ failureCallback
  <2>1. c \in BOOLEAN
    OBVIOUS
  <2>2. /\ todo' = [todo EXCEPT !["owner"] = If(c, "failureCallback") \o <<"invokeCallbacks">>]
        /\ Idle("owner")
    BY <1>6 DEF FinalizeWorker
  <2> HIDE DEF c
  <2>3. Given("owner", Cond(c, "failureCallback") \cup {"invokeCallbacks"})
    BY <2>1, <2>2, LoadCallbacks
  <2> QED
    BY <2>3 DEF c
<1> QED
  BY <1>1, <1>2, <1>3, <1>4, <1>5, <1>6

\* What the finalizer and the logical failure have waited for has happened in this step.
Claims == "finalizationScheduled" \in flags' /\ "finalizationScheduled" \notin flags
Schedules ==
  "logicalFailureSourceScheduled" \in flags' /\ "logicalFailureSourceScheduled" \notin flags

\* Two conditional entries, and one that always follows.
LEMMA ContinueIfs ==
  ASSUME todo \in Stacks, NEW t \in Threads, NEW x, At(t, x),
         NEW c \in BOOLEAN, NEW d \in BOOLEAN, NEW a \in Entries, NEW b \in Entries,
         a # b, b # "scheduleLogical"
  PROVE  /\ Continue(t, If(c, a)) => Step(t, Cond(c, a))
         /\ Continue(t, If(c, a) \o If(d, b)) => Step(t, Cond(c, a) \cup Cond(d, b))
         /\ Continue(t, If(c, a) \o <<b>>) => Step(t, Cond(c, a) \cup {b})
<1> DEFINE e == If(c, a)
           f == If(d, b)
           g == <<b>>
<1>1. Spells(e, Cond(c, a)) /\ Spells(f, Cond(d, b))
  BY SpellsIf
<1>2. Spells(g, {b})
  BY SpellsShort
<1>3. /\ Cond(c, a) \cap Cond(d, b) = {} /\ Cond(c, a) \cap {b} = {}
      /\ "scheduleLogical" \notin Cond(d, b)
  BY DEF Cond
<1> HIDE DEF e, f, g
<1>4. Spells(e \o f, Cond(c, a) \cup Cond(d, b))
  BY <1>1, <1>3, SpellsConcat
<1>5. Spells(e \o g, Cond(c, a) \cup {b})
  BY <1>1, <1>2, <1>3, SpellsConcat
<1>6. Continue(t, e) => Step(t, Cond(c, a))
  BY <1>1, ContinueReplaces DEF Step
<1>7. Continue(t, e \o f) => Step(t, Cond(c, a) \cup Cond(d, b))
  BY <1>4, ContinueReplaces DEF Step
<1>8. Continue(t, e \o g) => Step(t, Cond(c, a) \cup {b})
  BY <1>5, ContinueReplaces DEF Step
<1> QED
  BY <1>6, <1>7, <1>8 DEF e, f, g

\* The hand-over ends with the flags F: what waited for it follows.
Releases(t, F) ==
  /\ Step(t, Cond(Schedules, "scheduleLogical") \cup Cond(Claims, "attachFinalizer"))
  /\ flags' = F \cup Cond(Schedules, "logicalFailureSourceScheduled")
                \cup Cond(Claims, "finalizationScheduled")
  /\ Schedules <=> NeedsLogicalSource(F)
  /\ Claims <=> CanClaimFinalizer(F)

\* What follows when the hand-over has ended, in terms of the members it changes.
LEMMA ReleaseEffects ==
  ASSUME todo \in Stacks, NEW t \in Threads, NEW x, At(t, x), NEW F, ReleaseAfterHandoff(t, F),
         "finalizationScheduled" \in F <=> "finalizationScheduled" \in flags,
         "logicalFailureSourceScheduled" \in F <=> "logicalFailureSourceScheduled" \in flags
  PROVE  Releases(t, F)
<1> DEFINE G == ScheduleLogical(F)
           c == NeedsLogicalSource(F)
           d == CanClaimFinalizer(G)
           d2 == CanClaimFinalizer(F)
<1>1. /\ G = F \cup Cond(c, "logicalFailureSourceScheduled")
      /\ c \in BOOLEAN
  BY DEF ScheduleLogical, Cond, NeedsLogicalSource
<1>2. d <=> d2
  BY <1>1 DEF CanClaimFinalizer, FinalizerCanRun, ReceiptSettled, Cond
<1>3. /\ flags' = G \cup Cond(d, "finalizationScheduled")
      /\ d \in BOOLEAN
  BY DEF ReleaseAfterHandoff, ClaimReadyFinalizer, CanClaimFinalizer, Cond
<1>4. (c => "logicalFailureSourceScheduled" \notin F) /\ (d => "finalizationScheduled" \notin G)
  BY DEF NeedsLogicalSource, CanClaimFinalizer
<1>5. Continue(t, If(c, "scheduleLogical") \o If(d, "attachFinalizer"))
  BY DEF ReleaseAfterHandoff
<1> HIDE DEF G, c, d, d2
<1>6. (Schedules <=> c) /\ (Claims <=> d)
  BY <1>1, <1>3, <1>4 DEF Schedules, Claims, Cond
<1>7. Step(t, Cond(c, "scheduleLogical") \cup Cond(d, "attachFinalizer"))
  BY <1>1, <1>3, <1>5, ContinueIfs, Names
<1>8. /\ Cond(Schedules, "scheduleLogical") = Cond(c, "scheduleLogical")
      /\ Cond(Schedules, "logicalFailureSourceScheduled")
           = Cond(c, "logicalFailureSourceScheduled")
      /\ Cond(Claims, "attachFinalizer") = Cond(d, "attachFinalizer")
      /\ Cond(Claims, "finalizationScheduled") = Cond(d, "finalizationScheduled")
  BY <1>6 DEF Cond
<1>9. flags' = F \cup Cond(c, "logicalFailureSourceScheduled") \cup Cond(d, "finalizationScheduled")
  BY <1>1, <1>3
<1> QED
  BY <1>2, <1>6, <1>7, <1>8, <1>9 DEF c, d2, Releases

CompletedFlags(t) ==
  (flags \ ({"failureHandoffPending"} \cup
     IF At(t, "completeUnexpected") THEN {"unexpectedClosedAwaitingReport"} ELSE {}))
  \cup {"runtimeFailureReported"}

RefusedFlags ==
  (flags \ {"failureHandoffPending"}) \cup {"failureFallbackPending"} \cup
  IF "logicalResultReported" \in flags THEN {"logicalFailureDeliveryPending"} ELSE {}

LEMMA CompleteEffects ==
  ASSUME todo \in Stacks, NEW t \in Threads, CompleteDelivery(t)
  PROVE  IF "failureHandoffPending" \in flags
         THEN Releases(t, CompletedFlags(t))
         ELSE Step(t, {}) /\ flags' = flags
<1>1. CASE "failureHandoffPending" \in flags
  <2>1. ReleaseAfterHandoff(t, CompletedFlags(t))
    BY <1>1 DEF CompleteDelivery, CompletedFlags
  <2>2. /\ "finalizationScheduled" \in CompletedFlags(t) <=> "finalizationScheduled" \in flags
        /\ "logicalFailureSourceScheduled" \in CompletedFlags(t)
             <=> "logicalFailureSourceScheduled" \in flags
    BY DEF CompletedFlags
  <2>3. PICK x : At(t, x)
    BY DEF CompleteDelivery
  <2>4. Releases(t, CompletedFlags(t))
    BY <2>1, <2>2, <2>3, ReleaseEffects
  <2> QED
    BY <1>1, <2>4
<1>2. CASE "failureHandoffPending" \notin flags
  BY <1>2, ContinueShort DEF CompleteDelivery
<1> QED
  BY <1>1, <1>2

LEMMA RefusedEffects ==
  ASSUME todo \in Stacks, NEW t \in Threads, HandOffFails(t)
  PROVE  Releases(t, RefusedFlags)
<1>1. ReleaseAfterHandoff(t, RefusedFlags)
  BY DEF HandOffFails, RefusedFlags
<1>2. /\ "finalizationScheduled" \in RefusedFlags <=> "finalizationScheduled" \in flags
      /\ "logicalFailureSourceScheduled" \in RefusedFlags
           <=> "logicalFailureSourceScheduled" \in flags
  BY DEF RefusedFlags
<1>3. PICK x : At(t, x)
  BY DEF HandOffFails
<1> QED
  BY <1>1, <1>2, <1>3, ReleaseEffects

LEMMA FinishEffects ==
  ASSUME todo \in Stacks, failureCallback \in BOOLEAN, NEW t \in Threads, FinishHandoff(t)
  PROVE  \/ "failureHandoffPending" \notin flags /\ Step(t, {})
         \/ /\ "failureHandoffPending" \in flags /\ ~failureCallback
            /\ Step(t, {"complete"}) \/ Step(t, {"completeUnexpected"})
         \/ /\ "failureHandoffPending" \in flags /\ failureCallback
            /\ \/ Step(t, {"handOff"}) \/ Step(t, {"handOffUnexpected"})
               \/ /\ t = "owner" /\ At(t, "finishUnexpected")
                  /\ Step(t, {"failureCallback", "completeUnexpected"})
<1> DEFINE unexpected == At(t, "finishUnexpected")
           complete == IF unexpected THEN "completeUnexpected" ELSE "complete"
<1>0. PICK x : At(t, x)
  BY DEF FinishHandoff
<1>1. CASE "failureHandoffPending" \notin flags
  <2>1. Continue(t, <<>>)
    BY <1>1 DEF FinishHandoff
  <2> QED
    BY <1>0, <1>1, <2>1, ContinueShort
<1>2. CASE "failureHandoffPending" \in flags /\ unexpected /\ t = "owner"
  <2>1. Continue(t, If(failureCallback, "failureCallback") \o <<"completeUnexpected">>)
    BY <1>2 DEF FinishHandoff
  <2>2. Step(t, Cond(failureCallback, "failureCallback") \cup {"completeUnexpected"})
    BY <1>0, <2>1, ContinueIfs, Names
  <2>3. CASE failureCallback
    BY <1>2, <2>2, <2>3 DEF Cond
  <2>4. CASE ~failureCallback
    <3>1. Cond(failureCallback, "failureCallback") \cup {"completeUnexpected"} = {"completeUnexpected"}
      BY <2>4 DEF Cond
    <3> QED
      BY <1>2, <2>2, <2>4, <3>1
  <2> QED
    BY <2>3, <2>4
<1>3. CASE "failureHandoffPending" \in flags /\ ~(unexpected /\ t = "owner")
  <2>1. Continue(t, IF ~failureCallback THEN <<complete>>
                    ELSE IF unexpected THEN <<"handOffUnexpected">> ELSE <<"handOff">>)
    BY <1>3 DEF FinishHandoff
  <2>2. CASE ~failureCallback
    <3>1. Continue(t, <<complete>>) /\ complete \in Entries
      BY <2>1, <2>2, Names
    <3>2. Step(t, {complete})
      BY <1>0, <3>1, ContinueShort
    <3> QED
      BY <1>3, <2>2, <3>2
  <2>3. CASE failureCallback
    <3>1. Continue(t, <<"handOffUnexpected">>) \/ Continue(t, <<"handOff">>)
      BY <2>1, <2>3
    <3> QED
      BY <1>0, <1>3, <2>3, <3>1, ContinueShort, Names
  <2> QED
    BY <2>2, <2>3
<1> QED
  BY <1>1, <1>2, <1>3

LEMMA LogicalEffects ==
  ASSUME todo \in Stacks, NEW t \in Threads, ReportLogicalFailure(t)
  PROVE  /\ Step(t, Cond(Schedules, "scheduleLogical"))
         /\ Schedules => NeedsLogicalSource(flags \cup {"logicalFailureDeliveryPending"})
                         /\ "failureHandoffPending" \notin flags
         /\ \/ flags' = flags /\ "logicalResultReported" \in flags
            \/ flags' = (flags \cup {"logicalResultReported", "logicalFailureDeliveryPending"})
                          \cup Cond(Schedules, "logicalFailureSourceScheduled")
<1> DEFINE needed == \/ "logicalResultReported" \notin flags
                     \/ "logicalFailureDeliveryPending" \in flags
                     \/ "failureFallbackPending" \in flags
           F == flags \cup {"logicalResultReported", "logicalFailureDeliveryPending"}
           schedule == needed /\ "failureHandoffPending" \notin F /\ NeedsLogicalSource(F)
<1>1. /\ flags' = IF ~needed THEN flags ELSE IF schedule THEN ScheduleLogical(F) ELSE F
      /\ Continue(t, If(schedule, "scheduleLogical"))
      /\ At(t, "reportLogicalFailure")
  BY DEF ReportLogicalFailure
<1>2. schedule \in BOOLEAN
  BY DEF NeedsLogicalSource
<1>3. schedule => /\ needed /\ "logicalFailureSourceScheduled" \notin F
                  /\ "failureHandoffPending" \notin F
                  /\ ScheduleLogical(F) = F \cup {"logicalFailureSourceScheduled"}
  BY DEF NeedsLogicalSource, ScheduleLogical
<1>4. (Schedules <=> schedule)
  BY <1>1, <1>3 DEF Schedules
<1>5. Step(t, Cond(schedule, "scheduleLogical"))
  <2> HIDE DEF schedule
  <2>1. {"scheduleLogical", "leaveDelivery"} \subseteq Entries
    BY Names
  <2> QED
    BY <1>1, <1>2, <2>1, ContinueIfs, ZenonT(40)
<1>6. Cond(Schedules, "scheduleLogical") = Cond(schedule, "scheduleLogical")
  BY <1>4 DEF Cond
<1>7. \/ flags' = flags /\ "logicalResultReported" \in flags
      \/ flags' = F \cup Cond(Schedules, "logicalFailureSourceScheduled")
  BY <1>1, <1>3, <1>4 DEF Cond
<1>8. Schedules => NeedsLogicalSource(flags \cup {"logicalFailureDeliveryPending"})
                   /\ "failureHandoffPending" \notin flags
  BY <1>3, <1>4 DEF NeedsLogicalSource
<1> QED
  BY <1>5, <1>6, <1>7, <1>8

MarkedLate == flags \cap {"closedReceived", "physicalFinished"} # {}

LEMMA MarkEffects ==
  ASSUME todo \in Stacks, NEW t \in Threads, MarkSendFailure(t)
  PROVE  IF MarkedLate THEN Step(t, {}) /\ flags' = flags
         ELSE LET begins == CanBeginHandoff(flags)
              IN /\ Step(t, Cond(begins, "finishHandoff") \cup {"reportLogicalFailure"})
                 /\ flags' = flags \cup {"abortWorker"} \cup Cond(begins, "failureHandoffPending")
<1>1. At(t, "markSendFailure")
  BY DEF MarkSendFailure
<1>2. CASE MarkedLate
  <2>1. Continue(t, <<>>) /\ flags' = flags
    BY <1>2 DEF MarkSendFailure, MarkedLate
  <2> QED
    BY <1>1, <1>2, <2>1, ContinueShort
<1>3. CASE ~MarkedLate
  <2> DEFINE F == flags \cup {"abortWorker"}
             c == CanBeginHandoff(F)
  <2>1. Continue(t, If(c, "finishHandoff") \o <<"reportLogicalFailure">>)
    BY <1>3 DEF MarkSendFailure, MarkedLate
  <2>2. flags' = F \cup Cond(c, "failureHandoffPending")
    BY <1>3 DEF MarkSendFailure, MarkedLate, BeginHandoff, Cond
  <2>3. c \in BOOLEAN /\ c = CanBeginHandoff(flags)
    BY DEF CanBeginHandoff
  <2> HIDE DEF c
  <2>4. {"finishHandoff", "reportLogicalFailure"} \subseteq Entries
    BY DEF Entries
  <2>5. Step(t, Cond(c, "finishHandoff") \cup {"reportLogicalFailure"})
    BY <1>1, <2>1, <2>3, <2>4, ContinueIfs
  <2> QED
    BY <1>3, <2>2, <2>3, <2>5
<1> QED
  BY <1>2, <1>3

LEMMA ReceiveFailsEffects ==
  ASSUME todo \in Stacks, ReceiveFails
  PROVE  LET begins == CanBeginHandoff(flags)
         IN /\ Step("worker", Cond(begins, "finishHandoff")
                                \cup {"reportLogicalFailure", "destroyClient"})
            /\ flags' = flags \cup {"abortWorker"} \cup Cond(begins, "failureHandoffPending")
<1> DEFINE c == CanBeginHandoff(flags)
           e == If(c, "finishHandoff")
           d == <<"reportLogicalFailure", "destroyClient">>
<1>1. At("worker", "receive") /\ Continue("worker", e \o d)
  BY DEF ReceiveFails
<1>2. c \in BOOLEAN /\ c = CanBeginHandoff(flags \cup {"abortWorker"})
  BY DEF CanBeginHandoff
<1>3. flags' = flags \cup {"abortWorker"} \cup Cond(c, "failureHandoffPending")
  BY <1>2 DEF ReceiveFails, BeginHandoff, Cond
<1>4. {"finishHandoff", "reportLogicalFailure", "destroyClient"} \subseteq Entries
  BY DEF Entries
<1> HIDE DEF c
<1>5. Spells(e, Cond(c, "finishHandoff"))
  BY <1>2, <1>4, SpellsIf
<1>6. Spells(d, {"reportLogicalFailure", "destroyClient"})
  BY <1>4, SpellsShort
<1>7. Cond(c, "finishHandoff") \cap {"reportLogicalFailure", "destroyClient"} = {}
  BY DEF Cond
<1> HIDE DEF e, d
<1>8. Spells(e \o d, Cond(c, "finishHandoff") \cup {"reportLogicalFailure", "destroyClient"})
  BY <1>5, <1>6, <1>7, SpellsConcat
<1>9. Step("worker", Cond(c, "finishHandoff") \cup {"reportLogicalFailure", "destroyClient"})
  BY <1>1, <1>8, OwnerShort, ContinueReplaces DEF Step
<1> QED
  BY <1>3, <1>9 DEF c

LEMMA ClaimEffects ==
  ASSUME NEW F, "finalizationScheduled" \in F <=> "finalizationScheduled" \in flags,
         flags' = ClaimReadyFinalizer(F)
  PROVE  /\ flags' = F \cup Cond(Claims, "finalizationScheduled")
         /\ Claims <=> CanClaimFinalizer(F)
         /\ CanClaimFinalizer(F) \in BOOLEAN
         /\ Cond(CanClaimFinalizer(F), "attachFinalizer") = Cond(Claims, "attachFinalizer")
BY DEF ClaimReadyFinalizer, CanClaimFinalizer, Claims, Cond

SettledFlags == flags \cup {"closedDeliverySettled"}
ReportsUnexpected == "unexpectedClosedAwaitingReport" \in flags /\ CanBeginHandoff(flags)

LEMMA SettleEffects ==
  ASSUME todo \in Stacks, NEW t \in Threads, SettleClosedDelivery(t)
  PROVE  IF ReportsUnexpected
         THEN /\ Step(t, {"finishUnexpected", "leaveDelivery"})
              /\ flags' = SettledFlags \cup {"failureHandoffPending"}
         ELSE /\ Step(t, Cond(Claims, "attachFinalizer") \cup {"leaveDelivery"})
              /\ flags' = SettledFlags \cup Cond(Claims, "finalizationScheduled")
              /\ Claims <=> CanClaimFinalizer(SettledFlags)
<1> DEFINE F == SettledFlags
           report == "unexpectedClosedAwaitingReport" \in F /\ CanBeginHandoff(F)
           d == CanClaimFinalizer(F)
<1>1. /\ At(t, "settle")
      /\ flags' = IF report THEN BeginHandoff(F) ELSE ClaimReadyFinalizer(F)
      /\ Continue(t, If(report, "finishUnexpected")
                     \o If(~report /\ d, "attachFinalizer") \o <<"leaveDelivery">>)
  BY DEF SettleClosedDelivery, SettledFlags
<1>2. report = ReportsUnexpected /\ report \in BOOLEAN /\ (report => CanBeginHandoff(F))
  BY DEF SettledFlags, ReportsUnexpected, CanBeginHandoff
<1>3. {"finishUnexpected", "attachFinalizer", "leaveDelivery"} \subseteq Entries /\ <<>> \in Seq(Entries)
  BY ShortSeqs DEF Entries
<1>4. CASE report
  <2> DEFINE a == <<"finishUnexpected">>
             b == <<"leaveDelivery">>
  <2>1. Spells(a, {"finishUnexpected"}) /\ Spells(b, {"leaveDelivery"})
    BY <1>3, SpellsShort
  <2>2. Continue(t, (a \o <<>>) \o b)
    BY <1>1, <1>4 DEF If
  <2> HIDE DEF a, b
  <2>3. a \o <<>> = a
    BY <2>1, ConcatEmptySeq DEF Spells
  <2>4. Spells(a \o b, {"finishUnexpected"} \cup {"leaveDelivery"})
    BY <2>1, SpellsConcat
  <2>5. Step(t, {"finishUnexpected"} \cup {"leaveDelivery"})
    BY <1>1, <2>2, <2>3, <2>4, ContinueReplaces DEF Step
  <2>6. {"finishUnexpected"} \cup {"leaveDelivery"} = {"finishUnexpected", "leaveDelivery"}
    OBVIOUS
  <2>7. flags' = SettledFlags \cup {"failureHandoffPending"}
    BY <1>1, <1>2, <1>4 DEF BeginHandoff
  <2> QED
    BY <1>2, <1>4, <2>5, <2>6, <2>7
<1>5. CASE ~report
  <2> DEFINE a == If(d, "attachFinalizer")
             b == <<"leaveDelivery">>
  <2>1. /\ flags' = F \cup Cond(Claims, "finalizationScheduled")
        /\ Claims <=> d
        /\ d \in BOOLEAN
        /\ Cond(d, "attachFinalizer") = Cond(Claims, "attachFinalizer")
    BY <1>1, <1>5, ClaimEffects DEF SettledFlags
  <2>2. Continue(t, (<<>> \o a) \o b)
    BY <1>1, <1>5, <2>1 DEF If
  <2>3. Spells(a, Cond(d, "attachFinalizer"))
    BY <1>3, <2>1, SpellsIf
  <2> HIDE DEF a
  <2>4. <<>> \o a = a
    BY <2>3, ConcatEmptySeq DEF Spells
  <2>5. Spells(b, {"leaveDelivery"})
    BY <1>3, SpellsShort
  <2>6. Cond(d, "attachFinalizer") \cap {"leaveDelivery"} = {}
    BY DEF Cond
  <2> HIDE DEF b
  <2>7. Spells(a \o b, Cond(d, "attachFinalizer") \cup {"leaveDelivery"})
    BY <2>3, <2>5, <2>6, SpellsConcat
  <2>8. Step(t, Cond(d, "attachFinalizer") \cup {"leaveDelivery"})
    BY <1>1, <2>2, <2>4, <2>7, ContinueReplaces DEF Step
  <2> QED
    BY <1>2, <1>5, <2>1, <2>8
<1> QED
  BY <1>4, <1>5

LEMMA JoinEffects ==
  ASSUME todo \in Stacks, JoinWorker
  PROVE  /\ Step("reaper", Cond(Claims, "attachFinalizer"))
         /\ flags' = flags \cup {"reaperReady"} \cup Cond(Claims, "finalizationScheduled")
         /\ Claims <=> CanClaimFinalizer(flags \cup {"reaperReady"})
<1> DEFINE F == flags \cup {"reaperReady"}
           d == CanClaimFinalizer(F)
<1>1. /\ At("reaper", "joinWorker") /\ flags' = ClaimReadyFinalizer(F)
      /\ Continue("reaper", If(d, "attachFinalizer"))
  BY DEF JoinWorker
<1>2. /\ flags' = F \cup Cond(Claims, "finalizationScheduled")
      /\ Claims <=> d
      /\ d \in BOOLEAN
      /\ Cond(d, "attachFinalizer") = Cond(Claims, "attachFinalizer")
  BY <1>1, ClaimEffects
<1>3. {"attachFinalizer", "leaveDelivery"} \subseteq Entries
  BY DEF Entries
<1>4. Step("reaper", Cond(d, "attachFinalizer"))
  <2> HIDE DEF d
  <2> QED
    BY <1>1, <1>2, <1>3, OwnerShort, ContinueIfs, ZenonT(40)
<1> QED
  BY <1>2, <1>4

LEMMA OtherFailureEffects ==
  ASSUME todo \in Stacks, NEW t \in Threads
  PROVE  /\ HandOff(t) => Step(t, {})
         /\ ScheduleLogicalSource(t) => Step(t, {})
         /\ AttachFinalizer(t) =>
              \/ Step(t, {}) /\ flags' = flags /\ finalizer' = "attached"
              \/ /\ Step(t, {"reportLogicalFailure"}) /\ finalizer' = finalizer
                 /\ flags' = flags \cup {"finalizerUnavailable"}
         /\ UnlockSend(t) => Step(t, {})
         /\ LeaveDelivery(t) => Step(t, {})
<1>1. HandOff(t) => Step(t, {})
  BY ContinueShort DEF HandOff
<1>2. ScheduleLogicalSource(t) => Step(t, {})
  BY ContinueShort DEF ScheduleLogicalSource
<1>3. AttachFinalizer(t) =>
        \/ Step(t, {}) /\ flags' = flags /\ finalizer' = "attached"
        \/ /\ Step(t, {"reportLogicalFailure"}) /\ finalizer' = finalizer
           /\ flags' = flags \cup {"finalizerUnavailable"}
  BY ContinueShort, Names DEF AttachFinalizer
<1>4. UnlockSend(t) => Step(t, {})
  BY ContinueShort DEF UnlockSend
<1>5. LeaveDelivery(t) => Step(t, {})
  BY ContinueShort DEF LeaveDelivery
<1> QED
  BY <1>1, <1>2, <1>3, <1>4, <1>5

LEMMA WorkerSendsEffects ==
  ASSUME todo \in Stacks, WorkerSendsClose
  PROVE  \/ Step("worker", {"unlockSend", "receive"})
         \/ Step("worker", {"markSendFailure", "unlockSend", "destroyClient"})
<1>1. /\ At("worker", "sendClose")
      /\ \/ Continue("worker", <<"unlockSend", "receive">>)
         \/ Continue("worker", <<"markSendFailure", "unlockSend", "destroyClient">>)
  BY DEF WorkerSendsClose
<1>2. {"unlockSend", "receive", "markSendFailure", "destroyClient"} \subseteq Entries
  BY DEF Entries
<1>3. Spells(<<"markSendFailure", "unlockSend", "destroyClient">>,
             {"markSendFailure", "unlockSend", "destroyClient"})
  BY <1>2, SpellsThree
<1>4. CASE Continue("worker", <<"unlockSend", "receive">>)
  BY <1>1, <1>2, <1>4, OwnerShort, ContinueShort
<1>5. CASE Continue("worker", <<"markSendFailure", "unlockSend", "destroyClient">>)
  BY <1>1, <1>3, <1>5, OwnerShort, ContinueReplaces DEF Step
<1> QED
  BY <1>1, <1>4, <1>5

\* close() can send its request: it holds sendMutex, and there is a client to send it to.
SendsClose == MaySendClose /\ client

LEMMA StartAndCloseEffects ==
  ASSUME todo \in Stacks, client \in BOOLEAN
  PROVE  /\ Reserve => Step("owner", {"prepareFinalizer"}) \/ Step("owner", {})
         /\ StartFails => Step("owner", {"reportLogicalFailure"})
         /\ ThreadFails => Step("owner", {"reportLogicalFailure"})
         /\ Activate => Step("owner", Cond("closeRequestedDuringStart" \in flags, "close")
                                        \cup {"openGate"})
         /\ CloseLocks => Step("owner", Cond(SendsClose, "sendClose")
                                          \cup {"installDeadline"})
         /\ InstallDeadline =>
              Step("owner", {}) \/ Step("owner", {"reportLogicalFailure"})
<1>1. Reserve => Step("owner", {"prepareFinalizer"}) \/ Step("owner", {})
  BY OwnerShort, ContinueShort, Names DEF Reserve
<1>2. StartFails => Step("owner", {"reportLogicalFailure"})
  BY OwnerShort, ContinueShort, Names DEF StartFails
<1>3. ThreadFails => Step("owner", {"reportLogicalFailure"})
  BY OwnerShort, ContinueShort, Names DEF ThreadFails
<1>4. ASSUME Activate
      PROVE  Step("owner", Cond("closeRequestedDuringStart" \in flags, "close") \cup {"openGate"})
  <2>1. /\ At("owner", "activate")
        /\ Continue("owner", If("closeRequestedDuringStart" \in flags, "close") \o <<"openGate">>)
        /\ ("closeRequestedDuringStart" \in flags) \in BOOLEAN
    BY <1>4 DEF Activate
  <2>2. {"close", "openGate"} \subseteq Entries
    BY DEF Entries
  <2> QED
    BY <2>1, <2>2, OwnerShort, ContinueIfs
<1>5. ASSUME CloseLocks
      PROVE  Step("owner", Cond(SendsClose, "sendClose") \cup {"installDeadline"})
  <2>1. /\ At("owner", "closeSend")
        /\ Continue("owner", If(SendsClose, "sendClose") \o <<"installDeadline">>)
        /\ SendsClose \in BOOLEAN
    BY <1>5 DEF CloseLocks, SendsClose, MaySendClose, InProgress
  <2>2. {"sendClose", "installDeadline"} \subseteq Entries
    BY DEF Entries
  <2> QED
    BY <2>1, <2>2, OwnerShort, ContinueIfs
<1>6. ASSUME InstallDeadline
      PROVE  Step("owner", {}) \/ Step("owner", {"reportLogicalFailure"})
  <2>1. /\ At("owner", "installDeadline")
        /\ Continue("owner", <<>>) \/ Continue("owner", <<"reportLogicalFailure">>)
    BY <1>6 DEF InstallDeadline, If
  <2> QED
    BY <2>1, OwnerShort, ContinueShort, Names
<1> QED
  BY <1>1, <1>2, <1>3, <1>4, <1>5, <1>6

\* What close() finds on entry (the decisions of CloseEnters).
CloseReady ==
  phase # "New" /\ "physicalFinished" \in flags /\ TerminalDeliveryReady(flags)
CloseWaits == "logicalResultReported" \notin flags /\ phase # "New" /\ ~CloseReady
CloseBegins ==
  CloseWaits /\ IF "physicalFinished" \in flags THEN ~deadline ELSE phase = "Running"
CloseFailed ==
  /\ CloseWaits /\ "physicalFinished" \notin flags /\ phase \notin {"Running", "Starting"}
  /\ phase = "Failed" \/ "abortWorker" \in flags

CloseEntries == Cond(CloseBegins, "closeSend") \cup Cond(CloseFailed, "reportLogicalFailure")

LEMMA CloseEntersEffects ==
  ASSUME todo \in Stacks, deadline \in BOOLEAN, NEW own, NEW rest, CloseEnters(own, rest)
  PROVE  \E e \in Seq(Entries) :
           Spells(e, CloseEntries) /\ todo' = [todo EXCEPT !["owner"] = e \o rest]
<1> DEFINE a == If(CloseBegins, "closeSend")
           b == If(CloseFailed, "reportLogicalFailure")
<1>1. todo' = [todo EXCEPT !["owner"] = a \o b \o rest]
  BY DEF CloseEnters, CloseReady, CloseWaits, CloseBegins, CloseFailed
<1>2. CloseBegins \in BOOLEAN /\ CloseFailed \in BOOLEAN
  BY DEF CloseBegins, CloseFailed, CloseWaits, CloseReady
<1>3. {"closeSend", "reportLogicalFailure"} \subseteq Entries
  BY DEF Entries
<1>4. Spells(a, Cond(CloseBegins, "closeSend"))
  BY <1>2, <1>3, SpellsIf
<1>5. Spells(b, Cond(CloseFailed, "reportLogicalFailure"))
  BY <1>2, <1>3, SpellsIf
<1>6. /\ Cond(CloseBegins, "closeSend") \cap Cond(CloseFailed, "reportLogicalFailure") = {}
      /\ "scheduleLogical" \notin Cond(CloseFailed, "reportLogicalFailure")
  BY DEF Cond
<1> HIDE DEF a, b
<1>7. Spells(a \o b, CloseEntries)
  BY <1>4, <1>5, <1>6, SpellsConcat DEF CloseEntries
<1>8. a \o b \in Seq(Entries)
  BY <1>7 DEF Spells
<1> QED
  BY <1>1, <1>7, <1>8

LEMMA CloseAfterStartEffects ==
  ASSUME todo \in Stacks, deadline \in BOOLEAN, CloseAfterStart
  PROVE  Step("owner", CloseEntries)
<1>1. At("owner", "close") /\ CloseEnters({}, Tail(todo["owner"]))
  BY DEF CloseAfterStart
<1>2. PICK e \in Seq(Entries) :
        Spells(e, CloseEntries) /\ todo' = [todo EXCEPT !["owner"] = e \o Tail(todo["owner"])]
  BY <1>1, CloseEntersEffects
<1>3. todo["owner"] # <<>> /\ Rest(Tail(todo["owner"]), todo["owner"])
  BY <1>1 DEF At, Rest
<1>4. Puts("owner", e, Tail(todo["owner"]), todo, todo')
  BY <1>2, <1>3 DEF Puts
<1> QED
  BY <1>2, <1>3, <1>4 DEF Step, Replaces

\* The thread keeps what it has to do, and first does the entries E.
Adds(t, E) == \E e \in Seq(Entries) : Spells(e, E) /\ Puts(t, e, todo[t], todo, todo')

LEMMA CloseEffects ==
  ASSUME todo \in Stacks, deadline \in BOOLEAN, NEW own, Close(own)
  PROVE  /\ Adds("owner", CloseEntries)
         /\ \/ Given("owner", CloseEntries)
            \/ \E x \in {"inCallback", "createClient"} :
                 At("owner", x) /\ Step("owner", CloseEntries \cup {x})
<1> DEFINE s == todo["owner"]
<1>0. s \in Seq(Entries)
  BY DEF Stacks, Threads
<1>1. CloseEnters(own, s)
  BY DEF Close
<1>2. PICK e \in Seq(Entries) : Spells(e, CloseEntries) /\ todo' = [todo EXCEPT !["owner"] = e \o s]
  BY <1>1, CloseEntersEffects
<1>3. Adds("owner", CloseEntries)
  BY <1>2 DEF Adds, Puts, Rest
<1>4. CASE Idle("owner")
  <2>1. e \o <<>> = e /\ s = <<>>
    BY <1>2, <1>4, ConcatEmptySeq DEF Idle
  <2>2. Given("owner", CloseEntries)
    BY <1>2, <2>1 DEF Given, Loads
  <2> QED
    BY <1>3, <2>2
<1>5. CASE ~Idle("owner")
  <2>1. PICK x \in {"inCallback", "createClient"} : At("owner", x)
    BY <1>5 DEF Close, ApplicationRuns
  <2>2. x \in Entries /\ x \notin CloseEntries /\ x # "scheduleLogical"
    BY DEF Entries, CloseEntries, Cond
  <2>3. Spells(<<x>>, {x}) /\ <<x>> \in Seq(Entries)
    BY <2>2, SpellsShort DEF Spells
  <2>4. Spells(e \o <<x>>, CloseEntries \cup {x})
    BY <1>2, <2>2, <2>3, SpellsConcat
  <2>5. s # <<>> /\ Head(s) = x /\ Tail(s) \in Seq(Entries)
    BY <1>0, <2>1, HeadTailProperties DEF At
  <2>6. s = <<x>> \o Tail(s)
    BY <1>0, <2>5
  <2>7. e \o s = (e \o <<x>>) \o Tail(s)
    <3> DEFINE y == <<x>>
               r == Tail(s)
    <3>1. y \in Seq(Entries) /\ r \in Seq(Entries) /\ s = y \o r
      BY <2>3, <2>5, <2>6
    <3>0. e \in Seq(Entries)
      BY <1>2
    <3> HIDE DEF y, r
    <3>2. e \o (y \o r) = (e \o y) \o r
      BY <3>0, <3>1, ConcatAssociative, SMTT(30)
    <3> QED
      BY <3>1, <3>2 DEF y, r
  <2>8. e \o <<x>> \in Seq(Entries)
    BY <2>4 DEF Spells
  <2>9. Rest(Tail(s), s)
    BY <2>5 DEF Rest
  <2>10. Puts("owner", e \o <<x>>, Tail(s), todo, todo')
    BY <1>2, <2>7, <2>8, <2>9 DEF Puts
  <2>11. Step("owner", CloseEntries \cup {x})
    BY <2>4, <2>5, <2>8, <2>10 DEF Step, Replaces
  <2> QED
    BY <1>3, <2>1, <2>11
<1> QED
  BY <1>4, <1>5

\* A step that touches only the entries in T leaves the others where they are, and one that
\* flips only the members in F leaves the others as they are.
Keeps(W) ==
  /\ \A t \in Threads : Range(todo'[t]) \cap W = Range(todo[t]) \cap W
  /\ Alone(W, todo) => Alone(W, todo')

Touches(T) == todo' \in Stacks /\ \A W : W \cap T = {} => Keeps(W)
Flips(F) == \A x : x \notin F => (x \in flags' <=> x \in flags)

LEMMA StepTouches ==
  ASSUME todo \in Stacks, NEW t \in Threads, NEW E, Step(t, E),
         NEW T, E \subseteq T, Head(todo[t]) \in T
  PROVE  Touches(T)
<1>1. /\ todo' \in Stacks
      /\ \A u \in Threads : u # t => todo'[u] = todo[u]
      /\ Range(todo[t]) = {Head(todo[t])} \cup Range(Tail(todo[t]))
      /\ Range(todo'[t]) = E \cup Range(Tail(todo[t]))
  BY StepFacts
<1>2. Pushes(t, E, todo, todo')
  BY ReplacesPushes DEF Step
<1>3. ASSUME NEW W, W \cap T = {} PROVE Keeps(W)
  <2>1. \A u \in Threads : Range(todo'[u]) \cap W = Range(todo[u]) \cap W
    BY <1>1, <1>3
  <2>2. ASSUME Alone(W, todo) PROVE Alone(W, todo')
    <3>1. E \cap W = {} /\ E \cap W \subseteq {t}
      BY <1>3
    <3> QED
      BY <1>2, <2>2, <3>1, PushesAlone
  <2> QED
    BY <2>1, <2>2 DEF Keeps
<1> QED
  BY <1>1, <1>3 DEF Touches

LEMMA GivenTouches ==
  ASSUME todo \in Stacks, NEW t \in Threads, NEW E, Given(t, E), NEW T, E \subseteq T
  PROVE  Touches(T)
<1>1. /\ todo' \in Stacks
      /\ \A u \in Threads : u # t => todo'[u] = todo[u]
      /\ Range(todo[t]) = {} /\ Range(todo'[t]) = E
  <2>1. Loads(t, E, todo, todo')
    BY DEF Given
  <2> QED
    BY <2>1, LoadsFacts
<1>2. ASSUME NEW W, W \cap T = {} PROVE Keeps(W)
  <2>1. \A u \in Threads : Range(todo'[u]) \cap W = Range(todo[u]) \cap W
    BY <1>1, <1>2
  <2>2. ASSUME Alone(W, todo) PROVE Alone(W, todo')
    <3>1. E \cap W = {} /\ E \cap W \subseteq {t}
      BY <1>2
    <3> QED
      BY <2>2, <3>1, LoadsAlone DEF Given
  <2> QED
    BY <2>1, <2>2 DEF Keeps
<1> QED
  BY <1>1, <1>2 DEF Touches

LEMMA StillTouches ==
  ASSUME todo \in Stacks, todo' = todo
  PROVE  \A T : Touches(T)
BY DEF Touches, Keeps

LEMMA TakeTouches ==
  ASSUME todo \in Stacks, failureCallback \in BOOLEAN, Idle("owner"), NEW F, NEW result,
         TakeCallbacks(F, result)
  PROVE  Touches({"failureCallback", "invokeCallbacks"})
<1> DEFINE c == "failureFallbackPending" \in F /\ failureCallback
           E == Cond(c, "failureCallback") \cup {"invokeCallbacks"}
<1>1. Given("owner", E)
  BY TakeEffects
<1>2. E \subseteq {"failureCallback", "invokeCallbacks"}
  BY DEF Cond
<1> HIDE DEF c, E
<1> QED
  BY <1>1, <1>2, OwnerShort, GivenTouches

\* What the steps of failure delivery change.
LEMMA FailureFootprints ==
  ASSUME TypeOK, NEW t \in Threads
  PROVE  /\ CompleteDelivery(t) =>
              /\ Touches({"complete", "completeUnexpected", "scheduleLogical",
                          "attachFinalizer"})
              /\ Flips({"failureHandoffPending", "unexpectedClosedAwaitingReport",
                        "runtimeFailureReported", "logicalFailureSourceScheduled",
                        "finalizationScheduled"})
         /\ FinishHandoff(t) =>
              /\ Touches({"finishHandoff", "finishUnexpected", "failureCallback",
                          "complete", "completeUnexpected", "handOff", "handOffUnexpected"})
              /\ Flips({})
         /\ HandOff(t) => Touches({"handOff", "handOffUnexpected"}) /\ Flips({})
         /\ HandOffFails(t) =>
              /\ Touches({"handOff", "handOffUnexpected", "scheduleLogical",
                          "attachFinalizer"})
              /\ Flips({"failureHandoffPending", "failureFallbackPending",
                        "logicalFailureDeliveryPending", "logicalFailureSourceScheduled",
                        "finalizationScheduled"})
         /\ ReportLogicalFailure(t) =>
              /\ Touches({"reportLogicalFailure", "scheduleLogical"})
              /\ Flips({"logicalResultReported", "logicalFailureDeliveryPending",
                        "logicalFailureSourceScheduled"})
         /\ ScheduleLogicalSource(t) => Touches({"scheduleLogical"}) /\ Flips({})
         /\ AttachFinalizer(t) =>
              /\ Touches({"attachFinalizer", "reportLogicalFailure"})
              /\ Flips({"finalizerUnavailable"})
         /\ MarkSendFailure(t) =>
              /\ Touches({"markSendFailure", "finishHandoff", "reportLogicalFailure"})
              /\ Flips({"abortWorker", "failureHandoffPending"})
         /\ UnlockSend(t) => Touches({"unlockSend"}) /\ Flips({})
         /\ SettleClosedDelivery(t) =>
              /\ Touches({"settle", "finishUnexpected", "attachFinalizer", "leaveDelivery"})
              /\ Flips({"closedDeliverySettled", "failureHandoffPending",
                        "finalizationScheduled"})
         /\ LeaveDelivery(t) => Touches({"leaveDelivery"}) /\ Flips({})
<1>0. /\ todo \in Stacks /\ failureCallback \in BOOLEAN /\ client \in BOOLEAN
      /\ deadline \in BOOLEAN
  BY DEF TypeOK, Stacks
<1>1. ASSUME CompleteDelivery(t)
      PROVE  /\ Touches({"complete", "completeUnexpected", "scheduleLogical",
                         "attachFinalizer"})
             /\ Flips({"failureHandoffPending", "unexpectedClosedAwaitingReport",
                       "runtimeFailureReported", "logicalFailureSourceScheduled",
                       "finalizationScheduled"})
  <2>1. Touches({"complete", "completeUnexpected", "scheduleLogical", "attachFinalizer"})
    <3>1. \/ Step(t, {})
          \/ Step(t, Cond(Schedules, "scheduleLogical") \cup Cond(Claims, "attachFinalizer"))
      BY <1>0, <1>1, CompleteEffects DEF Releases
    <3>2. Head(todo[t]) \in {"complete", "completeUnexpected"}
      BY <1>1 DEF CompleteDelivery, At
    <3> QED
      BY <1>0, <3>1, <3>2, StepTouches DEF Cond
  <2> QED
    BY <1>0, <1>1, <2>1, CompleteEffects DEF Flips, CompletedFlags, Releases, Cond
<1>2. ASSUME FinishHandoff(t)
      PROVE  /\ Touches({"finishHandoff", "finishUnexpected", "failureCallback",
                         "complete", "completeUnexpected", "handOff", "handOffUnexpected"})
             /\ Flips({})
  <2>1. Touches({"finishHandoff", "finishUnexpected", "failureCallback", "complete", "completeUnexpected", "handOff", "handOffUnexpected"})
    BY <1>0, <1>2, OwnerShort, FinishEffects, StepTouches, SMTT(30) DEF FinishHandoff, At
  <2> QED
    BY <1>0, <1>2, <2>1 DEF Flips, FinishHandoff
<1>3. ASSUME HandOff(t)
      PROVE  Touches({"handOff", "handOffUnexpected"}) /\ Flips({})
  <2>1. Touches({"handOff", "handOffUnexpected"})
    BY <1>0, <1>3, OwnerShort, OtherFailureEffects, StepTouches DEF HandOff, At
  <2> QED
    BY <1>0, <1>3, <2>1 DEF Flips, HandOff
<1>4. ASSUME HandOffFails(t)
      PROVE  /\ Touches({"handOff", "handOffUnexpected", "scheduleLogical",
                         "attachFinalizer"})
             /\ Flips({"failureHandoffPending", "failureFallbackPending",
                       "logicalFailureDeliveryPending", "logicalFailureSourceScheduled",
                       "finalizationScheduled"})
  <2>1. Touches({"handOff", "handOffUnexpected", "scheduleLogical", "attachFinalizer"})
    BY <1>0, <1>4, OwnerShort, RefusedEffects, StepTouches, ZenonT(40) DEF HandOffFails, At, Releases, Cond
  <2> QED
    BY <1>0, <1>4, <2>1, RefusedEffects DEF Flips, RefusedFlags, Releases, Cond
<1>5. ASSUME ReportLogicalFailure(t)
      PROVE  /\ Touches({"reportLogicalFailure", "scheduleLogical"})
             /\ Flips({"logicalResultReported", "logicalFailureDeliveryPending",
                       "logicalFailureSourceScheduled"})
  <2>1. Touches({"reportLogicalFailure", "scheduleLogical"})
    BY <1>0, <1>5, OwnerShort, LogicalEffects, StepTouches DEF ReportLogicalFailure, At, Cond
  <2> QED
    BY <1>0, <1>5, <2>1, LogicalEffects DEF Flips, ReportLogicalFailure, Cond
<1>6. ASSUME ScheduleLogicalSource(t)
      PROVE  Touches({"scheduleLogical"}) /\ Flips({})
  <2>1. Touches({"scheduleLogical"})
    BY <1>0, <1>6, OwnerShort, OtherFailureEffects, StepTouches DEF ScheduleLogicalSource, At
  <2> QED
    BY <1>0, <1>6, <2>1 DEF Flips, ScheduleLogicalSource
<1>7. ASSUME AttachFinalizer(t)
      PROVE  /\ Touches({"attachFinalizer", "reportLogicalFailure"})
             /\ Flips({"finalizerUnavailable"})
  <2>1. Touches({"attachFinalizer", "reportLogicalFailure"})
    BY <1>0, <1>7, OwnerShort, OtherFailureEffects, StepTouches DEF AttachFinalizer, At
  <2> QED
    BY <1>0, <1>7, <2>1 DEF Flips, AttachFinalizer
<1>8. ASSUME MarkSendFailure(t)
      PROVE  /\ Touches({"markSendFailure", "finishHandoff", "reportLogicalFailure"})
             /\ Flips({"abortWorker", "failureHandoffPending"})
  <2>1. Touches({"markSendFailure", "finishHandoff", "reportLogicalFailure"})
    <3>1. \/ Step(t, {})
          \/ Step(t, Cond(CanBeginHandoff(flags), "finishHandoff") \cup {"reportLogicalFailure"})
      BY <1>0, <1>8, MarkEffects
    <3>2. Head(todo[t]) = "markSendFailure"
      BY <1>8 DEF MarkSendFailure, At
    <3> QED
      BY <1>0, <3>1, <3>2, StepTouches DEF Cond
  <2> QED
    BY <1>0, <1>8, <2>1, MarkEffects DEF Flips, MarkSendFailure, Cond
<1>9. ASSUME UnlockSend(t)
      PROVE  Touches({"unlockSend"}) /\ Flips({})
  <2>1. Touches({"unlockSend"})
    BY <1>0, <1>9, OwnerShort, OtherFailureEffects, StepTouches DEF UnlockSend, At
  <2> QED
    BY <1>0, <1>9, <2>1 DEF Flips, UnlockSend
<1>10. ASSUME SettleClosedDelivery(t)
      PROVE  /\ Touches({"settle", "finishUnexpected", "attachFinalizer", "leaveDelivery"})
             /\ Flips({"closedDeliverySettled", "failureHandoffPending",
                       "finalizationScheduled"})
  <2>1. Touches({"settle", "finishUnexpected", "attachFinalizer", "leaveDelivery"})
    BY <1>0, <1>10, OwnerShort, SettleEffects, StepTouches, ZenonT(40) DEF SettleClosedDelivery, At, Cond
  <2> QED
    BY <1>0, <1>10, <2>1, SettleEffects DEF Flips, SettleClosedDelivery, SettledFlags, Cond
<1>11. ASSUME LeaveDelivery(t)
      PROVE  Touches({"leaveDelivery"}) /\ Flips({})
  <2>1. Touches({"leaveDelivery"})
    BY <1>0, <1>11, OwnerShort, OtherFailureEffects, StepTouches DEF LeaveDelivery, At
  <2> QED
    BY <1>0, <1>11, <2>1 DEF Flips, LeaveDelivery
<1> QED
  BY <1>1, <1>2, <1>3, <1>4, <1>5, <1>6, <1>7, <1>8, <1>9, <1>10, <1>11

\* What the other steps of the owner change.
LEMMA OwnerFootprints ==
  ASSUME TypeOK
  PROVE  /\ InvokeFailure => Touches({"failureCallback", "inCallback"}) /\ Flips({})
         /\ InvokeCallbacks => Touches({"invokeCallbacks", "inCallback"}) /\ Flips({})
         /\ CallbackReturns => Touches({"inCallback"}) /\ Flips({})
         /\ StartFails =>
              /\ Touches({"prepareFinalizer", "createClient", "reportLogicalFailure"})
              /\ Flips({"closeRequestedDuringStart"})
         /\ ThreadFails =>
              /\ Touches({"createWorker", "createReaper", "reportLogicalFailure"})
              /\ Flips({"abortWorker", "closeRequestedDuringStart"})
         /\ Activate =>
              /\ Touches({"activate", "close", "openGate"})
              /\ Flips({"closeRequestedDuringStart"})
         /\ ActivationFails =>
              /\ Touches({"activate", "openGate", "reportLogicalFailure"})
              /\ Flips({"abortWorker", "closeRequestedDuringStart"})
         /\ OpenGate => Touches({"openGate"}) /\ Flips({})
         /\ CloseAfterStart =>
              /\ Touches({"close", "closeSend", "reportLogicalFailure"})
              /\ Flips({"logicalFailureDeliveryPending", "logicalResultReported",
                        "closeRequestedDuringStart"})
         /\ CloseLocks =>
              Touches({"closeSend", "sendClose", "installDeadline"}) /\ Flips({"closeSent"})
         /\ CloseQueues =>
              Touches({"closeSend", "installDeadline"}) /\ Flips({"closeQueued"})
         /\ OwnerSendsClose =>
              Touches({"sendClose", "unlockSend", "markSendFailure"}) /\ Flips({})
         /\ InstallDeadline =>
              Touches({"installDeadline", "reportLogicalFailure"}) /\ Flips({})
<1>0. /\ todo \in Stacks /\ failureCallback \in BOOLEAN /\ client \in BOOLEAN
      /\ deadline \in BOOLEAN
  BY DEF TypeOK, Stacks
<1>1. ASSUME InvokeFailure
      PROVE  Touches({"failureCallback", "inCallback"}) /\ Flips({})
  <2>1. Touches({"failureCallback", "inCallback"})
    BY <1>0, <1>1, OwnerShort, SimpleEffects, StepTouches DEF InvokeFailure, At
  <2> QED
    BY <1>0, <1>1, <2>1 DEF Flips, InvokeFailure
<1>2. ASSUME InvokeCallbacks
      PROVE  Touches({"invokeCallbacks", "inCallback"}) /\ Flips({})
  <2>1. Touches({"invokeCallbacks", "inCallback"})
    BY <1>0, <1>2, OwnerShort, SimpleEffects, StepTouches DEF InvokeCallbacks, At
  <2> QED
    BY <1>0, <1>2, <2>1 DEF Flips, InvokeCallbacks
<1>3. ASSUME CallbackReturns
      PROVE  Touches({"inCallback"}) /\ Flips({})
  <2>1. Touches({"inCallback"})
    BY <1>0, <1>3, OwnerShort, SimpleEffects, StepTouches DEF CallbackReturns, At
  <2> QED
    BY <1>0, <1>3, <2>1 DEF Flips, CallbackReturns
<1>4. ASSUME StartFails
      PROVE  /\ Touches({"prepareFinalizer", "createClient", "reportLogicalFailure"})
             /\ Flips({"closeRequestedDuringStart"})
  <2>1. Touches({"prepareFinalizer", "createClient", "reportLogicalFailure"})
    BY <1>0, <1>4, OwnerShort, StartAndCloseEffects, StepTouches DEF StartFails, At
  <2> QED
    BY <1>0, <1>4, <2>1 DEF Flips, StartFails
<1>5. ASSUME ThreadFails
      PROVE  /\ Touches({"createWorker", "createReaper", "reportLogicalFailure"})
             /\ Flips({"abortWorker", "closeRequestedDuringStart"})
  <2>1. Touches({"createWorker", "createReaper", "reportLogicalFailure"})
    BY <1>0, <1>5, OwnerShort, StartAndCloseEffects, StepTouches DEF ThreadFails, At
  <2> QED
    BY <1>0, <1>5, <2>1 DEF Flips, ThreadFails
<1>6. ASSUME Activate
      PROVE  /\ Touches({"activate", "close", "openGate"})
             /\ Flips({"closeRequestedDuringStart"})
  <2>1. Touches({"activate", "close", "openGate"})
    BY <1>0, <1>6, OwnerShort, StartAndCloseEffects, StepTouches DEF Activate, At, Cond
  <2> QED
    BY <1>0, <1>6, <2>1 DEF Flips, Activate, Cond
<1>7. ASSUME ActivationFails
      PROVE  /\ Touches({"activate", "openGate", "reportLogicalFailure"})
             /\ Flips({"abortWorker", "closeRequestedDuringStart"})
  <2>1. Touches({"activate", "openGate", "reportLogicalFailure"})
    BY <1>0, <1>7, OwnerShort, SimpleEffects, StepTouches DEF ActivationFails, At
  <2> QED
    BY <1>0, <1>7, <2>1 DEF Flips, ActivationFails
<1>8. ASSUME OpenGate
      PROVE  Touches({"openGate"}) /\ Flips({})
  <2>1. Touches({"openGate"})
    BY <1>0, <1>8, OwnerShort, SimpleEffects, StepTouches DEF OpenGate, At
  <2> QED
    BY <1>0, <1>8, <2>1 DEF Flips, OpenGate
<1>9. ASSUME CloseAfterStart
      PROVE  /\ Touches({"close", "closeSend", "reportLogicalFailure"})
             /\ Flips({"logicalFailureDeliveryPending", "logicalResultReported",
                       "closeRequestedDuringStart"})
  <2>1. Touches({"close", "closeSend", "reportLogicalFailure"})
    BY <1>0, <1>9, OwnerShort, CloseAfterStartEffects, StepTouches DEF CloseAfterStart, At, CloseEntries, Cond
  <2> QED
    BY <1>0, <1>9, <2>1 DEF Flips, CloseAfterStart, CloseEnters, Cond
<1>10. ASSUME CloseLocks
      PROVE  Touches({"closeSend", "sendClose", "installDeadline"}) /\ Flips({"closeSent"})
  <2>1. Touches({"closeSend", "sendClose", "installDeadline"})
    BY <1>0, <1>10, OwnerShort, StartAndCloseEffects, StepTouches DEF CloseLocks, At, Cond
  <2> QED
    BY <1>0, <1>10, <2>1 DEF Flips, CloseLocks, Cond
<1>11. ASSUME CloseQueues
      PROVE  Touches({"closeSend", "installDeadline"}) /\ Flips({"closeQueued"})
  <2>1. Touches({"closeSend", "installDeadline"})
    BY <1>0, <1>11, OwnerShort, SimpleEffects, StepTouches DEF CloseQueues, At
  <2> QED
    BY <1>0, <1>11, <2>1 DEF Flips, CloseQueues
<1>12. ASSUME OwnerSendsClose
      PROVE  Touches({"sendClose", "unlockSend", "markSendFailure"}) /\ Flips({})
  <2>1. Touches({"sendClose", "unlockSend", "markSendFailure"})
    BY <1>0, <1>12, OwnerShort, SimpleEffects, StepTouches DEF OwnerSendsClose, At
  <2> QED
    BY <1>0, <1>12, <2>1 DEF Flips, OwnerSendsClose
<1>13. ASSUME InstallDeadline
      PROVE  Touches({"installDeadline", "reportLogicalFailure"}) /\ Flips({})
  <2>1. Touches({"installDeadline", "reportLogicalFailure"})
    BY <1>0, <1>13, OwnerShort, StartAndCloseEffects, StepTouches DEF InstallDeadline, At
  <2> QED
    BY <1>0, <1>13, <2>1 DEF Flips, InstallDeadline
<1> QED
  BY <1>1, <1>2, <1>3, <1>4, <1>5, <1>6, <1>7, <1>8, <1>9, <1>10, <1>11, <1>12, <1>13

\* What the steps of the sender, the worker and the reaper change.
LEMMA WorkerFootprints ==
  ASSUME TypeOK
  PROVE  /\ SenderLocks => Touches({"lockSend", "send"}) /\ Flips({})
         /\ SenderSends => Touches({"send", "markSendFailure", "unlockSend"}) /\ Flips({})
         /\ WaitGate => Touches({"waitGate", "destroyClient", "poll"}) /\ Flips({})
         /\ Poll => Touches({"poll", "lockClose", "destroyClient", "receive"}) /\ Flips({})
         /\ LockClose =>
              /\ Touches({"lockClose", "sendClose", "destroyClient", "receive"})
              /\ Flips({"closeQueued", "closeSent"})
         /\ WorkerSendsClose =>
              /\ Touches({"sendClose", "unlockSend", "receive", "markSendFailure",
                          "destroyClient"})
              /\ Flips({})
         /\ Receive => Touches({"receive", "destroyClient", "poll"}) /\ Flips({})
         /\ ReceiveFails =>
              /\ Touches({"receive", "finishHandoff", "reportLogicalFailure",
                          "destroyClient"})
              /\ Flips({"abortWorker", "failureHandoffPending"})
         /\ ReceiveClosed =>
              Touches({"receive", "destroyClient", "noteClosed"}) /\ Flips({})
         /\ NoteClosed =>
              /\ Touches({"noteClosed", "deliverClosed"})
              /\ Flips({"unexpectedClosedAwaitingReport", "closedReceived",
                        "closedDeliveryExpected"})
         /\ DeliverClosed =>
              Touches({"deliverClosed", "destroyClient", "settle"}) /\ Flips({})
         /\ DestroyClient => Touches({"destroyClient", "finish"}) /\ Flips({})
         /\ FinishWorker => Touches({"finish"}) /\ Flips({"physicalFinished"})
         /\ JoinWorker =>
              /\ Touches({"joinWorker", "attachFinalizer"})
              /\ Flips({"reaperReady", "finalizationScheduled"})
<1>0. /\ todo \in Stacks /\ failureCallback \in BOOLEAN /\ client \in BOOLEAN
      /\ deadline \in BOOLEAN
  BY DEF TypeOK, Stacks
<1>1. ASSUME SenderLocks
      PROVE  Touches({"lockSend", "send"}) /\ Flips({})
  <2>1. Touches({"lockSend", "send"})
    BY <1>0, <1>1, OwnerShort, SimpleEffects, StepTouches DEF SenderLocks, At
  <2> QED
    BY <1>0, <1>1, <2>1 DEF Flips, SenderLocks
<1>2. ASSUME SenderSends
      PROVE  Touches({"send", "markSendFailure", "unlockSend"}) /\ Flips({})
  <2>1. Touches({"send", "markSendFailure", "unlockSend"})
    BY <1>0, <1>2, OwnerShort, SimpleEffects, StepTouches DEF SenderSends, At
  <2> QED
    BY <1>0, <1>2, <2>1 DEF Flips, SenderSends
<1>3. ASSUME WaitGate
      PROVE  Touches({"waitGate", "destroyClient", "poll"}) /\ Flips({})
  <2>1. Touches({"waitGate", "destroyClient", "poll"})
    BY <1>0, <1>3, OwnerShort, SimpleEffects, StepTouches DEF WaitGate, At
  <2> QED
    BY <1>0, <1>3, <2>1 DEF Flips, WaitGate
<1>4. ASSUME Poll
      PROVE  Touches({"poll", "lockClose", "destroyClient", "receive"}) /\ Flips({})
  <2>1. Touches({"poll", "lockClose", "destroyClient", "receive"})
    BY <1>0, <1>4, OwnerShort, SimpleEffects, StepTouches DEF Poll, At
  <2> QED
    BY <1>0, <1>4, <2>1 DEF Flips, Poll
<1>5. ASSUME LockClose
      PROVE  /\ Touches({"lockClose", "sendClose", "destroyClient", "receive"})
             /\ Flips({"closeQueued", "closeSent"})
  <2>1. Touches({"lockClose", "sendClose", "destroyClient", "receive"})
    BY <1>0, <1>5, OwnerShort, SimpleEffects, StepTouches DEF LockClose, At
  <2> QED
    BY <1>0, <1>5, <2>1 DEF Flips, LockClose
<1>6. ASSUME WorkerSendsClose
      PROVE  /\ Touches({"sendClose", "unlockSend", "receive", "markSendFailure",
                         "destroyClient"})
             /\ Flips({})
  <2>1. Touches({"sendClose", "unlockSend", "receive", "markSendFailure", "destroyClient"})
    BY <1>0, <1>6, OwnerShort, WorkerSendsEffects, StepTouches DEF WorkerSendsClose, At
  <2> QED
    BY <1>0, <1>6, <2>1 DEF Flips, WorkerSendsClose
<1>7. ASSUME Receive
      PROVE  Touches({"receive", "destroyClient", "poll"}) /\ Flips({})
  <2>1. Touches({"receive", "destroyClient", "poll"})
    BY <1>0, <1>7, OwnerShort, SimpleEffects, StepTouches DEF Receive, At
  <2> QED
    BY <1>0, <1>7, <2>1 DEF Flips, Receive
<1>8. ASSUME ReceiveFails
      PROVE  /\ Touches({"receive", "finishHandoff", "reportLogicalFailure", "destroyClient"})
             /\ Flips({"abortWorker", "failureHandoffPending"})
  <2>1. Touches({"receive", "finishHandoff", "reportLogicalFailure", "destroyClient"})
    BY <1>0, <1>8, OwnerShort, ReceiveFailsEffects, StepTouches DEF ReceiveFails, At, Cond
  <2> QED
    BY <1>0, <1>8, <2>1, ReceiveFailsEffects DEF Flips, ReceiveFails, Cond
<1>9. ASSUME ReceiveClosed
      PROVE  Touches({"receive", "destroyClient", "noteClosed"}) /\ Flips({})
  <2>1. Touches({"receive", "destroyClient", "noteClosed"})
    BY <1>0, <1>9, OwnerShort, SimpleEffects, StepTouches DEF ReceiveClosed, At
  <2> QED
    BY <1>0, <1>9, <2>1 DEF Flips, ReceiveClosed
<1>10. ASSUME NoteClosed
      PROVE  /\ Touches({"noteClosed", "deliverClosed"})
             /\ Flips({"unexpectedClosedAwaitingReport", "closedReceived",
                       "closedDeliveryExpected"})
  <2>1. Touches({"noteClosed", "deliverClosed"})
    BY <1>0, <1>10, OwnerShort, SimpleEffects, StepTouches DEF NoteClosed, At
  <2> QED
    BY <1>0, <1>10, <2>1 DEF Flips, NoteClosed
<1>11. ASSUME DeliverClosed
      PROVE  Touches({"deliverClosed", "destroyClient", "settle"}) /\ Flips({})
  <2>1. Touches({"deliverClosed", "destroyClient", "settle"})
    BY <1>0, <1>11, OwnerShort, SimpleEffects, StepTouches DEF DeliverClosed, At
  <2> QED
    BY <1>0, <1>11, <2>1 DEF Flips, DeliverClosed
<1>12. ASSUME DestroyClient
      PROVE  Touches({"destroyClient", "finish"}) /\ Flips({})
  <2>1. Touches({"destroyClient", "finish"})
    BY <1>0, <1>12, OwnerShort, SimpleEffects, StepTouches, ZenonT(40) DEF DestroyClient, At
  <2> QED
    BY <1>0, <1>12, <2>1 DEF Flips, DestroyClient
<1>13. ASSUME FinishWorker
      PROVE  Touches({"finish"}) /\ Flips({"physicalFinished"})
  <2>1. Touches({"finish"})
    BY <1>0, <1>13, OwnerShort, SimpleEffects, StepTouches DEF FinishWorker, At
  <2> QED
    BY <1>0, <1>13, <2>1 DEF Flips, FinishWorker
<1>14. ASSUME JoinWorker
      PROVE  /\ Touches({"joinWorker", "attachFinalizer"})
             /\ Flips({"reaperReady", "finalizationScheduled"})
  <2>1. Touches({"joinWorker", "attachFinalizer"})
    BY <1>0, <1>14, OwnerShort, JoinEffects, StepTouches DEF JoinWorker, At, Cond
  <2> QED
    BY <1>0, <1>14, <2>1, JoinEffects DEF Flips, JoinWorker, Cond
<1> QED
  BY <1>1, <1>2, <1>3, <1>4, <1>5, <1>6, <1>7, <1>8, <1>9, <1>10, <1>11, <1>12, <1>13, <1>14

\* What the sources of the owner's context, and the calls from outside, change.
LEMMA LoadFootprints ==
  ASSUME TypeOK, NEW t \in Threads
  PROVE  /\ SenderCalled => Touches({"lockSend"}) /\ Flips({})
         /\ ReceiptReleased(t) => Touches({"settle"}) /\ Flips({})
         /\ KnownResultRuns => Touches({"inCallback"}) /\ Flips({})
         /\ FailureSourceRuns =>
              Touches({"failureCallback", "complete", "completeUnexpected"}) /\ Flips({})
         /\ DeadlineExpires =>
              /\ Touches({"failureCallback", "invokeCallbacks"})
              /\ Flips({"logicalFailureDeliveryPending", "logicalFailureSourceScheduled",
                        "failureFallbackPending", "failureHandoffPending",
                        "unexpectedClosedAwaitingReport", "runtimeFailureReported",
                        "logicalResultReported"})
         /\ LogicalSourceRuns =>
              /\ Touches({"failureCallback", "invokeCallbacks"})
              /\ Flips({"logicalFailureDeliveryPending", "logicalFailureSourceScheduled",
                        "failureFallbackPending", "failureHandoffPending",
                        "unexpectedClosedAwaitingReport", "runtimeFailureReported"})
         /\ FinalizeWorker =>
              /\ Touches({"failureCallback", "invokeCallbacks"})
              /\ Flips({"logicalFailureDeliveryPending", "logicalFailureSourceScheduled",
                        "failureFallbackPending", "failureHandoffPending",
                        "unexpectedClosedAwaitingReport", "runtimeFailureReported",
                        "logicalResultReported"})
<1>0. /\ todo \in Stacks /\ failureCallback \in BOOLEAN /\ client \in BOOLEAN
      /\ deadline \in BOOLEAN
  BY DEF TypeOK, Stacks
<1>1. ASSUME SenderCalled
      PROVE  Touches({"lockSend"}) /\ Flips({})
  <2>1. Touches({"lockSend"})
    BY <1>0, <1>1, OwnerShort, LoadEffects, GivenTouches DEF SenderCalled
  <2> QED
    BY <1>0, <1>1, <2>1 DEF Flips, SenderCalled
<1>2. ASSUME ReceiptReleased(t)
      PROVE  Touches({"settle"}) /\ Flips({})
  <2>1. Touches({"settle"})
    BY <1>0, <1>2, OwnerShort, LoadEffects, GivenTouches DEF ReceiptReleased
  <2> QED
    BY <1>0, <1>2, <2>1 DEF Flips, ReceiptReleased
<1>3. ASSUME KnownResultRuns
      PROVE  Touches({"inCallback"}) /\ Flips({})
  <2>1. Touches({"inCallback"})
    BY <1>0, <1>3, OwnerShort, LoadEffects, GivenTouches DEF KnownResultRuns
  <2> QED
    BY <1>0, <1>3, <2>1 DEF Flips, KnownResultRuns
<1>4. ASSUME FailureSourceRuns
      PROVE  Touches({"failureCallback", "complete", "completeUnexpected"}) /\ Flips({})
  <2>1. Touches({"failureCallback", "complete", "completeUnexpected"})
    BY <1>0, <1>4, OwnerShort, LoadEffects, GivenTouches DEF FailureSourceRuns
  <2> QED
    BY <1>0, <1>4, <2>1 DEF Flips, FailureSourceRuns
<1>5. ASSUME DeadlineExpires
      PROVE  /\ Touches({"failureCallback", "invokeCallbacks"})
             /\ Flips({"logicalFailureDeliveryPending", "logicalFailureSourceScheduled",
                       "failureFallbackPending", "failureHandoffPending",
                       "unexpectedClosedAwaitingReport", "runtimeFailureReported",
                       "logicalResultReported"})
  <2>1. Touches({"failureCallback", "invokeCallbacks"})
    <3>1. /\ Idle("owner")
          /\ (\E F, result : TakeCallbacks(F, result)) \/ todo' = todo
      BY <1>5 DEF DeadlineExpires
    <3> QED
      BY <1>0, <3>1, TakeTouches, StillTouches
  <2> QED
    BY <1>0, <1>5, <2>1 DEF Flips, DeadlineExpires, TakeFallback, LogicalDelivery, TakeCallbacks, Cond
<1>6. ASSUME LogicalSourceRuns
      PROVE  /\ Touches({"failureCallback", "invokeCallbacks"})
             /\ Flips({"logicalFailureDeliveryPending", "logicalFailureSourceScheduled",
                       "failureFallbackPending", "failureHandoffPending",
                       "unexpectedClosedAwaitingReport", "runtimeFailureReported"})
  <2>1. Touches({"failureCallback", "invokeCallbacks"})
    <3>1. /\ Idle("owner")
          /\ (\E F, result : TakeCallbacks(F, result)) \/ todo' = todo
      BY <1>6 DEF LogicalSourceRuns
    <3> QED
      BY <1>0, <3>1, TakeTouches, StillTouches
  <2> QED
    BY <1>0, <1>6, <2>1 DEF Flips, LogicalSourceRuns, TakeFallback, LogicalDelivery, TakeCallbacks, Cond
<1>7. ASSUME FinalizeWorker
      PROVE  /\ Touches({"failureCallback", "invokeCallbacks"})
             /\ Flips({"logicalFailureDeliveryPending", "logicalFailureSourceScheduled",
                       "failureFallbackPending", "failureHandoffPending",
                       "unexpectedClosedAwaitingReport", "runtimeFailureReported",
                       "logicalResultReported"})
  <2>1. Touches({"failureCallback", "invokeCallbacks"})
    BY <1>0, <1>7, OwnerShort, LoadEffects, GivenTouches DEF FinalizeWorker, Cond
  <2> QED
    BY <1>0, <1>7, <2>1 DEF Flips, FinalizeWorker, TakeFallback, LogicalDelivery, Cond
<1> QED
  BY <1>1, <1>2, <1>3, <1>4, <1>5, <1>6, <1>7

LEMMA CloseFootprint ==
  ASSUME TypeOK, NEW own, Close(own)
  PROVE  /\ Touches({"closeSend", "reportLogicalFailure"})
         /\ Flips({"logicalFailureDeliveryPending", "logicalResultReported",
                   "closeRequestedDuringStart"})
<1>1. todo \in Stacks /\ deadline \in BOOLEAN
  BY DEF TypeOK, Stacks
<1>2. Adds("owner", CloseEntries)
  BY <1>1, CloseEffects
<1>3. PICK e \in Seq(Entries) :
        Spells(e, CloseEntries) /\ Puts("owner", e, todo["owner"], todo, todo')
  BY <1>2 DEF Adds
<1>4. Range(e) = CloseEntries /\ todo["owner"] \in Seq(Entries)
  BY <1>1, <1>3, OwnerShort DEF Spells, Stacks
<1>5. Pushes("owner", CloseEntries, todo, todo')
  BY <1>3, <1>4 DEF Pushes
<1>6. /\ todo' \in Stacks /\ Range(todo'["owner"]) = CloseEntries \cup Range(todo["owner"])
      /\ \A u \in Threads : u # "owner" => todo'[u] = todo[u]
  BY <1>1, <1>3, <1>4, OwnerShort, PutsFacts
<1>7. CloseEntries \subseteq {"closeSend", "reportLogicalFailure"}
  BY DEF CloseEntries, Cond
<1>8. ASSUME NEW W, W \cap {"closeSend", "reportLogicalFailure"} = {} PROVE Keeps(W)
  <2>1. \A u \in Threads : Range(todo'[u]) \cap W = Range(todo[u]) \cap W
    BY <1>6, <1>7, <1>8
  <2>2. ASSUME Alone(W, todo) PROVE Alone(W, todo')
    <3>1. CloseEntries \cap W = {} /\ CloseEntries \cap W \subseteq {own}
      BY <1>7, <1>8
    <3> QED
      BY <1>1, <1>5, <2>2, <3>1, OwnerShort, PushesAlone
  <2> QED
    BY <2>1, <2>2 DEF Keeps
<1>9. Flips({"logicalFailureDeliveryPending", "logicalResultReported", "closeRequestedDuringStart"})
  BY DEF Close, CloseEnters, Flips
<1> QED
  BY <1>6, <1>8, <1>9 DEF Touches

LEMMA StillFootprint ==
  ASSUME TypeOK, OtherSessionEnds \/ UNCHANGED vars
  PROVE  todo' = todo /\ Touches({}) /\ Flips({})
<1>1. todo' = todo /\ flags' = flags
  BY DEF OtherSessionEnds, vars
<1>2. todo \in Stacks
  BY DEF TypeOK, Stacks
<1> QED
  BY <1>1, <1>2, StillTouches DEF Flips

LEMMA StartStacks ==
  ASSUME todo \in Stacks, client \in BOOLEAN, failureCallback \in BOOLEAN,
         Start \/ Reserve \/ PrepareFinalizer \/ CreateClient \/ CreateWorker \/ CreateReaper
  PROVE  todo' \in Stacks
<1>1. CASE Start
  BY <1>1, LoadEffects, LoadsFacts, OwnerShort DEF Given
<1>2. CASE Reserve
  BY <1>2, StartAndCloseEffects, StepFacts, OwnerShort
<1>3. CASE PrepareFinalizer \/ CreateClient
  BY <1>3, SimpleEffects, StepFacts, OwnerShort
<1>4. CASE CreateWorker \/ CreateReaper
  <2> DEFINE s == Tail(todo["owner"])
  <2>1. s \in Seq(Entries)
    BY <1>4, OwnerShort, HeadTailProperties DEF Stacks, CreateWorker, CreateReaper, At
  <2>2. \A a \in Entries : <<a>> \o s \in Seq(Entries) /\ <<a>> \in Seq(Entries)
    BY <2>1, ShortSeqs, ConcatProperties
  <2>3. {"createReaper", "activate", "waitGate", "joinWorker"} \subseteq Entries
    BY DEF Entries
  <2>4. CASE CreateWorker
    <3>1. todo' = [todo EXCEPT !["owner"] = <<"createReaper">> \o s, !["worker"] = <<"waitGate">>]
      BY <2>4 DEF CreateWorker
    <3> HIDE DEF s
    <3> QED
      BY <2>2, <2>3, <3>1 DEF Stacks
  <2>5. CASE CreateReaper
    <3>1. todo' = [todo EXCEPT !["owner"] = <<"activate">> \o s, !["reaper"] = <<"joinWorker">>]
      BY <2>5 DEF CreateReaper
    <3> HIDE DEF s
    <3> QED
      BY <2>2, <2>3, <3>1 DEF Stacks
  <2> QED
    BY <1>4, <2>4, <2>5
<1> QED
  BY <1>1, <1>2, <1>3, <1>4

\* The steps in groups. Those of StartMoves lead from Early to Early.
OwnerMoves ==
  \/ InvokeFailure \/ InvokeCallbacks \/ CallbackReturns \/ StartFails \/ ThreadFails
  \/ Activate \/ ActivationFails \/ OpenGate \/ CloseAfterStart \/ CloseLocks \/ CloseQueues
  \/ OwnerSendsClose \/ InstallDeadline

WorkerMoves ==
  \/ SenderLocks \/ SenderSends \/ WaitGate \/ Poll \/ LockClose \/ WorkerSendsClose \/ Receive
  \/ ReceiveFails \/ ReceiveClosed \/ NoteClosed \/ DeliverClosed \/ DestroyClient
  \/ FinishWorker \/ JoinWorker

Loaded ==
  \/ SenderCalled \/ (\E t \in Threads : ReceiptReleased(t)) \/ KnownResultRuns
  \/ FailureSourceRuns \/ DeadlineExpires \/ LogicalSourceRuns \/ FinalizeWorker

StartMoves ==
  Start \/ Reserve \/ PrepareFinalizer \/ CreateClient \/ CreateWorker \/ CreateReaper

LEMMA NextCases ==
  ASSUME [Next]_vars
  PROVE  \/ \E t \in Threads : FailureStep(t)
         \/ OwnerMoves \/ WorkerMoves \/ Loaded \/ StartMoves
         \/ \E own \in SUBSET (Callbacks \ passed) : Close(own)
         \/ OtherSessionEnds \/ UNCHANGED vars
<1>1. OwnerStep => FailureStep("owner") \/ OwnerMoves \/ StartMoves
  BY DEF OwnerStep, StartStep, CloseStep, OwnerMoves, StartMoves
<1>2. SourceRuns \/ SenderCalled \/ (\E t \in Threads : ReceiptReleased(t)) => Loaded
  BY DEF SourceRuns, Loaded
<1>3. SenderStep \/ WorkerStep \/ FinishWorker \/ ReaperStep =>
        WorkerMoves \/ FailureStep("sender") \/ FailureStep("worker") \/ FailureStep("reaper")
  BY DEF SenderStep, WorkerStep, ReaperStep, WorkerMoves
<1> QED
  BY <1>1, <1>2, <1>3, OwnerShort DEF Next, StartMoves

LEMMA TakeTypes ==
  ASSUME closeCallbacks \subseteq Callbacks, failureCallback \in BOOLEAN,
         NEW F, NEW result \in Results, TakeCallbacks(F, result)
  PROVE  /\ invoking' \in [callbacks : SUBSET Callbacks, result : Results]
         /\ closeCallbacks' \subseteq Callbacks /\ failureCallback' \in BOOLEAN
BY DEF TakeCallbacks

\* The parts of TypeOK that are not about the stacks and the Boolean members.
ScalarTypes ==
  /\ phase \in Phases
  /\ logicalResult \in Results /\ physicalResult \in Results
  /\ failureCallback \in BOOLEAN
  /\ registry \in {"none", "own", "other"}
  /\ client \in BOOLEAN /\ gateOpen \in BOOLEAN /\ deadline \in BOOLEAN
  /\ sendMutex \in Threads \cup {"none"}
  /\ receipt \in {"none", "held", "settled"}
  /\ deliveryExit \in Threads \cup {"none"}
  /\ started \subseteq {"worker", "reaper"}
  /\ failureSource \in {"none", "runtime", "unexpected"}
  /\ logicalSources \in Nat
  /\ finalizer \in {"none", "prepared", "attached"}
  /\ failureCalls \in Nat
  /\ closeRequests \in Nat

RecordTypes ==
  /\ closeCallbacks \subseteq Callbacks
  /\ knownResults \subseteq [callback : Callbacks, result : Results]
  /\ closing \in [prepared : BOOLEAN, established : BOOLEAN]
  /\ invoking \in [callbacks : SUBSET Callbacks, result : Results]
  /\ passed \subseteq Callbacks
  /\ reports \in [Callbacks -> Seq(Results)]

LEMMA CloseEntersTypes ==
  ASSUME ScalarTypes, RecordTypes, NEW own, own \subseteq Callbacks, passed' \subseteq Callbacks,
         NEW rest, CloseEnters(own, rest)
  PROVE  RecordTypes'
<1>1. ASSUME NEW callbacks, callbacks \subseteq Callbacks, NEW result \in Results,
             ReportKnown(callbacks, result)
      PROVE  knownResults' \subseteq [callback : Callbacks, result : Results]
  BY <1>1 DEF ReportKnown, RecordTypes
<1>2. knownResults' \subseteq [callback : Callbacks, result : Results]
  <2>1. \/ UNCHANGED knownResults
        \/ \E result \in Results : \E callbacks \in SUBSET Callbacks : ReportKnown(callbacks, result)
    BY DEF CloseEnters, ScalarTypes, RecordTypes, Results
  <2> QED
    BY <1>1, <2>1 DEF RecordTypes
<1>3. closeCallbacks' \subseteq Callbacks
  BY DEF CloseEnters, RecordTypes
<1>4. closing' \in [prepared : BOOLEAN, established : BOOLEAN]
  <2>1. closing' \in [prepared : DeadlineOutcomes, established : {FALSE}] \/ closing' = closing
    BY DEF CloseEnters
  <2> QED
    BY <2>1, DeadlineAssumption DEF RecordTypes
<1>5. UNCHANGED <<invoking, reports>>
  BY DEF CloseEnters
<1> QED
  BY <1>2, <1>3, <1>4, <1>5 DEF RecordTypes

LEMMA TypeParts == TypeOK <=> todo \in Stacks /\ flags \subseteq Flags /\ ScalarTypes /\ RecordTypes
BY DEF TypeOK, ScalarTypes, RecordTypes, Stacks

LEMMA TypePartsNext ==
  TypeOK' <=> todo' \in Stacks /\ flags' \subseteq Flags /\ ScalarTypes' /\ RecordTypes'
BY DEF TypeOK, ScalarTypes, RecordTypes, Stacks

\* The stacks hold entries, and every other variable keeps its type.
LEMMA TypeStep ==
  ASSUME TypeOK, [Next]_vars
  PROVE  TypeOK'
<1>0. todo \in Stacks /\ flags \subseteq Flags /\ ScalarTypes /\ RecordTypes
  BY TypeParts
<1>1. ASSUME NEW t \in Threads, CompleteDelivery(t) PROVE TypeOK'
  <2>1. todo' \in Stacks /\ flags' \subseteq Flags
    BY <1>1, FailureFootprints DEF Touches, Flips, TypeOK, Flags
  <2>2. ScalarTypes'
    BY <1>0, <1>1 DEF ScalarTypes, Phases, Results, CompleteDelivery, resultVars, threadVars,
       receiptVars, sourceVars, callbackVars, historyVars
  <2>3. RecordTypes'
    BY <1>0, <1>1 DEF RecordTypes, Results, CompleteDelivery, resultVars, threadVars,
       receiptVars, sourceVars, callbackVars, historyVars
  <2> QED
    BY <2>1, <2>2, <2>3, TypePartsNext
<1>2. ASSUME NEW t \in Threads, FinishHandoff(t) PROVE TypeOK'
  <2>1. todo' \in Stacks /\ flags' \subseteq Flags
    BY <1>2, FailureFootprints DEF Touches, Flips, TypeOK, Flags
  <2>2. ScalarTypes'
    BY <1>0, <1>2 DEF ScalarTypes, Phases, Results, FinishHandoff, resultVars, threadVars,
       receiptVars, sourceVars, callbackVars, historyVars
  <2>3. RecordTypes'
    BY <1>0, <1>2 DEF RecordTypes, Results, FinishHandoff, resultVars, threadVars,
       receiptVars, sourceVars, callbackVars, historyVars
  <2> QED
    BY <2>1, <2>2, <2>3, TypePartsNext
<1>3. ASSUME NEW t \in Threads, HandOff(t) PROVE TypeOK'
  <2>1. todo' \in Stacks /\ flags' \subseteq Flags
    BY <1>3, FailureFootprints DEF Touches, Flips, TypeOK, Flags
  <2>2. ScalarTypes'
    BY <1>0, <1>3 DEF ScalarTypes, Phases, Results, HandOff, resultVars, threadVars,
       receiptVars, sourceVars, callbackVars, historyVars
  <2>3. RecordTypes'
    BY <1>0, <1>3 DEF RecordTypes, Results, HandOff, resultVars, threadVars,
       receiptVars, sourceVars, callbackVars, historyVars
  <2> QED
    BY <2>1, <2>2, <2>3, TypePartsNext
<1>4. ASSUME NEW t \in Threads, HandOffFails(t) PROVE TypeOK'
  <2>1. todo' \in Stacks /\ flags' \subseteq Flags
    BY <1>4, FailureFootprints DEF Touches, Flips, TypeOK, Flags
  <2>2. ScalarTypes'
    BY <1>0, <1>4 DEF ScalarTypes, Phases, Results, HandOffFails, resultVars, threadVars,
       receiptVars, sourceVars, callbackVars, historyVars
  <2>3. RecordTypes'
    BY <1>0, <1>4 DEF RecordTypes, Results, HandOffFails, resultVars, threadVars,
       receiptVars, sourceVars, callbackVars, historyVars
  <2> QED
    BY <2>1, <2>2, <2>3, TypePartsNext
<1>5. ASSUME NEW t \in Threads, ReportLogicalFailure(t) PROVE TypeOK'
  <2>1. todo' \in Stacks /\ flags' \subseteq Flags
    BY <1>5, FailureFootprints DEF Touches, Flips, TypeOK, Flags
  <2>2. ScalarTypes'
    BY <1>0, <1>5 DEF ScalarTypes, Phases, Results, ReportLogicalFailure, resultVars, threadVars,
       receiptVars, sourceVars, callbackVars, historyVars
  <2>3. RecordTypes'
    BY <1>0, <1>5 DEF RecordTypes, Results, ReportLogicalFailure, resultVars, threadVars,
       receiptVars, sourceVars, callbackVars, historyVars
  <2> QED
    BY <2>1, <2>2, <2>3, TypePartsNext
<1>6. ASSUME NEW t \in Threads, ScheduleLogicalSource(t) PROVE TypeOK'
  <2>1. todo' \in Stacks /\ flags' \subseteq Flags
    BY <1>6, FailureFootprints DEF Touches, Flips, TypeOK, Flags
  <2>2. ScalarTypes'
    BY <1>0, <1>6 DEF ScalarTypes, Phases, Results, ScheduleLogicalSource, resultVars, threadVars,
       receiptVars, sourceVars, callbackVars, historyVars
  <2>3. RecordTypes'
    BY <1>0, <1>6 DEF RecordTypes, Results, ScheduleLogicalSource, resultVars, threadVars,
       receiptVars, sourceVars, callbackVars, historyVars
  <2> QED
    BY <2>1, <2>2, <2>3, TypePartsNext
<1>7. ASSUME NEW t \in Threads, AttachFinalizer(t) PROVE TypeOK'
  <2>1. todo' \in Stacks /\ flags' \subseteq Flags
    BY <1>7, FailureFootprints DEF Touches, Flips, TypeOK, Flags
  <2>2. ScalarTypes'
    BY <1>0, <1>7 DEF ScalarTypes, Phases, Results, AttachFinalizer, resultVars, threadVars,
       receiptVars, sourceVars, callbackVars, historyVars
  <2>3. RecordTypes'
    BY <1>0, <1>7 DEF RecordTypes, Results, AttachFinalizer, resultVars, threadVars,
       receiptVars, sourceVars, callbackVars, historyVars
  <2> QED
    BY <2>1, <2>2, <2>3, TypePartsNext
<1>8. ASSUME NEW t \in Threads, MarkSendFailure(t) PROVE TypeOK'
  <2>1. todo' \in Stacks /\ flags' \subseteq Flags
    BY <1>8, FailureFootprints DEF Touches, Flips, TypeOK, Flags
  <2>2. ScalarTypes'
    BY <1>0, <1>8 DEF ScalarTypes, Phases, Results, MarkSendFailure, resultVars, threadVars,
       receiptVars, sourceVars, callbackVars, historyVars
  <2>3. RecordTypes'
    BY <1>0, <1>8 DEF RecordTypes, Results, MarkSendFailure, resultVars, threadVars,
       receiptVars, sourceVars, callbackVars, historyVars
  <2> QED
    BY <2>1, <2>2, <2>3, TypePartsNext
<1>9. ASSUME NEW t \in Threads, UnlockSend(t) PROVE TypeOK'
  <2>1. todo' \in Stacks /\ flags' \subseteq Flags
    BY <1>9, FailureFootprints DEF Touches, Flips, TypeOK, Flags
  <2>2. ScalarTypes'
    BY <1>0, <1>9 DEF ScalarTypes, Phases, Results, UnlockSend, resultVars, threadVars,
       receiptVars, sourceVars, callbackVars, historyVars
  <2>3. RecordTypes'
    BY <1>0, <1>9 DEF RecordTypes, Results, UnlockSend, resultVars, threadVars,
       receiptVars, sourceVars, callbackVars, historyVars
  <2> QED
    BY <2>1, <2>2, <2>3, TypePartsNext
<1>10. ASSUME NEW t \in Threads, SettleClosedDelivery(t) PROVE TypeOK'
  <2>1. todo' \in Stacks /\ flags' \subseteq Flags
    BY <1>10, FailureFootprints DEF Touches, Flips, TypeOK, Flags
  <2>2. ScalarTypes'
    BY <1>0, <1>10 DEF ScalarTypes, Phases, Results, SettleClosedDelivery, resultVars, threadVars,
       receiptVars, sourceVars, callbackVars, historyVars
  <2>3. RecordTypes'
    BY <1>0, <1>10 DEF RecordTypes, Results, SettleClosedDelivery, resultVars, threadVars,
       receiptVars, sourceVars, callbackVars, historyVars
  <2> QED
    BY <2>1, <2>2, <2>3, TypePartsNext
<1>11. ASSUME NEW t \in Threads, LeaveDelivery(t) PROVE TypeOK'
  <2>1. todo' \in Stacks /\ flags' \subseteq Flags
    BY <1>11, FailureFootprints DEF Touches, Flips, TypeOK, Flags
  <2>2. ScalarTypes'
    BY <1>0, <1>11 DEF ScalarTypes, Phases, Results, LeaveDelivery, resultVars, threadVars,
       receiptVars, sourceVars, callbackVars, historyVars
  <2>3. RecordTypes'
    BY <1>0, <1>11 DEF RecordTypes, Results, LeaveDelivery, resultVars, threadVars,
       receiptVars, sourceVars, callbackVars, historyVars
  <2> QED
    BY <2>1, <2>2, <2>3, TypePartsNext
<1>12. ASSUME InvokeFailure PROVE TypeOK'
  <2>1. todo' \in Stacks /\ flags' \subseteq Flags
    BY <1>12, OwnerFootprints DEF Touches, Flips, TypeOK, Flags
  <2>2. ScalarTypes'
    BY <1>0, <1>12 DEF ScalarTypes, Phases, Results, InvokeFailure, resultVars, threadVars,
       receiptVars, sourceVars, callbackVars, historyVars
  <2>3. RecordTypes'
    BY <1>0, <1>12 DEF RecordTypes, Results, InvokeFailure, resultVars, threadVars,
       receiptVars, sourceVars, callbackVars, historyVars
  <2> QED
    BY <2>1, <2>2, <2>3, TypePartsNext
<1>13. ASSUME InvokeCallbacks PROVE TypeOK'
  <2>1. todo' \in Stacks /\ flags' \subseteq Flags
    BY <1>13, OwnerFootprints DEF Touches, Flips, TypeOK, Flags
  <2>2. ScalarTypes'
    BY <1>0, <1>13 DEF ScalarTypes, Phases, Results, InvokeCallbacks, resultVars, threadVars,
       receiptVars, sourceVars, callbackVars, historyVars
  <2>3. RecordTypes'
    <3>1. ASSUME NEW c \in Callbacks PROVE Append(reports[c], invoking.result) \in Seq(Results)
      <4>1. reports[c] \in Seq(Results) /\ invoking.result \in Results
        BY <1>0 DEF RecordTypes
      <4> QED
        BY <4>1, AppendProperties
    <3>2. reports' \in [Callbacks -> Seq(Results)]
      BY <1>0, <1>13, <3>1 DEF RecordTypes, InvokeCallbacks
    <3>3. invoking' \in [callbacks : SUBSET Callbacks, result : Results]
      BY <1>0, <1>13 DEF RecordTypes, InvokeCallbacks
    <3>4. UNCHANGED <<closeCallbacks, knownResults, closing, passed>>
      BY <1>13 DEF InvokeCallbacks, sourceVars
    <3> QED
      BY <1>0, <3>2, <3>3, <3>4 DEF RecordTypes
  <2> QED
    BY <2>1, <2>2, <2>3, TypePartsNext
<1>14. ASSUME CallbackReturns PROVE TypeOK'
  <2>1. todo' \in Stacks /\ flags' \subseteq Flags
    BY <1>14, OwnerFootprints DEF Touches, Flips, TypeOK, Flags
  <2>2. ScalarTypes'
    BY <1>0, <1>14 DEF ScalarTypes, Phases, Results, CallbackReturns, resultVars, threadVars,
       receiptVars, sourceVars, callbackVars, historyVars
  <2>3. RecordTypes'
    BY <1>0, <1>14 DEF RecordTypes, Results, CallbackReturns, resultVars, threadVars,
       receiptVars, sourceVars, callbackVars, historyVars
  <2> QED
    BY <2>1, <2>2, <2>3, TypePartsNext
<1>15. ASSUME StartFails PROVE TypeOK'
  <2>1. todo' \in Stacks /\ flags' \subseteq Flags
    BY <1>15, OwnerFootprints DEF Touches, Flips, TypeOK, Flags
  <2>2. ScalarTypes'
    BY <1>0, <1>15 DEF ScalarTypes, Phases, Results, StartFails, resultVars, threadVars,
       receiptVars, sourceVars, callbackVars, historyVars
  <2>3. RecordTypes'
    BY <1>0, <1>15 DEF RecordTypes, Results, StartFails, resultVars, threadVars,
       receiptVars, sourceVars, callbackVars, historyVars
  <2> QED
    BY <2>1, <2>2, <2>3, TypePartsNext
<1>16. ASSUME ThreadFails PROVE TypeOK'
  <2>1. todo' \in Stacks /\ flags' \subseteq Flags
    BY <1>16, OwnerFootprints DEF Touches, Flips, TypeOK, Flags
  <2>2. ScalarTypes'
    <3>1. phase' = "Failed" /\ gateOpen' \in BOOLEAN /\ failureCallback' = FALSE
          /\ UNCHANGED <<registry, client, deadline, sendMutex, receipt, deliveryExit, started, failureSource, logicalSources, finalizer, failureCalls, closeRequests, logicalResult, physicalResult>>
      BY <1>0, <1>16 DEF ThreadFails, resultVars, threadVars, receiptVars, sourceVars,
         callbackVars, historyVars
    <3> QED
      BY <1>0, <3>1, ZenonT(40) DEF ScalarTypes, Phases
  <2>3. RecordTypes'
    BY <1>0, <1>16 DEF RecordTypes, Results, ThreadFails, resultVars, threadVars,
       receiptVars, sourceVars, callbackVars, historyVars
  <2> QED
    BY <2>1, <2>2, <2>3, TypePartsNext
<1>17. ASSUME Activate PROVE TypeOK'
  <2>1. todo' \in Stacks /\ flags' \subseteq Flags
    BY <1>17, OwnerFootprints DEF Touches, Flips, TypeOK, Flags
  <2>2. ScalarTypes'
    BY <1>0, <1>17 DEF ScalarTypes, Phases, Results, Activate, resultVars, threadVars,
       receiptVars, sourceVars, callbackVars, historyVars
  <2>3. RecordTypes'
    BY <1>0, <1>17 DEF RecordTypes, Results, Activate, resultVars, threadVars,
       receiptVars, sourceVars, callbackVars, historyVars
  <2> QED
    BY <2>1, <2>2, <2>3, TypePartsNext
<1>18. ASSUME ActivationFails PROVE TypeOK'
  <2>1. todo' \in Stacks /\ flags' \subseteq Flags
    BY <1>18, OwnerFootprints DEF Touches, Flips, TypeOK, Flags
  <2>2. ScalarTypes'
    BY <1>0, <1>18 DEF ScalarTypes, Phases, Results, ActivationFails, resultVars, threadVars,
       receiptVars, sourceVars, callbackVars, historyVars
  <2>3. RecordTypes'
    BY <1>0, <1>18 DEF RecordTypes, Results, ActivationFails, resultVars, threadVars,
       receiptVars, sourceVars, callbackVars, historyVars
  <2> QED
    BY <2>1, <2>2, <2>3, TypePartsNext
<1>19. ASSUME OpenGate PROVE TypeOK'
  <2>1. todo' \in Stacks /\ flags' \subseteq Flags
    BY <1>19, OwnerFootprints DEF Touches, Flips, TypeOK, Flags
  <2>2. ScalarTypes'
    BY <1>0, <1>19 DEF ScalarTypes, Phases, Results, OpenGate, resultVars, threadVars,
       receiptVars, sourceVars, callbackVars, historyVars
  <2>3. RecordTypes'
    BY <1>0, <1>19 DEF RecordTypes, Results, OpenGate, resultVars, threadVars,
       receiptVars, sourceVars, callbackVars, historyVars
  <2> QED
    BY <2>1, <2>2, <2>3, TypePartsNext
<1>20. ASSUME CloseAfterStart PROVE TypeOK'
  <2>1. todo' \in Stacks /\ flags' \subseteq Flags
    BY <1>20, OwnerFootprints DEF Touches, Flips, TypeOK, Flags
  <2>2. ScalarTypes'
    BY <1>0, <1>20 DEF ScalarTypes, Phases, Results, CloseAfterStart, CloseEnters, ReportKnown, resultVars, threadVars,
       receiptVars, sourceVars, callbackVars, historyVars
  <2>3. RecordTypes'
    BY <1>0, <1>20, CloseEntersTypes DEF CloseAfterStart, RecordTypes
  <2> QED
    BY <2>1, <2>2, <2>3, TypePartsNext
<1>21. ASSUME CloseLocks PROVE TypeOK'
  <2>1. todo' \in Stacks /\ flags' \subseteq Flags
    BY <1>21, OwnerFootprints DEF Touches, Flips, TypeOK, Flags
  <2>2. ScalarTypes'
    <3>1. sendMutex' \in {"owner", "none"}
          /\ UNCHANGED <<phase, failureCallback, registry, client, gateOpen, deadline, receipt, deliveryExit, started, failureSource, logicalSources, finalizer, failureCalls, closeRequests, logicalResult, physicalResult>>
      BY <1>0, <1>21 DEF CloseLocks, resultVars, threadVars, receiptVars, sourceVars,
         callbackVars, historyVars
    <3> QED
      BY <1>0, OwnerShort, <3>1 DEF ScalarTypes
  <2>3. RecordTypes'
    <3>1. closing' = [closing EXCEPT !.established = InProgress] /\ InProgress \in BOOLEAN
      BY <1>21 DEF CloseLocks, InProgress
    <3>2. UNCHANGED <<closeCallbacks, knownResults, invoking, passed, reports>>
      BY <1>21 DEF CloseLocks, sourceVars, callbackVars, historyVars
    <3> QED
      BY <1>0, <3>1, <3>2 DEF RecordTypes
  <2> QED
    BY <2>1, <2>2, <2>3, TypePartsNext
<1>22. ASSUME CloseQueues PROVE TypeOK'
  <2>1. todo' \in Stacks /\ flags' \subseteq Flags
    BY <1>22, OwnerFootprints DEF Touches, Flips, TypeOK, Flags
  <2>2. ScalarTypes'
    BY <1>0, <1>22 DEF ScalarTypes, Phases, Results, CloseQueues, resultVars, threadVars,
       receiptVars, sourceVars, callbackVars, historyVars
  <2>3. RecordTypes'
    BY <1>0, <1>22 DEF RecordTypes, Results, CloseQueues, resultVars, threadVars,
       receiptVars, sourceVars, callbackVars, historyVars
  <2> QED
    BY <2>1, <2>2, <2>3, TypePartsNext
<1>23. ASSUME OwnerSendsClose PROVE TypeOK'
  <2>1. todo' \in Stacks /\ flags' \subseteq Flags
    BY <1>23, OwnerFootprints DEF Touches, Flips, TypeOK, Flags
  <2>2. ScalarTypes'
    BY <1>0, <1>23 DEF ScalarTypes, Phases, Results, OwnerSendsClose, resultVars, threadVars,
       receiptVars, sourceVars, callbackVars, historyVars
  <2>3. RecordTypes'
    BY <1>0, <1>23 DEF RecordTypes, Results, OwnerSendsClose, resultVars, threadVars,
       receiptVars, sourceVars, callbackVars, historyVars
  <2> QED
    BY <2>1, <2>2, <2>3, TypePartsNext
<1>24. ASSUME InstallDeadline PROVE TypeOK'
  <2>1. todo' \in Stacks /\ flags' \subseteq Flags
    BY <1>24, OwnerFootprints DEF Touches, Flips, TypeOK, Flags
  <2>2. ScalarTypes'
    BY <1>0, <1>24 DEF ScalarTypes, Phases, Results, InstallDeadline, resultVars, threadVars,
       receiptVars, sourceVars, callbackVars, historyVars
  <2>3. RecordTypes'
    BY <1>0, <1>24 DEF RecordTypes, Results, InstallDeadline, resultVars, threadVars,
       receiptVars, sourceVars, callbackVars, historyVars
  <2> QED
    BY <2>1, <2>2, <2>3, TypePartsNext
<1>25. ASSUME SenderLocks PROVE TypeOK'
  <2>1. todo' \in Stacks /\ flags' \subseteq Flags
    BY <1>25, WorkerFootprints DEF Touches, Flips, TypeOK, Flags
  <2>2. ScalarTypes'
    <3>1. sendMutex' \in {"sender", "none"}
          /\ UNCHANGED <<phase, failureCallback, registry, client, gateOpen, deadline, receipt, deliveryExit, started, failureSource, logicalSources, finalizer, failureCalls, closeRequests, logicalResult, physicalResult>>
      BY <1>0, <1>25 DEF SenderLocks, resultVars, threadVars, receiptVars, sourceVars,
         callbackVars, historyVars
    <3> QED
      BY <1>0, OwnerShort, <3>1 DEF ScalarTypes
  <2>3. RecordTypes'
    BY <1>0, <1>25 DEF RecordTypes, Results, SenderLocks, resultVars, threadVars,
       receiptVars, sourceVars, callbackVars, historyVars
  <2> QED
    BY <2>1, <2>2, <2>3, TypePartsNext
<1>26. ASSUME SenderSends PROVE TypeOK'
  <2>1. todo' \in Stacks /\ flags' \subseteq Flags
    BY <1>26, WorkerFootprints DEF Touches, Flips, TypeOK, Flags
  <2>2. ScalarTypes'
    BY <1>0, <1>26 DEF ScalarTypes, Phases, Results, SenderSends, resultVars, threadVars,
       receiptVars, sourceVars, callbackVars, historyVars
  <2>3. RecordTypes'
    BY <1>0, <1>26 DEF RecordTypes, Results, SenderSends, resultVars, threadVars,
       receiptVars, sourceVars, callbackVars, historyVars
  <2> QED
    BY <2>1, <2>2, <2>3, TypePartsNext
<1>27. ASSUME WaitGate PROVE TypeOK'
  <2>1. todo' \in Stacks /\ flags' \subseteq Flags
    BY <1>27, WorkerFootprints DEF Touches, Flips, TypeOK, Flags
  <2>2. ScalarTypes'
    BY <1>0, <1>27 DEF ScalarTypes, Phases, Results, WaitGate, resultVars, threadVars,
       receiptVars, sourceVars, callbackVars, historyVars
  <2>3. RecordTypes'
    BY <1>0, <1>27 DEF RecordTypes, Results, WaitGate, resultVars, threadVars,
       receiptVars, sourceVars, callbackVars, historyVars
  <2> QED
    BY <2>1, <2>2, <2>3, TypePartsNext
<1>28. ASSUME Poll PROVE TypeOK'
  <2>1. todo' \in Stacks /\ flags' \subseteq Flags
    BY <1>28, WorkerFootprints DEF Touches, Flips, TypeOK, Flags
  <2>2. ScalarTypes'
    BY <1>0, <1>28 DEF ScalarTypes, Phases, Results, Poll, resultVars, threadVars,
       receiptVars, sourceVars, callbackVars, historyVars
  <2>3. RecordTypes'
    BY <1>0, <1>28 DEF RecordTypes, Results, Poll, resultVars, threadVars,
       receiptVars, sourceVars, callbackVars, historyVars
  <2> QED
    BY <2>1, <2>2, <2>3, TypePartsNext
<1>29. ASSUME LockClose PROVE TypeOK'
  <2>1. todo' \in Stacks /\ flags' \subseteq Flags
    BY <1>29, WorkerFootprints DEF Touches, Flips, TypeOK, Flags
  <2>2. ScalarTypes'
    <3>1. sendMutex' \in {"worker", "none"}
          /\ UNCHANGED <<phase, failureCallback, registry, client, gateOpen, deadline, receipt, deliveryExit, started, failureSource, logicalSources, finalizer, failureCalls, closeRequests, logicalResult, physicalResult>>
      BY <1>0, <1>29 DEF LockClose, resultVars, threadVars, receiptVars, sourceVars,
         callbackVars, historyVars
    <3> QED
      BY <1>0, OwnerShort, <3>1 DEF ScalarTypes
  <2>3. RecordTypes'
    BY <1>0, <1>29 DEF RecordTypes, Results, LockClose, resultVars, threadVars,
       receiptVars, sourceVars, callbackVars, historyVars
  <2> QED
    BY <2>1, <2>2, <2>3, TypePartsNext
<1>30. ASSUME WorkerSendsClose PROVE TypeOK'
  <2>1. todo' \in Stacks /\ flags' \subseteq Flags
    BY <1>30, WorkerFootprints DEF Touches, Flips, TypeOK, Flags
  <2>2. ScalarTypes'
    BY <1>0, <1>30 DEF ScalarTypes, Phases, Results, WorkerSendsClose, resultVars, threadVars,
       receiptVars, sourceVars, callbackVars, historyVars
  <2>3. RecordTypes'
    BY <1>0, <1>30 DEF RecordTypes, Results, WorkerSendsClose, resultVars, threadVars,
       receiptVars, sourceVars, callbackVars, historyVars
  <2> QED
    BY <2>1, <2>2, <2>3, TypePartsNext
<1>31. ASSUME Receive PROVE TypeOK'
  <2>1. todo' \in Stacks /\ flags' \subseteq Flags
    BY <1>31, WorkerFootprints DEF Touches, Flips, TypeOK, Flags
  <2>2. ScalarTypes'
    BY <1>0, <1>31 DEF ScalarTypes, Phases, Results, Receive, resultVars, threadVars,
       receiptVars, sourceVars, callbackVars, historyVars
  <2>3. RecordTypes'
    BY <1>0, <1>31 DEF RecordTypes, Results, Receive, resultVars, threadVars,
       receiptVars, sourceVars, callbackVars, historyVars
  <2> QED
    BY <2>1, <2>2, <2>3, TypePartsNext
<1>32. ASSUME ReceiveFails PROVE TypeOK'
  <2>1. todo' \in Stacks /\ flags' \subseteq Flags
    BY <1>32, WorkerFootprints DEF Touches, Flips, TypeOK, Flags
  <2>2. ScalarTypes'
    BY <1>0, <1>32 DEF ScalarTypes, Phases, Results, ReceiveFails, resultVars, threadVars,
       receiptVars, sourceVars, callbackVars, historyVars
  <2>3. RecordTypes'
    BY <1>0, <1>32 DEF RecordTypes, Results, ReceiveFails, resultVars, threadVars,
       receiptVars, sourceVars, callbackVars, historyVars
  <2> QED
    BY <2>1, <2>2, <2>3, TypePartsNext
<1>33. ASSUME ReceiveClosed PROVE TypeOK'
  <2>1. todo' \in Stacks /\ flags' \subseteq Flags
    BY <1>33, WorkerFootprints DEF Touches, Flips, TypeOK, Flags
  <2>2. ScalarTypes'
    BY <1>0, <1>33 DEF ScalarTypes, Phases, Results, ReceiveClosed, resultVars, threadVars,
       receiptVars, sourceVars, callbackVars, historyVars
  <2>3. RecordTypes'
    BY <1>0, <1>33 DEF RecordTypes, Results, ReceiveClosed, resultVars, threadVars,
       receiptVars, sourceVars, callbackVars, historyVars
  <2> QED
    BY <2>1, <2>2, <2>3, TypePartsNext
<1>34. ASSUME NoteClosed PROVE TypeOK'
  <2>1. todo' \in Stacks /\ flags' \subseteq Flags
    BY <1>34, WorkerFootprints DEF Touches, Flips, TypeOK, Flags
  <2>2. ScalarTypes'
    BY <1>0, <1>34 DEF ScalarTypes, Phases, Results, NoteClosed, resultVars, threadVars,
       receiptVars, sourceVars, callbackVars, historyVars
  <2>3. RecordTypes'
    BY <1>0, <1>34 DEF RecordTypes, Results, NoteClosed, resultVars, threadVars,
       receiptVars, sourceVars, callbackVars, historyVars
  <2> QED
    BY <2>1, <2>2, <2>3, TypePartsNext
<1>35. ASSUME DeliverClosed PROVE TypeOK'
  <2>1. todo' \in Stacks /\ flags' \subseteq Flags
    BY <1>35, WorkerFootprints DEF Touches, Flips, TypeOK, Flags
  <2>2. ScalarTypes'
    BY <1>0, <1>35 DEF ScalarTypes, Phases, Results, DeliverClosed, resultVars, threadVars,
       receiptVars, sourceVars, callbackVars, historyVars
  <2>3. RecordTypes'
    BY <1>0, <1>35 DEF RecordTypes, Results, DeliverClosed, resultVars, threadVars,
       receiptVars, sourceVars, callbackVars, historyVars
  <2> QED
    BY <2>1, <2>2, <2>3, TypePartsNext
<1>36. ASSUME DestroyClient PROVE TypeOK'
  <2>1. todo' \in Stacks /\ flags' \subseteq Flags
    BY <1>36, WorkerFootprints DEF Touches, Flips, TypeOK, Flags
  <2>2. ScalarTypes'
    <3>1. client' = FALSE
          /\ UNCHANGED <<phase, failureCallback, registry, gateOpen, deadline, sendMutex, receipt, deliveryExit, started, failureSource, logicalSources, finalizer, failureCalls, closeRequests, logicalResult, physicalResult>>
      BY <1>0, <1>36 DEF DestroyClient, resultVars, threadVars, receiptVars, sourceVars,
         callbackVars, historyVars
    <3> QED
      BY <1>0, <3>1, ZenonT(40) DEF ScalarTypes
  <2>3. RecordTypes'
    BY <1>0, <1>36 DEF RecordTypes, Results, DestroyClient, resultVars, threadVars,
       receiptVars, sourceVars, callbackVars, historyVars
  <2> QED
    BY <2>1, <2>2, <2>3, TypePartsNext
<1>37. ASSUME FinishWorker PROVE TypeOK'
  <2>1. todo' \in Stacks /\ flags' \subseteq Flags
    BY <1>37, WorkerFootprints DEF Touches, Flips, TypeOK, Flags
  <2>2. ScalarTypes'
    BY <1>0, <1>37 DEF ScalarTypes, Phases, Results, FinishWorker, resultVars, threadVars,
       receiptVars, sourceVars, callbackVars, historyVars
  <2>3. RecordTypes'
    BY <1>0, <1>37 DEF RecordTypes, Results, FinishWorker, resultVars, threadVars,
       receiptVars, sourceVars, callbackVars, historyVars
  <2> QED
    BY <2>1, <2>2, <2>3, TypePartsNext
<1>38. ASSUME JoinWorker PROVE TypeOK'
  <2>1. todo' \in Stacks /\ flags' \subseteq Flags
    BY <1>38, WorkerFootprints DEF Touches, Flips, TypeOK, Flags
  <2>2. ScalarTypes'
    BY <1>0, <1>38 DEF ScalarTypes, Phases, Results, JoinWorker, resultVars, threadVars,
       receiptVars, sourceVars, callbackVars, historyVars
  <2>3. RecordTypes'
    BY <1>0, <1>38 DEF RecordTypes, Results, JoinWorker, resultVars, threadVars,
       receiptVars, sourceVars, callbackVars, historyVars
  <2> QED
    BY <2>1, <2>2, <2>3, TypePartsNext
<1>39. ASSUME SenderCalled PROVE TypeOK'
  <2>1. todo' \in Stacks /\ flags' \subseteq Flags
    BY <1>39, OwnerShort, LoadFootprints DEF Touches, Flips, TypeOK, Flags
  <2>2. ScalarTypes'
    BY <1>0, <1>39 DEF ScalarTypes, Phases, Results, SenderCalled, resultVars, threadVars,
       receiptVars, sourceVars, callbackVars, historyVars
  <2>3. RecordTypes'
    BY <1>0, <1>39 DEF RecordTypes, Results, SenderCalled, resultVars, threadVars,
       receiptVars, sourceVars, callbackVars, historyVars
  <2> QED
    BY <2>1, <2>2, <2>3, TypePartsNext
<1>40. ASSUME NEW t \in Threads, ReceiptReleased(t) PROVE TypeOK'
  <2>1. todo' \in Stacks /\ flags' \subseteq Flags
    BY <1>40, OwnerShort, LoadFootprints DEF Touches, Flips, TypeOK, Flags
  <2>2. ScalarTypes'
    BY <1>0, <1>40 DEF ScalarTypes, Phases, Results, ReceiptReleased, resultVars, threadVars,
       receiptVars, sourceVars, callbackVars, historyVars
  <2>3. RecordTypes'
    BY <1>0, <1>40 DEF RecordTypes, Results, ReceiptReleased, resultVars, threadVars,
       receiptVars, sourceVars, callbackVars, historyVars
  <2> QED
    BY <2>1, <2>2, <2>3, TypePartsNext
<1>41. ASSUME KnownResultRuns PROVE TypeOK'
  <2>1. todo' \in Stacks /\ flags' \subseteq Flags
    BY <1>41, OwnerShort, LoadFootprints DEF Touches, Flips, TypeOK, Flags
  <2>2. ScalarTypes'
    BY <1>0, <1>41 DEF ScalarTypes, Phases, Results, KnownResultRuns, resultVars, threadVars,
       receiptVars, sourceVars, callbackVars, historyVars
  <2>3. RecordTypes'
    BY <1>0, <1>41 DEF RecordTypes, Results, KnownResultRuns, resultVars, threadVars,
       receiptVars, sourceVars, callbackVars, historyVars
  <2> QED
    BY <2>1, <2>2, <2>3, TypePartsNext
<1>42. ASSUME FailureSourceRuns PROVE TypeOK'
  <2>1. todo' \in Stacks /\ flags' \subseteq Flags
    BY <1>42, OwnerShort, LoadFootprints DEF Touches, Flips, TypeOK, Flags
  <2>2. ScalarTypes'
    BY <1>0, <1>42 DEF ScalarTypes, Phases, Results, FailureSourceRuns, resultVars, threadVars,
       receiptVars, sourceVars, callbackVars, historyVars
  <2>3. RecordTypes'
    BY <1>0, <1>42 DEF RecordTypes, Results, FailureSourceRuns, resultVars, threadVars,
       receiptVars, sourceVars, callbackVars, historyVars
  <2> QED
    BY <2>1, <2>2, <2>3, TypePartsNext
<1>43. ASSUME DeadlineExpires PROVE TypeOK'
  <2>1. todo' \in Stacks /\ flags' \subseteq Flags
    BY <1>43, OwnerShort, LoadFootprints DEF Touches, Flips, TypeOK, Flags
  <2>2. ScalarTypes'
    <3>1. \/ \E F : \E result \in Results : TakeCallbacks(F, result)
          \/ UNCHANGED callbackVars
      BY <1>0, <1>43 DEF ScalarTypes, Results, DeadlineExpires
    <3>2. failureCallback' \in BOOLEAN
      BY <1>0, <1>43, <3>1, TakeTypes DEF ScalarTypes, RecordTypes, callbackVars
    <3>3. /\ UNCHANGED <<phase, registry, client, gateOpen, sendMutex, receipt, deliveryExit,
                       started, failureSource, logicalSources, finalizer, failureCalls,
                       closeRequests, physicalResult>>
          /\ deadline' = FALSE /\ logicalResult' \in Results
      BY <1>0, <1>43 DEF ScalarTypes, Results, DeadlineExpires, resultVars, threadVars, receiptVars, historyVars
    <3> QED
      BY <1>0, <3>2, <3>3, ZenonT(40) DEF ScalarTypes
  <2>3. RecordTypes'
    <3>1. \/ \E F : \E result \in Results : TakeCallbacks(F, result)
          \/ UNCHANGED callbackVars
      BY <1>0, <1>43 DEF ScalarTypes, Results, DeadlineExpires
    <3>2. /\ closeCallbacks' \subseteq Callbacks
          /\ invoking' \in [callbacks : SUBSET Callbacks, result : Results]
      BY <1>0, <1>43, <3>1, TakeTypes DEF ScalarTypes, RecordTypes, callbackVars
    <3>3. UNCHANGED <<knownResults, closing, passed, reports>>
      BY <1>43 DEF DeadlineExpires, historyVars
    <3> QED
      BY <1>0, <3>2, <3>3 DEF RecordTypes
  <2> QED
    BY <2>1, <2>2, <2>3, TypePartsNext
<1>44. ASSUME LogicalSourceRuns PROVE TypeOK'
  <2>1. todo' \in Stacks /\ flags' \subseteq Flags
    BY <1>44, OwnerShort, LoadFootprints DEF Touches, Flips, TypeOK, Flags
  <2>2. ScalarTypes'
    <3>1. \/ \E F : \E result \in Results : TakeCallbacks(F, result)
          \/ UNCHANGED callbackVars
      BY <1>0, <1>44 DEF ScalarTypes, Results, LogicalSourceRuns
    <3>2. failureCallback' \in BOOLEAN
      BY <1>0, <1>44, <3>1, TakeTypes DEF ScalarTypes, RecordTypes, callbackVars
    <3>3. /\ UNCHANGED <<phase, registry, client, gateOpen, deadline, sendMutex, receipt,
                       deliveryExit, started, failureSource, finalizer, failureCalls,
                       closeRequests, logicalResult, physicalResult>>
          /\ logicalSources' \in Nat
      BY <1>0, <1>44 DEF ScalarTypes, Results, LogicalSourceRuns, resultVars, threadVars, receiptVars, historyVars
    <3> QED
      BY <1>0, <3>2, <3>3 DEF ScalarTypes
  <2>3. RecordTypes'
    <3>1. \/ \E F : \E result \in Results : TakeCallbacks(F, result)
          \/ UNCHANGED callbackVars
      BY <1>0, <1>44 DEF ScalarTypes, Results, LogicalSourceRuns
    <3>2. /\ closeCallbacks' \subseteq Callbacks
          /\ invoking' \in [callbacks : SUBSET Callbacks, result : Results]
      BY <1>0, <1>44, <3>1, TakeTypes DEF ScalarTypes, RecordTypes, callbackVars
    <3>3. UNCHANGED <<knownResults, closing, passed, reports>>
      BY <1>44 DEF LogicalSourceRuns, historyVars
    <3> QED
      BY <1>0, <3>2, <3>3 DEF RecordTypes
  <2> QED
    BY <2>1, <2>2, <2>3, TypePartsNext
<1>45. ASSUME FinalizeWorker PROVE TypeOK'
  <2>1. todo' \in Stacks /\ flags' \subseteq Flags
    BY <1>45, OwnerShort, LoadFootprints DEF Touches, Flips, TypeOK, Flags
  <2>2. ScalarTypes'
    BY <1>0, <1>45, ZenonT(40) DEF ScalarTypes, Phases, Results, FinalizeWorker, resultVars, threadVars,
       receiptVars, sourceVars, callbackVars, historyVars
  <2>3. RecordTypes'
    <3>1. /\ closeCallbacks' \in {closeCallbacks, {}}
          /\ \E result \in Results : \E callbacks \in {closeCallbacks, {}} :
               invoking' = [callbacks |-> callbacks, result |-> result]
      BY <1>0, <1>45 DEF ScalarTypes, FinalizeWorker
    <3>2. UNCHANGED <<knownResults, closing, passed, reports>>
      BY <1>45 DEF FinalizeWorker, historyVars
    <3> QED
      BY <1>0, <3>1, <3>2 DEF RecordTypes
  <2> QED
    BY <2>1, <2>2, <2>3, TypePartsNext
<1>46. ASSUME NEW own \in SUBSET (Callbacks \ passed), Close(own) PROVE TypeOK'
  <2>1. todo' \in Stacks /\ flags' \subseteq Flags
    BY <1>46, CloseFootprint DEF Touches, Flips, TypeOK, Flags
  <2>2. ScalarTypes'
    BY <1>0, <1>46 DEF ScalarTypes, Phases, Results, Close, CloseEnters, ReportKnown, resultVars,
       threadVars, receiptVars, sourceVars, callbackVars, historyVars
  <2>3. RecordTypes'
    BY <1>0, <1>46, CloseEntersTypes DEF Close, RecordTypes
  <2> QED
    BY <2>1, <2>2, <2>3, TypePartsNext
<1>47. ASSUME Start \/ Reserve \/ PrepareFinalizer \/ CreateClient \/ CreateWorker \/ CreateReaper
       PROVE  TypeOK'
  <2>1. todo' \in Stacks
    BY <1>47, StartStacks DEF TypeOK, Stacks
  <2>2. /\ flags' = flags /\ RecordTypes'
        /\ phase' \in Phases /\ registry' \in {"none", "own", "other"}
        /\ finalizer' \in {"none", "prepared", "attached"} /\ client' \in BOOLEAN
        /\ failureCallback' \in BOOLEAN /\ started' \subseteq {"worker", "reaper"}
        /\ UNCHANGED <<gateOpen, deadline, sendMutex, receipt, deliveryExit, failureSource,
                       logicalSources, failureCalls, closeRequests, logicalResult, physicalResult>>
    <3> USE <1>0 DEF ScalarTypes, RecordTypes, Phases, resultVars, threadVars, receiptVars,
                     sourceVars, callbackVars, historyVars
    <3>1. CASE Start
      BY <3>1 DEF Start
    <3>2. CASE Reserve
      BY <3>2 DEF Reserve
    <3>3. CASE PrepareFinalizer
      BY <3>3 DEF PrepareFinalizer
    <3>4. CASE CreateClient
      BY <3>4 DEF CreateClient
    <3>5. CASE CreateWorker
      BY <3>5 DEF CreateWorker
    <3>6. CASE CreateReaper
      BY <3>6 DEF CreateReaper
    <3> QED
      BY <1>47, <3>1, <3>2, <3>3, <3>4, <3>5, <3>6
  <2>3. ScalarTypes'
    BY <1>0, <2>2 DEF ScalarTypes
  <2> QED
    BY <1>0, <2>1, <2>2, <2>3, TypePartsNext
<1>48. ASSUME OtherSessionEnds \/ UNCHANGED vars PROVE TypeOK'
  <2>1. /\ registry' \in {"none", registry}
        /\ UNCHANGED <<phase, flags, todo, closing, resultVars, receiptVars, sourceVars,
                       callbackVars, historyVars, client, sendMutex, gateOpen, started>>
    BY <1>48 DEF OtherSessionEnds, vars, threadVars
  <2>2. ScalarTypes'
    BY <1>0, <2>1 DEF ScalarTypes, resultVars, receiptVars, sourceVars, callbackVars, historyVars
  <2>3. RecordTypes'
    BY <1>0, <2>1 DEF RecordTypes, sourceVars, callbackVars, historyVars
  <2> QED
    BY <1>0, <2>1, <2>2, <2>3, TypePartsNext
<1>49. ASSUME NEW t \in Threads, FailureStep(t) PROVE TypeOK'
  BY <1>1, <1>2, <1>3, <1>4, <1>5, <1>6, <1>7, <1>8, <1>9, <1>10, <1>11, <1>49 DEF FailureStep
<1>50. ASSUME OwnerMoves PROVE TypeOK'
  BY <1>12, <1>13, <1>14, <1>15, <1>16, <1>17, <1>18, <1>19, <1>20, <1>21, <1>22, <1>23, <1>24,
     <1>50 DEF OwnerMoves
<1>51. ASSUME WorkerMoves PROVE TypeOK'
  BY <1>25, <1>26, <1>27, <1>28, <1>29, <1>30, <1>31, <1>32, <1>33, <1>34, <1>35, <1>36, <1>37,
     <1>38, <1>51 DEF WorkerMoves
<1>52. ASSUME Loaded PROVE TypeOK'
  BY <1>39, <1>40, <1>41, <1>42, <1>43, <1>44, <1>45, <1>52 DEF Loaded
<1>53. ASSUME StartMoves PROVE TypeOK'
  BY <1>47, <1>53 DEF StartMoves
<1> QED
  BY <1>46, <1>48, <1>49, <1>50, <1>51, <1>52, <1>53, NextCases

LEMMA InitTypeOK == Init => TypeOK
<1> SUFFICES ASSUME Init PROVE TypeOK
  OBVIOUS
<1>1. /\ [t \in Threads |-> <<>>] \in [Threads -> Seq(Entries)]
      /\ [c \in Callbacks |-> <<>>] \in [Callbacks -> Seq(Results)]
  BY ShortSeqs
<1>2. todo \in Stacks /\ flags \subseteq Flags
  BY <1>1 DEF Init, Stacks
<1>3. ScalarTypes
  BY DEF Init, ScalarTypes, Phases, Results
<1>4. RecordTypes
  BY <1>1 DEF Init, RecordTypes, Results
<1> QED
  BY <1>2, <1>3, <1>4, TypeParts

\* Every variable of TdPollingBackendState keeps its type, and what a thread still has to do
\* is always one of the known entries, whichever of the five threads takes a step.
THEOREM TypeCorrect == Spec => []TypeOK
<1>1. Init => TypeOK
  BY InitTypeOK
<1>2. TypeOK /\ [Next]_vars => TypeOK'
  BY TypeStep
<1> QED
  BY <1>1, <1>2, PTL DEF Spec

-----------------------------------------------------------------------------
(* The inductive invariant *)

StartEntries == {"reserve", "prepareFinalizer", "createClient", "createWorker",
                 "createReaper", "activate"}
Early == phase \in {"New", "Starting"}

\* Until start() has activated the session or failed, the owner is at one of its entries or
\* idle, the threads wait, and nothing has happened yet.
EarlyStacks ==
  /\ todo["sender"] = <<>> /\ todo["helper"] = <<>>
  /\ todo["worker"] = (IF "worker" \in started THEN <<"waitGate">> ELSE <<>>)
  /\ todo["reaper"] = (IF "reaper" \in started THEN <<"joinWorker">> ELSE <<>>)
  /\ phase = "New" => todo["owner"] = <<>> /\ registry # "own"
  /\ phase = "Starting" => \E e \in StartEntries : todo["owner"] = <<e>>

EarlyData ==
  /\ flags \subseteq {"closeRequestedDuringStart"}
  /\ ~deadline /\ failureSource = "none" /\ logicalSources = 0 /\ finalizer # "attached"
  /\ receipt = "none" /\ deliveryExit = "none" /\ sendMutex = "none"
  /\ ~gateOpen /\ closeRequests = 0
  /\ knownResults = {} /\ invoking.callbacks = {} /\ failureCalls = 0
  /\ \A c \in Callbacks : reports[c] = <<>>
  /\ closeCallbacks \subseteq passed
  /\ logicalResult = "Failed" /\ physicalResult = "Failed"

EarlyProgress ==
  /\ Idle("owner") \/ At("owner", "reserve") \/ At("owner", "prepareFinalizer")
       \/ At("owner", "createClient") => ~client /\ started = {} /\ ~failureCallback
  /\ At("owner", "reserve") => registry # "own"
  /\ HasAny("owner", StartEntries \ {"reserve"}) => registry = "own"
  /\ At("owner", "createWorker") => started = {}
  /\ At("owner", "createReaper") => started = {"worker"}
  /\ At("owner", "activate") => started = {"worker", "reaper"}
  /\ HasAny("owner", {"createClient", "createWorker", "createReaper", "activate"})
       => finalizer = "prepared"

EarlyOK ==
  /\ Early => EarlyStacks /\ EarlyData /\ EarlyProgress
  /\ ~Early => ~HasAny("owner", StartEntries)

WorkerEarly == {"waitGate", "poll", "lockClose", "sendClose", "receive", "noteClosed"}
WorkerBase == WorkerEarly \cup {"deliverClosed", "destroyClient", "finish"}

\* The last entry of s, and only that, is one of the worker's own.
Based(s) ==
  s # <<>> /\ s[Len(s)] \in WorkerBase
           /\ \A i \in DOMAIN s : i # Len(s) => s[i] \notin WorkerBase

\* The worker exits with the client destroyed, and then the reaper can be ready.
ThreadsOK ==
  /\ \A t \in {"worker", "reaper"} : t \notin started => todo[t] = <<>>
  /\ todo["worker"] # <<>> => Based(todo["worker"])
  /\ "worker" \in started /\ todo["worker"] = <<>> => ~client /\ "physicalFinished" \in flags
  /\ Has("worker", "finish") => ~client
  /\ flags \cap {"reaperReady", "physicalFinished"} # {} => Exited("worker")
  /\ "physicalFinished" \in flags => phase = "PhysicallyStopped"
  /\ physicalResult # "Failed" => "physicalFinished" \in flags
  /\ physicalResult # "TimedOut"

Critical == {"send", "sendClose", "unlockSend"}

\* A thread that sends, or has sent, holds sendMutex, and there is a client to send to. One
\* close request is noted before it is sent.
LockOK ==
  /\ Alone(Critical, todo)
  /\ \A t \in Threads : HasAny(t, Critical) => sendMutex = t
  /\ \A t \in Threads : HasAny(t, {"send", "sendClose"}) => client
  /\ closeRequests <= 1
  /\ "closeSent" \notin flags =>
       closeRequests = 0 /\ \A t \in Threads : ~Has(t, "sendClose")
  /\ (\E t \in Threads : Has(t, "sendClose")) => closeRequests = 0
  /\ "closeQueued" \in flags => "closeSent" \notin flags

\* The receipt is expected before it is held, is settled by one thread, and the members of
\* TdPollingBackendState agree with where it is.
ReceiptOK ==
  /\ Alone({"settle"}, todo)
  /\ \A t \in Threads :
       Has(t, "settle") => receipt = "settled" /\ "closedDeliverySettled" \notin flags
  /\ receipt = "settled" =>
       "closedDeliverySettled" \in flags \/ \E t \in Threads : Has(t, "settle")
  /\ receipt # "none" => "closedDeliveryExpected" \in flags
  /\ "closedDeliverySettled" \in flags => receipt = "settled"
  /\ "closedDeliveryExpected" \in flags /\ receipt = "none" => Has("worker", "deliverClosed")
  /\ Has("worker", "deliverClosed") => "closedDeliveryExpected" \in flags /\ receipt = "none"
  /\ HasAny("worker", WorkerEarly) \/ "worker" \notin started
       => "closedDeliveryExpected" \notin flags
  /\ "unexpectedClosedAwaitingReport" \in flags => "closedDeliveryExpected" \in flags
  /\ "closedReceived" \in flags => "closedDeliveryExpected" \in flags

\* The finalizer is claimed once, after the reaper is ready and the receipt has settled.
FinalizerOK ==
  /\ Alone({"attachFinalizer"}, todo)
  /\ \A t \in Threads :
       Has(t, "attachFinalizer") => "finalizationScheduled" \in flags /\ finalizer = "prepared"
  /\ finalizer = "attached" => "finalizationScheduled" \in flags
  /\ "reaper" \in started /\ "finalizationScheduled" \notin flags => finalizer = "prepared"
  /\ "finalizationScheduled" \in flags => "reaperReady" \in flags /\ ReceiptSettled(flags)
  /\ "reaperReady" \in flags => "reaper" \in started

RegistryOK ==
  registry # "own" =>
     /\ ~client /\ receipt # "held" /\ deliveryExit = "none"
     /\ \A t \in Threads : ~Has(t, "settle")
     /\ \A t \in started : Exited(t)

-----------------------------------------------------------------------------
(* Until the session is activated *)

LEMMA EarlyRanges == TypeOK /\ EarlyOK /\ Early =>
  /\ Range(todo["sender"]) = {} /\ Range(todo["helper"]) = {}
  /\ Range(todo["worker"]) = IF "worker" \in started THEN {"waitGate"} ELSE {}
  /\ Range(todo["reaper"]) = IF "reaper" \in started THEN {"joinWorker"} ELSE {}
  /\ Range(todo["owner"]) \subseteq StartEntries
  /\ \A t \in Threads : Len(todo[t]) \in {0, 1}
<1> SUFFICES ASSUME TypeOK, EarlyOK, Early
             PROVE  /\ Range(todo["sender"]) = {} /\ Range(todo["helper"]) = {}
                    /\ Range(todo["worker"]) = IF "worker" \in started THEN {"waitGate"} ELSE {}
                    /\ Range(todo["reaper"]) = IF "reaper" \in started THEN {"joinWorker"} ELSE {}
                    /\ Range(todo["owner"]) \subseteq StartEntries
                    /\ \A t \in Threads : Len(todo[t]) \in {0, 1}
  OBVIOUS
<1>1. EarlyStacks
  BY DEF EarlyOK
<1>2. todo["owner"] = <<>> \/ \E e \in StartEntries : todo["owner"] = <<e>>
  BY <1>1 DEF EarlyStacks, Early
<1>3. Len(<<>>) = 0 /\ \A a : Len(<<a>>) = 1
  OBVIOUS
<1>4. Range(todo["owner"]) \subseteq StartEntries
  <2>1. CASE todo["owner"] = <<>>
    BY <2>1, ShortRanges
  <2>2. CASE \E e \in StartEntries : todo["owner"] = <<e>>
    <3>1. PICK e \in StartEntries : todo["owner"] = <<e>>
      BY <2>2
    <3>2. Range(<<e>>) = {e}
      BY ShortRanges
    <3> QED
      BY <3>1, <3>2
  <2> QED
    BY <1>2, <2>1, <2>2
<1>5. ASSUME NEW t \in Threads PROVE \E a : todo[t] = <<>> \/ todo[t] = <<a>>
  BY <1>1, <1>2 DEF EarlyStacks, Threads
<1> QED
  BY <1>1, <1>3, <1>4, <1>5, ShortRanges DEF EarlyStacks

LEMMA EarlyNowhere == TypeOK /\ EarlyOK /\ Early =>
  \A S : S \cap (StartEntries \cup {"waitGate", "joinWorker"}) = {} =>
    Nowhere(S, todo) /\ Alone(S, todo)
<1> SUFFICES ASSUME TypeOK, EarlyOK, Early, NEW S,
                    S \cap (StartEntries \cup {"waitGate", "joinWorker"}) = {}
             PROVE  Nowhere(S, todo) /\ Alone(S, todo)
  OBVIOUS
<1>1. \A t \in Threads : Range(todo[t]) \cap S = {}
  BY EarlyRanges DEF Threads
<1>2. \A t \in Threads : Single(S, todo[t])
  BY <1>1 DEF Single, Range
<1> QED
  BY <1>1, <1>2 DEF Nowhere, Alone

LEMMA AtHas ==
  ASSUME todo \in Stacks, NEW t \in Threads, NEW x, At(t, x)
  PROVE  x \in Range(todo[t]) /\ todo[t] # <<>> /\ Head(todo[t]) = x
<1>1. todo[t] \in Seq(Entries) /\ todo[t] # <<>> /\ Head(todo[t]) = x
  BY DEF At, Stacks
<1> QED
  BY <1>1, RestRange DEF Rest

LEMMA EmptyRange ==
  ASSUME NEW s \in Seq(Entries), Range(s) = {}
  PROVE  s = <<>>
<1>1. \A i \in 1 .. Len(s) : s[i] \in Range(s)
  BY LenProperties DEF Range
<1>2. Len(s) = 0
  BY <1>1, LenProperties
<1> QED
  BY <1>2, EmptySeq

\* Before the session is activated only start(), close() and the other session move.
LEMMA EarlyMoves ==
  ASSUME TypeOK, EarlyOK, Early, [Next]_vars
  PROVE  \/ StartFails \/ ThreadFails \/ Activate \/ ActivationFails
         \/ StartMoves \/ OtherSessionEnds \/ UNCHANGED vars
         \/ \E own \in SUBSET (Callbacks \ passed) : Close(own)
<1>1. todo \in Stacks /\ EarlyStacks /\ EarlyData
  BY DEF TypeOK, Stacks, EarlyOK
<1>2. \A t \in Threads : \A x :
        At(t, x) => x \in StartEntries \cup {"waitGate", "joinWorker"}
  <2> SUFFICES ASSUME NEW t \in Threads, NEW x, At(t, x)
               PROVE  x \in StartEntries \cup {"waitGate", "joinWorker"}
    OBVIOUS
  <2>1. x \in Range(todo[t])
    BY <1>1, AtHas
  <2> QED
    BY <2>1, EarlyRanges DEF Threads
<1>3. ASSUME NEW t \in Threads, FailureStep(t) PROVE FALSE
  BY <1>2, <1>3 DEF FailureStep, CompleteDelivery, FinishHandoff, HandOff, HandOffFails,
     ReportLogicalFailure, ScheduleLogicalSource, AttachFinalizer, MarkSendFailure, UnlockSend,
     SettleClosedDelivery, LeaveDelivery, StartEntries
<1>4. ASSUME OwnerMoves PROVE StartFails \/ ThreadFails \/ Activate \/ ActivationFails
  BY <1>2, <1>4, OwnerShort DEF OwnerMoves, InvokeFailure, InvokeCallbacks, CallbackReturns,
     OpenGate, CloseAfterStart, CloseLocks, CloseQueues, OwnerSendsClose, InstallDeadline,
     StartEntries
<1>5. ~WaitGate /\ ~JoinWorker
  <2>1. ~gateOpen /\ ("worker" \in started => todo["worker"] # <<>>)
    BY <1>1 DEF EarlyData, EarlyStacks
  <2> QED
    BY <2>1 DEF WaitGate, JoinWorker, Exited, Idle
<1>6. ASSUME WorkerMoves PROVE FALSE
  BY <1>2, <1>5, <1>6, OwnerShort DEF WorkerMoves, SenderLocks, SenderSends, Poll, LockClose,
     WorkerSendsClose, Receive, ReceiveFails, ReceiveClosed, NoteClosed, DeliverClosed,
     DestroyClient, FinishWorker, StartEntries
<1>7. ASSUME Loaded PROVE FALSE
  BY <1>1, <1>7 DEF Loaded, SenderCalled, Sendable, ReceiptReleased, KnownResultRuns,
     FailureSourceRuns, DeadlineExpires, LogicalSourceRuns, FinalizeWorker, EarlyData, Early
<1> QED
  BY <1>3, <1>4, <1>6, <1>7, NextCases

\* Once it is activated, or failed, no step goes back.
LEMMA LateMoves ==
  ASSUME TypeOK, EarlyOK, ~Early, [Next]_vars
  PROVE  /\ EarlyOK' /\ ~Early'
         /\ ~StartMoves /\ ~StartFails /\ ~ThreadFails /\ ~Activate /\ ~ActivationFails
<1>1. todo \in Stacks /\ Range(todo["owner"]) \cap StartEntries = {}
  BY DEF TypeOK, Stacks, EarlyOK, HasAny
<1>2. \A x \in StartEntries : ~At("owner", x)
  BY <1>1, AtHas, OwnerShort
<1>3. ~StartMoves /\ ~StartFails /\ ~ThreadFails /\ ~Activate /\ ~ActivationFails
  BY <1>2 DEF StartMoves, Start, Reserve, PrepareFinalizer, CreateClient, CreateWorker,
     CreateReaper, StartFails, ThreadFails, Activate, ActivationFails, StartEntries, Early
<1>4. phase \notin {"New", "Starting"}
  BY DEF Early
<1>5. ASSUME Keeps(StartEntries), phase' \notin {"New", "Starting"} PROVE EarlyOK' /\ ~Early'
  BY <1>1, <1>5, OwnerShort DEF EarlyOK, Early, Keeps, HasAny
<1>6. ASSUME NEW t \in Threads, FailureStep(t) PROVE EarlyOK' /\ ~Early'
  <2>1. Keeps(StartEntries)
    BY <1>6, FailureFootprints DEF FailureStep, Touches, StartEntries
  <2>2. phase' \in {phase, "Failed"}
    BY <1>6 DEF FailureStep, CompleteDelivery, FinishHandoff, HandOff, HandOffFails,
       ReportLogicalFailure, ScheduleLogicalSource, AttachFinalizer, MarkSendFailure, UnlockSend,
       SettleClosedDelivery, LeaveDelivery
  <2> QED
    BY <1>4, <1>5, <2>1, <2>2
<1>7. ASSUME OwnerMoves PROVE EarlyOK' /\ ~Early'
  <2>1. Keeps(StartEntries)
    BY <1>3, <1>7, OwnerFootprints DEF OwnerMoves, Touches, StartEntries
  <2>2. phase' \in {phase, "PhysicallyStopped", "CloseRequested"}
    BY <1>3, <1>4, <1>7 DEF OwnerMoves, InvokeFailure, InvokeCallbacks, CallbackReturns, OpenGate,
       CloseAfterStart, CloseEnters, CloseLocks, CloseQueues, OwnerSendsClose, InstallDeadline
  <2> QED
    BY <1>4, <1>5, <2>1, <2>2
<1>8. ASSUME WorkerMoves PROVE EarlyOK' /\ ~Early'
  <2>1. Keeps(StartEntries)
    BY <1>8, WorkerFootprints DEF WorkerMoves, Touches, StartEntries
  <2>2. phase' \in {phase, "Failed", "PhysicallyStopped"}
    BY <1>8 DEF WorkerMoves, SenderLocks, SenderSends, WaitGate, Poll, LockClose,
       WorkerSendsClose, Receive, ReceiveFails, ReceiveClosed, NoteClosed, DeliverClosed,
       DestroyClient, FinishWorker, JoinWorker
  <2> QED
    BY <1>4, <1>5, <2>1, <2>2
<1>9. ASSUME Loaded PROVE EarlyOK' /\ ~Early'
  <2>1. Keeps(StartEntries)
    BY <1>9, OwnerShort, LoadFootprints DEF Loaded, Touches, StartEntries
  <2>2. phase' \in {phase, "PhysicallyStopped"}
    BY <1>9 DEF Loaded, SenderCalled, ReceiptReleased, KnownResultRuns, FailureSourceRuns,
       DeadlineExpires, LogicalSourceRuns, FinalizeWorker
  <2> QED
    BY <1>4, <1>5, <2>1, <2>2
<1>10. ASSUME NEW own \in SUBSET (Callbacks \ passed), Close(own) PROVE EarlyOK' /\ ~Early'
  <2>1. Keeps(StartEntries)
    BY <1>10, CloseFootprint DEF Touches, StartEntries
  <2>2. phase' \in {phase, "PhysicallyStopped", "CloseRequested"}
    BY <1>10 DEF Close, CloseEnters
  <2> QED
    BY <1>4, <1>5, <2>1, <2>2
<1>11. ASSUME OtherSessionEnds \/ UNCHANGED vars PROVE EarlyOK' /\ ~Early'
  <2>1. Keeps(StartEntries)
    BY <1>11, StillFootprint DEF Touches
  <2>2. phase' = phase
    BY <1>11 DEF OtherSessionEnds, vars
  <2> QED
    BY <1>4, <1>5, <2>1, <2>2
<1> QED
  BY <1>3, <1>6, <1>7, <1>8, <1>9, <1>10, <1>11, NextCases

LEMMA OnlyEntry ==
  ASSUME NEW x, NEW a \in Entries
  PROVE  Tail(<<x>>) = <<>> /\ Head(<<x>>) = x /\ <<a>> \o <<>> = <<a>> /\ <<>> \o <<>> = <<>>
<1>1. <<a>> \in Seq(Entries) /\ <<>> \in Seq(Entries)
  BY ShortSeqs
<1>2. <<a>> \o <<>> = <<a>> /\ <<>> \o <<>> = <<>>
  BY <1>1, ConcatEmptySeq
<1> QED
  BY <1>2

\* start() moves from one of its entries to the next.
LEMMA StartTodo ==
  ASSUME TypeOK, EarlyOK, Early
  PROVE  /\ \A x : At("owner", x) => todo["owner"] = <<x>> /\ phase = "Starting"
         /\ \A x : \A a \in Entries : At("owner", x) /\ Continue("owner", <<a>>)
              => todo' = [todo EXCEPT !["owner"] = <<a>>]
         /\ \A x : At("owner", x) /\ Continue("owner", <<>>)
              => todo' = [todo EXCEPT !["owner"] = <<>>]
<1>1. EarlyStacks
  BY DEF EarlyOK
<1>2. ASSUME NEW x, At("owner", x) PROVE todo["owner"] = <<x>> /\ phase = "Starting"
  <2>1. phase # "New"
    BY <1>1, <1>2 DEF EarlyStacks, At
  <2>2. PICK e \in StartEntries : todo["owner"] = <<e>>
    BY <1>1, <2>1 DEF EarlyStacks, Early
  <2> QED
    BY <1>2, <2>1, <2>2 DEF At, Early
<1>3. ASSUME NEW x, NEW a \in Entries, At("owner", x), Continue("owner", <<a>>)
      PROVE  todo' = [todo EXCEPT !["owner"] = <<a>>]
  BY <1>2, <1>3, OnlyEntry DEF Continue
<1>4. ASSUME NEW x, At("owner", x), Continue("owner", <<>>)
      PROVE  todo' = [todo EXCEPT !["owner"] = <<>>]
  <2>1. "inCallback" \in Entries
    BY DEF Entries
  <2> QED
    BY <1>2, <1>4, <2>1, OnlyEntry DEF Continue
<1> QED
  BY <1>2, <1>3, <1>4

LEMMA EarlyProgressNext ==
  ASSUME NEW x, todo'["owner"] = <<x>>,
         x \in {"reserve", "prepareFinalizer", "createClient"} =>
           ~client' /\ started' = {} /\ ~failureCallback',
         x = "reserve" => registry' # "own",
         x # "reserve" => registry' = "own",
         x = "createWorker" => started' = {},
         x = "createReaper" => started' = {"worker"},
         x = "activate" => started' = {"worker", "reaper"},
         x \in {"createClient", "createWorker", "createReaper", "activate"}
           => finalizer' = "prepared"
  PROVE  EarlyProgress'
<1>1. /\ todo'["owner"] # <<>> /\ Head(todo'["owner"]) = x /\ Range(todo'["owner"]) = {x}
  BY ShortRanges
<1> QED
  BY <1>1 DEF EarlyProgress, At, Idle, HasAny, StartEntries

LEMMA EarlyStart ==
  ASSUME TypeOK, EarlyOK, Early, StartMoves
  PROVE  EarlyOK' /\ Early'
<1>1. todo \in Stacks /\ EarlyStacks /\ EarlyData /\ EarlyProgress
  BY DEF TypeOK, Stacks, EarlyOK
<1>2. {"reserve", "prepareFinalizer", "createClient", "createWorker", "createReaper", "activate",
       "waitGate", "joinWorker"} \subseteq Entries
  BY DEF Entries
<1>3. \A x : At("owner", x) => todo["owner"] = <<x>> /\ phase = "Starting"
  BY StartTodo
<1>4. \A x : At("owner", x) => HasAny("owner", {x}) /\ (x \in StartEntries /\ x # "reserve" => HasAny("owner", StartEntries \ {"reserve"}))
  BY <1>1, AtHas, OwnerShort DEF HasAny
<1> USE DEF resultVars, threadVars, receiptVars, sourceVars, callbackVars, historyVars
<1>5. CASE Start
  <2>1. /\ todo' = [todo EXCEPT !["owner"] = <<"reserve">>] /\ phase' = "Starting"
        /\ phase = "New" /\ Idle("owner")
    BY <1>5 DEF Start
  <2>2. todo'["owner"] = <<"reserve">> /\ \A t \in Threads : t # "owner" => todo'[t] = todo[t]
    BY <1>1, <2>1, OwnerShort DEF Stacks
  <2>3. EarlyStacks'
    BY <1>1, <1>5, <2>1, <2>2, OwnerShort DEF Start, EarlyStacks, StartEntries
  <2>4. EarlyData'
    BY <1>1, <1>5 DEF Start, EarlyData
  <2>5. EarlyProgress'
    BY <1>1, <1>5, <2>1, <2>2, EarlyProgressNext DEF Start, EarlyProgress, EarlyStacks
  <2> QED
    BY <2>1, <2>3, <2>4, <2>5 DEF EarlyOK, Early
<1>6. CASE Reserve /\ registry = "none"
  <2>1. /\ At("owner", "reserve") /\ Continue("owner", <<"prepareFinalizer">>) /\ phase' = phase
        /\ registry' = "own"
    BY <1>6 DEF Reserve
  <2>2. todo' = [todo EXCEPT !["owner"] = <<"prepareFinalizer">>]
    BY <1>2, <2>1, StartTodo
  <2>3. /\ todo'["owner"] = <<"prepareFinalizer">> /\ phase = "Starting"
        /\ \A t \in Threads : t # "owner" => todo'[t] = todo[t]
    BY <1>1, <1>3, <2>1, <2>2, OwnerShort DEF Stacks
  <2>4. EarlyStacks'
    BY <1>1, <1>6, <2>1, <2>3, OwnerShort DEF Reserve, EarlyStacks, StartEntries
  <2>5. EarlyData'
    BY <1>1, <1>6 DEF Reserve, EarlyData
  <2>6. EarlyProgress'
    BY <1>1, <1>6, <2>1, <2>3, EarlyProgressNext DEF Reserve, EarlyProgress
  <2> QED
    BY <2>1, <2>3, <2>4, <2>5, <2>6 DEF EarlyOK, Early
<1>7. CASE Reserve /\ registry # "none"
  <2>1. /\ At("owner", "reserve") /\ Continue("owner", <<>>) /\ phase' = "New"
        /\ registry' = "other"
    BY <1>7 DEF Reserve
  <2>2. todo' = [todo EXCEPT !["owner"] = <<>>]
    BY <2>1, StartTodo
  <2>3. todo'["owner"] = <<>> /\ \A t \in Threads : t # "owner" => todo'[t] = todo[t]
    BY <1>1, <2>2, OwnerShort DEF Stacks
  <2>4. EarlyStacks'
    BY <1>1, <1>7, <2>1, <2>3, OwnerShort DEF Reserve, EarlyStacks
  <2>5. EarlyData'
    BY <1>1, <1>7 DEF Reserve, EarlyData
  <2>6. ~client' /\ started' = {} /\ ~failureCallback'
    BY <1>1, <1>7, <2>1 DEF Reserve, EarlyProgress
  <2>7. EarlyProgress'
    BY <2>3, <2>6, ShortRanges DEF EarlyProgress, At, Idle, HasAny
  <2> QED
    BY <2>1, <2>4, <2>5, <2>7 DEF EarlyOK, Early
<1>8. CASE PrepareFinalizer
  <2>1. /\ At("owner", "prepareFinalizer") /\ Continue("owner", <<"createClient">>)
        /\ phase' = phase /\ registry = "own"
    BY <1>1, <1>4, <1>8 DEF PrepareFinalizer, EarlyProgress, StartEntries
  <2>2. todo' = [todo EXCEPT !["owner"] = <<"createClient">>]
    BY <1>2, <2>1, StartTodo
  <2>3. /\ todo'["owner"] = <<"createClient">> /\ phase = "Starting"
        /\ \A t \in Threads : t # "owner" => todo'[t] = todo[t]
    BY <1>1, <1>3, <2>1, <2>2, OwnerShort DEF Stacks
  <2>4. EarlyStacks'
    BY <1>1, <1>8, <2>1, <2>3, OwnerShort DEF PrepareFinalizer, EarlyStacks, StartEntries
  <2>5. EarlyData'
    BY <1>1, <1>8 DEF PrepareFinalizer, EarlyData
  <2>6. EarlyProgress'
    BY <1>1, <1>8, <2>1, <2>3, EarlyProgressNext DEF PrepareFinalizer, EarlyProgress
  <2> QED
    BY <2>1, <2>3, <2>4, <2>5, <2>6 DEF EarlyOK, Early
<1>9. CASE CreateClient
  <2>1. /\ At("owner", "createClient") /\ Continue("owner", <<"createWorker">>)
        /\ phase' = phase /\ registry = "own" /\ finalizer = "prepared"
    BY <1>1, <1>4, <1>9 DEF CreateClient, EarlyProgress, StartEntries, HasAny
  <2>2. todo' = [todo EXCEPT !["owner"] = <<"createWorker">>]
    BY <1>2, <2>1, StartTodo
  <2>3. /\ todo'["owner"] = <<"createWorker">> /\ phase = "Starting"
        /\ \A t \in Threads : t # "owner" => todo'[t] = todo[t]
    BY <1>1, <1>3, <2>1, <2>2, OwnerShort DEF Stacks
  <2>4. EarlyStacks'
    BY <1>1, <1>9, <2>1, <2>3, OwnerShort DEF CreateClient, EarlyStacks, StartEntries
  <2>5. EarlyData'
    BY <1>1, <1>9 DEF CreateClient, EarlyData
  <2>6. EarlyProgress'
    BY <1>1, <1>9, <2>1, <2>3, EarlyProgressNext DEF CreateClient, EarlyProgress
  <2> QED
    BY <2>1, <2>3, <2>4, <2>5, <2>6 DEF EarlyOK, Early
<1>10. CASE CreateWorker
  <2>1. /\ At("owner", "createWorker") /\ phase' = phase /\ registry = "own"
        /\ finalizer = "prepared" /\ started = {} /\ started' = {"worker"}
        /\ todo' = [todo EXCEPT !["owner"] = <<"createReaper">> \o Tail(@),
                               !["worker"] = <<"waitGate">>]
    BY <1>1, <1>4, <1>10 DEF CreateWorker, EarlyProgress, StartEntries, HasAny
  <2>2. <<"createReaper">> \o Tail(todo["owner"]) = <<"createReaper">>
    BY <1>2, <1>3, <2>1, OnlyEntry, ZenonT(40)
  <2>3. /\ todo'["owner"] = <<"createReaper">> /\ phase = "Starting"
        /\ todo'["worker"] = <<"waitGate">>
        /\ \A t \in Threads : t \notin {"owner", "worker"} => todo'[t] = todo[t]
    BY <1>1, <1>3, <2>1, <2>2, OwnerShort DEF Stacks
  <2>4. EarlyStacks'
    BY <1>1, <2>1, <2>3, OwnerShort DEF EarlyStacks, StartEntries
  <2>5. EarlyData'
    BY <1>1, <1>10 DEF CreateWorker, EarlyData
  <2>6. EarlyProgress'
    BY <1>1, <1>10, <2>1, <2>3, EarlyProgressNext DEF CreateWorker, EarlyProgress
  <2> QED
    BY <2>1, <2>3, <2>4, <2>5, <2>6 DEF EarlyOK, Early
<1>11. CASE CreateReaper
  <2>1. /\ At("owner", "createReaper") /\ phase' = phase /\ registry = "own"
        /\ finalizer = "prepared" /\ started = {"worker"} /\ started' = {"worker", "reaper"}
        /\ todo' = [todo EXCEPT !["owner"] = <<"activate">> \o Tail(@),
                               !["reaper"] = <<"joinWorker">>]
    BY <1>1, <1>4, <1>11 DEF CreateReaper, EarlyProgress, StartEntries, HasAny
  <2>2. <<"activate">> \o Tail(todo["owner"]) = <<"activate">>
    BY <1>2, <1>3, <2>1, OnlyEntry
  <2>3. /\ todo'["owner"] = <<"activate">> /\ phase = "Starting"
        /\ todo'["reaper"] = <<"joinWorker">>
        /\ \A t \in Threads : t \notin {"owner", "reaper"} => todo'[t] = todo[t]
    BY <1>1, <1>3, <2>1, <2>2, OwnerShort DEF Stacks
  <2>4. EarlyStacks'
    BY <1>1, <2>1, <2>3, OwnerShort DEF EarlyStacks, StartEntries
  <2>5. EarlyData'
    BY <1>1, <1>11 DEF CreateReaper, EarlyData
  <2>6. EarlyProgress'
    BY <1>1, <1>11, <2>1, <2>3, EarlyProgressNext DEF CreateReaper, EarlyProgress
  <2> QED
    BY <2>1, <2>3, <2>4, <2>5, <2>6 DEF EarlyOK, Early
<1> QED
  BY <1>5, <1>6, <1>7, <1>8, <1>9, <1>10, <1>11 DEF StartMoves

LEMMA CloseNothing ==
  ASSUME todo \in Stacks, deadline \in BOOLEAN, NEW own, Close(own), CloseEntries = {}
  PROVE  todo' = todo
<1> DEFINE s == todo["owner"]
<1>1. s \in Seq(Entries) /\ CloseEnters(own, s)
  BY OwnerShort DEF Stacks, Close
<1>2. PICK e \in Seq(Entries) : Spells(e, CloseEntries) /\ todo' = [todo EXCEPT !["owner"] = e \o s]
  BY <1>1, CloseEntersEffects
<1>3. e = <<>>
  <2>1. Range(e) = {}
    BY <1>2 DEF Spells
  <2> QED
    BY <2>1, EmptyRange
<1>4. e \o s = s
  BY <1>1, <1>3, ConcatEmptySeq
<1> QED
  BY <1>2, <1>4 DEF Stacks

\* close() while nothing was started, or by a factory that start() calls.
LEMMA EarlyClose ==
  ASSUME TypeOK, EarlyOK, Early, NEW own, Close(own)
  PROVE  EarlyOK'
<1>1. todo \in Stacks /\ deadline \in BOOLEAN /\ EarlyStacks /\ EarlyData /\ EarlyProgress
  BY DEF TypeOK, Stacks, EarlyOK
<1>2. "logicalResultReported" \notin flags /\ "physicalFinished" \notin flags
  BY <1>1 DEF EarlyData
<1>3. CloseEnters(own, todo["owner"])
  BY DEF Close
<1>4. CloseEntries = {}
  BY <1>2 DEF CloseEntries, CloseBegins, CloseFailed, CloseWaits, Cond, Early
<1>5. todo' = todo
  BY <1>1, <1>4, CloseNothing
<1>6. CASE phase = "New"
  <2>1. phase' = "PhysicallyStopped"
    BY <1>2, <1>3, <1>6 DEF CloseEnters
  <2>2. Range(todo["owner"]) = {}
    BY <1>1, <1>6, ShortRanges DEF EarlyStacks
  <2> QED
    BY <1>5, <2>1, <2>2 DEF EarlyOK, Early, HasAny
<1>7. CASE phase = "Starting"
  <2>1. /\ phase' = "Starting" /\ flags' = flags \cup {"closeRequestedDuringStart"}
        /\ closeCallbacks' = closeCallbacks \cup own /\ passed' = passed \cup own
        /\ UNCHANGED <<logicalResult, knownResults>>
    BY <1>2, <1>3, <1>7 DEF CloseEnters, Close
  <2>2. UNCHANGED <<physicalResult, threadVars, receiptVars, deadline, failureSource,
                    logicalSources, finalizer, failureCallback, invoking, reports,
                    failureCalls, closeRequests>>
    BY <1>3 DEF CloseEnters
  <2>3. EarlyStacks'
    BY <1>1, <1>5, <1>7, <2>1, <2>2 DEF EarlyStacks, threadVars
  <2>4. EarlyData'
    BY <1>1, <2>1, <2>2 DEF EarlyData, threadVars, receiptVars
  <2>5. EarlyProgress'
    BY <1>1, <1>5, <2>2 DEF EarlyProgress, threadVars, At, Idle, HasAny
  <2> QED
    BY <1>7, <2>1, <2>3, <2>4, <2>5 DEF EarlyOK, Early
<1> QED
  BY <1>6, <1>7 DEF Early

\* The phase ends with start(), whatever becomes of it.
LEMMA EarlyLeaves ==
  ASSUME TypeOK, EarlyOK, Early, StartFails \/ ThreadFails \/ Activate \/ ActivationFails
  PROVE  EarlyOK' /\ ~Early' /\ Range(todo["owner"]) = {Head(todo["owner"])}
<1>1. todo \in Stacks /\ client \in BOOLEAN
  BY DEF TypeOK, Stacks
<1>2. PICK x : At("owner", x)
  BY DEF StartFails, ThreadFails, Activate, ActivationFails
<1>3. todo["owner"] = <<x>>
  BY <1>2, StartTodo
<1>4. Range(todo["owner"]) = {Head(todo["owner"])} /\ Range(Tail(todo["owner"])) = {}
  BY <1>3, ShortRanges, OnlyEntry, Names
<1>5. \E E : Step("owner", E) /\ E \cap StartEntries = {}
  BY <1>1, SimpleEffects, StartAndCloseEffects DEF Cond, StartEntries
<1>6. Range(todo'["owner"]) \cap StartEntries = {}
  BY <1>1, <1>4, <1>5, StepFacts, OwnerShort
<1>7. phase' \in {"Failed", "Running"}
  BY DEF StartFails, ThreadFails, Activate, ActivationFails
<1> QED
  BY <1>4, <1>6, <1>7 DEF EarlyOK, Early, HasAny

LEMMA EarlyStep ==
  ASSUME TypeOK, EarlyOK, [Next]_vars
  PROVE  EarlyOK'
<1>1. CASE ~Early
  BY <1>1, LateMoves
<1>2. CASE Early /\ UNCHANGED vars
  BY <1>2 DEF vars, resultVars, threadVars, receiptVars, sourceVars, callbackVars, historyVars,
     EarlyOK, Early, EarlyStacks, EarlyData, EarlyProgress, At, Idle, HasAny
<1>3. CASE Early /\ OtherSessionEnds
  <2>1. UNCHANGED <<phase, flags, resultVars, client, sendMutex, gateOpen, started,
                    receiptVars, sourceVars, callbackVars, historyVars, todo, closing>>
        /\ registry = "other" /\ registry' = "none"
    BY <1>3 DEF OtherSessionEnds
  <2>2. EarlyStacks' /\ EarlyData'
    BY <1>3, <2>1 DEF EarlyOK, EarlyStacks, EarlyData, resultVars, receiptVars, sourceVars,
       callbackVars, historyVars
  <2>3. EarlyProgress'
    BY <1>3, <2>1 DEF EarlyOK, EarlyProgress, sourceVars, callbackVars, At, Idle, HasAny
  <2> QED
    BY <1>3, <2>1, <2>2, <2>3 DEF EarlyOK, Early
<1> QED
  BY <1>1, <1>2, <1>3, EarlyMoves, EarlyClose, EarlyLeaves, EarlyStart

\* Until then the rest of the invariant says nothing new.
LEMMA EarlyState == TypeOK /\ EarlyOK /\ Early =>
  ThreadsOK /\ LockOK /\ ReceiptOK /\ FinalizerOK /\ RegistryOK
<1> SUFFICES ASSUME TypeOK, EarlyOK, Early
             PROVE  ThreadsOK /\ LockOK /\ ReceiptOK /\ FinalizerOK /\ RegistryOK
  OBVIOUS
<1>1. EarlyStacks /\ EarlyData /\ EarlyProgress
  BY DEF EarlyOK
<1>2. \A S : S \cap (StartEntries \cup {"waitGate", "joinWorker"}) = {} =>
        Nowhere(S, todo) /\ Alone(S, todo)
  BY EarlyNowhere
<1>3. flags \cap Flags \subseteq {"closeRequestedDuringStart"}
  BY <1>1 DEF EarlyData
<1>4. ThreadsOK
  <2>1. ~Has("worker", "finish")
    BY EarlyRanges DEF Has
  <2>2. Based(<<"waitGate">>)
    BY DEF Based, WorkerBase, WorkerEarly
  <2>3. todo["worker"] # <<>> => Based(todo["worker"])
    BY <1>1, <2>2 DEF EarlyStacks
  <2> QED
    BY <1>1, <2>1, <2>3 DEF ThreadsOK, EarlyStacks, EarlyData
<1>5. LockOK
  <2>1. Nowhere(Critical, todo) /\ Alone(Critical, todo)
    BY <1>2 DEF Critical, StartEntries
  <2>2. \A t \in Threads :
          ~HasAny(t, Critical) /\ ~HasAny(t, {"send", "sendClose"}) /\ ~Has(t, "sendClose")
    BY <2>1 DEF Nowhere, HasAny, Has, Critical
  <2>3. closeRequests = 0 /\ closeRequests <= 1 /\ "closeQueued" \notin flags
    BY <1>1 DEF EarlyData
  <2> QED
    BY <2>1, <2>2, <2>3 DEF LockOK
<1>6. ReceiptOK
  <2>1. Nowhere({"settle"}, todo) /\ Alone({"settle"}, todo) /\ Nowhere({"deliverClosed"}, todo)
    BY <1>2 DEF StartEntries
  <2> QED
    BY <1>1, <2>1, OwnerShort DEF ReceiptOK, EarlyData, Nowhere, HasAny, Has
<1>7. \A x \in StartEntries : At("owner", x) => HasAny("owner", {x})
  BY AtHas, OwnerShort DEF TypeOK, Stacks, HasAny
<1>8. Idle("owner") \/ \E x \in StartEntries : At("owner", x)
  BY <1>1 DEF EarlyStacks, Early, Idle, At
<1>9. FinalizerOK
  <2>1. Nowhere({"attachFinalizer"}, todo) /\ Alone({"attachFinalizer"}, todo)
    BY <1>2 DEF StartEntries
  <2>2. "reaper" \in started => finalizer = "prepared"
    BY <1>1, <1>7, <1>8 DEF EarlyProgress, StartEntries, HasAny
  <2> QED
    BY <1>1, <2>1, <2>2 DEF FinalizerOK, EarlyData, Nowhere, Has
<1>10. RegistryOK
  <2>1. Nowhere({"settle"}, todo)
    BY <1>2 DEF StartEntries
  <2>2. registry # "own" => ~client /\ started = {}
    BY <1>1, <1>7, <1>8 DEF EarlyProgress, StartEntries, HasAny
  <2> QED
    BY <1>1, <2>1, <2>2 DEF RegistryOK, EarlyData, Nowhere, Has
<1> QED
  BY <1>4, <1>5, <1>6, <1>9, <1>10

-----------------------------------------------------------------------------
(* The threads *)

\* Only start() creates threads, and nothing else makes a thread that has not started, or
\* has exited, do anything.
LEMMA OneThreadMoves ==
  ASSUME TypeOK, [Next]_vars, ~StartMoves
  PROVE  \E t \in Threads : /\ \A u \in Threads : u # t => todo'[u] = todo[u]
                            /\ t \in {"worker", "reaper"} => todo[t] # <<>>
                            /\ t = "worker" => FailureStep("worker") \/ WorkerMoves
<1> DEFINE Moves(t) == /\ \A u \in Threads : u # t => todo'[u] = todo[u]
                       /\ t \in {"worker", "reaper"} => todo[t] # <<>>
<1>1. todo \in Stacks
  BY DEF TypeOK, Stacks
<1>2. \A t \in Threads : \A x, e : At(t, x) /\ Continue(t, e) => Moves(t)
  BY <1>1 DEF At, Continue, Stacks
<1>3. \A e : todo' = [todo EXCEPT !["owner"] = e] => Moves("owner")
  BY <1>1, OwnerShort DEF Stacks
<1>4. ASSUME NEW t \in Threads, FailureStep(t) PROVE Moves(t)
  <2>1. \E x, e : At(t, x) /\ Continue(t, e)
    BY <1>4 DEF FailureStep, CompleteDelivery, FinishHandoff, HandOff, HandOffFails,
       ReportLogicalFailure, ScheduleLogicalSource, AttachFinalizer, MarkSendFailure, UnlockSend,
       SettleClosedDelivery, LeaveDelivery, ReleaseAfterHandoff
  <2> QED
    BY <1>2, <2>1
<1>5. ASSUME OwnerMoves PROVE Moves("owner")
  <2>1. CASE CloseAfterStart
    BY <1>3, <2>1 DEF CloseAfterStart, CloseEnters
  <2>2. CASE ~CloseAfterStart
    <3>1. \E x, e : At("owner", x) /\ Continue("owner", e)
      BY <1>5, <2>2 DEF OwnerMoves, InvokeFailure, InvokeCallbacks, CallbackReturns, StartFails,
         ThreadFails, Activate, ActivationFails, OpenGate, CloseLocks, CloseQueues,
         OwnerSendsClose, InstallDeadline
    <3> QED
      BY <1>2, <3>1, OwnerShort
  <2> QED
    BY <2>1, <2>2
<1>6. ASSUME WorkerMoves PROVE Moves("worker") \/ Moves("reaper") \/ Moves("sender")
  <2>1. \E t \in {"worker", "reaper", "sender"} : \E x, e : At(t, x) /\ Continue(t, e)
    BY <1>6 DEF WorkerMoves, SenderLocks, SenderSends, WaitGate, Poll, LockClose,
       WorkerSendsClose, Receive, ReceiveFails, ReceiveClosed, NoteClosed, DeliverClosed,
       DestroyClient, FinishWorker, JoinWorker
  <2> QED
    BY <1>2, <2>1, OwnerShort
<1>7. ASSUME Loaded PROVE \E t \in {"owner", "sender", "helper"} : Moves(t)
  <2>1. todo' = todo \/ \E t \in {"owner", "sender", "helper"} : \E e : todo' = [todo EXCEPT ![t] = e]
    BY <1>7 DEF Loaded, SenderCalled, ReceiptReleased, KnownResultRuns, FailureSourceRuns,
       DeadlineExpires, LogicalSourceRuns, FinalizeWorker, TakeCallbacks
  <2> QED
    BY <1>1, <2>1, OwnerShort DEF Stacks
<1>8. ASSUME NEW own \in SUBSET (Callbacks \ passed), Close(own) PROVE Moves("owner")
  BY <1>3, <1>8 DEF Close, CloseEnters
<1>9. ASSUME OtherSessionEnds \/ UNCHANGED vars PROVE Moves("owner")
  BY <1>9 DEF OtherSessionEnds, vars
<1> QED
  BY <1>4, <1>5, <1>6, <1>7, <1>8, <1>9, NextCases, OwnerShort

\* What failure delivery puts on stacks, and takes off them.
FailureEntries ==
  {"complete", "completeUnexpected", "finishHandoff", "finishUnexpected", "handOff",
   "handOffUnexpected", "reportLogicalFailure", "scheduleLogical", "attachFinalizer",
   "markSendFailure", "unlockSend", "settle", "leaveDelivery", "failureCallback"}

LEMMA FailureSteps ==
  ASSUME TypeOK, NEW t \in Threads, FailureStep(t)
  PROVE  \E E : Step(t, E) /\ E \subseteq FailureEntries /\ Head(todo[t]) \in FailureEntries
<1>1. todo \in Stacks /\ failureCallback \in BOOLEAN
  BY DEF TypeOK, Stacks
<1>2. Head(todo[t]) \in FailureEntries
  BY DEF FailureStep, CompleteDelivery, FinishHandoff, HandOff, HandOffFails,
     ReportLogicalFailure, ScheduleLogicalSource, AttachFinalizer, MarkSendFailure, UnlockSend,
     SettleClosedDelivery, LeaveDelivery, At, FailureEntries
<1>3. \A c, x : x \in FailureEntries => Cond(c, x) \subseteq FailureEntries
  BY DEF Cond
<1>4. ASSUME CompleteDelivery(t) \/ HandOffFails(t)
      PROVE  \E E : Step(t, E) /\ E \subseteq FailureEntries
  <2>1. Step(t, {}) \/ Step(t, Cond(Schedules, "scheduleLogical") \cup Cond(Claims, "attachFinalizer"))
    BY <1>1, <1>4, CompleteEffects, RefusedEffects DEF Releases
  <2> QED
    BY <1>3, <2>1 DEF FailureEntries
<1>5. ASSUME FinishHandoff(t) PROVE \E E : Step(t, E) /\ E \subseteq FailureEntries
  <2>1. \E E \in {{}, {"complete"}, {"completeUnexpected"}, {"handOff"}, {"handOffUnexpected"},
                  {"failureCallback", "completeUnexpected"}} : Step(t, E)
    BY <1>1, <1>5, FinishEffects
  <2> QED
    BY <2>1 DEF FailureEntries
<1>6. ASSUME ReportLogicalFailure(t) PROVE \E E : Step(t, E) /\ E \subseteq FailureEntries
  <2>1. Step(t, Cond(Schedules, "scheduleLogical"))
    BY <1>1, <1>6, LogicalEffects
  <2> QED
    BY <1>3, <2>1 DEF FailureEntries
<1>7. ASSUME MarkSendFailure(t) PROVE \E E : Step(t, E) /\ E \subseteq FailureEntries
  <2>1. Step(t, {})
        \/ Step(t, Cond(CanBeginHandoff(flags), "finishHandoff") \cup {"reportLogicalFailure"})
    BY <1>1, <1>7, MarkEffects
  <2> QED
    BY <1>3, <2>1 DEF FailureEntries
<1>8. ASSUME SettleClosedDelivery(t) PROVE \E E : Step(t, E) /\ E \subseteq FailureEntries
  <2>1. Step(t, {"finishUnexpected", "leaveDelivery"})
        \/ Step(t, Cond(Claims, "attachFinalizer") \cup {"leaveDelivery"})
    BY <1>1, <1>8, SettleEffects
  <2> QED
    BY <1>3, <2>1 DEF FailureEntries
<1>9. ASSUME HandOff(t) \/ ScheduleLogicalSource(t) \/ AttachFinalizer(t) \/ UnlockSend(t)
             \/ LeaveDelivery(t)
      PROVE  \E E : Step(t, E) /\ E \subseteq FailureEntries
  <2>1. Step(t, {}) \/ Step(t, {"reportLogicalFailure"})
    BY <1>1, <1>9, OtherFailureEffects
  <2> QED
    BY <2>1 DEF FailureEntries
<1> QED
  BY <1>2, <1>4, <1>5, <1>6, <1>7, <1>8, <1>9 DEF FailureStep

LEMMA SpellsOne ==
  ASSUME NEW e, NEW x, Spells(e, {x})
  PROVE  e = <<x>> /\ x \in Entries
<1>1. e \in Seq(Entries) /\ Range(e) = {x} /\ Single({x}, e)
  BY DEF Spells
<1>2. DOMAIN e = 1 .. Len(e) /\ Len(e) \in Nat
  BY <1>1, LenProperties
<1>3. \A i \in 1 .. Len(e) : e[i] = x
  BY <1>1, <1>2 DEF Range
<1>4. Len(e) # 0
  BY <1>1, <1>2 DEF Range
<1>5. Len(e) <= 1
  <2> SUFFICES ASSUME 2 <= Len(e) PROVE FALSE
    BY <1>2
  <2>1. 1 \in DOMAIN e /\ 2 \in DOMAIN e /\ e[1] \in {x} /\ e[2] \in {x}
    BY <1>2, <1>3
  <2> QED
    BY <1>1, <2>1 DEF Single
<1>6. Len(e) = 1 /\ e[1] = x /\ x \in Entries
  BY <1>1, <1>2, <1>3, <1>4, <1>5
<1>7. <<x>> \in Seq(Entries) /\ Len(<<x>>) = 1 /\ <<x>>[1] = x
  BY <1>6, ShortSeqs
<1>8. \A i \in 1 .. Len(e) : e[i] = <<x>>[i]
  BY <1>6, <1>7
<1>9. e = <<x>>
  BY <1>1, <1>6, <1>7, <1>8, SeqEqual
<1> QED
  BY <1>6, <1>9

LEMMA BasedTop ==
  ASSUME NEW s \in Seq(Entries), Based(s), Head(s) \in WorkerBase
  PROVE  Tail(s) = <<>>
<1>1. /\ Len(s) \in Nat /\ Len(s) >= 1 /\ DOMAIN s = 1 .. Len(s) /\ Head(s) = s[1]
      /\ Tail(s) \in Seq(Entries) /\ Len(Tail(s)) = Len(s) - 1
  BY LenProperties, EmptySeq, HeadTailProperties DEF Based
<1>2. Len(s) = 1
  BY <1>1 DEF Based
<1> DEFINE r == Tail(s)
<1>3. r \in Seq(Entries) /\ Len(r) = Len(s) - 1
  BY <1>1
<1> HIDE DEF r
<1>4. r = <<>>
  BY <1>2, <1>3, EmptySeq
<1> QED
  BY <1>4 DEF r

LEMMA BasedTail ==
  ASSUME NEW s \in Seq(Entries), Based(s), Head(s) \notin WorkerBase
  PROVE  Tail(s) \in Seq(Entries) /\ Based(Tail(s))
<1> DEFINE r == Tail(s)
<1>1. /\ Len(s) \in Nat /\ Len(s) >= 1 /\ DOMAIN s = 1 .. Len(s) /\ Head(s) = s[1]
      /\ r \in Seq(Entries) /\ Len(r) = Len(s) - 1 /\ DOMAIN r = 1 .. Len(r)
      /\ \A i \in 1 .. Len(r) : r[i] = s[i + 1]
  BY LenProperties, EmptySeq, HeadTailProperties DEF Based
<1>2. Len(s) > 1
  BY <1>1 DEF Based
<1>3. r[Len(r)] = s[Len(s)] /\ Len(r) >= 1
  BY <1>1, <1>2
<1> HIDE DEF r
<1>4. ASSUME NEW i \in 1 .. Len(r), i # Len(r) PROVE r[i] \notin WorkerBase
  <2>1. ASSUME NEW m \in Nat, NEW n \in Nat, m = n - 1, NEW k \in 1 .. m, k # m
        PROVE  k + 1 \in 1 .. n /\ k + 1 # n
    BY <2>1, SMT
  <2>2. Len(r) \in Nat /\ Len(s) \in Nat /\ Len(r) = Len(s) - 1 /\ DOMAIN s = 1 .. Len(s)
    BY <1>1, LenProperties
  <2>3. r[i] = s[i + 1]
    BY <1>1, Zenon
  <2>4. i + 1 \in DOMAIN s /\ i + 1 # Len(s)
    <3>1. i + 1 \in 1 .. Len(s) /\ i + 1 # Len(s)
      BY <1>4, <2>1, <2>2, Zenon
    <3> QED
      BY <2>2, <3>1
  <2> QED
    BY <2>3, <2>4 DEF Based
<1>5. r # <<>>
  BY <1>3, EmptySeq
<1>6. Based(r)
  <2>1. Len(r) >= 1 /\ DOMAIN r = 1 .. Len(r) /\ r[Len(r)] \in WorkerBase
    BY <1>1, <1>3 DEF Based
  <2>2. \A i \in DOMAIN r : i # Len(r) => r[i] \notin WorkerBase
    BY <1>4, <2>1, Zenon
  <2> QED
    BY <1>5, <2>1, <2>2 DEF Based
<1>7. r \in Seq(Entries)
  BY <1>1
<1> QED
  BY <1>6, <1>7, Zenon DEF r

LEMMA BasedConcat ==
  ASSUME NEW e \in Seq(Entries), NEW r \in Seq(Entries), Based(r),
         Range(e) \cap WorkerBase = {}
  PROVE  Based(e \o r)
<1>1. Len(r) \in Nat /\ Len(r) >= 1 /\ Len(e) \in Nat /\ DOMAIN r = 1 .. Len(r)
  BY LenProperties, EmptySeq DEF Based
<1>2. /\ e \o r \in Seq(Entries) /\ Len(e \o r) = Len(e) + Len(r)
      /\ \A i \in 1 .. Len(e) + Len(r) :
           (e \o r)[i] = IF i <= Len(e) THEN e[i] ELSE r[i - Len(e)]
  BY ConcatProperties
<1>3. DOMAIN (e \o r) = 1 .. Len(e \o r)
  BY <1>2, LenProperties
<1>4. \A i \in 1 .. Len(e) : e[i] \notin WorkerBase
  BY LenProperties DEF Range
<1>5. (e \o r)[Len(e \o r)] = r[Len(r)] /\ e \o r # <<>>
  BY <1>1, <1>2, EmptySeq
<1>6. ASSUME NEW i \in DOMAIN (e \o r), i # Len(e \o r) PROVE (e \o r)[i] \notin WorkerBase
  <2>1. CASE i <= Len(e)
    BY <1>1, <1>2, <1>3, <1>4, <2>1
  <2>2. CASE i > Len(e)
    <3>1. i - Len(e) \in 1 .. Len(r) /\ i - Len(e) # Len(r) /\ (e \o r)[i] = r[i - Len(e)]
      BY <1>1, <1>2, <1>3, <1>6, <2>2, SMTT(30)
    <3> QED
      BY <1>1, <3>1 DEF Based
  <2> QED
    BY <1>1, <1>2, <1>3, <2>1, <2>2
<1>7. r[Len(r)] \in WorkerBase
  BY DEF Based
<1> QED
  BY <1>5, <1>6, <1>7 DEF Based

LEMMA BasedShort ==
  /\ \A x \in WorkerBase : Based(<<x>>)
  /\ \A a : \A x \in WorkerBase : a \notin WorkerBase => Based(<<a, x>>)
  /\ \A a, b : \A x \in WorkerBase :
       a \notin WorkerBase /\ b \notin WorkerBase => Based(<<a, b, x>>)
BY DEF Based

\* The worker ends its round with one of its own entries, until it exits.
LEMMA WorkerShape ==
  ASSUME TypeOK, todo["worker"] # <<>> => Based(todo["worker"]), [Next]_vars, ~StartMoves
  PROVE  /\ todo'["worker"] # <<>> => Based(todo'["worker"])
         /\ todo["worker"] # <<>> /\ todo'["worker"] = <<>> => FinishWorker
         /\ FinishWorker => todo["worker"] # <<>> /\ todo'["worker"] = <<>>
<1> DEFINE s == todo["worker"]
           Shaped == /\ todo'["worker"] # <<>> => Based(todo'["worker"])
                     /\ todo["worker"] # <<>> /\ todo'["worker"] = <<>> => FinishWorker
<1>1. todo \in Stacks /\ s \in Seq(Entries)
  BY OwnerShort DEF TypeOK, Stacks
<1>2. ASSUME FailureStep("worker") PROVE Shaped
  <2>1. PICK E : /\ Step("worker", E) /\ E \subseteq FailureEntries
                 /\ Head(s) \in FailureEntries
    BY <1>2, FailureSteps, OwnerShort
  <2>2. PICK e \in Seq(Entries) : Spells(e, E) /\ Puts("worker", e, Tail(s), todo, todo')
    BY <2>1 DEF Step, Replaces
  <2>3. s # <<>> /\ Range(e) = E /\ todo'["worker"] = e \o Tail(s)
    BY <1>1, <2>1, <2>2, OwnerShort DEF Step, Replaces, Spells, Puts, Stacks
  <2>4. FailureEntries \cap WorkerBase = {}
    BY DEF FailureEntries, WorkerBase, WorkerEarly
  <2>5. Tail(s) \in Seq(Entries) /\ Based(Tail(s)) /\ Range(e) \cap WorkerBase = {}
    BY <1>1, <2>1, <2>3, <2>4, BasedTail
  <2>6. Based(e \o Tail(s))
    BY <2>2, <2>5, BasedConcat
  <2> QED
    BY <2>3, <2>6 DEF Based
<1>3. ASSUME NEW x \in WorkerBase, At("worker", x)
      PROVE  /\ s # <<>> /\ Tail(s) = <<>>
             /\ \A e \in Seq(Entries) : Continue("worker", e) => todo'["worker"] = e
  <2>1. s # <<>> /\ Head(s) = x /\ Tail(s) = <<>>
    BY <1>1, <1>3, BasedTop DEF At
  <2>2. \A e \in Seq(Entries) : e \o <<>> = e
    BY ConcatEmptySeq
  <2> QED
    BY <1>1, <2>1, <2>2, OwnerShort DEF Continue, Stacks
<1>4. WorkerBase \subseteq Entries /\ "destroyClient" \in WorkerBase /\ "receive" \in WorkerBase
  BY DEF WorkerBase, WorkerEarly, Entries
<1>5. /\ \A x \in WorkerBase : <<x>> \in Seq(Entries) /\ <<x>> # <<>>
      /\ \A a \in Entries : \A x \in WorkerBase : <<a, x>> \in Seq(Entries) /\ <<a, x>> # <<>>
      /\ \A a, b \in Entries : \A x \in WorkerBase :
           <<a, b, x>> \in Seq(Entries) /\ <<a, b, x>> # <<>>
  BY <1>4, ShortSeqs
<1>6. ASSUME WaitGate \/ Poll \/ LockClose \/ Receive \/ ReceiveClosed \/ NoteClosed \/ DestroyClient
      PROVE  Shaped
  <2>1. \E x, y \in WorkerBase : At("worker", x) /\ Continue("worker", <<y>>)
    BY <1>6 DEF WaitGate, Poll, LockClose, AfterQueuedClose, Receive, ReceiveClosed, NoteClosed,
       DestroyClient, WorkerBase, WorkerEarly
  <2>2. PICK y \in WorkerBase : todo'["worker"] = <<y>>
    BY <1>3, <1>5, <2>1
  <2> QED
    BY <1>5, <2>2, BasedShort
<1>7. ASSUME WorkerSendsClose PROVE Shaped
  <2>1. At("worker", "sendClose") /\ "sendClose" \in WorkerBase
    BY <1>7 DEF WorkerSendsClose, WorkerBase, WorkerEarly
  <2>2. \/ Continue("worker", <<"unlockSend", "receive">>)
        \/ Continue("worker", <<"markSendFailure", "unlockSend", "destroyClient">>)
    BY <1>7 DEF WorkerSendsClose
  <2>3. \/ todo'["worker"] = <<"unlockSend", "receive">>
        \/ todo'["worker"] = <<"markSendFailure", "unlockSend", "destroyClient">>
    BY <1>3, <1>4, <1>5, <2>1, <2>2, Names
  <2>4. "unlockSend" \notin WorkerBase /\ "markSendFailure" \notin WorkerBase
    BY DEF WorkerBase, WorkerEarly
  <2> QED
    BY <1>4, <1>5, <2>3, <2>4, BasedShort, Names, ZenonT(40)
<1>8. ASSUME ReceiveFails PROVE Shaped
  <2> DEFINE d == <<"reportLogicalFailure", "destroyClient">>
  <2>1. At("worker", "receive")
    BY <1>8 DEF ReceiveFails
  <2>2. PICK e \in {<<>>, <<"finishHandoff">>} : Continue("worker", e \o d)
    BY <1>8 DEF ReceiveFails, If
  <2>3. "reportLogicalFailure" \notin WorkerBase /\ "finishHandoff" \notin WorkerBase
    BY DEF WorkerBase, WorkerEarly
  <2>4. e \in Seq(Entries) /\ Range(e) \cap WorkerBase = {}
    <3>1. <<>> \in Seq(Entries) /\ <<"finishHandoff">> \in Seq(Entries)
      BY ShortSeqs, Names
    <3>2. Range(<<>>) = {} /\ Range(<<"finishHandoff">>) = {"finishHandoff"}
      BY ShortRanges
    <3> QED
      BY <2>3, <3>1, <3>2
  <2>5. d \in Seq(Entries) /\ Based(d)
    BY <1>4, <1>5, <2>3, BasedShort, Names
  <2> HIDE DEF d
  <2>6. e \o d \in Seq(Entries) /\ Based(e \o d)
    BY <2>4, <2>5, BasedConcat, ConcatProperties
  <2>7. todo'["worker"] = e \o d
    BY <1>3, <1>4, <2>1, <2>2, <2>6
  <2> QED
    BY <2>6, <2>7 DEF Based
<1>9. ASSUME DeliverClosed PROVE Shaped
  <2>1. At("worker", "deliverClosed") /\ "deliverClosed" \in WorkerBase
    BY <1>9 DEF DeliverClosed, WorkerBase
  <2>2. \/ Continue("worker", <<"destroyClient">>)
        \/ Continue("worker", <<"settle", "destroyClient">>)
    BY <1>9 DEF DeliverClosed
  <2>3. \/ todo'["worker"] = <<"destroyClient">>
        \/ todo'["worker"] = <<"settle", "destroyClient">>
    BY <1>3, <1>4, <1>5, <2>1, <2>2, Names
  <2>4. "settle" \notin WorkerBase
    BY DEF WorkerBase, WorkerEarly
  <2> QED
    BY <1>4, <1>5, <2>3, <2>4, BasedShort, Names, ZenonT(40)
<1>10. ASSUME FinishWorker PROVE Shaped /\ s # <<>> /\ todo'["worker"] = <<>>
  <2>1. At("worker", "finish") /\ "finish" \in WorkerBase /\ Continue("worker", <<>>)
    BY <1>10 DEF FinishWorker, WorkerBase
  <2>2. <<>> \in Seq(Entries)
    BY ShortSeqs
  <2> QED
    BY <1>3, <1>10, <2>1, <2>2
<1>11. ASSUME SenderLocks \/ SenderSends \/ JoinWorker PROVE todo'["worker"] = todo["worker"]
  <2>1. \E t \in {"sender", "reaper"} : \E e : Continue(t, e)
    BY <1>11 DEF SenderLocks, SenderSends, JoinWorker
  <2> QED
    BY <1>1, <2>1, OwnerShort DEF Continue, Stacks
<1>12. WorkerMoves => Shaped
  BY <1>6, <1>7, <1>8, <1>9, <1>10, <1>11 DEF WorkerMoves
<1>13. todo'["worker"] = todo["worker"] \/ FailureStep("worker") \/ WorkerMoves
  BY OneThreadMoves, OwnerShort
<1> QED
  BY <1>2, <1>10, <1>12, <1>13

-----------------------------------------------------------------------------
(* Which steps change what *)

Closes == \E own \in SUBSET (Callbacks \ passed) : Close(own)

Tokens == {"finishHandoff", "finishUnexpected", "handOff", "handOffUnexpected", "complete",
           "completeUnexpected"}
Taken == Tokens \ {"finishHandoff", "finishUnexpected"}
Closers == {"closeSend", "installDeadline"}
Same(flag) == flag \in flags' <=> flag \in flags

\* The entries the invariant is about, and the steps that put or remove them.
EntriesWritten ==
  /\ Keeps({"finish"}) \/ DestroyClient \/ FinishWorker
  /\ Keeps(Critical) \/ (\E t \in Threads : UnlockSend(t)) \/ CloseLocks \/ OwnerSendsClose
       \/ SenderLocks \/ SenderSends \/ LockClose \/ WorkerSendsClose
  /\ Keeps({"sendClose"}) \/ CloseLocks \/ OwnerSendsClose \/ LockClose \/ WorkerSendsClose
  /\ Keeps({"send", "sendClose"}) \/ CloseLocks \/ OwnerSendsClose \/ SenderLocks
       \/ SenderSends \/ LockClose \/ WorkerSendsClose
  /\ Keeps({"settle"}) \/ (\E t \in Threads : SettleClosedDelivery(t) \/ ReceiptReleased(t))
       \/ DeliverClosed
  /\ Keeps({"deliverClosed"}) \/ NoteClosed \/ DeliverClosed
  /\ Keeps(WorkerEarly) \/ CloseLocks \/ OwnerSendsClose \/ WaitGate \/ Poll \/ LockClose
       \/ WorkerSendsClose \/ Receive \/ ReceiveFails \/ ReceiveClosed \/ NoteClosed
  /\ Keeps({"attachFinalizer"})
       \/ (\E t \in Threads : CompleteDelivery(t) \/ HandOffFails(t)
             \/ AttachFinalizer(t) \/ SettleClosedDelivery(t))
       \/ JoinWorker
  /\ Keeps({"scheduleLogical"})
       \/ (\E t \in Threads : CompleteDelivery(t) \/ HandOffFails(t)
             \/ ReportLogicalFailure(t) \/ ScheduleLogicalSource(t))
  /\ Keeps({"reportLogicalFailure"})
       \/ (\E t \in Threads : ReportLogicalFailure(t) \/ AttachFinalizer(t)
             \/ MarkSendFailure(t))
       \/ StartFails \/ ThreadFails \/ ActivationFails \/ CloseAfterStart \/ InstallDeadline
       \/ ReceiveFails \/ Closes
  /\ Keeps(Tokens)
       \/ (\E t \in Threads : CompleteDelivery(t) \/ FinishHandoff(t) \/ HandOff(t)
             \/ HandOffFails(t) \/ MarkSendFailure(t) \/ SettleClosedDelivery(t))
       \/ ReceiveFails \/ FailureSourceRuns
  /\ Keeps(Taken)
       \/ (\E t \in Threads : CompleteDelivery(t) \/ FinishHandoff(t)
             \/ HandOff(t) \/ HandOffFails(t))
       \/ FailureSourceRuns
  /\ Keeps(Closers) \/ CloseAfterStart \/ CloseLocks \/ CloseQueues \/ InstallDeadline
       \/ Closes

LEMMA OnlyEntriesWritten ==
  ASSUME TypeOK, [Next]_vars, ~StartMoves
  PROVE  EntriesWritten
<1>1. ASSUME NEW t \in Threads, FailureStep(t) PROVE EntriesWritten
  BY <1>1, OwnerShort, FailureFootprints DEF FailureStep, EntriesWritten, Touches, Critical,
     WorkerEarly, Tokens, Taken, Closers
<1>2. ASSUME OwnerMoves PROVE EntriesWritten
  BY <1>2, OwnerShort, OwnerFootprints DEF OwnerMoves, EntriesWritten, Touches, Critical,
     WorkerEarly, Tokens, Taken, Closers
<1>3. ASSUME WorkerMoves PROVE EntriesWritten
  BY <1>3, OwnerShort, WorkerFootprints DEF WorkerMoves, EntriesWritten, Touches, Critical,
     WorkerEarly, Tokens, Taken, Closers
<1>4. ASSUME Loaded PROVE EntriesWritten
  BY <1>4, OwnerShort, LoadFootprints DEF Loaded, EntriesWritten, Touches, Critical,
     WorkerEarly, Tokens, Taken, Closers
<1>5. ASSUME Closes PROVE EntriesWritten
  BY <1>5, CloseFootprint DEF Closes, EntriesWritten, Touches, Critical, WorkerEarly,
     Tokens, Taken, Closers
<1>6. ASSUME OtherSessionEnds \/ UNCHANGED vars PROVE EntriesWritten
  BY <1>6, StillFootprint DEF EntriesWritten, Touches, Critical, WorkerEarly, Tokens, Taken,
     Closers
<1> QED
  BY <1>1, <1>2, <1>3, <1>4, <1>5, <1>6, NextCases DEF Closes

\* The same for the members of flags.
FlagsWritten ==
  /\ Same("closeSent") \/ CloseLocks \/ LockClose
  /\ Same("closeQueued") \/ CloseQueues \/ LockClose
  /\ Same("abortWorker") \/ (\E t \in Threads : MarkSendFailure(t)) \/ ThreadFails
       \/ ActivationFails \/ ReceiveFails
  /\ Same("closedReceived") \/ NoteClosed
  /\ Same("physicalFinished") \/ FinishWorker
  /\ Same("runtimeFailureReported") \/ (\E t \in Threads : CompleteDelivery(t))
       \/ DeadlineExpires \/ LogicalSourceRuns \/ FinalizeWorker
  /\ Same("logicalResultReported") \/ (\E t \in Threads : ReportLogicalFailure(t))
       \/ CloseAfterStart \/ DeadlineExpires \/ FinalizeWorker \/ Closes
  /\ Same("logicalFailureDeliveryPending")
       \/ (\E t \in Threads : HandOffFails(t) \/ ReportLogicalFailure(t)) \/ CloseAfterStart
       \/ DeadlineExpires \/ LogicalSourceRuns \/ FinalizeWorker \/ Closes
  /\ Same("logicalFailureSourceScheduled")
       \/ (\E t \in Threads : CompleteDelivery(t) \/ HandOffFails(t)
             \/ ReportLogicalFailure(t))
       \/ DeadlineExpires \/ LogicalSourceRuns \/ FinalizeWorker
  /\ Same("closedDeliveryExpected") \/ NoteClosed
  /\ Same("closedDeliverySettled") \/ (\E t \in Threads : SettleClosedDelivery(t))
  /\ Same("unexpectedClosedAwaitingReport") \/ (\E t \in Threads : CompleteDelivery(t))
       \/ NoteClosed \/ DeadlineExpires \/ LogicalSourceRuns \/ FinalizeWorker
  /\ Same("failureHandoffPending")
       \/ (\E t \in Threads : CompleteDelivery(t) \/ HandOffFails(t)
             \/ MarkSendFailure(t) \/ SettleClosedDelivery(t))
       \/ ReceiveFails \/ DeadlineExpires \/ LogicalSourceRuns \/ FinalizeWorker
  /\ Same("failureFallbackPending") \/ (\E t \in Threads : HandOffFails(t))
       \/ DeadlineExpires \/ LogicalSourceRuns \/ FinalizeWorker
  /\ Same("reaperReady") \/ JoinWorker
  /\ Same("finalizationScheduled")
       \/ (\E t \in Threads : CompleteDelivery(t) \/ HandOffFails(t)
             \/ SettleClosedDelivery(t))
       \/ JoinWorker

LEMMA OnlyFlagsWritten ==
  ASSUME TypeOK, [Next]_vars, ~StartMoves
  PROVE  FlagsWritten
<1>1. ASSUME NEW t \in Threads, FailureStep(t) PROVE FlagsWritten
  BY <1>1, OwnerShort, FailureFootprints DEF FailureStep, FlagsWritten, Flips, Same
<1>2. ASSUME OwnerMoves PROVE FlagsWritten
  BY <1>2, OwnerShort, OwnerFootprints DEF OwnerMoves, FlagsWritten, Flips, Same
<1>3. ASSUME WorkerMoves PROVE FlagsWritten
  BY <1>3, OwnerShort, WorkerFootprints DEF WorkerMoves, FlagsWritten, Flips, Same
<1>4. ASSUME Loaded PROVE FlagsWritten
  BY <1>4, OwnerShort, LoadFootprints DEF Loaded, FlagsWritten, Flips, Same
<1>5. ASSUME Closes PROVE FlagsWritten
  BY <1>5, CloseFootprint DEF Closes, FlagsWritten, Flips, Same
<1>6. ASSUME OtherSessionEnds \/ UNCHANGED vars PROVE FlagsWritten
  BY <1>6, StillFootprint DEF FlagsWritten, Flips, Same
<1> QED
  BY <1>1, <1>2, <1>3, <1>4, <1>5, <1>6, NextCases DEF Closes

\* The same for the other variables.
VariablesWritten ==
  /\ UNCHANGED started
  /\ UNCHANGED phase \/ (\E t \in Threads : MarkSendFailure(t)) \/ StartFails \/ ThreadFails
       \/ Activate \/ ActivationFails \/ CloseAfterStart \/ ReceiveFails \/ FinishWorker
       \/ FinalizeWorker \/ Closes
  /\ UNCHANGED physicalResult \/ FinishWorker
  /\ UNCHANGED logicalResult \/ (\E t \in Threads : ReportLogicalFailure(t))
       \/ CloseAfterStart \/ DeadlineExpires \/ FinalizeWorker \/ Closes
  /\ UNCHANGED closeCallbacks \/ CloseAfterStart \/ DeadlineExpires \/ LogicalSourceRuns
       \/ FinalizeWorker \/ Closes
  /\ UNCHANGED failureCallback \/ (\E t \in Threads : FinishHandoff(t) \/ HandOffFails(t))
       \/ ThreadFails \/ DeadlineExpires \/ LogicalSourceRuns \/ FinalizeWorker
  /\ UNCHANGED registry \/ StartFails \/ FinalizeWorker \/ OtherSessionEnds
  /\ UNCHANGED client \/ DestroyClient
  /\ UNCHANGED sendMutex \/ (\E t \in Threads : UnlockSend(t)) \/ CloseLocks \/ SenderLocks
       \/ LockClose
  /\ UNCHANGED receipt \/ (\E t \in Threads : ReceiptReleased(t)) \/ DeliverClosed
  /\ UNCHANGED deliveryExit
       \/ (\E t \in Threads : SettleClosedDelivery(t) \/ LeaveDelivery(t))
  /\ UNCHANGED deadline \/ InstallDeadline \/ DeadlineExpires \/ FinalizeWorker
  /\ UNCHANGED failureSource \/ (\E t \in Threads : HandOff(t)) \/ FailureSourceRuns
  /\ UNCHANGED logicalSources \/ (\E t \in Threads : ScheduleLogicalSource(t))
       \/ LogicalSourceRuns
  /\ UNCHANGED finalizer \/ (\E t \in Threads : AttachFinalizer(t)) \/ StartFails
       \/ FinalizeWorker
  /\ UNCHANGED knownResults \/ CloseAfterStart \/ KnownResultRuns \/ Closes
  /\ UNCHANGED invoking \/ InvokeCallbacks \/ DeadlineExpires \/ LogicalSourceRuns
       \/ FinalizeWorker
  /\ UNCHANGED passed \/ Closes
  /\ UNCHANGED reports \/ InvokeCallbacks \/ KnownResultRuns
  /\ UNCHANGED failureCalls \/ InvokeFailure
  /\ UNCHANGED closeRequests \/ OwnerSendsClose \/ WorkerSendsClose
  /\ UNCHANGED closing \/ (\E t \in Threads : MarkSendFailure(t)) \/ CloseAfterStart
       \/ CloseLocks \/ CloseQueues \/ OwnerSendsClose \/ Closes

LEMMA OnlyVariablesWritten ==
  ASSUME TypeOK, [Next]_vars, ~StartMoves
  PROVE  VariablesWritten
<1>1. ASSUME NEW t \in Threads, FailureStep(t) PROVE VariablesWritten
  BY <1>1, ZenonT(40) DEF FailureStep, VariablesWritten, vars, resultVars, threadVars, receiptVars,
     sourceVars, callbackVars, historyVars, CompleteDelivery, FinishHandoff, HandOff,
     HandOffFails, ReportLogicalFailure, ScheduleLogicalSource, AttachFinalizer,
     MarkSendFailure, UnlockSend, SettleClosedDelivery, LeaveDelivery, ReleaseAfterHandoff
<1>2. ASSUME OwnerMoves PROVE VariablesWritten
  BY <1>2, ZenonT(40) DEF OwnerMoves, VariablesWritten, vars, resultVars, threadVars, receiptVars,
     sourceVars, callbackVars, historyVars, InvokeFailure, InvokeCallbacks, CallbackReturns,
     StartFails, ThreadFails, Activate, ActivationFails, OpenGate, CloseAfterStart,
     CloseLocks, CloseQueues, OwnerSendsClose, InstallDeadline, CloseEnters, ReportKnown
<1>3. ASSUME WorkerMoves PROVE VariablesWritten
  BY <1>3 DEF WorkerMoves, VariablesWritten, vars, resultVars, threadVars, receiptVars,
     sourceVars, callbackVars, historyVars, SenderLocks, SenderSends, WaitGate, Poll,
     LockClose, WorkerSendsClose, Receive, ReceiveFails, ReceiveClosed, NoteClosed,
     DeliverClosed, DestroyClient, FinishWorker, JoinWorker, AfterQueuedClose
<1>4. ASSUME Loaded PROVE VariablesWritten
  BY <1>4, ZenonT(40) DEF Loaded, VariablesWritten, vars, resultVars, threadVars, receiptVars,
     sourceVars, callbackVars, historyVars, SenderCalled, ReceiptReleased, KnownResultRuns,
     FailureSourceRuns, DeadlineExpires, LogicalSourceRuns, FinalizeWorker, TakeCallbacks
<1>5. ASSUME Closes PROVE VariablesWritten
  BY <1>5 DEF Closes, VariablesWritten, vars, resultVars, threadVars, receiptVars,
     sourceVars, callbackVars, historyVars, Close, CloseEnters
<1>6. ASSUME OtherSessionEnds \/ UNCHANGED vars PROVE VariablesWritten
  BY <1>6 DEF VariablesWritten, vars, resultVars, threadVars, receiptVars, sourceVars,
     callbackVars, historyVars, OtherSessionEnds
<1> QED
  BY <1>1, <1>2, <1>3, <1>4, <1>5, <1>6, NextCases DEF Closes

-----------------------------------------------------------------------------
(* The invariant is inductive: the threads, sendMutex, the receipt, the finalizer and the key *)

\* Either start() is still at work, or its steps are over.
LEMMA StartIsOver ==
  ASSUME TypeOK, EarlyOK, [Next]_vars
  PROVE  TypeOK' /\ EarlyOK' /\ (Early' \/ ~StartMoves)
BY TypeStep, EarlyStep, LateMoves, EarlyStart

\* The members of flags and the entries there are while start() is at work.
LEMMA EarlyFlags ==
  ASSUME TypeOK, EarlyOK, Early
  PROVE  /\ \A x \in Flags : x # "closeRequestedDuringStart" => x \notin flags
         /\ ~deadline /\ receipt = "none" /\ sendMutex = "none" /\ deliveryExit = "none"
BY DEF EarlyOK, EarlyData

\* What leads out of that.
LEMMA Leaving ==
  ASSUME TypeOK, EarlyOK, [Next]_vars, ~StartMoves
  PROVE  StartFails \/ ThreadFails \/ Activate \/ ActivationFails => Early
BY LateMoves

LEMMA ThreadsStep ==
  ASSUME TypeOK, EarlyOK, ThreadsOK, [Next]_vars
  PROVE  ThreadsOK'
<1>1. TypeOK' /\ EarlyOK' /\ (Early' \/ ~StartMoves)
  BY StartIsOver
<1>2. ASSUME Early' PROVE ThreadsOK'
  <2>1. TypeOK' /\ EarlyOK' /\ Early'
    BY <1>1, <1>2
  <2>2. (TypeOK /\ EarlyOK /\ Early => ThreadsOK)'
    BY EarlyState, PTL
  <2> QED
    BY <2>1, <2>2
<1> SUFFICES ASSUME ~StartMoves PROVE ThreadsOK'
  BY <1>1, <1>2
<1>3. VariablesWritten /\ FlagsWritten /\ EntriesWritten
  BY OnlyVariablesWritten, OnlyFlagsWritten, OnlyEntriesWritten
<1>4. started' = started
  BY <1>3 DEF VariablesWritten
<1>5. \A t \in {"worker", "reaper"} : todo[t] = <<>> => todo'[t] = <<>>
  BY OneThreadMoves, OwnerShort
<1>6. /\ todo["worker"] # <<>> => Based(todo["worker"])
      /\ \A t \in {"worker", "reaper"} : t \notin started => todo[t] = <<>>
  BY DEF ThreadsOK
<1>7. /\ todo'["worker"] # <<>> => Based(todo'["worker"])
      /\ todo["worker"] # <<>> /\ todo'["worker"] = <<>> => FinishWorker
      /\ FinishWorker => todo["worker"] # <<>> /\ todo'["worker"] = <<>>
  BY <1>6, WorkerShape
<1>8. FinishWorker => Has("worker", "finish") /\ client' = client /\ "physicalFinished" \in flags'
  <2>1. todo \in Stacks
    BY DEF TypeOK, Stacks
  <2> QED
    BY <2>1, AtHas, OwnerShort DEF FinishWorker, Has, threadVars
<1>9. DestroyClient => todo["worker"] # <<>> /\ ~client'
  BY DEF DestroyClient, At
<1>10. "worker" \in started' /\ todo'["worker"] = <<>> => ~client' /\ "physicalFinished" \in flags'
  BY <1>3, <1>4, <1>7, <1>8, <1>9 DEF ThreadsOK, VariablesWritten, FlagsWritten, Same
<1>11. Has("worker", "finish")' => ~client'
  <2> SUFFICES ASSUME "finish" \in Range(todo'["worker"]) PROVE ~client'
    BY DEF Has
  <2>1. ~FinishWorker
    BY <1>7, ShortRanges
  <2>2. DestroyClient \/ (Keeps({"finish"}) /\ client' = client)
    BY <1>3, <2>1 DEF EntriesWritten, VariablesWritten
  <2> QED
    BY <1>9, <2>2, OwnerShort DEF ThreadsOK, Has, Keeps
<1>12. flags' \cap {"reaperReady", "physicalFinished"} # {} => Exited("worker")'
  <2>1. JoinWorker => Exited("worker")
    BY DEF JoinWorker
  <2>2. flags \cap {"reaperReady", "physicalFinished"} # {} => Exited("worker")
    BY DEF ThreadsOK
  <2>3. Exited("worker") \/ FinishWorker => Exited("worker")'
    BY <1>4, <1>5, <1>6, <1>7 DEF Exited, Idle
  <2> QED
    BY <1>3, <2>1, <2>2, <2>3 DEF FlagsWritten, Same
<1>13. "physicalFinished" \in flags' => phase' = "PhysicallyStopped"
  <2> SUFFICES ASSUME "physicalFinished" \in flags' PROVE phase' = "PhysicallyStopped"
    OBVIOUS
  <2>1. CASE FinishWorker
    BY <2>1 DEF FinishWorker
  <2>2. CASE ~FinishWorker
    <3>1. "physicalFinished" \in flags
      BY <1>3, <2>2 DEF FlagsWritten, Same
    <3>2. phase = "PhysicallyStopped" /\ Idle("worker")
      BY <3>1 DEF ThreadsOK, Exited
    <3>3. ~StartFails /\ ~ThreadFails /\ ~Activate /\ ~ActivationFails
      BY <3>2, Leaving DEF Early
    <3>4. ~ReceiveFails
      BY <3>2 DEF ReceiveFails, At, Idle
    <3>5. \A t \in Threads : MarkSendFailure(t) => phase' = phase
      BY <3>1 DEF MarkSendFailure
    <3>6. CloseAfterStart \/ Closes => phase' = phase
      BY <3>1, <3>2 DEF CloseAfterStart, Closes, Close, CloseEnters
    <3>7. FinalizeWorker => phase' = "PhysicallyStopped"
      BY DEF FinalizeWorker
    <3> QED
      BY <1>3, <2>2, <3>2, <3>3, <3>4, <3>5, <3>6, <3>7 DEF VariablesWritten
  <2> QED
    BY <2>1, <2>2
<1>14. (physicalResult' # "Failed" => "physicalFinished" \in flags') /\ physicalResult' # "TimedOut"
  BY <1>3, <1>8 DEF VariablesWritten, FlagsWritten, Same, ThreadsOK, FinishWorker
<1>15. \A t \in {"worker", "reaper"} : t \notin started' => todo'[t] = <<>>
  BY <1>4, <1>5, <1>6
<1> QED
  BY <1>7, <1>10, <1>11, <1>12, <1>13, <1>14, <1>15 DEF ThreadsOK

\* After the step the entries of S that are on stacks are those in C, on that of t.
Holds(S, t, C) ==
  /\ Alone(S, todo')
  /\ \A u \in Threads : Range(todo'[u]) \cap S = IF u = t THEN C ELSE {}

\* They were at t only, or nowhere, and are replaced by at most one.
LEMMA StepHolds ==
  ASSUME todo \in Stacks, NEW t \in Threads, NEW E, Step(t, E), NEW S, NEW x,
         E \cap S \subseteq {x}, Alone(S, todo), Head(todo[t]) \in S \/ Nowhere(S, todo)
  PROVE  Holds(S, t, E \cap S)
<1>1. CASE Head(todo[t]) \in S
  BY <1>1, ReplacesAlone DEF Step, Holds
<1>2. CASE Nowhere(S, todo)
  <2>1. Pushes(t, E, todo, todo')
    BY ReplacesPushes DEF Step
  <2>2. Alone(S, todo')
    BY <1>2, <2>1, PushesAlone
  <2>3. /\ \A u \in Threads : u # t => todo'[u] = todo[u]
        /\ E \subseteq Range(todo'[t]) /\ Range(todo'[t]) \subseteq Range(todo[t]) \cup E
    BY <2>1, PushesFacts
  <2>4. \A u \in Threads : Range(todo[u]) \cap S = {}
    BY <1>2 DEF Nowhere
  <2>5. \A u \in Threads : Range(todo'[u]) \cap S = IF u = t THEN E \cap S ELSE {}
    BY <2>3, <2>4
  <2> QED
    BY <2>2, <2>5 DEF Holds
<1> QED
  BY <1>1, <1>2

LEMMA GivenHolds ==
  ASSUME todo \in Stacks, NEW t \in Threads, NEW E, Given(t, E), NEW S, NEW x,
         E \cap S \subseteq {x}, Nowhere(S, todo), Alone(S, todo)
  PROVE  Holds(S, t, E \cap S)
<1>1. Loads(t, E, todo, todo')
  BY DEF Given
<1>2. Alone(S, todo')
  BY <1>1, LoadsAlone
<1>3. (\A u \in Threads : u # t => todo'[u] = todo[u]) /\ Range(todo'[t]) = E
  BY <1>1, LoadsFacts
<1>4. \A u \in Threads : Range(todo'[u]) \cap S = IF u = t THEN E \cap S ELSE {}
  BY <1>3 DEF Nowhere
<1> QED
  BY <1>2, <1>4 DEF Holds

\* A lock is free only when nothing that needs it is left to do.
LEMMA LockSteps ==
  ASSUME TypeOK, LockOK
  PROVE  /\ sendMutex = "none" => Nowhere(Critical, todo)
         /\ \A t \in Threads : UnlockSend(t) => Holds(Critical, t, {})
         /\ OwnerSendsClose => Holds(Critical, "owner", {"unlockSend"}) /\ Has("owner", "sendClose")
         /\ WorkerSendsClose =>
              Holds(Critical, "worker", {"unlockSend"}) /\ Has("worker", "sendClose")
         /\ SenderSends => Holds(Critical, "sender", {"unlockSend"}) /\ HasAny("sender", Critical)
         /\ SenderLocks =>
              Holds(Critical, "sender", Cond(sendMutex' = "sender", "send"))
         /\ CloseLocks => Holds(Critical, "owner", Cond(SendsClose, "sendClose"))
         /\ LockClose => Holds(Critical, "worker", Cond(sendMutex' = "worker", "sendClose"))
<1>1. todo \in Stacks /\ client \in BOOLEAN /\ Alone(Critical, todo)
  BY DEF TypeOK, Stacks, LockOK
<1>2. sendMutex = "none" => Nowhere(Critical, todo)
  BY DEF LockOK, Nowhere, HasAny, Threads
<1>3. \A t \in Threads : \A E : \A x :
        Step(t, E) /\ E \cap Critical \subseteq {x}
        /\ (Head(todo[t]) \in Critical \/ Nowhere(Critical, todo))
        => Holds(Critical, t, E \cap Critical)
  BY <1>1, StepHolds
<1>4. ASSUME NEW t \in Threads, UnlockSend(t) PROVE Holds(Critical, t, {})
  <2>1. Step(t, {}) /\ Head(todo[t]) \in Critical
    BY <1>1, <1>4, OtherFailureEffects DEF UnlockSend, At, Critical
  <2> QED
    BY <1>3, <2>1
<1>5. /\ {"unlockSend"} \cap Critical = {"unlockSend"}
      /\ {"markSendFailure", "unlockSend"} \cap Critical = {"unlockSend"}
      /\ {"markSendFailure", "unlockSend", "destroyClient"} \cap Critical = {"unlockSend"}
      /\ {"unlockSend", "receive"} \cap Critical = {"unlockSend"}
      /\ {"send"} \cap Critical = {"send"} /\ {"sendClose"} \cap Critical = {"sendClose"}
      /\ \A x \in {"destroyClient", "receive"} : {x} \cap Critical = {}
  BY DEF Critical
<1>6. ASSUME OwnerSendsClose
      PROVE  Holds(Critical, "owner", {"unlockSend"}) /\ Has("owner", "sendClose")
  <2>0. At("owner", "sendClose") => Has("owner", "sendClose")
    BY <1>1, AtHas, OwnerShort DEF Has
  <2>1. At("owner", "sendClose") /\ Head(todo["owner"]) \in Critical
    BY <1>6 DEF OwnerSendsClose, At, Critical
  <2>2. Step("owner", {"unlockSend"}) \/ Step("owner", {"markSendFailure", "unlockSend"})
    BY <1>1, <1>6, SimpleEffects
  <2> QED
    BY <1>3, <1>5, <2>0, <2>1, <2>2, OwnerShort, SMTT(30)
<1>7. ASSUME WorkerSendsClose
      PROVE  Holds(Critical, "worker", {"unlockSend"}) /\ Has("worker", "sendClose")
  <2>0. At("worker", "sendClose") => Has("worker", "sendClose")
    BY <1>1, AtHas, OwnerShort DEF Has
  <2>1. At("worker", "sendClose") /\ Head(todo["worker"]) \in Critical
    BY <1>7 DEF WorkerSendsClose, At, Critical
  <2>2. \/ Step("worker", {"unlockSend", "receive"})
        \/ Step("worker", {"markSendFailure", "unlockSend", "destroyClient"})
    BY <1>1, <1>7, WorkerSendsEffects
  <2> QED
    BY <1>3, <1>5, <2>0, <2>1, <2>2, OwnerShort
<1>8. ASSUME SenderSends
      PROVE  Holds(Critical, "sender", {"unlockSend"}) /\ HasAny("sender", Critical)
  <2>0. At("sender", "send") => HasAny("sender", Critical)
    BY <1>1, AtHas, OwnerShort DEF HasAny, Critical
  <2>1. At("sender", "send") /\ Head(todo["sender"]) \in Critical
    BY <1>8 DEF SenderSends, At, Critical
  <2>2. Step("sender", {"unlockSend"}) \/ Step("sender", {"markSendFailure", "unlockSend"})
    BY <1>1, <1>8, SimpleEffects
  <2> QED
    BY <1>3, <1>5, <2>0, <2>1, <2>2, OwnerShort
<1>9. ASSUME SenderLocks PROVE Holds(Critical, "sender", Cond(sendMutex' = "sender", "send"))
  <2>1. Nowhere(Critical, todo)
    BY <1>2, <1>9 DEF SenderLocks
  <2>2. IF sendMutex' = "sender" THEN Step("sender", {"send"}) ELSE Step("sender", {})
    BY <1>1, <1>9, SimpleEffects
  <2> QED
    <3>1. CASE sendMutex' = "sender"
      <4>1. {"send"} \cap Critical = {"send"} /\ Cond(sendMutex' = "sender", "send") = {"send"}
        BY <3>1 DEF Critical, Cond
      <4>2. Holds(Critical, "sender", {"send"} \cap Critical)
        BY <1>3, <2>1, <2>2, <3>1, OwnerShort
      <4> QED
        BY <4>1, <4>2
    <3>2. CASE sendMutex' # "sender"
      <4>1. {} \cap Critical = {} /\ Cond(sendMutex' = "sender", "send") = {}
        BY <3>2 DEF Cond
      <4>2. Holds(Critical, "sender", {} \cap Critical)
        BY <1>3, <2>1, <2>2, <3>2, OwnerShort
      <4> QED
        BY <4>1, <4>2
    <3> QED
      BY <3>1, <3>2
<1>10. ASSUME CloseLocks PROVE Holds(Critical, "owner", Cond(SendsClose, "sendClose"))
  <2>1. Nowhere(Critical, todo)
    BY <1>2, <1>10 DEF CloseLocks
  <2>2. Step("owner", Cond(SendsClose, "sendClose") \cup {"installDeadline"})
    BY <1>1, <1>10, StartAndCloseEffects
  <2>3. (Cond(SendsClose, "sendClose") \cup {"installDeadline"}) \cap Critical
          = Cond(SendsClose, "sendClose") /\ Cond(SendsClose, "sendClose") \subseteq {"sendClose"}
    BY DEF Cond, Critical
  <2> QED
    BY <1>3, <2>1, <2>2, <2>3, OwnerShort
<1>11. ASSUME LockClose PROVE Holds(Critical, "worker", Cond(sendMutex' = "worker", "sendClose"))
  <2>1. Nowhere(Critical, todo)
    BY <1>2, <1>11 DEF LockClose
  <2>2. IF sendMutex' = "worker" THEN Step("worker", {"sendClose"})
        ELSE \E x \in {"destroyClient", "receive"} : Step("worker", {x})
    BY <1>1, <1>11, SimpleEffects
  <2> QED
    <3>1. CASE sendMutex' = "worker"
      <4>1. /\ {"sendClose"} \cap Critical = {"sendClose"}
            /\ Cond(sendMutex' = "worker", "sendClose") = {"sendClose"}
        BY <3>1 DEF Critical, Cond
      <4>2. Holds(Critical, "worker", {"sendClose"} \cap Critical)
        BY <1>3, <2>1, <2>2, <3>1, OwnerShort
      <4> QED
        BY <4>1, <4>2
    <3>2. CASE sendMutex' # "worker"
      <4>1. PICK x \in {"destroyClient", "receive"} : Step("worker", {x})
        BY <2>2, <3>2
      <4>2. {x} \cap Critical = {} /\ Cond(sendMutex' = "worker", "sendClose") = {}
        BY <3>2 DEF Critical, Cond
      <4>3. Holds(Critical, "worker", {x} \cap Critical)
        BY <1>3, <2>1, <4>1, <4>2, OwnerShort
      <4> QED
        BY <4>2, <4>3
    <3> QED
      BY <3>1, <3>2
<1> QED
  BY <1>2, <1>4, <1>6, <1>7, <1>8, <1>9, <1>10, <1>11

LEMMA LockStep ==
  ASSUME TypeOK, EarlyOK, ThreadsOK, LockOK, [Next]_vars
  PROVE  LockOK'
<1>1. TypeOK' /\ EarlyOK' /\ (Early' \/ ~StartMoves)
  BY StartIsOver
<1>2. ASSUME Early' PROVE LockOK'
  <2>1. TypeOK' /\ EarlyOK' /\ Early'
    BY <1>1, <1>2
  <2>2. (TypeOK /\ EarlyOK /\ Early => LockOK)'
    BY EarlyState, PTL
  <2> QED
    BY <2>1, <2>2
<1> SUFFICES ASSUME ~StartMoves PROVE LockOK'
  BY <1>1, <1>2
<1>3. VariablesWritten /\ FlagsWritten /\ EntriesWritten
  BY OnlyVariablesWritten, OnlyFlagsWritten, OnlyEntriesWritten
<1> DEFINE Sends == OwnerSendsClose \/ WorkerSendsClose
           Locks == SenderLocks \/ CloseLocks \/ LockClose
<1>4. /\ sendMutex = "none" => Nowhere(Critical, todo)
      /\ \A t \in Threads : UnlockSend(t) => Holds(Critical, t, {})
      /\ OwnerSendsClose => Holds(Critical, "owner", {"unlockSend"}) /\ Has("owner", "sendClose")
      /\ WorkerSendsClose =>
           Holds(Critical, "worker", {"unlockSend"}) /\ Has("worker", "sendClose")
      /\ SenderSends => Holds(Critical, "sender", {"unlockSend"}) /\ HasAny("sender", Critical)
      /\ SenderLocks => Holds(Critical, "sender", Cond(sendMutex' = "sender", "send"))
      /\ CloseLocks => Holds(Critical, "owner", Cond(SendsClose, "sendClose"))
      /\ LockClose => Holds(Critical, "worker", Cond(sendMutex' = "worker", "sendClose"))
  BY LockSteps
<1>5. /\ \A t \in Threads : HasAny(t, Critical) => sendMutex = t
      /\ \A t \in Threads : Has(t, "sendClose") => HasAny(t, Critical)
      /\ \A t \in Threads : HasAny(t, {"send", "sendClose"}) => HasAny(t, Critical)
  BY DEF LockOK, Has, HasAny, Critical
<1>6. /\ CloseLocks => /\ sendMutex' = IF SendsClose THEN "owner" ELSE "none"
                       /\ flags' = flags \cup Cond(SendsClose, "closeSent")
                       /\ sendMutex = "none"
      /\ LockClose =>
           /\ sendMutex = "none" /\ sendMutex' \in {"worker", "none"}
           /\ "closeQueued" \notin flags'
           /\ sendMutex' = "worker" => client /\ "closeQueued" \in flags /\ "closeSent" \in flags'
           /\ sendMutex' = "none" => ("closeSent" \in flags' <=> "closeSent" \in flags)
      /\ SenderLocks =>
           /\ sendMutex = "none" /\ sendMutex' \in {"sender", "none"}
           /\ sendMutex' = "sender" => client
  BY DEF CloseLocks, LockClose, SenderLocks, SendsClose, Cond
<1>7. Alone(Critical, todo')
  BY <1>3, <1>4 DEF EntriesWritten, Holds, Keeps, LockOK
<1>8. \A t \in Threads : HasAny(t, Critical)' => sendMutex' = t
  <2> SUFFICES ASSUME NEW t \in Threads, Range(todo'[t]) \cap Critical # {}
               PROVE  sendMutex' = t
    BY DEF HasAny
  <2>1. CASE Keeps(Critical)
    <3>1. sendMutex = t
      BY <1>5, <2>1 DEF Keeps, HasAny
    <3>2. \A u \in Threads : ~UnlockSend(u)
      <4>1. \A u \in Threads : UnlockSend(u) => Range(todo'[t]) \cap Critical = {}
        BY <1>4 DEF Holds
      <4> QED
        BY <4>1
    <3>3. sendMutex # "none"
      BY <3>1 DEF Threads
    <3> QED
      BY <1>3, <1>6, <3>1, <3>2, <3>3 DEF VariablesWritten
  <2>2. \A u \in Threads : ~UnlockSend(u)
    BY <1>4 DEF Holds
  <2>3. CASE SenderLocks \/ CloseLocks \/ LockClose
    BY <1>4, <1>6, <2>3 DEF Holds, Cond
  <2>4. CASE SenderSends
    <3>1. t = "sender" /\ HasAny("sender", Critical)
      BY <1>4, <2>4 DEF Holds
    <3> QED
      BY <1>5, <2>4, <3>1 DEF SenderSends, threadVars
  <2>5. CASE Sends
    <3>1. HasAny(t, Critical)
      BY <1>4, <1>5, <2>5, OwnerShort DEF Holds
    <3> QED
      BY <1>5, <2>5, <3>1 DEF OwnerSendsClose, WorkerSendsClose, threadVars
  <2> QED
    BY <1>3, <2>1, <2>2, <2>3, <2>4, <2>5 DEF EntriesWritten
<1>9. \A t \in Threads : HasAny(t, {"send", "sendClose"})' => client'
  <2> SUFFICES ASSUME NEW t \in Threads, Range(todo'[t]) \cap {"send", "sendClose"} # {}
               PROVE  client'
    BY DEF HasAny
  <2>1. CASE Keeps({"send", "sendClose"})
    <3>1. client /\ sendMutex = t
      BY <1>5, <2>1 DEF Keeps, HasAny, LockOK
    <3>2. ~DestroyClient
      BY <3>1 DEF DestroyClient, Threads
    <3> QED
      BY <1>3, <3>1, <3>2 DEF VariablesWritten
  <2>2. ~OwnerSendsClose /\ ~WorkerSendsClose /\ ~SenderSends
    <3>1. \A u \in Threads : Holds(Critical, u, {"unlockSend"}) =>
            Range(todo'[t]) \cap {"send", "sendClose"} = {}
      BY DEF Holds, Critical
    <3> QED
      BY <1>4, <3>1, OwnerShort
  <2>3. CASE SenderLocks \/ CloseLocks \/ LockClose
    <3>1. Range(todo'[t]) \cap Critical # {}
      BY DEF Critical
    <3>2. client
      BY <1>4, <1>6, <2>3, <3>1 DEF Holds, Cond, SendsClose
    <3> QED
      BY <2>3, <3>2 DEF SenderLocks, CloseLocks, LockClose
  <2> QED
    BY <1>3, <2>1, <2>2, <2>3 DEF EntriesWritten
<1>10. (\E t \in Threads : Has(t, "sendClose")) => closeRequests = 0 /\ "closeSent" \in flags
  BY DEF LockOK
<1>11. closeRequests' \in {closeRequests, 1}
  <2>1. Sends => closeRequests' = closeRequests + 1
    BY DEF OwnerSendsClose, WorkerSendsClose
  <2>2. Sends => closeRequests = 0
    BY <1>4, <1>10, OwnerShort
  <2> QED
    BY <1>3, <2>1, <2>2 DEF VariablesWritten
<1>12. Sends => "closeSent" \in flags'
  BY <1>4, <1>10, OwnerShort DEF OwnerSendsClose, WorkerSendsClose
<1>13. \A t \in Threads : Has(t, "sendClose")' => "closeSent" \in flags' /\ closeRequests' = 0
  <2> SUFFICES ASSUME NEW t \in Threads, "sendClose" \in Range(todo'[t])
               PROVE  "closeSent" \in flags' /\ closeRequests' = 0
    BY DEF Has
  <2>1. ~OwnerSendsClose /\ ~WorkerSendsClose
    <3>1. \A u \in Threads : Holds(Critical, u, {"unlockSend"}) => "sendClose" \notin Range(todo'[t])
      BY DEF Holds, Critical
    <3> QED
      BY <1>4, <3>1, OwnerShort
  <2>2. closeRequests' = closeRequests
    BY <1>3, <2>1 DEF VariablesWritten
  <2>3. CASE Keeps({"sendClose"})
    <3>1. Has(t, "sendClose")
      BY <2>3 DEF Keeps, Has
    <3>2. closeRequests = 0 /\ "closeSent" \in flags
      BY <1>10, <3>1
    <3> QED
      BY <1>3, <1>6, <2>2, <3>2 DEF FlagsWritten, Same, LockOK
  <2>4. CASE CloseLocks
    <3>1. SendsClose
      BY <1>4, <2>4 DEF Holds, Cond, Critical
    <3>2. "closeSent" \notin flags
      BY <3>1 DEF SendsClose, MaySendClose
    <3> QED
      BY <1>6, <2>2, <2>4, <3>1, <3>2 DEF LockOK, Cond
  <2>5. CASE LockClose
    <3>1. sendMutex' = "worker"
      BY <1>4, <2>5 DEF Holds, Cond, Critical
    <3> QED
      BY <1>6, <2>2, <2>5, <3>1 DEF LockOK
  <2> QED
    BY <1>3, <2>1, <2>3, <2>4, <2>5 DEF EntriesWritten
<1>14. "closeSent" \notin flags' => closeRequests' = 0
  <2> SUFFICES ASSUME "closeSent" \notin flags' PROVE closeRequests' = 0
    OBVIOUS
  <2>1. "closeSent" \notin flags
    BY <1>3, <1>6 DEF FlagsWritten, Same, Cond
  <2>2. ~OwnerSendsClose /\ ~WorkerSendsClose
    BY <1>12
  <2> QED
    BY <1>3, <2>1, <2>2 DEF LockOK, VariablesWritten
<1>15. "closeQueued" \in flags' => "closeSent" \notin flags'
  <2>1. CloseQueues => flags' = flags \/ ("closeSent" \notin flags /\ flags' = flags \cup {"closeQueued"})
    BY DEF CloseQueues, MaySendClose
  <2>2. SendsClose => "closeQueued" \notin flags
    BY DEF SendsClose, MaySendClose
  <2> QED
    BY <1>3, <1>6, <2>1, <2>2 DEF FlagsWritten, Same, Cond, LockOK
<1>16. closeRequests' <= 1
  BY <1>11 DEF LockOK
<1> QED
  BY <1>7, <1>8, <1>9, <1>13, <1>14, <1>15, <1>16 DEF LockOK

\* When the worker is at an entry of its own nothing is below it.
LEMMA WorkerTop ==
  ASSUME TypeOK, ThreadsOK, NEW x \in WorkerBase, At("worker", x)
  PROVE  /\ "worker" \in started /\ Has("worker", x) /\ Range(todo["worker"]) = {x}
         /\ \A E : Step("worker", E) => Range(todo'["worker"]) = E
<1> DEFINE s == todo["worker"]
<1>1. todo \in Stacks /\ s \in Seq(Entries) /\ s # <<>> /\ Head(s) = x
  BY OwnerShort DEF TypeOK, Stacks, At
<1>2. Tail(s) = <<>>
  BY <1>1, BasedTop DEF ThreadsOK
<1>3. Range(Tail(s)) = {}
  BY <1>2, ShortRanges
<1>4. "worker" \in started
  BY <1>1 DEF ThreadsOK
<1>5. Has("worker", x)
  BY <1>1, AtHas, OwnerShort DEF Has
<1>6. Range(s) = {Head(s)} \cup Range(Tail(s))
  BY <1>1, RestRange DEF Rest
<1>7. \A E : Step("worker", E) => Range(todo'["worker"]) = E \cup Range(Tail(s))
  BY <1>1, StepFacts, OwnerShort
<1> QED
  BY <1>1, <1>3, <1>4, <1>5, <1>6, <1>7

\* How the receipt moves: expected, held or settled, and noted as settled.
LEMMA ReceiptSteps ==
  ASSUME TypeOK, ThreadsOK, ReceiptOK
  PROVE  /\ \A t \in Threads : SettleClosedDelivery(t) =>
              /\ Holds({"settle"}, t, {}) /\ Has(t, "settle")
              /\ "closedDeliverySettled" \in flags'
         /\ \A t \in Threads : ReceiptReleased(t) =>
              Holds({"settle"}, t, {"settle"}) /\ receipt = "held" /\ receipt' = "settled"
         /\ DeliverClosed =>
              /\ Holds({"settle"}, "worker", Cond(receipt' = "settled", "settle"))
              /\ receipt = "none" /\ receipt' \in {"held", "settled"}
              /\ "closedDeliveryExpected" \in flags /\ ~Has("worker", "deliverClosed")'
         /\ NoteClosed =>
              /\ receipt = "none" /\ "closedDeliveryExpected" \in flags'
              /\ Range(todo'["worker"]) = {"deliverClosed"} /\ "worker" \in started
<1>1. todo \in Stacks /\ Alone({"settle"}, todo)
  BY DEF TypeOK, Stacks, ReceiptOK
<1>2. receipt # "settled" => Nowhere({"settle"}, todo) /\ "closedDeliverySettled" \notin flags
  BY DEF ReceiptOK, Nowhere, Has
<1>3. ASSUME NEW t \in Threads, SettleClosedDelivery(t)
      PROVE  /\ Holds({"settle"}, t, {}) /\ Has(t, "settle")
             /\ "closedDeliverySettled" \in flags'
  <2>1. At(t, "settle") /\ Head(todo[t]) \in {"settle"}
    BY <1>3 DEF SettleClosedDelivery, At
  <2>2. Has(t, "settle")
    BY <1>1, <2>1, AtHas DEF Has
  <2>3. \E E : Step(t, E) /\ "settle" \notin E
    <3>1. Step(t, {"finishUnexpected", "leaveDelivery"})
          \/ Step(t, Cond(Claims, "attachFinalizer") \cup {"leaveDelivery"})
      BY <1>1, <1>3, SettleEffects
    <3> QED
      BY <3>1 DEF Cond
  <2>4. PICK E : Step(t, E) /\ E \cap {"settle"} = {}
    BY <2>3
  <2>5. Holds({"settle"}, t, E \cap {"settle"})
    BY <1>1, <2>1, <2>4, StepHolds
  <2>6. "closedDeliverySettled" \in flags'
    BY <1>1, <1>3, SettleEffects DEF SettledFlags
  <2> QED
    BY <2>2, <2>4, <2>5, <2>6
<1>4. ASSUME NEW t \in Threads, ReceiptReleased(t)
      PROVE  Holds({"settle"}, t, {"settle"}) /\ receipt = "held" /\ receipt' = "settled"
  <2>1. receipt = "held" /\ receipt' = "settled"
    BY <1>4 DEF ReceiptReleased
  <2>2. Given(t, {"settle"})
    BY <1>1, <1>4, LoadEffects DEF TypeOK
  <2>3. Holds({"settle"}, t, {"settle"} \cap {"settle"})
    BY <1>1, <1>2, <2>1, <2>2, GivenHolds
  <2> QED
    BY <2>1, <2>3
<1>5. ASSUME DeliverClosed
      PROVE  /\ Holds({"settle"}, "worker", Cond(receipt' = "settled", "settle"))
             /\ receipt = "none" /\ receipt' \in {"held", "settled"}
             /\ "closedDeliveryExpected" \in flags /\ ~Has("worker", "deliverClosed")'
  <2>1. At("worker", "deliverClosed") /\ receipt' \in {"held", "settled"}
    BY <1>5 DEF DeliverClosed
  <2>2. "deliverClosed" \in WorkerBase
    BY DEF WorkerBase
  <2>3. /\ Has("worker", "deliverClosed")
        /\ \A E : Step("worker", E) => Range(todo'["worker"]) = E
    BY <2>1, <2>2, WorkerTop
  <2>4. receipt = "none" /\ "closedDeliveryExpected" \in flags
    BY <2>3 DEF ReceiptOK
  <2>5. IF receipt' = "held" THEN Step("worker", {"destroyClient"})
        ELSE Step("worker", {"settle", "destroyClient"})
    BY <1>1, <1>5, SimpleEffects
  <2>6. ~Has("worker", "deliverClosed")'
    BY <2>3, <2>5 DEF Has
  <2>7. Nowhere({"settle"}, todo)
    BY <1>2, <2>4
  <2>8. CASE receipt' = "held"
    <3>1. Holds({"settle"}, "worker", {"destroyClient"} \cap {"settle"})
      BY <1>1, <2>5, <2>7, <2>8, StepHolds, OwnerShort
    <3> QED
      BY <2>1, <2>4, <2>6, <2>8, <3>1 DEF Cond
  <2>9. CASE receipt' = "settled"
    <3>1. Holds({"settle"}, "worker", {"settle", "destroyClient"} \cap {"settle"})
      BY <1>1, <2>5, <2>7, <2>9, StepHolds, OwnerShort
    <3> QED
      BY <2>1, <2>4, <2>6, <2>9, <3>1 DEF Cond
  <2> QED
    BY <2>1, <2>8, <2>9
<1>6. ASSUME NoteClosed
      PROVE  /\ receipt = "none" /\ "closedDeliveryExpected" \in flags'
             /\ Range(todo'["worker"]) = {"deliverClosed"} /\ "worker" \in started
  <2>1. At("worker", "noteClosed") /\ "noteClosed" \in WorkerBase /\ "noteClosed" \in WorkerEarly
    BY <1>6 DEF NoteClosed, WorkerBase, WorkerEarly
  <2>2. /\ Has("worker", "noteClosed") /\ "worker" \in started
        /\ \A E : Step("worker", E) => Range(todo'["worker"]) = E
    BY <2>1, WorkerTop
  <2>3. Range(todo'["worker"]) = {"deliverClosed"}
    BY <1>1, <1>6, <2>2, SimpleEffects
  <2>4. "closedDeliveryExpected" \notin flags
    BY <2>1, <2>2 DEF ReceiptOK, Has, HasAny
  <2> QED
    BY <1>6, <2>2, <2>3, <2>4 DEF ReceiptOK, NoteClosed, TypeOK
<1> QED
  BY <1>3, <1>4, <1>5, <1>6

LEMMA ReceiptStep ==
  ASSUME TypeOK, EarlyOK, ThreadsOK, ReceiptOK, [Next]_vars
  PROVE  ReceiptOK'
<1>1. TypeOK' /\ EarlyOK' /\ (Early' \/ ~StartMoves)
  BY StartIsOver
<1>2. ASSUME Early' PROVE ReceiptOK'
  <2>1. TypeOK' /\ EarlyOK' /\ Early'
    BY <1>1, <1>2
  <2>2. (TypeOK /\ EarlyOK /\ Early => ReceiptOK)'
    BY EarlyState, PTL
  <2> QED
    BY <2>1, <2>2
<1> SUFFICES ASSUME ~StartMoves PROVE ReceiptOK'
  BY <1>1, <1>2
<1>3. VariablesWritten /\ FlagsWritten /\ EntriesWritten
  BY OnlyVariablesWritten, OnlyFlagsWritten, OnlyEntriesWritten
<1>4. /\ \A t \in Threads : SettleClosedDelivery(t) =>
           /\ Holds({"settle"}, t, {}) /\ Has(t, "settle")
           /\ "closedDeliverySettled" \in flags'
      /\ \A t \in Threads : ReceiptReleased(t) =>
           Holds({"settle"}, t, {"settle"}) /\ receipt = "held" /\ receipt' = "settled"
      /\ DeliverClosed =>
           /\ Holds({"settle"}, "worker", Cond(receipt' = "settled", "settle"))
           /\ receipt = "none" /\ receipt' \in {"held", "settled"}
           /\ "closedDeliveryExpected" \in flags /\ ~Has("worker", "deliverClosed")'
      /\ NoteClosed =>
           /\ receipt = "none" /\ "closedDeliveryExpected" \in flags'
           /\ Range(todo'["worker"]) = {"deliverClosed"} /\ "worker" \in started
  BY ReceiptSteps
<1>5. /\ \A t \in Threads : SettleClosedDelivery(t) => receipt' = receipt
      /\ \A t \in Threads : ReceiptReleased(t) => flags' = flags
      /\ DeliverClosed => flags' = flags
      /\ NoteClosed => receipt' = receipt
  BY DEF SettleClosedDelivery, ReceiptReleased, DeliverClosed, NoteClosed, receiptVars
<1>6. Alone({"settle"}, todo')
  BY <1>3, <1>4 DEF EntriesWritten, Holds, Keeps, ReceiptOK
<1>7. "closedDeliverySettled" \in flags => "closedDeliverySettled" \in flags'
  BY <1>3, <1>4 DEF FlagsWritten, Same
<1>8. "closedDeliveryExpected" \in flags => "closedDeliveryExpected" \in flags'
  BY <1>3, <1>4 DEF FlagsWritten, Same
<1>9. receipt # "none" => receipt' # "none" /\ (receipt = "settled" => receipt' = "settled")
  BY <1>3, <1>4 DEF VariablesWritten
<1>10. \A t \in Threads : Has(t, "settle")' => receipt' = "settled" /\ "closedDeliverySettled" \notin flags'
  <2> SUFFICES ASSUME NEW t \in Threads, Range(todo'[t]) \cap {"settle"} # {}
               PROVE  receipt' = "settled" /\ "closedDeliverySettled" \notin flags'
    BY DEF Has
  <2>1. \A u \in Threads : ~SettleClosedDelivery(u)
    BY <1>4 DEF Holds
  <2>2. Same("closedDeliverySettled")
    BY <1>3, <2>1 DEF FlagsWritten
  <2>3. CASE Keeps({"settle"})
    <3>1. Has(t, "settle")
      BY <2>3 DEF Keeps, Has
    <3> QED
      BY <1>9, <2>2, <3>1 DEF ReceiptOK, Same
  <2>4. CASE \E u \in Threads : ReceiptReleased(u)
    BY <1>4, <2>2, <2>4 DEF ReceiptOK, Same
  <2>5. CASE DeliverClosed
    BY <1>4, <2>2, <2>5 DEF ReceiptOK, Same, Holds, Cond
  <2> QED
    BY <1>3, <2>1, <2>3, <2>4, <2>5 DEF EntriesWritten
<1>11. receipt' = "settled" => "closedDeliverySettled" \in flags' \/ \E t \in Threads : Has(t, "settle")'
  <2> SUFFICES ASSUME receipt' = "settled", "closedDeliverySettled" \notin flags'
               PROVE  \E t \in Threads : "settle" \in Range(todo'[t])
    BY DEF Has
  <2>1. \A u \in Threads : ~SettleClosedDelivery(u)
    BY <1>4
  <2>2. CASE \E u \in Threads : ReceiptReleased(u)
    BY <1>4, <2>2 DEF Holds
  <2>3. CASE DeliverClosed
    BY <1>4, <2>3, OwnerShort DEF Holds, Cond
  <2>4. CASE UNCHANGED receipt /\ Keeps({"settle"})
    <3>1. PICK t \in Threads : Has(t, "settle")
      BY <1>7, <2>4 DEF ReceiptOK
    <3> QED
      BY <2>4, <3>1 DEF Keeps, Has
  <2> QED
    BY <1>3, <2>1, <2>2, <2>3, <2>4 DEF EntriesWritten, VariablesWritten
<1>12. receipt' # "none" => "closedDeliveryExpected" \in flags'
  BY <1>3, <1>4, <1>8 DEF VariablesWritten, ReceiptOK
<1>13. "closedDeliverySettled" \in flags' => receipt' = "settled"
  BY <1>3, <1>4, <1>5, <1>9 DEF FlagsWritten, Same, ReceiptOK
<1>14. "closedDeliveryExpected" \in flags' /\ receipt' = "none" => Has("worker", "deliverClosed")'
  <2> SUFFICES ASSUME "closedDeliveryExpected" \in flags', receipt' = "none"
               PROVE  "deliverClosed" \in Range(todo'["worker"])
    BY DEF Has
  <2>1. CASE NoteClosed
    BY <1>4, <2>1
  <2>2. CASE ~NoteClosed
    <3>1. receipt = "none" /\ "closedDeliveryExpected" \in flags /\ ~DeliverClosed
      BY <1>3, <1>4, <1>9, <2>2 DEF FlagsWritten, Same
    <3>2. Has("worker", "deliverClosed")
      BY <3>1 DEF ReceiptOK
    <3> QED
      BY <1>3, <2>2, <3>1, <3>2, OwnerShort DEF EntriesWritten, Keeps, Has
  <2> QED
    BY <2>1, <2>2
<1>15. Has("worker", "deliverClosed")' => "closedDeliveryExpected" \in flags' /\ receipt' = "none"
  <2> SUFFICES ASSUME "deliverClosed" \in Range(todo'["worker"])
               PROVE  "closedDeliveryExpected" \in flags' /\ receipt' = "none"
    BY DEF Has
  <2>1. CASE NoteClosed
    BY <1>4, <1>5, <2>1
  <2>2. CASE ~NoteClosed
    <3>1. ~DeliverClosed
      BY <1>4 DEF Has
    <3>2. Has("worker", "deliverClosed")
      BY <1>3, <2>2, <3>1, OwnerShort DEF EntriesWritten, Keeps, Has
    <3>3. receipt = "none" /\ "closedDeliveryExpected" \in flags
      BY <3>2 DEF ReceiptOK
    <3> QED
      BY <1>3, <1>4, <1>8, <3>1, <3>3 DEF VariablesWritten
  <2> QED
    BY <2>1, <2>2
<1>16. HasAny("worker", WorkerEarly)' => HasAny("worker", WorkerEarly)
  <2> SUFFICES ASSUME Range(todo'["worker"]) \cap WorkerEarly # {}
               PROVE  Range(todo["worker"]) \cap WorkerEarly # {}
    BY DEF HasAny
  <2>1. CASE CloseLocks \/ OwnerSendsClose
    <3>1. \E e : todo' = [todo EXCEPT !["owner"] = e]
      BY <2>1 DEF CloseLocks, OwnerSendsClose, Continue
    <3>2. todo'["worker"] = todo["worker"]
      BY <3>1, OwnerShort DEF TypeOK
    <3> QED
      BY <3>2
  <2>2. CASE WaitGate \/ Poll \/ LockClose \/ WorkerSendsClose \/ Receive \/ ReceiveFails
             \/ ReceiveClosed \/ NoteClosed
    <3>1. PICK x \in WorkerEarly : At("worker", x)
      BY <2>2 DEF WaitGate, Poll, LockClose, WorkerSendsClose, Receive, ReceiveFails,
         ReceiveClosed, NoteClosed, WorkerEarly
    <3>2. x \in Range(todo["worker"])
      BY <3>1, WorkerTop DEF WorkerBase, Has
    <3> QED
      BY <3>1, <3>2
  <2> QED
    BY <1>3, <2>1, <2>2, OwnerShort DEF EntriesWritten, Keeps
<1>17. HasAny("worker", WorkerEarly)' \/ "worker" \notin started' => "closedDeliveryExpected" \notin flags'
  <2>1. NoteClosed => ~HasAny("worker", WorkerEarly)' /\ "worker" \in started'
    <3>1. "deliverClosed" \notin WorkerEarly
      BY DEF WorkerEarly
    <3> QED
      BY <1>3, <1>4, <3>1 DEF HasAny, VariablesWritten
  <2> QED
    BY <1>3, <1>16, <2>1 DEF FlagsWritten, Same, VariablesWritten, ReceiptOK
<1>19. "unexpectedClosedAwaitingReport" \in flags' => "closedDeliveryExpected" \in flags'
  <2>1. "unexpectedClosedAwaitingReport" \in flags' /\ ~NoteClosed
          => "unexpectedClosedAwaitingReport" \in flags
    <3>1. ASSUME NEW t \in Threads, CompleteDelivery(t) PROVE flags' \subseteq flags \cup {"runtimeFailureReported", "logicalFailureSourceScheduled", "finalizationScheduled"}
      BY <3>1, CompleteEffects, ZenonT(40) DEF TypeOK, Stacks, Releases, CompletedFlags, Cond
    <3>2. DeadlineExpires \/ LogicalSourceRuns \/ FinalizeWorker =>
            flags' \subseteq flags \cup {"runtimeFailureReported", "logicalResultReported"}
      BY DEF DeadlineExpires, LogicalSourceRuns, FinalizeWorker, TakeFallback
    <3> QED
      BY <1>3, <3>1, <3>2 DEF FlagsWritten, Same
  <2> QED
    BY <1>4, <1>8, <2>1 DEF ReceiptOK
<1>20. "closedReceived" \in flags' => "closedDeliveryExpected" \in flags'
  BY <1>3, <1>4, <1>8 DEF FlagsWritten, Same, ReceiptOK
<1> QED
  BY <1>6, <1>10, <1>11, <1>12, <1>13, <1>14, <1>15, <1>17, <1>19, <1>20 DEF ReceiptOK

\* A step claims the finalizer for t, or leaves it.
ClaimedBy(t) ==
  IF Claims THEN Holds({"attachFinalizer"}, t, {"attachFinalizer"})
            ELSE Keeps({"attachFinalizer"})

LEMMA ClaimHolds ==
  ASSUME todo \in Stacks, Alone({"attachFinalizer"}, todo),
         "finalizationScheduled" \notin flags => Nowhere({"attachFinalizer"}, todo),
         NEW t \in Threads, NEW E, Step(t, E), Head(todo[t]) # "attachFinalizer",
         "attachFinalizer" \in E <=> Claims
  PROVE  ClaimedBy(t)
<1>1. CASE Claims
  <2>1. Nowhere({"attachFinalizer"}, todo)
    BY <1>1 DEF Claims
  <2>2. E \cap {"attachFinalizer"} \subseteq {"attachFinalizer"}
    OBVIOUS
  <2>3. Holds({"attachFinalizer"}, t, E \cap {"attachFinalizer"})
    BY <2>1, <2>2, StepHolds
  <2>4. E \cap {"attachFinalizer"} = {"attachFinalizer"}
    BY <1>1
  <2> QED
    BY <1>1, <2>3, <2>4 DEF ClaimedBy
<1>2. CASE ~Claims
  <2> DEFINE T == E \cup {Head(todo[t])}
  <2>1. Touches(T)
    BY StepTouches
  <2>2. {"attachFinalizer"} \cap T = {}
    BY <1>2
  <2> QED
    BY <1>2, <2>1, <2>2 DEF Touches, ClaimedBy
<1> QED
  BY <1>1, <1>2

\* Only when the reaper is ready and the receipt has settled is the finalizer claimed.
LEMMA FinalizerSteps ==
  ASSUME TypeOK, ThreadsOK, FinalizerOK
  PROVE  /\ \A t \in Threads : CompleteDelivery(t) \/ HandOffFails(t) \/ SettleClosedDelivery(t)
              => /\ ClaimedBy(t) /\ UNCHANGED <<finalizer, started>>
                 /\ Claims => "reaperReady" \in flags /\ ReceiptSettled(flags')
         /\ JoinWorker =>
              /\ ClaimedBy("reaper") /\ UNCHANGED <<finalizer, started>>
              /\ Claims => "reaper" \in started /\ ReceiptSettled(flags')
              /\ "reaper" \in started
         /\ \A t \in Threads : AttachFinalizer(t) =>
              /\ Holds({"attachFinalizer"}, t, {}) /\ Has(t, "attachFinalizer")
              /\ finalizer' \in {finalizer, "attached"}
<1>1. /\ todo \in Stacks /\ Alone({"attachFinalizer"}, todo)
      /\ "finalizationScheduled" \notin flags => Nowhere({"attachFinalizer"}, todo)
  BY DEF TypeOK, Stacks, FinalizerOK, Nowhere, Has
<1>2. \A t \in Threads : \A E :
        Step(t, E) /\ Head(todo[t]) # "attachFinalizer" /\ ("attachFinalizer" \in E <=> Claims)
        => ClaimedBy(t)
  BY <1>1, ClaimHolds
<1>3. ASSUME NEW t \in Threads, NEW F, Releases(t, F), Head(todo[t]) # "attachFinalizer"
      PROVE  ClaimedBy(t) /\ (Claims => CanClaimFinalizer(F) /\ F \subseteq flags')
  <2>1. Step(t, Cond(Schedules, "scheduleLogical") \cup Cond(Claims, "attachFinalizer"))
    BY <1>3 DEF Releases
  <2>2. "attachFinalizer" \in Cond(Schedules, "scheduleLogical") \cup Cond(Claims, "attachFinalizer")
          <=> Claims
    BY DEF Cond
  <2>3. ClaimedBy(t)
    BY <1>2, <1>3, <2>1, <2>2
  <2> QED
    BY <1>3, <2>3 DEF Releases
<1>4. \A F : CanClaimFinalizer(F) => "reaperReady" \in F /\ ReceiptSettled(F)
  BY DEF CanClaimFinalizer, FinalizerCanRun
<1>5. ASSUME NEW t \in Threads, CompleteDelivery(t)
      PROVE  /\ ClaimedBy(t) /\ UNCHANGED <<finalizer, started>>
             /\ Claims => "reaperReady" \in flags /\ ReceiptSettled(flags')
  <2>1. UNCHANGED <<finalizer, started>> /\ Head(todo[t]) # "attachFinalizer"
    BY <1>5 DEF CompleteDelivery, sourceVars, threadVars, At
  <2>2. CASE "failureHandoffPending" \in flags
    <3>1. Releases(t, CompletedFlags(t))
      BY <1>1, <1>5, <2>2, CompleteEffects
    <3>2. ClaimedBy(t) /\ (Claims => CanClaimFinalizer(CompletedFlags(t)))
      BY <1>3, <2>1, <3>1
    <3>3. Claims => "reaperReady" \in flags /\ ReceiptSettled(flags')
      BY <1>4, <3>1, <3>2 DEF CompletedFlags, Releases, ReceiptSettled, Cond
    <3> QED
      BY <2>1, <3>2, <3>3
  <2>3. CASE "failureHandoffPending" \notin flags
    <3>1. Step(t, {}) /\ flags' = flags
      BY <1>1, <1>5, <2>3, CompleteEffects
    <3>2. ~Claims
      BY <3>1 DEF Claims
    <3> QED
      BY <1>2, <2>1, <3>1, <3>2
  <2> QED
    BY <2>2, <2>3
<1>6. ASSUME NEW t \in Threads, HandOffFails(t)
      PROVE  /\ ClaimedBy(t) /\ UNCHANGED <<finalizer, started>>
             /\ Claims => "reaperReady" \in flags /\ ReceiptSettled(flags')
  <2>1. UNCHANGED <<finalizer, started>> /\ Head(todo[t]) # "attachFinalizer"
    BY <1>6 DEF HandOffFails, sourceVars, threadVars, At
  <2>2. Releases(t, RefusedFlags)
    BY <1>1, <1>6, RefusedEffects
  <2>3. ClaimedBy(t) /\ (Claims => CanClaimFinalizer(RefusedFlags))
    BY <1>3, <2>1, <2>2
  <2>4. Claims => "reaperReady" \in flags /\ ReceiptSettled(flags')
    BY <1>4, <2>2, <2>3 DEF RefusedFlags, Releases, ReceiptSettled, Cond
  <2> QED
    BY <2>1, <2>3, <2>4
<1>7. ASSUME NEW t \in Threads, SettleClosedDelivery(t)
      PROVE  /\ ClaimedBy(t) /\ UNCHANGED <<finalizer, started>>
             /\ Claims => "reaperReady" \in flags /\ ReceiptSettled(flags')
  <2>1. UNCHANGED <<finalizer, started>> /\ Head(todo[t]) # "attachFinalizer"
    BY <1>7 DEF SettleClosedDelivery, sourceVars, threadVars, At
  <2>2. CASE ReportsUnexpected
    <3>1. Step(t, {"finishUnexpected", "leaveDelivery"})
          /\ flags' = SettledFlags \cup {"failureHandoffPending"}
      BY <1>1, <1>7, <2>2, SettleEffects
    <3>2. ~Claims
      BY <3>1 DEF Claims, SettledFlags
    <3> QED
      BY <1>2, <2>1, <3>1, <3>2
  <2>3. CASE ~ReportsUnexpected
    <3>1. /\ Step(t, Cond(Claims, "attachFinalizer") \cup {"leaveDelivery"})
          /\ flags' = SettledFlags \cup Cond(Claims, "finalizationScheduled")
          /\ Claims <=> CanClaimFinalizer(SettledFlags)
      BY <1>1, <1>7, <2>3, SettleEffects
    <3>2. "attachFinalizer" \in Cond(Claims, "attachFinalizer") \cup {"leaveDelivery"} <=> Claims
      BY DEF Cond
    <3>3. ClaimedBy(t)
      BY <1>2, <2>1, <3>1, <3>2
    <3>4. Claims => "reaperReady" \in flags /\ ReceiptSettled(flags')
      BY <1>4, <3>1 DEF SettledFlags, ReceiptSettled, Cond
    <3> QED
      BY <2>1, <3>3, <3>4
  <2> QED
    BY <2>2, <2>3
<1>8. ASSUME JoinWorker
      PROVE  /\ ClaimedBy("reaper") /\ UNCHANGED <<finalizer, started>>
             /\ Claims => "reaper" \in started /\ ReceiptSettled(flags')
             /\ "reaper" \in started
  <2>1. UNCHANGED <<finalizer, started>> /\ Head(todo["reaper"]) # "attachFinalizer"
        /\ "reaper" \in started
    BY <1>8 DEF JoinWorker, sourceVars, threadVars, At, ThreadsOK
  <2>2. /\ Step("reaper", Cond(Claims, "attachFinalizer"))
        /\ flags' = flags \cup {"reaperReady"} \cup Cond(Claims, "finalizationScheduled")
        /\ Claims <=> CanClaimFinalizer(flags \cup {"reaperReady"})
    BY <1>1, <1>8, JoinEffects
  <2>3. "attachFinalizer" \in Cond(Claims, "attachFinalizer") <=> Claims
    BY DEF Cond
  <2>4. ClaimedBy("reaper")
    BY <1>2, <2>1, <2>2, <2>3, OwnerShort
  <2>5. Claims => ReceiptSettled(flags')
    BY <1>4, <2>2 DEF ReceiptSettled, Cond
  <2> QED
    BY <2>1, <2>4, <2>5
<1>9. ASSUME NEW t \in Threads, AttachFinalizer(t)
      PROVE  /\ Holds({"attachFinalizer"}, t, {}) /\ Has(t, "attachFinalizer")
             /\ finalizer' \in {finalizer, "attached"}
  <2>1. Head(todo[t]) \in {"attachFinalizer"} /\ At(t, "attachFinalizer")
    BY <1>9 DEF AttachFinalizer, At
  <2>2. Has(t, "attachFinalizer")
    BY <1>1, <2>1, AtHas DEF Has
  <2>3. \/ Step(t, {}) /\ finalizer' = "attached"
        \/ Step(t, {"reportLogicalFailure"}) /\ finalizer' = finalizer
    BY <1>1, <1>9, OtherFailureEffects
  <2>4. PICK E \in {{}, {"reportLogicalFailure"}} : Step(t, E)
    BY <2>3
  <2>5. E \cap {"attachFinalizer"} = {} /\ E \cap {"attachFinalizer"} \subseteq {t}
    OBVIOUS
  <2>6. Holds({"attachFinalizer"}, t, E \cap {"attachFinalizer"})
    BY <1>1, <2>1, <2>4, <2>5, StepHolds
  <2> QED
    BY <2>2, <2>3, <2>5, <2>6
<1> QED
  BY <1>5, <1>6, <1>7, <1>8, <1>9

LEMMA FinalizerStep ==
  ASSUME TypeOK, EarlyOK, ThreadsOK, ReceiptOK, FinalizerOK, [Next]_vars
  PROVE  FinalizerOK'
<1>1. TypeOK' /\ EarlyOK' /\ (Early' \/ ~StartMoves)
  BY StartIsOver
<1>2. ASSUME Early' PROVE FinalizerOK'
  <2>1. TypeOK' /\ EarlyOK' /\ Early'
    BY <1>1, <1>2
  <2>2. (TypeOK /\ EarlyOK /\ Early => FinalizerOK)'
    BY EarlyState, PTL
  <2> QED
    BY <2>1, <2>2
<1> SUFFICES ASSUME ~StartMoves PROVE FinalizerOK'
  BY <1>1, <1>2
<1>3. VariablesWritten /\ FlagsWritten /\ EntriesWritten
  BY OnlyVariablesWritten, OnlyFlagsWritten, OnlyEntriesWritten
<1>4. /\ \A t \in Threads : CompleteDelivery(t) \/ HandOffFails(t) \/ SettleClosedDelivery(t)
           => /\ ClaimedBy(t) /\ UNCHANGED <<finalizer, started>>
              /\ Claims => "reaperReady" \in flags /\ ReceiptSettled(flags')
      /\ JoinWorker =>
           /\ ClaimedBy("reaper") /\ UNCHANGED <<finalizer, started>>
           /\ Claims => "reaper" \in started /\ ReceiptSettled(flags')
           /\ "reaper" \in started
      /\ \A t \in Threads : AttachFinalizer(t) =>
           /\ Holds({"attachFinalizer"}, t, {}) /\ Has(t, "attachFinalizer")
           /\ finalizer' \in {finalizer, "attached"}
  BY FinalizerSteps
<1>5. StartFails => /\ Early /\ "finalizationScheduled" \notin flags /\ started = {}
  <2> SUFFICES ASSUME StartFails
               PROVE  Early /\ "finalizationScheduled" \notin flags /\ started = {}
    OBVIOUS
  <2>1. Early
    BY Leaving
  <2>2. EarlyProgress
    BY <2>1 DEF EarlyOK
  <2> QED
    BY <2>1, <2>2, EarlyFlags DEF EarlyProgress, StartFails, Flags
<1>6. "reaper" \in started /\ ~Claims /\ "finalizationScheduled" \notin flags
        => finalizer = "prepared"
  BY DEF FinalizerOK
<1>7. Claims => /\ finalizer = "prepared" /\ UNCHANGED finalizer
                /\ "reaperReady" \in flags' /\ ReceiptSettled(flags')
  <2> SUFFICES ASSUME Claims
               PROVE  /\ finalizer = "prepared" /\ UNCHANGED finalizer
                      /\ "reaperReady" \in flags' /\ ReceiptSettled(flags')
    OBVIOUS
  <2>1. "finalizationScheduled" \notin flags /\ ~Same("finalizationScheduled")
    BY DEF Claims, Same
  <2>2. JoinWorker \/ \E t \in Threads : CompleteDelivery(t) \/ HandOffFails(t) \/ SettleClosedDelivery(t)
    BY <1>3, <2>1 DEF FlagsWritten
  <2>3. CASE JoinWorker
    <3>1. "reaperReady" \in flags'
      BY <2>3, JoinEffects DEF TypeOK, Stacks
    <3> QED
      BY <1>4, <2>1, <2>3, <3>1 DEF FinalizerOK
  <2>4. CASE ~JoinWorker
    <3>1. Same("reaperReady")
      BY <1>3, <2>4 DEF FlagsWritten
    <3> QED
      BY <1>4, <2>1, <2>2, <2>4, <3>1 DEF FinalizerOK, Same
  <2> QED
    BY <2>3, <2>4
<1>8. "finalizationScheduled" \in flags => "finalizationScheduled" \in flags'
  <2> SUFFICES ASSUME "finalizationScheduled" \in flags, "finalizationScheduled" \notin flags'
               PROVE  FALSE
    OBVIOUS
  <2>1. todo \in Stacks /\ ~Claims
    BY DEF TypeOK, Stacks, Claims
  <2>2. \A t \in Threads : \A F : Releases(t, F) => F \subseteq flags'
    BY DEF Releases
  <2>3. \A t \in Threads : ~CompleteDelivery(t)
    BY <2>1, <2>2, CompleteEffects, ZenonT(40) DEF CompletedFlags
  <2>4. \A t \in Threads : ~HandOffFails(t)
    BY <2>1, <2>2, RefusedEffects DEF RefusedFlags
  <2>5. \A t \in Threads : ~SettleClosedDelivery(t)
    BY <2>1, SettleEffects DEF SettledFlags
  <2>6. ~JoinWorker
    BY <2>1, JoinEffects
  <2> QED
    BY <1>3, <2>3, <2>4, <2>5, <2>6 DEF FlagsWritten, Same
<1>9. Alone({"attachFinalizer"}, todo')
  <2>1. \A t : ClaimedBy(t) => Alone({"attachFinalizer"}, todo')
    BY DEF ClaimedBy, Holds, Keeps, FinalizerOK
  <2> QED
    BY <1>3, <1>4, <2>1, OwnerShort DEF EntriesWritten, Holds, Keeps, FinalizerOK
<1>10. \A t \in Threads :
         Has(t, "attachFinalizer")' => "finalizationScheduled" \in flags' /\ finalizer' = "prepared"
  <2> SUFFICES ASSUME NEW t \in Threads, Range(todo'[t]) \cap {"attachFinalizer"} # {}
               PROVE  "finalizationScheduled" \in flags' /\ finalizer' = "prepared"
    BY DEF Has
  <2>1. CASE Claims
    BY <1>7, <2>1 DEF Claims
  <2>2. CASE ~Claims
    <3>1. \A u \in Threads : ~AttachFinalizer(u)
      BY <1>4 DEF Holds
    <3>2. Keeps({"attachFinalizer"})
      BY <1>3, <1>4, <2>2, <3>1 DEF EntriesWritten, ClaimedBy
    <3>3. Has(t, "attachFinalizer")
      BY <3>2 DEF Keeps, Has
    <3>4. "finalizationScheduled" \in flags /\ finalizer = "prepared"
      BY <3>3 DEF FinalizerOK
    <3>5. UNCHANGED finalizer
      BY <1>3, <1>5, <3>1, <3>4 DEF VariablesWritten, FinalizeWorker
    <3> QED
      BY <1>8, <3>4, <3>5
  <2> QED
    BY <2>1, <2>2
<1>11. finalizer' = "attached" => "finalizationScheduled" \in flags'
  <2>1. ASSUME NEW t \in Threads, AttachFinalizer(t) PROVE "finalizationScheduled" \in flags
    BY <1>4, <2>1 DEF FinalizerOK
  <2> QED
    BY <1>3, <1>8, <2>1 DEF VariablesWritten, FinalizerOK, StartFails, FinalizeWorker
<1>12. "reaper" \in started' /\ "finalizationScheduled" \notin flags' => finalizer' = "prepared"
  <2> SUFFICES ASSUME "reaper" \in started', "finalizationScheduled" \notin flags'
               PROVE  finalizer' = "prepared"
    OBVIOUS
  <2>1. "reaper" \in started /\ "finalizationScheduled" \notin flags
    BY <1>3, <1>8 DEF VariablesWritten
  <2>2. finalizer = "prepared" /\ ~StartFails /\ ~FinalizeWorker
    BY <1>5, <2>1 DEF FinalizerOK, FinalizeWorker
  <2>3. \A t \in Threads : ~AttachFinalizer(t)
    BY <1>4, <2>1 DEF FinalizerOK
  <2> QED
    BY <1>3, <2>2, <2>3 DEF VariablesWritten
<1>13. "finalizationScheduled" \in flags' => "reaperReady" \in flags' /\ ReceiptSettled(flags')
  <2>1. CASE Claims
    BY <1>7, <2>1
  <2>2. CASE "finalizationScheduled" \in flags
    <3>1. "reaperReady" \in flags /\ ReceiptSettled(flags)
      BY <2>2 DEF FinalizerOK
    <3>2. todo["worker"] = <<>>
      BY <3>1 DEF ThreadsOK, Exited, Idle
    <3>3. ~NoteClosed
      BY <3>2 DEF NoteClosed, At
    <3>4. \A t \in Threads : SettleClosedDelivery(t) => "closedDeliverySettled" \in flags'
      BY SettleEffects DEF SettledFlags, TypeOK, Stacks
    <3>5. JoinWorker => "reaperReady" \in flags'
      BY JoinEffects DEF TypeOK, Stacks
    <3>6. "closedDeliverySettled" \in flags => "closedDeliverySettled" \in flags'
      BY <1>3, <3>4 DEF FlagsWritten, Same
    <3> QED
      BY <1>3, <3>1, <3>3, <3>5, <3>6 DEF FlagsWritten, Same, ReceiptSettled
  <2> QED
    BY <2>1, <2>2 DEF Claims
<1>14. "reaperReady" \in flags' => "reaper" \in started'
  BY <1>3, <1>4 DEF FlagsWritten, VariablesWritten, Same, FinalizerOK
<1> QED
  BY <1>9, <1>10, <1>11, <1>12, <1>13, <1>14 DEF FinalizerOK

\* The key is given up when the finalizer has run, and that needs all that used it to be gone.
LEMMA RegistryStep ==
  ASSUME TypeOK, EarlyOK, ThreadsOK, ReceiptOK, FinalizerOK, RegistryOK, [Next]_vars
  PROVE  RegistryOK'
<1>1. TypeOK' /\ EarlyOK' /\ (Early' \/ ~StartMoves)
  BY StartIsOver
<1>2. ASSUME Early' PROVE RegistryOK'
  <2>1. TypeOK' /\ EarlyOK' /\ Early'
    BY <1>1, <1>2
  <2>2. (TypeOK /\ EarlyOK /\ Early => RegistryOK)'
    BY EarlyState, PTL
  <2> QED
    BY <2>1, <2>2
<1> SUFFICES ASSUME ~StartMoves PROVE RegistryOK'
  BY <1>1, <1>2
<1>3. VariablesWritten /\ FlagsWritten /\ EntriesWritten
  BY OnlyVariablesWritten, OnlyFlagsWritten, OnlyEntriesWritten
<1> DEFINE Gone == /\ ~client /\ receipt # "held" /\ deliveryExit = "none"
                   /\ \A t \in Threads : ~Has(t, "settle")
                   /\ \A t \in started : Exited(t)
<1>4. ASSUME FinalizeWorker PROVE Gone
  <2>1. "finalizationScheduled" \in flags /\ deliveryExit = "none" /\ Exited("reaper")
    BY <1>4 DEF FinalizeWorker, FinalizerOK
  <2>2. "reaperReady" \in flags /\ ReceiptSettled(flags)
    BY <2>1 DEF FinalizerOK
  <2>3. Exited("worker") /\ ~client
    BY <2>2 DEF ThreadsOK, Exited, Idle
  <2>4. \A t \in started : Exited(t)
    BY <2>1, <2>3 DEF TypeOK
  <2>5. receipt # "held" /\ \A t \in Threads : ~Has(t, "settle")
    BY <2>2 DEF ReceiptOK, ReceiptSettled
  <2> QED
    BY <2>1, <2>3, <2>4, <2>5
<1>5. ASSUME StartFails PROVE Gone
  <2>1. TypeOK /\ EarlyOK /\ Early
    BY <1>5, Leaving
  <2>2. EarlyProgress /\ EarlyData
    BY <2>1 DEF EarlyOK
  <2>3. started = {} /\ ~client
    BY <1>5, <2>2 DEF EarlyProgress, StartFails
  <2>4. ReceiptOK /\ receipt = "none" /\ deliveryExit = "none"
    BY <2>2 DEF EarlyData
  <2> QED
    BY <2>3, <2>4 DEF ReceiptOK
<1>6. ASSUME registry' # "own" PROVE Gone
  BY <1>3, <1>4, <1>5, <1>6 DEF VariablesWritten, RegistryOK, OtherSessionEnds
<1>7. ASSUME Gone
      PROVE  /\ ~client' /\ receipt' # "held" /\ deliveryExit' = "none"
             /\ \A t \in Threads : ~Has(t, "settle")'
  <2>1. \A t \in started : todo[t] = <<>>
    BY <1>7 DEF Exited, Idle
  <2>2. todo["worker"] = <<>> /\ todo["reaper"] = <<>>
    BY <2>1 DEF ThreadsOK
  <2>3. ~DestroyClient /\ ~DeliverClosed /\ \A t \in Threads : ~ReceiptReleased(t)
    BY <1>7, <2>2 DEF DestroyClient, DeliverClosed, At, ReceiptReleased
  <2>4. \A t \in Threads : ~SettleClosedDelivery(t)
    <3>1. \A t \in Threads : At(t, "settle") => Has(t, "settle")
      BY AtHas DEF TypeOK, Stacks, Has
    <3> QED
      BY <1>7, <3>1 DEF SettleClosedDelivery
  <2>5. \A t \in Threads : LeaveDelivery(t) => deliveryExit' = "none"
    BY DEF LeaveDelivery
  <2>6. Keeps({"settle"})
    BY <1>3, <2>3, <2>4 DEF EntriesWritten
  <2>7. \A t \in Threads : ~Has(t, "settle")'
    BY <1>7, <2>6 DEF Keeps, Has
  <2> QED
    BY <1>3, <1>7, <2>3, <2>4, <2>5, <2>7 DEF VariablesWritten
<1>8. ASSUME Gone PROVE \A t \in started' : Exited(t)'
  <2> SUFFICES ASSUME NEW t \in started PROVE Exited(t)'
    BY <1>3 DEF VariablesWritten
  <2>1. Exited(t) /\ t \in {"worker", "reaper"}
    BY <1>8 DEF TypeOK
  <2>2. PICK u \in Threads : /\ \A v \in Threads : v # u => todo'[v] = todo[v]
                             /\ u \in {"worker", "reaper"} => todo[u] # <<>>
    BY OneThreadMoves
  <2>3. u # t /\ t \in Threads
    BY <2>1, <2>2 DEF Exited, Idle, Threads
  <2>4. todo'[t] = todo[t]
    BY <2>2, <2>3
  <2> QED
    BY <1>3, <2>1, <2>4 DEF Exited, Idle, VariablesWritten
<1> QED
  BY <1>6, <1>7, <1>8 DEF RegistryOK

\* What a session's use of its client, its receipt and its key rests on.
ClientInv ==
  TypeOK /\ EarlyOK /\ ThreadsOK /\ LockOK /\ ReceiptOK /\ FinalizerOK /\ RegistryOK

LEMMA InitEarly == Init => TypeOK /\ EarlyOK /\ Early
<1> SUFFICES ASSUME Init PROVE TypeOK /\ EarlyOK /\ Early
  OBVIOUS
<1>1. TypeOK
  BY InitTypeOK
<1>2. Range(<<>>) = {}
  BY ShortRanges
<1>3. \A t \in Threads : todo[t] = <<>>
  BY DEF Init
<1>4. Idle("owner") /\ ~HasAny("owner", StartEntries \ {"reserve"})
      /\ ~HasAny("owner", {"createClient", "createWorker", "createReaper", "activate"})
  BY <1>2, <1>3, OwnerShort DEF Idle, HasAny
<1>5. EarlyProgress
  BY <1>4 DEF Init, EarlyProgress, Idle, At
<1>6. EarlyStacks
  BY <1>3, OwnerShort DEF Init, EarlyStacks
<1>7. EarlyData
  BY DEF Init, EarlyData
<1> QED
  BY <1>1, <1>5, <1>6, <1>7 DEF EarlyOK, Early, Init

LEMMA ClientInvInit == Init => ClientInv
  BY InitEarly, EarlyState DEF ClientInv

LEMMA ClientInvStep == ClientInv /\ [Next]_vars => ClientInv'
<1> SUFFICES ASSUME ClientInv, [Next]_vars PROVE ClientInv'
  OBVIOUS
<1>1. TypeOK' /\ EarlyOK'
  BY StartIsOver DEF ClientInv
<1>2. ThreadsOK' /\ LockOK' /\ ReceiptOK' /\ FinalizerOK' /\ RegistryOK'
  BY ThreadsStep, LockStep, ReceiptStep, FinalizerStep, RegistryStep DEF ClientInv
<1> QED
  BY <1>1, <1>2 DEF ClientInv

LEMMA ClientInvSafe == ClientInv => ClientOutlivesItsUse
<1> SUFFICES ASSUME ClientInv PROVE ClientOutlivesItsUse
  OBVIOUS
<1>1. \A t \in Threads : \A x : At(t, x) => x \in Range(todo[t])
  BY AtHas DEF ClientInv, TypeOK, Stacks
<1>2. (At("owner", "sendClose") \/ At("worker", "sendClose") \/ At("sender", "send"))
        => client
  BY <1>1, OwnerShort DEF ClientInv, LockOK, HasAny
<1> QED
  BY <1>2 DEF ClientInv, LockOK, RegistryOK, ClientOutlivesItsUse

\* close is sent at most once, a request is only sent to a client that exists, and the
\* session key is free only when neither thread runs, the client is destroyed and nobody
\* holds or settles the receipt (start, sendQueuedClose, settleClosedDelivery and
\* finalizeWorker, in whatever order the five threads run them).
THEOREM ClientOutlives == Spec => []ClientOutlivesItsUse
<1>1. Init => ClientInv
  BY ClientInvInit
<1>2. ClientInv /\ [Next]_vars => ClientInv'
  BY ClientInvStep
<1>3. ClientInv => ClientOutlivesItsUse
  BY ClientInvSafe
<1> QED
  BY <1>1, <1>2, <1>3, PTL DEF Spec

-----------------------------------------------------------------------------
(* The results: the other half of the invariant *)

\* The failure callback is handed over by one thread, or by a source, while
\* failureHandoffPending is set; who has taken it out of the state has it.
HandoffOK ==
  /\ Alone(Tokens, todo)
  /\ \A t \in Threads :
       HasAny(t, Tokens) => "failureHandoffPending" \in flags /\ failureSource = "none"
  /\ \A t \in Threads : HasAny(t, Taken) => ~failureCallback
  /\ failureSource # "none" => "failureHandoffPending" \in flags /\ ~failureCallback
  /\ "failureFallbackPending" \in flags => "failureHandoffPending" \notin flags
  /\ "failureHandoffPending" \in flags =>
       (\E t \in Threads : HasAny(t, Tokens)) \/ failureSource # "none"

\* The worker has finished, and nobody waits for the closed update any more.
Over == "physicalFinished" \in flags /\ ReceiptSettled(flags)

NoMoreHandoff == ~CanBeginHandoff(flags) \/ Over

\* From where the application is called.
App == {"inCallback", "createClient", "failureCallback", "invokeCallbacks",
        "finishUnexpected", "settle", "close"}

\* What close() and the failure paths have put on the owner's stack is done before the
\* application runs again; and once a failure is reported no other can be handed over.
OrderOK ==
  /\ Above(App, Closers, todo["owner"])
  /\ Above(App \cup Closers, {"reportLogicalFailure"}, todo["owner"])

CloseOK ==
  /\ Alone(Closers, todo)
  /\ \A t \in Threads : HasAny(t, Closers) =>
       t = "owner" /\ ~Early /\ phase # "Running" /\ ~deadline
  /\ deadline => ~Early /\ phase # "Running"
  /\ "logicalFailureDeliveryPending" \in flags => "logicalResultReported" \in flags
  /\ \A t \in Threads \ {"owner"} : Has(t, "reportLogicalFailure") => NoMoreHandoff
  /\ deadline /\ (Has("owner", "reportLogicalFailure") \/ "logicalResultReported" \in flags)
       => NoMoreHandoff
  /\ phase = "Failed" \/ "abortWorker" \in flags =>
       \/ NoMoreHandoff \/ "logicalResultReported" \in flags
       \/ Has("owner", "reportLogicalFailure")

KnownCallbacks == {known.callback : known \in knownResults}
ReportedCallbacks == {c \in Callbacks : reports[c] # <<>>}
Told == knownResults # {} \/ invoking.callbacks # {} \/ ReportedCallbacks # {}
NeverStarted == ~Early /\ started = {} /\ ~client

\* A callback is in one place, and everybody hears logicalResult. It can still change after
\* it was reported, to TimedOut, but nobody has heard of it then.
PlacesOK ==
  /\ closeCallbacks \cup invoking.callbacks \cup KnownCallbacks \cup ReportedCallbacks
       \subseteq passed
  /\ closeCallbacks \cap (invoking.callbacks \cup KnownCallbacks \cup ReportedCallbacks) = {}
  /\ invoking.callbacks \cap (KnownCallbacks \cup ReportedCallbacks) = {}
  /\ KnownCallbacks \cap ReportedCallbacks = {}

ResultsOK ==
  /\ Told => "logicalResultReported" \in flags
  /\ \A known \in knownResults : known.result = logicalResult
  /\ invoking.callbacks # {} => invoking.result = logicalResult
  /\ \A c \in Callbacks : reports[c] \in {<<>>, <<logicalResult>>}
  /\ deadline /\ "logicalResultReported" \in flags /\ (Told \/ logicalResult # "Failed")
       => flags \cap {"failureHandoffPending", "failureFallbackPending"} = {}
  /\ logicalResult # "Failed" => "logicalResultReported" \in flags
  /\ logicalResult = "Closed" => NeverStarted \/ Over

\* A source that delivers the logical failure is noted, or the deadline has passed.
Scheduling == {t \in Threads : Has(t, "scheduleLogical")}
One(condition) == IF condition THEN 1 ELSE 0
Finalized == "finalizationScheduled" \in flags /\ finalizer = "none"

SourcesOK ==
  /\ \A t \in Threads : SchedulesFirst(todo[t])
  /\ logicalSources + Cardinality(Scheduling) <= 2
  /\ ~Finalized => logicalSources + Cardinality(Scheduling) <=
       One("logicalFailureSourceScheduled" \in flags)
         + One("logicalResultReported" \in flags /\ ~deadline)
  /\ Finalized => /\ flags \cap {"logicalFailureDeliveryPending", "failureHandoffPending",
                                "failureFallbackPending"} = {}
                  /\ "logicalResultReported" \in flags

LEMMA EarlyResults == TypeOK /\ EarlyOK /\ Early =>
  HandoffOK /\ OrderOK /\ CloseOK /\ PlacesOK /\ ResultsOK /\ SourcesOK
<1> SUFFICES ASSUME TypeOK, EarlyOK, Early
             PROVE  HandoffOK /\ OrderOK /\ CloseOK /\ PlacesOK /\ ResultsOK /\ SourcesOK
  OBVIOUS
<1>1. EarlyStacks /\ EarlyData /\ EarlyProgress
  BY DEF EarlyOK
<1>2. \A S : S \cap (StartEntries \cup {"waitGate", "joinWorker"}) = {} =>
        Nowhere(S, todo) /\ Alone(S, todo)
  BY EarlyNowhere
<1>3. \A x \in Flags : x # "closeRequestedDuringStart" => x \notin flags
  BY EarlyFlags
<1>4. /\ Nowhere(Tokens, todo) /\ Alone(Tokens, todo) /\ Nowhere(Taken, todo)
      /\ Nowhere(Closers, todo) /\ Alone(Closers, todo)
      /\ Nowhere({"reportLogicalFailure"}, todo) /\ Nowhere({"scheduleLogical"}, todo)
  BY <1>2 DEF Tokens, Taken, Closers, StartEntries
<1>5. \A t \in Threads :
        /\ ~HasAny(t, Tokens) /\ ~HasAny(t, Taken) /\ ~HasAny(t, Closers)
        /\ ~Has(t, "reportLogicalFailure") /\ ~Has(t, "scheduleLogical")
  BY <1>4 DEF Nowhere, HasAny, Has
<1>6. /\ failureSource = "none" /\ ~deadline /\ logicalResult = "Failed"
      /\ knownResults = {} /\ invoking.callbacks = {} /\ \A c \in Callbacks : reports[c] = <<>>
      /\ logicalSources = 0 /\ closeCallbacks \subseteq passed
  BY <1>1 DEF EarlyData
<1>7. HandoffOK
  BY <1>3, <1>4, <1>5, <1>6 DEF HandoffOK, Flags
<1>8. CloseOK
  <2>1. phase # "Failed" /\ "abortWorker" \notin flags
    BY <1>3 DEF Early, Flags
  <2> QED
    BY <1>3, <1>4, <1>5, <1>6, <2>1 DEF CloseOK, Flags
<1>9. KnownCallbacks = {} /\ ReportedCallbacks = {} /\ ~Told
  BY <1>6 DEF KnownCallbacks, ReportedCallbacks, Told
<1>10. PlacesOK /\ ResultsOK
  BY <1>3, <1>6, <1>9 DEF PlacesOK, ResultsOK, Flags
<1>11. SourcesOK
  <2>1. Scheduling = {}
    BY <1>5 DEF Scheduling
  <2>2. Cardinality(Scheduling) = 0
    BY <2>1, FS_EmptySet
  <2>3. \A t \in Threads : SchedulesFirst(todo[t])
    <3> SUFFICES ASSUME NEW t \in Threads, todo[t] # <<>>
                 PROVE  "scheduleLogical" \notin Range(Tail(todo[t]))
      BY DEF SchedulesFirst
    <3>1. todo[t] \in Seq(Entries)
      BY DEF TypeOK
    <3>2. Range(Tail(todo[t])) \subseteq Range(todo[t])
      BY <3>1, RestRange DEF Rest
    <3> QED
      BY <1>5, <3>2 DEF Has
  <2>4. ~Finalized
    BY <1>3 DEF Finalized, Flags
  <2> QED
    BY <1>3, <1>6, <2>2, <2>3, <2>4 DEF SourcesOK, One, Flags
<1>12. OrderOK
  <2>1. todo["owner"] = <<>> \/ \E e \in StartEntries : todo["owner"] = <<e>>
    BY <1>1 DEF EarlyStacks, Early
  <2>2. \A A, C : Above(A, C, todo["owner"])
    <3>1. \A i, j \in DOMAIN todo["owner"] : j <= i
      BY <2>1
    <3> QED
      BY <3>1 DEF Above
  <2> QED
    BY <2>2 DEF OrderOK
<1> QED
  BY <1>7, <1>8, <1>10, <1>11, <1>12

\* A failure is handed over by t from this step on, or nothing changes about that.
BegunBy(t) ==
  IF "failureHandoffPending" \in flags' /\ "failureHandoffPending" \notin flags
  THEN /\ CanBeginHandoff(flags)
       /\ \E x \in {"finishHandoff", "finishUnexpected"} : Holds(Tokens, t, {x})
  ELSE Keeps(Tokens) /\ Same("failureHandoffPending")

LEMMA BegunHolds ==
  ASSUME todo \in Stacks, HandoffOK, NEW t \in Threads, NEW begins \in BOOLEAN,
         NEW x \in {"finishHandoff", "finishUnexpected"}, NEW R, R \cap Tokens = {},
         Step(t, Cond(begins, x) \cup R), Head(todo[t]) \notin Tokens,
         begins => CanBeginHandoff(flags),
         "failureHandoffPending" \in flags' <=> begins \/ "failureHandoffPending" \in flags
  PROVE  BegunBy(t)
<1>1. CASE begins
  <2>1. "failureHandoffPending" \in flags' /\ "failureHandoffPending" \notin flags
    BY <1>1 DEF CanBeginHandoff
  <2>2. Nowhere(Tokens, todo) /\ Alone(Tokens, todo)
    BY <2>1 DEF HandoffOK, Nowhere, HasAny
  <2>3. (Cond(begins, x) \cup R) \cap Tokens = {x}
    BY <1>1 DEF Cond, Tokens
  <2>4. Holds(Tokens, t, {x})
    BY <2>2, <2>3, StepHolds
  <2> QED
    BY <1>1, <2>1, <2>4 DEF BegunBy
<1>2. CASE ~begins
  <2> DEFINE T == (Cond(begins, x) \cup R) \cup {Head(todo[t])}
  <2>1. Touches(T)
    BY StepTouches
  <2>2. Tokens \cap T = {}
    BY <1>2 DEF Cond
  <2>3. Keeps(Tokens)
    BY <2>1, <2>2 DEF Touches
  <2> QED
    BY <1>2, <2>3 DEF BegunBy, Same
<1> QED
  BY <1>1, <1>2

\* How the hand-over of a failure begins, moves on and ends.
LEMMA HandoffSteps ==
  ASSUME TypeOK, HandoffOK
  PROVE  /\ \A t \in Threads : CompleteDelivery(t) \/ HandOffFails(t) =>
              /\ Holds(Tokens, t, {}) /\ HasAny(t, Tokens)
              /\ "failureHandoffPending" \notin flags'
         /\ \A t \in Threads : HandOff(t) => Holds(Tokens, t, {}) /\ HasAny(t, Taken)
         /\ \A t \in Threads : FinishHandoff(t) =>
              /\ \E x \in Taken : Holds(Tokens, t, {x})
              /\ HasAny(t, Tokens) /\ ~failureCallback'
         /\ FailureSourceRuns =>
              (\E x \in Taken : Holds(Tokens, "owner", {x})) /\ failureSource # "none"
         /\ \A t \in Threads : MarkSendFailure(t) \/ SettleClosedDelivery(t) => BegunBy(t)
         /\ ReceiveFails => BegunBy("worker")
<1>1. todo \in Stacks /\ Alone(Tokens, todo) /\ failureCallback \in BOOLEAN
  BY DEF TypeOK, Stacks, HandoffOK
<1>2. \A t \in Threads : \A x \in Tokens : At(t, x) =>
        /\ HasAny(t, Tokens) /\ Head(todo[t]) \in Tokens /\ "failureHandoffPending" \in flags
        /\ x \in Taken => HasAny(t, Taken)
  BY <1>1, AtHas DEF HasAny, HandoffOK
<1>3. \A t \in Threads : \A E : \A x :
        Step(t, E) /\ Head(todo[t]) \in Tokens /\ E \cap Tokens \subseteq {x}
        => Holds(Tokens, t, E \cap Tokens)
  BY <1>1, StepHolds
<1>4. (Cond(Schedules, "scheduleLogical") \cup Cond(Claims, "attachFinalizer")) \cap Tokens = {}
  BY DEF Cond, Tokens
<1>5. ASSUME NEW t \in Threads, CompleteDelivery(t)
      PROVE  /\ Holds(Tokens, t, {}) /\ HasAny(t, Tokens)
             /\ "failureHandoffPending" \notin flags'
  <2>1. HasAny(t, Tokens) /\ Head(todo[t]) \in Tokens /\ "failureHandoffPending" \in flags
    BY <1>2, <1>5 DEF CompleteDelivery, Tokens
  <2>2. Releases(t, CompletedFlags(t))
    BY <1>1, <1>5, <2>1, CompleteEffects
  <2>3. Holds(Tokens, t, {})
    BY <1>3, <1>4, <2>1, <2>2 DEF Releases
  <2>4. "failureHandoffPending" \notin flags'
    BY <2>2 DEF Releases, CompletedFlags, Cond
  <2> QED
    BY <2>1, <2>3, <2>4
<1>6. ASSUME NEW t \in Threads, HandOffFails(t)
      PROVE  /\ Holds(Tokens, t, {}) /\ HasAny(t, Tokens)
             /\ "failureHandoffPending" \notin flags'
  <2>1. HasAny(t, Tokens) /\ Head(todo[t]) \in Tokens
    BY <1>2, <1>6 DEF HandOffFails, Tokens
  <2>2. Releases(t, RefusedFlags)
    BY <1>1, <1>6, RefusedEffects
  <2>3. Holds(Tokens, t, {})
    BY <1>3, <1>4, <2>1, <2>2 DEF Releases
  <2>4. "failureHandoffPending" \notin flags'
    BY <2>2 DEF Releases, RefusedFlags, Cond
  <2> QED
    BY <2>1, <2>3, <2>4
<1>7. ASSUME NEW t \in Threads, HandOff(t)
      PROVE  Holds(Tokens, t, {}) /\ HasAny(t, Taken)
  <2>1. HasAny(t, Taken) /\ Head(todo[t]) \in Tokens
    BY <1>2, <1>7 DEF HandOff, Tokens, Taken
  <2>2. Step(t, {})
    BY <1>1, <1>7, OtherFailureEffects
  <2>3. Holds(Tokens, t, {} \cap Tokens)
    BY <1>3, <2>1, <2>2
  <2> QED
    BY <2>1, <2>3
<1>8. ASSUME NEW t \in Threads, FinishHandoff(t)
      PROVE  /\ \E x \in Taken : Holds(Tokens, t, {x})
             /\ HasAny(t, Tokens) /\ ~failureCallback'
  <2>1. HasAny(t, Tokens) /\ Head(todo[t]) \in Tokens /\ "failureHandoffPending" \in flags
    BY <1>2, <1>8 DEF FinishHandoff, Tokens
  <2>2. ~failureCallback'
    BY <1>8, <2>1 DEF FinishHandoff
  <2>3. \E x \in Taken : Step(t, {x}) \/ Step(t, {"failureCallback", x})
    BY <1>1, <1>8, <2>1, FinishEffects DEF Taken, Tokens
  <2>4. PICK x \in Taken : Step(t, {x}) \/ Step(t, {"failureCallback", x})
    BY <2>3
  <2>5. {x} \cap Tokens = {x} /\ {"failureCallback", x} \cap Tokens = {x}
    BY DEF Taken, Tokens
  <2>6. Holds(Tokens, t, {x})
    BY <1>3, <2>1, <2>4, <2>5
  <2> QED
    BY <2>1, <2>2, <2>6
<1>9. ASSUME FailureSourceRuns
      PROVE  (\E x \in Taken : Holds(Tokens, "owner", {x})) /\ failureSource # "none"
  <2>1. failureSource # "none"
    BY <1>9 DEF FailureSourceRuns
  <2>2. Nowhere(Tokens, todo)
    BY <2>1 DEF HandoffOK, Nowhere, HasAny
  <2>3. PICK x \in {"complete", "completeUnexpected"} : Given("owner", {"failureCallback", x})
    BY <1>1, <1>9, LoadEffects
  <2>4. x \in Taken /\ {"failureCallback", x} \cap Tokens = {x}
    BY ZenonT(40) DEF Taken, Tokens
  <2>5. Holds(Tokens, "owner", {x})
    BY <1>1, <2>2, <2>3, <2>4, GivenHolds, OwnerShort
  <2> QED
    BY <2>1, <2>4, <2>5
<1>10. CanBeginHandoff(flags) \in BOOLEAN
  BY DEF CanBeginHandoff
<1>11. ASSUME NEW t \in Threads, MarkSendFailure(t) PROVE BegunBy(t)
  <2> DEFINE begins == ~MarkedLate /\ CanBeginHandoff(flags)
  <2>0. begins \in BOOLEAN
    OBVIOUS
  <2>1. Head(todo[t]) \notin Tokens
    BY <1>11 DEF MarkSendFailure, At, Tokens
  <2>2. \E R \in {{}, {"reportLogicalFailure"}} : Step(t, Cond(begins, "finishHandoff") \cup R)
    <3>1. CASE MarkedLate
      <4>1. Step(t, {})
        BY <1>1, <1>11, <3>1, MarkEffects
      <4>2. Cond(begins, "finishHandoff") \cup {} = {}
        BY <3>1 DEF Cond
      <4> QED
        BY <4>1, <4>2
    <3>2. CASE ~MarkedLate
      <4>1. Step(t, Cond(CanBeginHandoff(flags), "finishHandoff") \cup {"reportLogicalFailure"})
        BY <1>1, <1>11, <3>2, MarkEffects
      <4>2. Cond(begins, "finishHandoff") = Cond(CanBeginHandoff(flags), "finishHandoff")
        BY <3>2 DEF Cond
      <4> QED
        BY <4>1, <4>2
    <3> QED
      BY <3>1, <3>2
  <2>3. "failureHandoffPending" \in flags' <=> begins \/ "failureHandoffPending" \in flags
    <3>1. IF MarkedLate THEN flags' = flags
          ELSE flags' = flags \cup {"abortWorker"}
                          \cup Cond(CanBeginHandoff(flags), "failureHandoffPending")
      BY <1>1, <1>11, MarkEffects
    <3> QED
      BY <3>1 DEF Cond
  <2>4. PICK R \in {{}, {"reportLogicalFailure"}} : Step(t, Cond(begins, "finishHandoff") \cup R)
    BY <2>2
  <2>5. R \cap Tokens = {}
    BY DEF Tokens
  <2>6. begins => CanBeginHandoff(flags)
    OBVIOUS
  <2> HIDE DEF begins
  <2> QED
    BY <1>1, <2>0, <2>1, <2>3, <2>4, <2>5, <2>6, BegunHolds
<1>12. ASSUME NEW t \in Threads, SettleClosedDelivery(t) PROVE BegunBy(t)
  <2>1. Head(todo[t]) \notin Tokens
    BY <1>12 DEF SettleClosedDelivery, At, Tokens
  <2>2. CASE ReportsUnexpected
    <3>1. Step(t, {"finishUnexpected", "leaveDelivery"})
          /\ flags' = SettledFlags \cup {"failureHandoffPending"}
      BY <1>1, <1>12, <2>2, SettleEffects
    <3>2. Cond(TRUE, "finishUnexpected") \cup {"leaveDelivery"}
            = {"finishUnexpected", "leaveDelivery"} /\ {"leaveDelivery"} \cap Tokens = {}
      BY DEF Cond, Tokens
    <3>3. CanBeginHandoff(flags)
      BY <2>2 DEF ReportsUnexpected
    <3> QED
      BY <1>1, <2>1, <3>1, <3>2, <3>3, BegunHolds
  <2>3. CASE ~ReportsUnexpected
    <3>1. /\ Step(t, Cond(Claims, "attachFinalizer") \cup {"leaveDelivery"})
          /\ flags' = SettledFlags \cup Cond(Claims, "finalizationScheduled")
      BY <1>1, <1>12, <2>3, SettleEffects
    <3> DEFINE R == Cond(Claims, "attachFinalizer") \cup {"leaveDelivery"}
    <3>2. Cond(FALSE, "finishUnexpected") \cup R = R /\ R \cap Tokens = {}
      BY DEF Cond, Tokens
    <3>3. "failureHandoffPending" \in flags' <=> FALSE \/ "failureHandoffPending" \in flags
      BY <3>1 DEF SettledFlags, Cond
    <3>4. Step(t, Cond(FALSE, "finishUnexpected") \cup R)
      BY <3>1, <3>2
    <3> HIDE DEF R
    <3> QED
      BY <1>1, <2>1, <3>2, <3>3, <3>4, BegunHolds
  <2> QED
    BY <2>2, <2>3
<1>13. ASSUME ReceiveFails PROVE BegunBy("worker")
  <2> DEFINE R == {"reportLogicalFailure", "destroyClient"}
  <2>1. Head(todo["worker"]) \notin Tokens
    BY <1>13 DEF ReceiveFails, At, Tokens
  <2>2. /\ Step("worker", Cond(CanBeginHandoff(flags), "finishHandoff") \cup R)
        /\ flags' = flags \cup {"abortWorker"}
                      \cup Cond(CanBeginHandoff(flags), "failureHandoffPending")
    BY <1>1, <1>13, ReceiveFailsEffects
  <2>3. R \cap Tokens = {}
    BY DEF Tokens
  <2>4. "failureHandoffPending" \in flags'
          <=> CanBeginHandoff(flags) \/ "failureHandoffPending" \in flags
    BY <2>2 DEF Cond
  <2> HIDE DEF R
  <2> QED
    BY <1>1, <1>10, <2>1, <2>2, <2>3, <2>4, BegunHolds, OwnerShort
<1> QED
  BY <1>5, <1>6, <1>7, <1>8, <1>9, <1>11, <1>12, <1>13

\* The fallback is delivered only after the hand-over has ended.
LEMMA FallbackFlags ==
  ASSUME TypeOK, HandoffOK, DeadlineExpires \/ LogicalSourceRuns \/ FinalizeWorker
  PROVE  /\ Same("failureHandoffPending")
         /\ "failureFallbackPending" \in flags' => "failureFallbackPending" \in flags
         /\ ~CanBeginHandoff(flags) => ~CanBeginHandoff(flags')
         /\ failureCallback' => failureCallback
         /\ FinalizeWorker => "failureHandoffPending" \notin flags
                              /\ "failureFallbackPending" \notin flags'
<1>1. "failureFallbackPending" \in flags => "failureHandoffPending" \notin flags
  BY DEF HandoffOK
<1>2. \A F : ("failureFallbackPending" \in F => "failureHandoffPending" \notin F) =>
        /\ "failureHandoffPending" \in TakeFallback(F) <=> "failureHandoffPending" \in F
        /\ "failureFallbackPending" \notin TakeFallback(F)
        /\ ~CanBeginHandoff(F) => ~CanBeginHandoff(TakeFallback(F))
        /\ ~CanBeginHandoff(F) =>
             ~CanBeginHandoff(TakeFallback(F) \cup {"logicalResultReported"})
        /\ "failureHandoffPending" \in TakeFallback(F) \cup {"logicalResultReported"}
             <=> "failureHandoffPending" \in F
  BY DEF TakeFallback, CanBeginHandoff
<1> DEFINE G == flags \ LogicalDelivery
<1>3. /\ "failureFallbackPending" \in G <=> "failureFallbackPending" \in flags
      /\ "failureHandoffPending" \in G <=> "failureHandoffPending" \in flags
      /\ CanBeginHandoff(G) <=> CanBeginHandoff(flags)
  BY DEF LogicalDelivery, CanBeginHandoff
<1> DEFINE Took == \E F \in {flags, G} : \/ flags' = TakeFallback(F)
                                          \/ flags' = TakeFallback(F) \cup {"logicalResultReported"}
<1>4. \/ Took
      \/ /\ ~FinalizeWorker
         /\ \/ flags' = flags \/ flags' = G
            \/ flags' = flags \ {"logicalFailureSourceScheduled"}
  <2>1. FinalizeWorker => Took
    BY DEF FinalizeWorker
  <2>2. DeadlineExpires => Took \/ flags' = flags \/ flags' = G
    BY DEF DeadlineExpires
  <2>3. LogicalSourceRuns =>
          Took \/ flags' = flags \/ flags' = flags \ {"logicalFailureSourceScheduled"}
    BY DEF LogicalSourceRuns
  <2> HIDE DEF Took
  <2> QED
    BY <2>1, <2>2, <2>3
<1> HIDE DEF G
<1>5. Same("failureHandoffPending")
  BY <1>1, <1>2, <1>3, <1>4 DEF Same
<1>6. "failureFallbackPending" \in flags' => "failureFallbackPending" \in flags /\ ~FinalizeWorker
  <2> SUFFICES ASSUME "failureFallbackPending" \in flags'
               PROVE  "failureFallbackPending" \in flags /\ ~FinalizeWorker
    OBVIOUS
  <2>1. ~Took
    <3> SUFFICES ASSUME NEW F \in {flags, G},
                        flags' = TakeFallback(F) \/ flags' = TakeFallback(F) \cup {"logicalResultReported"}
                 PROVE  FALSE
      OBVIOUS
    <3>1. "failureFallbackPending" \in F => "failureHandoffPending" \notin F
      BY <1>1, <1>3
    <3>2. "failureFallbackPending" \notin TakeFallback(F)
      BY <1>2, <3>1
    <3> QED
      BY <3>2
  <2> QED
    BY <1>3, <1>4, <2>1
<1>7. ~CanBeginHandoff(flags) => ~CanBeginHandoff(flags')
  BY <1>1, <1>2, <1>3, <1>4 DEF CanBeginHandoff
<1>8. failureCallback' => failureCallback
  BY DEF DeadlineExpires, LogicalSourceRuns, FinalizeWorker, TakeCallbacks, callbackVars
<1> QED
  BY <1>5, <1>6, <1>7, <1>8 DEF FinalizeWorker

LEMMA HandoffStep ==
  ASSUME TypeOK, EarlyOK, ThreadsOK, HandoffOK, [Next]_vars
  PROVE  HandoffOK'
<1>1. TypeOK' /\ EarlyOK' /\ (Early' \/ ~StartMoves)
  BY StartIsOver
<1>2. ASSUME Early' PROVE HandoffOK'
  <2>1. TypeOK' /\ EarlyOK' /\ Early'
    BY <1>1, <1>2
  <2>2. (TypeOK /\ EarlyOK /\ Early => HandoffOK)'
    BY EarlyResults, PTL
  <2> QED
    BY <2>1, <2>2
<1> SUFFICES ASSUME ~StartMoves PROVE HandoffOK'
  BY <1>1, <1>2
<1>3. VariablesWritten /\ FlagsWritten /\ EntriesWritten
  BY OnlyVariablesWritten, OnlyFlagsWritten, OnlyEntriesWritten
<1>4. /\ \A t \in Threads : CompleteDelivery(t) \/ HandOffFails(t) =>
           /\ Holds(Tokens, t, {}) /\ HasAny(t, Tokens)
           /\ "failureHandoffPending" \notin flags'
      /\ \A t \in Threads : HandOff(t) => Holds(Tokens, t, {}) /\ HasAny(t, Taken)
      /\ \A t \in Threads : FinishHandoff(t) =>
           /\ \E x \in Taken : Holds(Tokens, t, {x})
           /\ HasAny(t, Tokens) /\ ~failureCallback'
      /\ FailureSourceRuns =>
           (\E x \in Taken : Holds(Tokens, "owner", {x})) /\ failureSource # "none"
      /\ \A t \in Threads : MarkSendFailure(t) \/ SettleClosedDelivery(t) => BegunBy(t)
      /\ ReceiveFails => BegunBy("worker")
  BY HandoffSteps
<1>5. DeadlineExpires \/ LogicalSourceRuns \/ FinalizeWorker =>
        /\ Same("failureHandoffPending")
        /\ "failureFallbackPending" \in flags' => "failureFallbackPending" \in flags
        /\ failureCallback' => failureCallback
  BY FallbackFlags
<1> DEFINE Ends == \E t \in Threads : CompleteDelivery(t) \/ HandOffFails(t)
           Moves == FailureSourceRuns \/ \E t \in Threads : HandOff(t) \/ FinishHandoff(t)
           Begins == /\ "failureHandoffPending" \in flags'
                     /\ "failureHandoffPending" \notin flags
<1>6. \/ Ends
      \/ Moves /\ Same("failureHandoffPending")
      \/ Begins /\ CanBeginHandoff(flags)
           /\ \E t \in Threads : \E x \in {"finishHandoff", "finishUnexpected"} :
                Holds(Tokens, t, {x})
      \/ Keeps(Tokens) /\ Same("failureHandoffPending") /\ ~Moves
  <2> SUFFICES ASSUME ~Ends
               PROVE  \/ Moves /\ Same("failureHandoffPending")
                      \/ Begins /\ CanBeginHandoff(flags)
                           /\ \E t \in Threads : \E x \in {"finishHandoff", "finishUnexpected"} :
                                Holds(Tokens, t, {x})
                      \/ Keeps(Tokens) /\ Same("failureHandoffPending") /\ ~Moves
    OBVIOUS
  <2>1. CASE Moves
    <3>1. Same("failureHandoffPending")
      BY <2>1 DEF Same, FailureSourceRuns, HandOff, FinishHandoff
    <3> QED
      BY <2>1, <3>1
  <2>2. CASE ~Moves /\ (ReceiveFails \/ \E t \in Threads : MarkSendFailure(t)
                                                        \/ SettleClosedDelivery(t))
    <3>1. PICK t \in Threads : BegunBy(t)
      BY <1>4, <2>2, OwnerShort
    <3> QED
      BY <2>2, <3>1 DEF BegunBy
  <2>3. CASE ~Moves /\ ~ReceiveFails /\ \A t \in Threads : ~MarkSendFailure(t)
                                                        /\ ~SettleClosedDelivery(t)
    BY <1>3, <1>5, <2>3 DEF EntriesWritten, FlagsWritten
  <2> QED
    BY <2>1, <2>2, <2>3
<1>7. Ends => /\ \A t \in Threads : ~HasAny(t, Tokens)'
              /\ failureSource = "none" /\ "failureHandoffPending" \notin flags'
  <2> SUFFICES ASSUME NEW u \in Threads, CompleteDelivery(u) \/ HandOffFails(u)
               PROVE  /\ \A t \in Threads : ~HasAny(t, Tokens)'
                      /\ failureSource = "none" /\ "failureHandoffPending" \notin flags'
    OBVIOUS
  <2> QED
    BY <1>4 DEF Holds, HasAny, HandoffOK
<1>8. UNCHANGED failureSource \/ FailureSourceRuns \/ \E t \in Threads : HandOff(t)
  BY <1>3 DEF VariablesWritten
<1>9. Ends => UNCHANGED failureSource
  BY DEF CompleteDelivery, HandOffFails, sourceVars
<1>10. Alone(Tokens, todo')
  BY <1>4, <1>6 DEF Holds, Keeps, HandoffOK
<1>11. FailureSourceRuns => failureSource' = "none"
  BY DEF FailureSourceRuns
<1>12. \A t \in Threads : HandOff(t) =>
         /\ \A u \in Threads : ~HasAny(u, Tokens)'
         /\ "failureHandoffPending" \in flags /\ ~failureCallback /\ failureSource' # "none"
  <2> SUFFICES ASSUME NEW t \in Threads, HandOff(t)
               PROVE  /\ \A u \in Threads : ~HasAny(u, Tokens)'
                      /\ "failureHandoffPending" \in flags /\ ~failureCallback
                      /\ failureSource' # "none"
    OBVIOUS
  <2>1. Holds(Tokens, t, {}) /\ HasAny(t, Taken)
    BY <1>4
  <2>2. HasAny(t, Tokens)
    BY <2>1 DEF HasAny, Taken
  <2>3. failureSource' # "none"
    BY DEF HandOff
  <2> QED
    BY <2>1, <2>2, <2>3 DEF HandoffOK, Holds, HasAny
<1>13. \A t \in Threads : FinishHandoff(t) => UNCHANGED failureSource /\ failureSource = "none"
  BY <1>4 DEF FinishHandoff, sourceVars, HandoffOK
<1>14. Begins => UNCHANGED failureSource /\ failureSource = "none"
  <2>1. Begins => failureSource = "none" /\ ~FailureSourceRuns /\ \A t \in Threads : ~HandOff(t)
    BY <1>12 DEF HandoffOK, FailureSourceRuns
  <2> QED
    BY <1>8, <2>1
<1>15. \A t \in Threads :
         HasAny(t, Tokens)' => "failureHandoffPending" \in flags' /\ failureSource' = "none"
  <2> SUFFICES ASSUME NEW t \in Threads, Range(todo'[t]) \cap Tokens # {}
               PROVE  "failureHandoffPending" \in flags' /\ failureSource' = "none"
    BY DEF HasAny
  <2>1. ~Ends /\ \A u \in Threads : ~HandOff(u)
    BY <1>7, <1>12 DEF HasAny
  <2>2. CASE Moves /\ Same("failureHandoffPending")
    BY <1>4, <1>11, <1>13, <2>1, <2>2 DEF Same, HandoffOK
  <2>3. CASE Begins
    BY <1>14, <2>3
  <2>4. CASE Keeps(Tokens) /\ Same("failureHandoffPending") /\ ~Moves
    <3>1. HasAny(t, Tokens)
      BY <2>4 DEF Keeps, HasAny
    <3> QED
      BY <1>8, <2>4, <3>1 DEF HandoffOK, Same
  <2> QED
    BY <1>6, <2>1, <2>2, <2>3, <2>4
<1>16. failureCallback' => failureCallback \/ \E t \in Threads : HandOffFails(t)
  BY <1>3, <1>4, <1>5 DEF VariablesWritten, ThreadFails
<1>17. \A t \in Threads : HasAny(t, Taken)' => ~failureCallback'
  <2> SUFFICES ASSUME NEW t \in Threads, Range(todo'[t]) \cap Taken # {}
               PROVE  ~failureCallback'
    BY DEF HasAny
  <2>0. Range(todo'[t]) \cap Tokens # {}
    BY DEF Taken
  <2>1. ~Ends /\ \A u \in Threads : ~HandOff(u)
    BY <1>7, <1>12, <2>0 DEF HasAny
  <2>2. CASE Moves
    <3>1. FinishHandoff(t) \/ (\E u \in Threads : FinishHandoff(u)) => ~failureCallback'
      BY <1>4
    <3>2. FailureSourceRuns => ~failureCallback
      BY <1>4 DEF HandoffOK
    <3> QED
      BY <1>16, <2>1, <2>2, <3>1, <3>2
  <2>3. ASSUME NEW u \in Threads, NEW x \in {"finishHandoff", "finishUnexpected"},
               Holds(Tokens, u, {x}) PROVE FALSE
    BY <2>3 DEF Holds, Taken
  <2>4. CASE Keeps(Tokens)
    <3>1. HasAny(t, Taken)
      BY <2>4 DEF Keeps, HasAny, Taken
    <3> QED
      BY <1>16, <2>1, <3>1 DEF HandoffOK
  <2> QED
    BY <1>6, <2>1, <2>2, <2>3, <2>4
<1>18. failureSource' # "none" => "failureHandoffPending" \in flags' /\ ~failureCallback'
  <2> SUFFICES ASSUME failureSource' # "none"
               PROVE  "failureHandoffPending" \in flags' /\ ~failureCallback'
    OBVIOUS
  <2>1. CASE \E t \in Threads : HandOff(t)
    BY <1>12, <2>1 DEF HandOff, callbackVars
  <2>2. CASE \A t \in Threads : ~HandOff(t)
    <3>1. failureSource # "none" /\ ~FailureSourceRuns
      BY <1>8, <1>11, <2>2
    <3>2. "failureHandoffPending" \in flags /\ ~failureCallback /\ ~Ends
      BY <1>7, <3>1 DEF HandoffOK
    <3> QED
      BY <1>6, <1>16, <3>2 DEF Same
  <2> QED
    BY <2>1, <2>2
<1>19. "failureFallbackPending" \in flags' => "failureHandoffPending" \notin flags'
  <2> SUFFICES ASSUME "failureFallbackPending" \in flags', ~Ends
               PROVE  "failureHandoffPending" \notin flags'
    BY <1>7
  <2>1. "failureFallbackPending" \in flags
    BY <1>3, <1>5 DEF FlagsWritten, Same
  <2>2. "failureHandoffPending" \notin flags /\ ~CanBeginHandoff(flags)
    BY <2>1 DEF HandoffOK, CanBeginHandoff
  <2> QED
    BY <1>6, <2>2 DEF Same
<1>20. "failureHandoffPending" \in flags' =>
         (\E t \in Threads : HasAny(t, Tokens)') \/ failureSource' # "none"
  <2> SUFFICES ASSUME "failureHandoffPending" \in flags', failureSource' = "none"
               PROVE  \E t \in Threads : Range(todo'[t]) \cap Tokens # {}
    BY DEF HasAny
  <2>1. ~Ends /\ \A t \in Threads : ~HandOff(t)
    BY <1>7, <1>12
  <2>2. CASE Moves
    <3>1. PICK t \in Threads, x \in Taken : Holds(Tokens, t, {x})
      BY <1>4, <2>1, <2>2, OwnerShort
    <3> QED
      BY <3>1 DEF Holds
  <2>3. CASE \E t \in Threads : \E x \in {"finishHandoff", "finishUnexpected"} : Holds(Tokens, t, {x})
    BY <2>3 DEF Holds
  <2>4. CASE Keeps(Tokens) /\ Same("failureHandoffPending") /\ ~Moves
    <3>1. failureSource = "none" /\ "failureHandoffPending" \in flags
      BY <1>8, <2>4 DEF Same
    <3>2. PICK t \in Threads : HasAny(t, Tokens)
      BY <3>1 DEF HandoffOK
    <3> QED
      BY <2>4, <3>2 DEF Keeps, HasAny
  <2> QED
    BY <1>6, <2>1, <2>2, <2>3, <2>4
<1> QED
  BY <1>10, <1>15, <1>17, <1>18, <1>19, <1>20 DEF HandoffOK

\* The worker stays finished, and then no failure can be handed over any more.
LEMMA OverStays ==
  ASSUME TypeOK, ThreadsOK, HandoffOK, [Next]_vars, ~StartMoves
  PROVE  (Over => Over') /\ (NoMoreHandoff => NoMoreHandoff')
<1>1. VariablesWritten /\ FlagsWritten /\ EntriesWritten
  BY OnlyVariablesWritten, OnlyFlagsWritten, OnlyEntriesWritten
<1>2. todo \in Stacks
  BY DEF TypeOK, Stacks
<1>3. ASSUME Over PROVE Over'
  <2>1. todo["worker"] = <<>>
    BY <1>3 DEF Over, ThreadsOK, Exited, Idle
  <2>2. ~NoteClosed
    BY <2>1 DEF NoteClosed, At
  <2>3. FinishWorker => "physicalFinished" \in flags'
    BY DEF FinishWorker
  <2>4. \A t \in Threads : SettleClosedDelivery(t) => "closedDeliverySettled" \in flags'
    BY <1>2, SettleEffects DEF SettledFlags
  <2> QED
    BY <1>1, <1>3, <2>2, <2>3, <2>4 DEF FlagsWritten, Same, Over, ReceiptSettled
<1>4. ASSUME ~CanBeginHandoff(flags) PROVE ~CanBeginHandoff(flags')
  <2>1. ASSUME NEW t \in Threads, CompleteDelivery(t) PROVE ~CanBeginHandoff(flags')
    <3>1. flags' = flags \/ Releases(t, CompletedFlags(t))
      BY <1>2, <2>1, CompleteEffects
    <3> QED
      BY <1>4, <3>1 DEF Releases, CompletedFlags, CanBeginHandoff
  <2>2. ASSUME NEW t \in Threads, HandOffFails(t) PROVE ~CanBeginHandoff(flags')
    <3>1. Releases(t, RefusedFlags)
      BY <1>2, <2>2, RefusedEffects
    <3> QED
      BY <3>1 DEF Releases, RefusedFlags, CanBeginHandoff
  <2>3. DeadlineExpires \/ LogicalSourceRuns \/ FinalizeWorker => ~CanBeginHandoff(flags')
    BY <1>4, FallbackFlags
  <2>4. \A t \in Threads : BegunBy(t) =>
          ("failureHandoffPending" \in flags => "failureHandoffPending" \in flags')
    BY DEF BegunBy, Same
  <2>5. /\ \A t \in Threads : MarkSendFailure(t) \/ SettleClosedDelivery(t) => BegunBy(t)
        /\ ReceiveFails => BegunBy("worker")
    BY HandoffSteps
  <2> QED
    BY <1>1, <1>4, <2>1, <2>2, <2>3, <2>4, <2>5, OwnerShort DEF FlagsWritten, Same, CanBeginHandoff
<1> QED
  BY <1>3, <1>4 DEF NoMoreHandoff

LEMMA NoneBegins ==
  ASSUME TypeOK, ThreadsOK, ReceiptOK, HandoffOK, NoMoreHandoff, [Next]_vars, ~StartMoves
  PROVE  "failureHandoffPending" \in flags' => "failureHandoffPending" \in flags
<1>1. FlagsWritten
  BY OnlyFlagsWritten
<1>2. todo \in Stacks
  BY DEF TypeOK, Stacks
<1>3. /\ \A t \in Threads : CompleteDelivery(t) \/ HandOffFails(t)
           => "failureHandoffPending" \notin flags'
      /\ \A t \in Threads : MarkSendFailure(t) \/ SettleClosedDelivery(t) => BegunBy(t)
      /\ ReceiveFails => BegunBy("worker")
  BY HandoffSteps
<1>4. DeadlineExpires \/ LogicalSourceRuns \/ FinalizeWorker => Same("failureHandoffPending")
  BY FallbackFlags
<1>5. \A t : BegunBy(t) =>
        CanBeginHandoff(flags) \/ "failureHandoffPending" \notin flags' \/ "failureHandoffPending" \in flags
  BY DEF BegunBy
<1>6. CASE ~CanBeginHandoff(flags)
  BY <1>1, <1>3, <1>4, <1>5, <1>6 DEF FlagsWritten, Same
<1>7. CASE Over
  <2>1. ~ReceiveFails
    BY <1>7 DEF Over, ThreadsOK, Exited, Idle, ReceiveFails, At
  <2>2. \A t \in Threads : MarkSendFailure(t) => flags' = flags
    BY <1>2, <1>7, MarkEffects DEF Over, MarkedLate
  <2>3. \A t \in Threads : ~SettleClosedDelivery(t)
    <3>1. \A t \in Threads : SettleClosedDelivery(t) => Has(t, "settle")
      BY <1>2, AtHas DEF SettleClosedDelivery, Has
    <3>2. \A t \in Threads : ~Has(t, "settle")
      BY <1>7 DEF ReceiptOK, Over, ReceiptSettled
    <3> QED
      BY <3>1, <3>2
  <2> QED
    BY <1>1, <1>3, <1>4, <2>1, <2>2, <2>3 DEF FlagsWritten, Same
<1> QED
  BY <1>6, <1>7 DEF NoMoreHandoff

\* The owner's stack keeps its order when what a step adds belongs there.
Fits(E) ==
  /\ E \cap App = {} \/ E \cap Closers = {}
  /\ E \cap (App \cup Closers) = {} \/ "reportLogicalFailure" \notin E

Orderly(E) ==
  /\ Step("owner", E) /\ Fits(E)
  /\ E \cap App = {} \/ Head(todo["owner"]) \in App
  /\ E \cap (App \cup Closers) = {} \/ Head(todo["owner"]) \in App \cup Closers

OwnerOrder ==
  \/ todo'["owner"] = todo["owner"]
  \/ \E E : Orderly(E) \/ (Given("owner", E) /\ Fits(E))
  \/ Range(todo'["owner"]) \cap (Closers \cup {"reportLogicalFailure"}) = {}

LEMMA StepOrder ==
  ASSUME NEW E, Step("owner", E), Fits(E),
         E \cap App = {} \/ Head(todo["owner"]) \in App,
         E \cap (App \cup Closers) = {} \/ Head(todo["owner"]) \in App \cup Closers
  PROVE  OwnerOrder
BY DEF OwnerOrder, Orderly

LEMMA PlainOrder ==
  ASSUME NEW t \in Threads, NEW E, todo \in Stacks, Step(t, E), E \cap (App \cup Closers) = {}
  PROVE  OwnerOrder
<1>1. CASE t = "owner"
  <2>1. Fits(E) /\ E \cap App = {}
    BY DEF Fits
  <2> QED
    BY <1>1, <2>1, StepOrder
<1>2. CASE t # "owner"
  <2>1. todo'["owner"] = todo["owner"]
    BY <1>2, StepFacts, OwnerShort
  <2> QED
    BY <2>1 DEF OwnerOrder
<1> QED
  BY <1>1, <1>2

LEMMA OtherOrder ==
  ASSUME NEW t \in Threads, NEW E, todo \in Stacks, Step(t, E) \/ Given(t, E), t # "owner"
  PROVE  OwnerOrder
<1>1. todo'["owner"] = todo["owner"]
  BY ReplacesFacts, LoadsFacts, OwnerShort DEF Step, Given
<1> QED
  BY <1>1 DEF OwnerOrder

LEMMA FailureOrder ==
  ASSUME TypeOK, NEW t \in Threads, FailureStep(t)
  PROVE  OwnerOrder
<1>1. todo \in Stacks /\ failureCallback \in BOOLEAN
  BY DEF TypeOK, Stacks
<1>2. \A E : Step(t, E) /\ E \cap (App \cup Closers) = {} => OwnerOrder
  BY <1>1, PlainOrder
<1>3. \A F : Releases(t, F) => OwnerOrder
  <2>1. (Cond(Schedules, "scheduleLogical") \cup Cond(Claims, "attachFinalizer"))
          \cap (App \cup Closers) = {}
    BY DEF Cond, App, Closers
  <2> QED
    BY <1>2, <2>1 DEF Releases
<1>4. {} \cap (App \cup Closers) = {}
  OBVIOUS
<1>5. CASE CompleteDelivery(t)
  BY <1>1, <1>2, <1>3, <1>4, <1>5, CompleteEffects
<1>6. CASE HandOffFails(t)
  BY <1>1, <1>3, <1>6, RefusedEffects
<1>7. CASE FinishHandoff(t)
  <2>1. \/ \E E \in {{}, {"complete"}, {"completeUnexpected"}, {"handOff"}, {"handOffUnexpected"}} :
             Step(t, E)
        \/ /\ t = "owner" /\ At(t, "finishUnexpected")
           /\ Step(t, {"failureCallback", "completeUnexpected"})
    BY <1>1, <1>7, FinishEffects
  <2>2. \A E \in {{}, {"complete"}, {"completeUnexpected"}, {"handOff"}, {"handOffUnexpected"}} :
          E \cap (App \cup Closers) = {}
    BY DEF App, Closers
  <2>3. ASSUME t = "owner", At(t, "finishUnexpected"),
               Step(t, {"failureCallback", "completeUnexpected"})
        PROVE  OwnerOrder
    <3>1. Head(todo["owner"]) \in App /\ Fits({"failureCallback", "completeUnexpected"})
      BY <2>3 DEF At, App, Fits, Closers
    <3> QED
      BY <2>3, <3>1, StepOrder
  <2> QED
    BY <1>2, <2>1, <2>2, <2>3
<1>8. CASE HandOff(t) \/ ScheduleLogicalSource(t) \/ UnlockSend(t) \/ LeaveDelivery(t)
  BY <1>1, <1>2, <1>4, <1>8, OtherFailureEffects
<1>9. CASE AttachFinalizer(t)
  <2>1. Step(t, {}) \/ Step(t, {"reportLogicalFailure"})
    BY <1>1, <1>9, OtherFailureEffects
  <2>2. {"reportLogicalFailure"} \cap (App \cup Closers) = {}
    BY DEF App, Closers
  <2> QED
    BY <1>2, <1>4, <2>1, <2>2
<1>10. CASE ReportLogicalFailure(t)
  <2>1. Step(t, Cond(Schedules, "scheduleLogical"))
    BY <1>1, <1>10, LogicalEffects
  <2>2. Cond(Schedules, "scheduleLogical") \cap (App \cup Closers) = {}
    BY DEF App, Closers, Cond
  <2> QED
    BY <1>2, <2>1, <2>2
<1>11. CASE MarkSendFailure(t)
  <2>1. \/ Step(t, {})
        \/ Step(t, Cond(CanBeginHandoff(flags), "finishHandoff") \cup {"reportLogicalFailure"})
    BY <1>1, <1>11, MarkEffects
  <2>2. (Cond(CanBeginHandoff(flags), "finishHandoff") \cup {"reportLogicalFailure"})
          \cap (App \cup Closers) = {}
    BY DEF App, Closers, Cond
  <2> QED
    BY <1>2, <1>4, <2>1, <2>2
<1>12. CASE SettleClosedDelivery(t)
  <2>1. \/ Step(t, {"finishUnexpected", "leaveDelivery"})
        \/ Step(t, Cond(Claims, "attachFinalizer") \cup {"leaveDelivery"})
    BY <1>1, <1>12, SettleEffects
  <2>2. (Cond(Claims, "attachFinalizer") \cup {"leaveDelivery"}) \cap (App \cup Closers) = {}
    BY DEF App, Closers, Cond
  <2>3. ASSUME Step(t, {"finishUnexpected", "leaveDelivery"}) PROVE OwnerOrder
    <3>1. CASE t = "owner"
      <4>1. Head(todo["owner"]) \in App /\ Fits({"finishUnexpected", "leaveDelivery"})
        BY <1>12, <3>1 DEF SettleClosedDelivery, At, App, Fits, Closers
      <4> QED
        BY <2>3, <3>1, <4>1, StepOrder
    <3>2. CASE t # "owner"
      BY <1>1, <2>3, <3>2, OtherOrder
    <3> QED
      BY <3>1, <3>2
  <2> QED
    BY <1>2, <2>1, <2>2, <2>3
<1> QED
  BY <1>5, <1>6, <1>7, <1>8, <1>9, <1>10, <1>11, <1>12 DEF FailureStep

LEMMA OwnerMovesOrder ==
  ASSUME TypeOK, EarlyOK, [Next]_vars, ~StartMoves, OwnerMoves
  PROVE  OwnerOrder
<1>1. todo \in Stacks /\ client \in BOOLEAN /\ deadline \in BOOLEAN
  BY DEF TypeOK, Stacks
<1>2. \A E : Step("owner", E) /\ E \cap (App \cup Closers) = {} => OwnerOrder
  BY <1>1, PlainOrder, OwnerShort
<1>3. CASE InvokeFailure \/ InvokeCallbacks
  <2>1. Step("owner", {"inCallback"}) /\ Head(todo["owner"]) \in App
    BY <1>1, <1>3, SimpleEffects DEF InvokeFailure, InvokeCallbacks, At, App
  <2>2. Fits({"inCallback"})
    BY DEF Fits, Closers
  <2> QED
    BY <2>1, <2>2, StepOrder
<1>4. CASE CallbackReturns \/ OpenGate
  <2>1. Step("owner", {})
    BY <1>1, <1>4, SimpleEffects
  <2> QED
    BY <1>2, <2>1
<1>5. CASE StartFails \/ ThreadFails
  <2>1. Step("owner", {"reportLogicalFailure"})
    BY <1>1, <1>5, StartAndCloseEffects
  <2>2. {"reportLogicalFailure"} \cap (App \cup Closers) = {}
    BY DEF App, Closers
  <2> QED
    BY <1>2, <2>1, <2>2
<1>6. CASE ActivationFails
  <2>1. Step("owner", {"openGate", "reportLogicalFailure"})
    BY <1>1, <1>6, SimpleEffects
  <2>2. {"openGate", "reportLogicalFailure"} \cap (App \cup Closers) = {}
    BY DEF App, Closers
  <2> QED
    BY <1>2, <2>1, <2>2
<1>7. CASE Activate
  <2>1. Step("owner", Cond("closeRequestedDuringStart" \in flags, "close") \cup {"openGate"})
    BY <1>1, <1>7, StartAndCloseEffects
  <2>2. Early
    BY <1>7, Leaving
  <2>3. Range(todo["owner"]) \subseteq StartEntries
    BY <2>2, EarlyRanges
  <2>4. /\ Range(todo'["owner"]) = Cond("closeRequestedDuringStart" \in flags, "close") \cup {"openGate"}
                                   \cup Range(Tail(todo["owner"]))
        /\ Range(Tail(todo["owner"])) \subseteq Range(todo["owner"])
    <3> DEFINE E == Cond("closeRequestedDuringStart" \in flags, "close") \cup {"openGate"}
    <3>1. Step("owner", E)
      BY <2>1
    <3> HIDE DEF E
    <3>2. /\ Range(todo'["owner"]) = E \cup Range(Tail(todo["owner"]))
          /\ Range(todo["owner"]) = {Head(todo["owner"])} \cup Range(Tail(todo["owner"]))
      BY <1>1, <3>1, StepFacts, OwnerShort
    <3> QED
      BY <3>2 DEF E
  <2>5. Range(todo'["owner"]) \subseteq StartEntries \cup {"close", "openGate"}
    BY <2>3, <2>4 DEF Cond
  <2>6. (StartEntries \cup {"close", "openGate"}) \cap (Closers \cup {"reportLogicalFailure"}) = {}
    BY DEF StartEntries, Closers
  <2> QED
    BY <2>5, <2>6 DEF OwnerOrder
<1>8. ASSUME NEW E, Step("owner", E), E \subseteq {"closeSend", "installDeadline", "sendClose",
                                                  "reportLogicalFailure"},
             E \cap Closers = {} \/ "reportLogicalFailure" \notin E,
             Head(todo["owner"]) \in {"close", "closeSend", "installDeadline"}
      PROVE  OwnerOrder
  <2>1. E \cap App = {} /\ E \cap (App \cup Closers) = E \cap Closers
    BY <1>8 DEF App, Closers
  <2>2. Head(todo["owner"]) \in App \cup Closers
    BY <1>8 DEF App, Closers
  <2>3. Fits(E)
    BY <1>8, <2>1 DEF Fits
  <2> QED
    BY <1>8, <2>1, <2>2, <2>3, StepOrder
<1>9. CASE CloseAfterStart
  <2>1. Step("owner", CloseEntries)
    BY <1>1, <1>9, CloseAfterStartEffects
  <2>2. ~CloseBegins \/ ~CloseFailed
    BY DEF CloseBegins, CloseFailed
  <2>3. /\ CloseEntries \subseteq {"closeSend", "reportLogicalFailure"}
        /\ CloseEntries \cap Closers = {} \/ "reportLogicalFailure" \notin CloseEntries
    BY <2>2 DEF CloseEntries, Cond, Closers
  <2>4. Head(todo["owner"]) = "close"
    BY <1>9 DEF CloseAfterStart, At
  <2> QED
    BY <1>8, <2>1, <2>3, <2>4
<1>10. CASE CloseLocks
  <2>1. Step("owner", Cond(SendsClose, "sendClose") \cup {"installDeadline"})
    BY <1>1, <1>10, StartAndCloseEffects
  <2>2. Cond(SendsClose, "sendClose") \cup {"installDeadline"} \subseteq {"sendClose", "installDeadline"}
    BY DEF Cond
  <2>3. Head(todo["owner"]) = "closeSend"
    BY <1>10 DEF CloseLocks, At
  <2> QED
    BY <1>8, <2>1, <2>2, <2>3
<1>11. CASE CloseQueues
  <2>1. Step("owner", {"installDeadline"})
    BY <1>1, <1>11, SimpleEffects
  <2>2. Head(todo["owner"]) = "closeSend"
    BY <1>11 DEF CloseQueues, At
  <2> QED
    BY <1>8, <2>1, <2>2
<1>12. CASE OwnerSendsClose
  <2>1. Step("owner", {"unlockSend"}) \/ Step("owner", {"markSendFailure", "unlockSend"})
    BY <1>1, <1>12, SimpleEffects
  <2>2. {"unlockSend"} \cap (App \cup Closers) = {} /\ {"markSendFailure", "unlockSend"} \cap (App \cup Closers) = {}
    BY DEF App, Closers
  <2> QED
    BY <1>2, <2>1, <2>2
<1>13. CASE InstallDeadline
  <2>1. Step("owner", {}) \/ Step("owner", {"reportLogicalFailure"})
    BY <1>1, <1>13, StartAndCloseEffects
  <2>2. {"reportLogicalFailure"} \cap (App \cup Closers) = {}
    BY DEF App, Closers
  <2> QED
    BY <1>2, <2>1, <2>2
<1> QED
  BY <1>3, <1>4, <1>5, <1>6, <1>7, <1>9, <1>10, <1>11, <1>12, <1>13 DEF OwnerMoves

LEMMA LoadedOrder ==
  ASSUME TypeOK, Loaded
  PROVE  OwnerOrder
<1>1. todo \in Stacks /\ failureCallback \in BOOLEAN
  BY DEF TypeOK, Stacks
<1>2. \A E : Given("owner", E) /\ E \cap (Closers \cup {"reportLogicalFailure"}) = {} => OwnerOrder
  <2> SUFFICES ASSUME NEW E, Given("owner", E), E \cap (Closers \cup {"reportLogicalFailure"}) = {}
               PROVE  OwnerOrder
    OBVIOUS
  <2>1. Fits(E)
    BY DEF Fits
  <2> QED
    BY <2>1 DEF OwnerOrder
<1>3. todo' = todo => OwnerOrder
  BY DEF OwnerOrder
<1>4. \A F, result : TakeCallbacks(F, result) /\ Idle("owner") => OwnerOrder
  <2> SUFFICES ASSUME NEW F, NEW result, TakeCallbacks(F, result), Idle("owner") PROVE OwnerOrder
    OBVIOUS
  <2> DEFINE E == Cond("failureFallbackPending" \in F /\ failureCallback, "failureCallback")
                    \cup {"invokeCallbacks"}
  <2>1. Given("owner", E)
    BY <1>1, TakeEffects
  <2>2. E \cap (Closers \cup {"reportLogicalFailure"}) = {}
    BY DEF Cond, Closers
  <2> HIDE DEF E
  <2> QED
    BY <1>2, <2>1, <2>2
<1>5. CASE SenderCalled
  <2>1. Given("sender", {"lockSend"})
    BY <1>1, <1>5, LoadEffects
  <2> QED
    BY <1>1, <2>1, OtherOrder, OwnerShort
<1>6. ASSUME NEW t \in Threads, ReceiptReleased(t) PROVE OwnerOrder
  <2>1. Given(t, {"settle"})
    BY <1>1, <1>6, LoadEffects
  <2>2. {"settle"} \cap (Closers \cup {"reportLogicalFailure"}) = {}
    BY DEF Closers
  <2> QED
    BY <1>1, <1>2, <2>1, <2>2, OtherOrder
<1>7. CASE KnownResultRuns \/ FailureSourceRuns
  <2>1. \E E \in {{"inCallback"}, {"failureCallback", "complete"},
                  {"failureCallback", "completeUnexpected"}} : Given("owner", E)
    BY <1>1, <1>7, LoadEffects
  <2>2. \A E \in {{"inCallback"}, {"failureCallback", "complete"},
                  {"failureCallback", "completeUnexpected"}} :
          E \cap (Closers \cup {"reportLogicalFailure"}) = {}
    BY DEF Closers
  <2> QED
    BY <1>2, <2>1, <2>2
<1>8. CASE FinalizeWorker
  <2> DEFINE E == Cond("failureFallbackPending" \in flags /\ failureCallback, "failureCallback")
                    \cup {"invokeCallbacks"}
  <2>1. Given("owner", E)
    BY <1>1, <1>8, LoadEffects
  <2>2. E \cap (Closers \cup {"reportLogicalFailure"}) = {}
    BY DEF Cond, Closers
  <2> HIDE DEF E
  <2> QED
    BY <1>2, <2>1, <2>2
<1>9. CASE DeadlineExpires \/ LogicalSourceRuns
  <2>1. Idle("owner") /\ (todo' = todo \/ \E F, result : TakeCallbacks(F, result))
    BY <1>9 DEF DeadlineExpires, LogicalSourceRuns
  <2> QED
    BY <1>3, <1>4, <2>1
<1> QED
  BY <1>5, <1>6, <1>7, <1>8, <1>9 DEF Loaded

LEMMA WorkerMovesOrder ==
  ASSUME TypeOK, WorkerMoves
  PROVE  OwnerOrder
<1>1. todo \in Stacks
  BY DEF TypeOK, Stacks
<1>2. \E t \in Threads \ {"owner"} : \E e : todo' = [todo EXCEPT ![t] = e]
  BY Zenon DEF WorkerMoves, SenderLocks, SenderSends, WaitGate, Poll, LockClose,
     WorkerSendsClose, Receive, ReceiveFails, ReceiveClosed, NoteClosed, DeliverClosed,
     DestroyClient, FinishWorker, JoinWorker, Continue, Threads
<1>3. todo'["owner"] = todo["owner"]
  BY <1>1, <1>2, OwnerShort DEF Stacks
<1> QED
  BY <1>3 DEF OwnerOrder

\* What the owner is at while it calls the application has nothing of close() below it.
LEMMA OwnerQuiet ==
  ASSUME TypeOK, OrderOK
  PROVE  /\ \A x \in App : At("owner", x) => ~HasAny("owner", Closers)
         /\ \A x \in App \cup Closers : At("owner", x) => ~Has("owner", "reportLogicalFailure")
         /\ Idle("owner") =>
              ~HasAny("owner", Closers) /\ ~Has("owner", "reportLogicalFailure")
<1> DEFINE s == todo["owner"]
<1>1. s \in Seq(Entries)
  BY OwnerShort DEF TypeOK
<1>2. s # <<>> => Range(s) = {Head(s)} \cup Range(Tail(s))
  BY <1>1, RestRange DEF Rest
<1>3. /\ s # <<>> /\ Head(s) \in App => Range(Tail(s)) \cap Closers = {}
      /\ s # <<>> /\ Head(s) \in App \cup Closers
           => Range(Tail(s)) \cap {"reportLogicalFailure"} = {}
  BY <1>1, RestShape DEF OrderOK, Rest
<1>4. App \cap Closers = {} /\ "reportLogicalFailure" \notin App \cup Closers
  BY DEF App, Closers
<1>5. \A x \in App : At("owner", x) => ~HasAny("owner", Closers)
  BY <1>2, <1>3, <1>4 DEF At, HasAny
<1>6. \A x \in App \cup Closers : At("owner", x) => ~Has("owner", "reportLogicalFailure")
  BY <1>2, <1>3, <1>4 DEF At, Has
<1>7. Range(<<>>) = {}
  BY ShortRanges
<1>8. Idle("owner") => ~HasAny("owner", Closers) /\ ~Has("owner", "reportLogicalFailure")
  BY <1>7 DEF Idle, HasAny, Has
<1> QED
  BY <1>5, <1>6, <1>8

LEMMA OrderHolds ==
  ASSUME todo \in Stacks, OrderOK, OwnerOrder
  PROVE  OrderOK'
<1> DEFINE R == {"reportLogicalFailure"}
<1>0. Above(App, Closers, todo["owner"]) /\ Above(App \cup Closers, R, todo["owner"])
  BY DEF OrderOK
<1>1. ASSUME NEW E, Orderly(E)
      PROVE  Above(App, Closers, todo'["owner"]) /\ Above(App \cup Closers, R, todo'["owner"])
  <2>1. /\ Replaces("owner", E, todo, todo') /\ Fits(E)
        /\ E \cap App = {} \/ Head(todo["owner"]) \in App
        /\ E \cap (App \cup Closers) = {} \/ Head(todo["owner"]) \in App \cup Closers
    BY <1>1 DEF Orderly, Step
  <2>2. /\ E \cap App = {} \/ E \cap Closers = {}
        /\ E \cap (App \cup Closers) = {} \/ E \cap R = {}
    BY <2>1 DEF Fits
  <2>3. Above(App, Closers, todo'["owner"])
    BY <1>0, <2>1, <2>2, ReplacesAbove, OwnerShort
  <2>4. Above(App \cup Closers, R, todo'["owner"])
    BY <1>0, <2>1, <2>2, ReplacesAbove, OwnerShort
  <2> QED
    BY <2>3, <2>4
<1>2. ASSUME NEW E, Given("owner", E), Fits(E)
      PROVE  Above(App, Closers, todo'["owner"]) /\ Above(App \cup Closers, R, todo'["owner"])
  <2>1. /\ E \cap App = {} \/ E \cap Closers = {}
        /\ E \cap (App \cup Closers) = {} \/ E \cap R = {}
    BY <1>2 DEF Fits
  <2> QED
    BY <1>2, <2>1, LoadsOrder, OwnerShort DEF Given
<1>3. ASSUME Range(todo'["owner"]) \cap (Closers \cup R) = {}
      PROVE  Above(App, Closers, todo'["owner"]) /\ Above(App \cup Closers, R, todo'["owner"])
  BY <1>3 DEF Above, Range
<1> QED
  BY <1>0, <1>1, <1>2, <1>3 DEF OwnerOrder, OrderOK

LEMMA OrderStep ==
  ASSUME TypeOK, EarlyOK, OrderOK, [Next]_vars
  PROVE  OrderOK'
<1>1. TypeOK' /\ EarlyOK' /\ (Early' \/ ~StartMoves)
  BY StartIsOver
<1>2. ASSUME Early' PROVE OrderOK'
  <2>1. TypeOK' /\ EarlyOK' /\ Early'
    BY <1>1, <1>2
  <2>2. (TypeOK /\ EarlyOK /\ Early => OrderOK)'
    BY EarlyResults, PTL
  <2> QED
    BY <2>1, <2>2
<1> SUFFICES ASSUME ~StartMoves PROVE OrderOK'
  BY <1>1, <1>2
<1>3. todo \in Stacks /\ deadline \in BOOLEAN
  BY DEF TypeOK, Stacks
<1>4. ASSUME Closes PROVE OrderOK'
  <2>1. PICK own : Close(own)
    BY <1>4 DEF Closes
  <2>2. PICK e \in Seq(Entries) :
          Spells(e, CloseEntries) /\ Puts("owner", e, todo["owner"], todo, todo')
    BY <1>3, <2>1, CloseEffects DEF Adds
  <2>3. ApplicationRuns
    BY <2>1 DEF Close
  <2>4. ~Has("owner", "reportLogicalFailure")
    BY <2>3, OwnerQuiet DEF ApplicationRuns, App
  <2>5. Range(todo["owner"]) \cap {"reportLogicalFailure"} = {}
    BY <2>4 DEF Has
  <2>6. Range(e) = CloseEntries /\ CloseEntries \cap App = {}
    BY <2>2 DEF Spells, CloseEntries, Cond, App
  <2>7. CloseEntries \cap (App \cup Closers) = {} \/ CloseEntries \cap {"reportLogicalFailure"} = {}
    BY DEF CloseEntries, Cond, App, Closers, CloseBegins, CloseFailed
  <2>8. Above(App, Closers, todo'["owner"])
    BY <1>3, <2>2, <2>6, AbovePuts, OwnerShort DEF OrderOK
  <2>9. Above(App \cup Closers, {"reportLogicalFailure"}, todo'["owner"])
    BY <1>3, <2>2, <2>5, <2>6, <2>7, AbovePuts, OwnerShort DEF OrderOK
  <2> QED
    BY <2>8, <2>9 DEF OrderOK
<1>5. ASSUME ~Closes PROVE OwnerOrder
  <2>1. OtherSessionEnds \/ UNCHANGED vars => OwnerOrder
    BY DEF OtherSessionEnds, vars, OwnerOrder
  <2> QED
    BY <1>5, <2>1, NextCases, FailureOrder, OwnerMovesOrder, WorkerMovesOrder, LoadedOrder DEF Closes
<1> QED
  BY <1>3, <1>4, <1>5, OrderHolds

\* What close() decides on entry, and what it does with the callback it was given.
CloseOutcome(own) ==
  \/ /\ "logicalResultReported" \in flags /\ logicalResult = "Failed"
     /\ flags \cap {"logicalFailureDeliveryPending", "failureHandoffPending",
                    "failureFallbackPending"} # {}
     /\ flags' = flags \cup {"logicalFailureDeliveryPending"}
     /\ closeCallbacks' = closeCallbacks \cup own
     /\ UNCHANGED <<phase, logicalResult, knownResults>>
  \/ /\ "logicalResultReported" \in flags
     /\ logicalResult # "Failed" \/ flags \cap {"logicalFailureDeliveryPending",
                    "failureHandoffPending", "failureFallbackPending"} = {}
     /\ knownResults' = knownResults \cup [callback : own, result : {logicalResult}]
     /\ UNCHANGED <<phase, flags, logicalResult, closeCallbacks>>
  \/ /\ "logicalResultReported" \notin flags /\ phase = "New" /\ phase' = "PhysicallyStopped"
     /\ flags' = flags \cup {"logicalResultReported"}
     /\ logicalResult' = "Closed"
     /\ knownResults' = knownResults \cup [callback : own, result : {"Closed"}]
     /\ UNCHANGED closeCallbacks
  \/ /\ "logicalResultReported" \notin flags /\ CloseReady
     /\ flags' = flags \cup {"logicalResultReported"}
     /\ logicalResult' = physicalResult
     /\ knownResults' =
          knownResults \cup [callback : closeCallbacks \cup own, result : {physicalResult}]
     /\ closeCallbacks' = {}
     /\ UNCHANGED phase
  \/ /\ CloseWaits
     /\ closeCallbacks' = closeCallbacks \cup own
     /\ phase' = IF "physicalFinished" \notin flags /\ phase = "Running"
                 THEN "CloseRequested" ELSE phase
     /\ flags' = flags
          \cup Cond("physicalFinished" \notin flags /\ phase = "Starting",
                    "closeRequestedDuringStart")
     /\ UNCHANGED <<logicalResult, knownResults>>

LEMMA CloseOutcomes ==
  ASSUME Closes \/ CloseAfterStart
  PROVE  \E own \in SUBSET (Callbacks \ passed) : passed' = passed \cup own /\ CloseOutcome(own)
<1>1. ASSUME NEW own, NEW rest, CloseEnters(own, rest) PROVE CloseOutcome(own)
  BY <1>1 DEF CloseEnters, CloseOutcome, ReportKnown, CloseReady, CloseWaits, Cond
<1>2. CASE Closes
  BY <1>1, <1>2 DEF Closes, Close
<1>3. CASE CloseAfterStart
  <2>1. CloseOutcome({}) /\ passed' = passed \cup {} /\ {} \in SUBSET (Callbacks \ passed)
    BY <1>1, <1>3 DEF CloseAfterStart
  <2> QED
    BY <2>1
<1> QED
  BY <1>2, <1>3

\* A result stays reported, and only a reported failure can wait for its delivery.
LEMMA ReportedStays ==
  ASSUME TypeOK, [Next]_vars, ~StartMoves
  PROVE  /\ "logicalResultReported" \in flags => "logicalResultReported" \in flags'
         /\ \A t \in Threads : ReportLogicalFailure(t) => "logicalResultReported" \in flags'
         /\ ("logicalFailureDeliveryPending" \in flags => "logicalResultReported" \in flags) =>
              ("logicalFailureDeliveryPending" \in flags' => "logicalResultReported" \in flags')
<1>1. FlagsWritten
  BY OnlyFlagsWritten
<1>2. todo \in Stacks
  BY DEF TypeOK, Stacks
<1>3. \A t \in Threads : ReportLogicalFailure(t) => "logicalResultReported" \in flags'
  BY <1>2, LogicalEffects
<1>4. ASSUME Closes \/ CloseAfterStart
      PROVE  /\ "logicalResultReported" \in flags => "logicalResultReported" \in flags'
             /\ "logicalFailureDeliveryPending" \in flags' /\ "logicalFailureDeliveryPending" \notin flags
                  => "logicalResultReported" \in flags'
  BY <1>4, CloseOutcomes DEF CloseOutcome, Cond
<1>5. DeadlineExpires \/ FinalizeWorker \/ LogicalSourceRuns =>
        /\ "logicalResultReported" \in flags => "logicalResultReported" \in flags'
        /\ "logicalFailureDeliveryPending" \in flags' => "logicalFailureDeliveryPending" \in flags
  BY DEF DeadlineExpires, FinalizeWorker, LogicalSourceRuns, TakeFallback, LogicalDelivery
<1>6. \A t \in Threads : HandOffFails(t) /\ "logicalFailureDeliveryPending" \in flags'
                           /\ "logicalFailureDeliveryPending" \notin flags
        => "logicalResultReported" \in flags
  <2>1. \A t \in Threads : HandOffFails(t) => Releases(t, RefusedFlags)
    BY <1>2, RefusedEffects
  <2> QED
    BY <2>1 DEF Releases, RefusedFlags, Cond
<1>7. "logicalResultReported" \in flags => "logicalResultReported" \in flags'
  BY <1>1, <1>3, <1>4, <1>5 DEF FlagsWritten, Same
<1> QED
  BY <1>1, <1>3, <1>4, <1>5, <1>6, <1>7 DEF FlagsWritten, Same

\* What close() puts on the owner's stack, and how it leaves.
LEMMA CloserSteps ==
  ASSUME TypeOK, OrderOK, CloseOK
  PROVE  /\ Closes \/ CloseAfterStart =>
              /\ Holds(Closers, "owner", Cond(CloseBegins, "closeSend"))
              /\ ~HasAny("owner", Closers) /\ ~Has("owner", "reportLogicalFailure")
              /\ Has("owner", "reportLogicalFailure")' <=> CloseFailed
              /\ \A u \in Threads : u # "owner" => todo'[u] = todo[u]
              /\ UNCHANGED deadline
         /\ CloseLocks \/ CloseQueues =>
              Holds(Closers, "owner", {"installDeadline"}) /\ HasAny("owner", Closers)
         /\ InstallDeadline =>
              /\ Holds(Closers, "owner", {}) /\ HasAny("owner", Closers)
              /\ ~Has("owner", "reportLogicalFailure")
              /\ \A u \in Threads : u # "owner" => todo'[u] = todo[u]
              /\ deadline' /\ ~deadline => /\ ~Has("owner", "reportLogicalFailure")'
                                           /\ "logicalResultReported" \notin flags
<1>1. todo \in Stacks /\ client \in BOOLEAN /\ deadline \in BOOLEAN
  BY DEF TypeOK, Stacks
<1>2. Alone(Closers, todo) /\ \A t \in Threads : HasAny(t, Closers) => t = "owner"
  BY DEF CloseOK
<1>3. ~HasAny("owner", Closers) => Nowhere(Closers, todo)
  BY <1>2 DEF HasAny, Nowhere
<1>4. \A E, S, C : Step("owner", E) /\ E \cap S = C =>
        /\ \A u \in Threads : u # "owner" => todo'[u] = todo[u]
        /\ Range(todo["owner"]) \cap S = {} => Range(todo'["owner"]) \cap S = C
  BY <1>1, StepFacts, OwnerShort
<1>5. CloseEntries \cap Closers = Cond(CloseBegins, "closeSend")
      /\ ("reportLogicalFailure" \in CloseEntries <=> CloseFailed)
  BY DEF CloseEntries, Cond, Closers
<1>6. ASSUME Closes \/ CloseAfterStart
      PROVE  ~HasAny("owner", Closers) /\ ~Has("owner", "reportLogicalFailure") /\ UNCHANGED deadline
  <2>1. Idle("owner") \/ \E x \in {"inCallback", "createClient", "close"} : At("owner", x)
    BY <1>6, SMTT(30) DEF Closes, Close, CloseAfterStart, ApplicationRuns
  <2>2. UNCHANGED deadline
    BY <1>6 DEF Closes, Close, CloseAfterStart, CloseEnters
  <2> QED
    BY <2>1, <2>2, OwnerQuiet DEF App
<1>7. ASSUME Closes \/ CloseAfterStart
      PROVE  /\ Holds(Closers, "owner", Cond(CloseBegins, "closeSend"))
             /\ Has("owner", "reportLogicalFailure")' <=> CloseFailed
             /\ \A u \in Threads : u # "owner" => todo'[u] = todo[u]
  <2>1. \/ Given("owner", CloseEntries)
        \/ \E x \in {"inCallback", "createClient"} : Step("owner", CloseEntries \cup {x})
        \/ Step("owner", CloseEntries)
    BY <1>1, <1>7, CloseEffects, CloseAfterStartEffects DEF Closes
  <2>2. Nowhere(Closers, todo) /\ Range(todo["owner"]) \cap {"reportLogicalFailure"} = {}
    BY <1>3, <1>6, <1>7 DEF Has
  <2>3. ASSUME NEW E, Step("owner", E), E \cap Closers = CloseEntries \cap Closers,
               "reportLogicalFailure" \in E <=> "reportLogicalFailure" \in CloseEntries
        PROVE  /\ Holds(Closers, "owner", Cond(CloseBegins, "closeSend"))
               /\ Has("owner", "reportLogicalFailure")' <=> CloseFailed
               /\ \A u \in Threads : u # "owner" => todo'[u] = todo[u]
    <3>1. E \cap Closers \subseteq {"closeSend"}
      BY <1>5, <2>3 DEF Cond
    <3>2. Holds(Closers, "owner", E \cap Closers)
      BY <1>1, <1>2, <2>2, <2>3, <3>1, StepHolds, OwnerShort
    <3>3. Range(todo'["owner"]) = E \cup Range(Tail(todo["owner"]))
          /\ Range(Tail(todo["owner"])) \subseteq Range(todo["owner"])
      BY <1>1, <2>3, StepFacts, OwnerShort
    <3>4. Has("owner", "reportLogicalFailure")' <=> CloseFailed
      BY <1>5, <2>2, <2>3, <3>3 DEF Has
    <3> QED
      BY <1>4, <1>5, <2>3, <3>2, <3>4
  <2>4. CASE Given("owner", CloseEntries)
    <3>1. CloseEntries \cap Closers \subseteq {"closeSend"}
      BY <1>5 DEF Cond
    <3>2. Holds(Closers, "owner", CloseEntries \cap Closers)
      BY <1>1, <1>2, <2>2, <2>4, <3>1, GivenHolds, OwnerShort
    <3>3. Range(todo'["owner"]) = CloseEntries /\ \A u \in Threads : u # "owner" => todo'[u] = todo[u]
      BY <1>1, <2>4, LoadsFacts, OwnerShort DEF Given
    <3> QED
      BY <1>5, <3>2, <3>3 DEF Has
  <2>5. \A x \in {"inCallback", "createClient"} :
          /\ (CloseEntries \cup {x}) \cap Closers = CloseEntries \cap Closers
          /\ "reportLogicalFailure" \in CloseEntries \cup {x} <=> "reportLogicalFailure" \in CloseEntries
    BY DEF Closers
  <2> QED
    BY <2>1, <2>3, <2>4, <2>5
<1>8. ASSUME NEW E, Step("owner", E), NEW C, E \cap Closers = C, C \subseteq {"installDeadline"},
             NEW x \in Closers, At("owner", x)
      PROVE  Holds(Closers, "owner", C) /\ HasAny("owner", Closers)
  <2>1. x \in Range(todo["owner"]) /\ Head(todo["owner"]) = x
    BY <1>1, <1>8, AtHas, OwnerShort
  <2>2. Holds(Closers, "owner", E \cap Closers)
    BY <1>1, <1>2, <1>8, <2>1, StepHolds, OwnerShort
  <2> QED
    BY <1>8, <2>1, <2>2 DEF HasAny
<1>9. CloseLocks \/ CloseQueues =>
        Holds(Closers, "owner", {"installDeadline"}) /\ HasAny("owner", Closers)
  <2> SUFFICES ASSUME CloseLocks \/ CloseQueues
               PROVE  Holds(Closers, "owner", {"installDeadline"}) /\ HasAny("owner", Closers)
    OBVIOUS
  <2>1. \/ Step("owner", Cond(SendsClose, "sendClose") \cup {"installDeadline"})
        \/ Step("owner", {"installDeadline"})
    BY <1>1, StartAndCloseEffects, SimpleEffects
  <2>2. At("owner", "closeSend") /\ "closeSend" \in Closers
    BY DEF CloseLocks, CloseQueues, Closers
  <2>3. /\ (Cond(SendsClose, "sendClose") \cup {"installDeadline"}) \cap Closers = {"installDeadline"}
        /\ {"installDeadline"} \cap Closers = {"installDeadline"}
    BY DEF Cond, Closers
  <2> QED
    BY <1>8, <2>1, <2>2, <2>3
<1>10. ASSUME InstallDeadline
       PROVE  /\ Holds(Closers, "owner", {}) /\ HasAny("owner", Closers)
              /\ ~Has("owner", "reportLogicalFailure")
              /\ \A u \in Threads : u # "owner" => todo'[u] = todo[u]
              /\ deadline' /\ ~deadline => /\ ~Has("owner", "reportLogicalFailure")'
                                           /\ "logicalResultReported" \notin flags
  <2>1. Step("owner", {}) \/ Step("owner", {"reportLogicalFailure"})
    BY <1>1, <1>10, StartAndCloseEffects
  <2>2. At("owner", "installDeadline") /\ "installDeadline" \in Closers
    BY <1>10 DEF InstallDeadline, Closers
  <2>3. {} \cap Closers = {} /\ {"reportLogicalFailure"} \cap Closers = {}
    BY DEF Closers
  <2>4. Holds(Closers, "owner", {}) /\ HasAny("owner", Closers)
    BY <1>8, <2>1, <2>2, <2>3
  <2>5. ~Has("owner", "reportLogicalFailure")
    BY <2>2, OwnerQuiet
  <2>6. \A u \in Threads : u # "owner" => todo'[u] = todo[u]
    BY <1>4, <2>1
  <2>7. ASSUME deadline', ~deadline
        PROVE  ~Has("owner", "reportLogicalFailure")' /\ "logicalResultReported" \notin flags
    <3>1. Continue("owner", <<>>) /\ "logicalResultReported" \notin flags
      BY <1>10, <2>7 DEF InstallDeadline, If
    <3>2. Step("owner", {})
      BY <1>1, <2>2, <3>1, ContinueShort, OwnerShort
    <3>3. Range(todo["owner"]) \cap {"reportLogicalFailure"} = {}
      BY <2>5 DEF Has
    <3>4. Range(todo'["owner"]) \cap {"reportLogicalFailure"} = {}
      BY <1>4, <3>2, <3>3
    <3> QED
      BY <3>1, <3>4 DEF Has
  <2> QED
    BY <2>4, <2>5, <2>6, <2>7
<1> QED
  BY <1>6, <1>7, <1>9, <1>10

\* Who puts reportLogicalFailure on a stack, and who takes it off.
LEMMA ReportSteps ==
  ASSUME TypeOK, ThreadsOK, FinalizerOK, HandoffOK, [Next]_vars, ~StartMoves
  PROVE  /\ \A t \in Threads : AttachFinalizer(t) => NoMoreHandoff'
         /\ ReceiveFails => NoMoreHandoff'
         /\ \A t \in Threads : MarkSendFailure(t) =>
              \/ NoMoreHandoff'
              \/ Keeps({"reportLogicalFailure"}) /\ UNCHANGED <<flags, phase>>
         /\ \A t \in Threads : ReportLogicalFailure(t) =>
              /\ Has(t, "reportLogicalFailure")
              /\ \A u \in Threads : Has(u, "reportLogicalFailure")' => Has(u, "reportLogicalFailure")
         /\ StartFails \/ ThreadFails \/ ActivationFails =>
              /\ Has("owner", "reportLogicalFailure")'
              /\ \A u \in Threads : u # "owner" => todo'[u] = todo[u]
<1>1. todo \in Stacks /\ client \in BOOLEAN
  BY DEF TypeOK, Stacks
<1>2. ASSUME NEW t \in Threads, AttachFinalizer(t) PROVE NoMoreHandoff'
  <2>1. Has(t, "attachFinalizer")
    BY <1>1, <1>2, AtHas DEF AttachFinalizer, Has
  <2>2. "reaperReady" \in flags /\ ReceiptSettled(flags)
    BY <2>1 DEF FinalizerOK
  <2>3. Exited("worker")
    BY <2>2 DEF ThreadsOK
  <2>4. Over
    BY <2>2, <2>3 DEF ThreadsOK, Exited, Idle, Over
  <2> QED
    BY <2>4, OverStays DEF NoMoreHandoff
<1>3. ASSUME NEW F, flags' = F \cup {"abortWorker"} \cup Cond(CanBeginHandoff(flags), "failureHandoffPending"),
             flags \subseteq F
      PROVE  NoMoreHandoff'
  <2>1. ~CanBeginHandoff(flags')
    BY <1>3 DEF CanBeginHandoff, Cond
  <2> QED
    BY <2>1 DEF NoMoreHandoff
<1>4. ReceiveFails => NoMoreHandoff'
  BY <1>1, <1>3, ReceiveFailsEffects
<1>5. ASSUME NEW t \in Threads, MarkSendFailure(t)
      PROVE  \/ NoMoreHandoff'
             \/ Keeps({"reportLogicalFailure"}) /\ UNCHANGED <<flags, phase>>
  <2>1. CASE MarkedLate
    <3>1. Step(t, {}) /\ flags' = flags /\ phase' = phase /\ Head(todo[t]) = "markSendFailure"
      BY <1>1, <1>5, <2>1, MarkEffects DEF MarkSendFailure, MarkedLate, At
    <3>2. Touches({"markSendFailure"})
      BY <1>1, <3>1, StepTouches
    <3> QED
      BY <3>1, <3>2 DEF Touches
  <2>2. CASE ~MarkedLate
    BY <1>1, <1>3, <1>5, <2>2, MarkEffects
  <2> QED
    BY <2>1, <2>2
<1>6. ASSUME NEW t \in Threads, ReportLogicalFailure(t)
      PROVE  /\ Has(t, "reportLogicalFailure")
             /\ \A u \in Threads : Has(u, "reportLogicalFailure")' => Has(u, "reportLogicalFailure")
  <2>1. Step(t, Cond(Schedules, "scheduleLogical"))
    BY <1>1, <1>6, LogicalEffects
  <2>2. /\ \A u \in Threads : u # t => todo'[u] = todo[u]
        /\ Range(todo'[t]) = Cond(Schedules, "scheduleLogical") \cup Range(Tail(todo[t]))
        /\ Range(Tail(todo[t])) \subseteq Range(todo[t])
    BY <1>1, <2>1, ReplacesFacts DEF Step
  <2>3. "reportLogicalFailure" \in Range(todo[t])
    BY <1>1, <1>6, AtHas DEF ReportLogicalFailure
  <2>4. "reportLogicalFailure" \notin Cond(Schedules, "scheduleLogical")
    BY DEF Cond
  <2> QED
    BY <2>2, <2>3, <2>4 DEF Has
<1>7. ASSUME StartFails \/ ThreadFails \/ ActivationFails
      PROVE  /\ Has("owner", "reportLogicalFailure")'
             /\ \A u \in Threads : u # "owner" => todo'[u] = todo[u]
  <2>1. \E E : Step("owner", E) /\ "reportLogicalFailure" \in E
    <3>1. "reportLogicalFailure" \in {"reportLogicalFailure"}
          /\ "reportLogicalFailure" \in {"openGate", "reportLogicalFailure"}
      OBVIOUS
    <3> QED
      BY <1>1, <1>7, <3>1, StartAndCloseEffects, SimpleEffects
  <2>2. PICK E : Step("owner", E) /\ "reportLogicalFailure" \in E
    BY <2>1
  <2>3. /\ \A u \in Threads : u # "owner" => todo'[u] = todo[u]
        /\ Range(todo'["owner"]) = E \cup Range(Tail(todo["owner"]))
    BY <1>1, <2>2, StepFacts, OwnerShort
  <2> QED
    BY <2>2, <2>3 DEF Has
<1> QED
  BY <1>2, <1>4, <1>5, <1>6, <1>7

LEMMA ClosingStep ==
  ASSUME TypeOK, EarlyOK, ThreadsOK, FinalizerOK, HandoffOK, OrderOK, CloseOK, [Next]_vars
  PROVE  CloseOK'
<1>1. TypeOK' /\ EarlyOK' /\ (Early' \/ ~StartMoves)
  BY StartIsOver
<1>2. ASSUME Early' PROVE CloseOK'
  <2>1. TypeOK' /\ EarlyOK' /\ Early'
    BY <1>1, <1>2
  <2>2. (TypeOK /\ EarlyOK /\ Early => CloseOK)'
    BY EarlyResults, PTL
  <2> QED
    BY <2>1, <2>2
<1> SUFFICES ASSUME ~StartMoves, ~Early' PROVE CloseOK'
  BY <1>1, <1>2
<1>3. VariablesWritten /\ FlagsWritten /\ EntriesWritten
  BY OnlyVariablesWritten, OnlyFlagsWritten, OnlyEntriesWritten
<1> DEFINE Enters == Closes \/ CloseAfterStart
           Reported == "logicalResultReported" \in flags
           FailsStart == StartFails \/ ThreadFails \/ ActivationFails
<1>4. /\ Enters =>
           /\ Holds(Closers, "owner", Cond(CloseBegins, "closeSend"))
           /\ ~HasAny("owner", Closers) /\ ~Has("owner", "reportLogicalFailure")
           /\ Has("owner", "reportLogicalFailure")' <=> CloseFailed
           /\ \A u \in Threads : u # "owner" => todo'[u] = todo[u]
           /\ UNCHANGED deadline
      /\ CloseLocks \/ CloseQueues =>
           Holds(Closers, "owner", {"installDeadline"}) /\ HasAny("owner", Closers)
      /\ InstallDeadline =>
           /\ Holds(Closers, "owner", {}) /\ HasAny("owner", Closers)
           /\ ~Has("owner", "reportLogicalFailure")
           /\ \A u \in Threads : u # "owner" => todo'[u] = todo[u]
           /\ deadline' /\ ~deadline => ~Has("owner", "reportLogicalFailure")' /\ ~Reported
  BY CloserSteps
<1>5. /\ \A t \in Threads : AttachFinalizer(t) => NoMoreHandoff'
      /\ ReceiveFails => NoMoreHandoff'
      /\ \A t \in Threads : MarkSendFailure(t) =>
           \/ NoMoreHandoff'
           \/ Keeps({"reportLogicalFailure"}) /\ UNCHANGED <<flags, phase>>
      /\ \A t \in Threads : ReportLogicalFailure(t) =>
           /\ Has(t, "reportLogicalFailure")
           /\ \A u \in Threads : Has(u, "reportLogicalFailure")' => Has(u, "reportLogicalFailure")
      /\ FailsStart =>
           /\ Has("owner", "reportLogicalFailure")'
           /\ \A u \in Threads : u # "owner" => todo'[u] = todo[u]
  BY ReportSteps
<1>6. /\ Reported => Reported'
      /\ \A t \in Threads : ReportLogicalFailure(t) => Reported'
      /\ ("logicalFailureDeliveryPending" \in flags => Reported)
           => ("logicalFailureDeliveryPending" \in flags' => Reported')
  BY ReportedStays
<1>7. NoMoreHandoff => NoMoreHandoff'
  BY OverStays
<1>8. FailsStart \/ Activate => Early
  BY Leaving
<1>9. ASSUME Enters
      PROVE  /\ CloseBegins => ~Early /\ phase' # "Running" /\ ~deadline
             /\ ~Early => (phase' = phase \/ phase' = "CloseRequested")
             /\ phase' = "Failed" => phase = "Failed"
             /\ "abortWorker" \in flags' => "abortWorker" \in flags
             /\ CloseFailed => ~Reported /\ (phase = "Failed" \/ "abortWorker" \in flags)
             /\ Reported' /\ ~Reported /\ ~Early => Over
  <2>1. PICK own : CloseOutcome(own)
    BY <1>9, CloseOutcomes
  <2>2. "physicalFinished" \in flags => phase = "PhysicallyStopped"
    BY DEF ThreadsOK
  <2>3. deadline => ~Early /\ phase # "Running"
    BY DEF CloseOK
  <2>4. CloseBegins => CloseWaits
    BY DEF CloseBegins
  <2>5. CloseBegins => ~Early /\ phase' # "Running" /\ ~deadline
    <3> SUFFICES ASSUME CloseBegins PROVE ~Early /\ phase' # "Running" /\ ~deadline
      OBVIOUS
    <3>1. phase' = IF "physicalFinished" \notin flags /\ phase = "Running" THEN "CloseRequested" ELSE phase
      BY <2>1 DEF CloseOutcome, CloseBegins, CloseWaits, CloseReady
    <3>2. CASE "physicalFinished" \in flags
      BY <2>2, <3>1, <3>2 DEF CloseBegins, Early
    <3>3. CASE "physicalFinished" \notin flags
      BY <2>3, <3>1, <3>3 DEF CloseBegins, Early
    <3> QED
      BY <3>2, <3>3
  <2>6. ~Early => (phase' = phase \/ phase' = "CloseRequested")
    BY <2>1 DEF CloseOutcome, Early
  <2>7. "abortWorker" \in flags' => "abortWorker" \in flags
    BY <2>1 DEF CloseOutcome, Cond
  <2>8. CloseFailed => ~Reported /\ (phase = "Failed" \/ "abortWorker" \in flags)
    BY DEF CloseFailed, CloseWaits
  <2>9. Reported' /\ ~Reported /\ ~Early => Over
    BY <2>1 DEF CloseOutcome, Cond, Early, CloseReady, TerminalDeliveryReady, Over
  <2>10. phase' = "Failed" => phase = "Failed"
    BY <2>1 DEF CloseOutcome
  <2> QED
    BY <2>5, <2>6, <2>7, <2>8, <2>9, <2>10
<1>10. Enters \/ CloseLocks \/ CloseQueues \/ InstallDeadline
         \/ (Keeps(Closers) /\ (deadline' => deadline))
  <2>1. ~InstallDeadline => (deadline' => deadline)
    BY <1>3 DEF VariablesWritten, DeadlineExpires, FinalizeWorker
  <2> QED
    BY <1>3, <2>1 DEF EntriesWritten
<1>11. Alone(Closers, todo')
  BY <1>4, <1>10 DEF Holds, Keeps, CloseOK
<1>12. phase' = "Running" => phase = "Running" \/ Activate
  <2>1. \A t \in Threads : MarkSendFailure(t) => phase' = phase \/ phase' = "Failed"
    BY DEF MarkSendFailure
  <2>2. FailsStart \/ ReceiveFails \/ FinishWorker \/ FinalizeWorker => phase' # "Running"
    BY DEF StartFails, ThreadFails, ActivationFails, ReceiveFails, FinishWorker, FinalizeWorker
  <2>3. Enters /\ phase' = "Running" => phase = "Running"
    BY CloseOutcomes DEF CloseOutcome
  <2> QED
    BY <1>3, <2>1, <2>2, <2>3 DEF VariablesWritten
<1>13. /\ \A t \in Threads : HasAny(t, Closers) => t = "owner" /\ ~Early /\ phase # "Running" /\ ~deadline
       /\ deadline => ~Early /\ phase # "Running"
  BY DEF CloseOK
<1>14. ASSUME NEW t \in Threads, HasAny(t, Closers)'
       PROVE  t = "owner" /\ phase' # "Running" /\ ~deadline'
  <2>1. CASE Enters
    <3>1. t = "owner" /\ CloseBegins
      BY <1>4, <1>14, <2>1 DEF Holds, HasAny, Cond
    <3>2. phase' # "Running" /\ ~deadline
      BY <1>9, <2>1, <3>1
    <3>3. UNCHANGED deadline
      BY <1>4, <2>1
    <3> QED
      BY <3>1, <3>2, <3>3
  <2>2. CASE CloseLocks \/ CloseQueues
    <3>1. t = "owner" /\ HasAny("owner", Closers)
      BY <1>4, <1>14, <2>2 DEF Holds, HasAny
    <3>2. phase' = phase /\ deadline' = deadline
      BY <2>2 DEF CloseLocks, CloseQueues, sourceVars
    <3> QED
      BY <1>13, <3>1, <3>2
  <2>3. ~InstallDeadline
    BY <1>4, <1>14 DEF Holds, HasAny
  <2>4. CASE Keeps(Closers) /\ (deadline' => deadline)
    <3>1. HasAny(t, Closers)
      BY <1>14, <2>4 DEF Keeps, HasAny
    <3> QED
      BY <1>8, <1>12, <1>13, <2>4, <3>1
  <2> QED
    BY <1>10, <2>1, <2>2, <2>3, <2>4
<1>15. deadline' => phase' # "Running"
  <2> SUFFICES ASSUME deadline' PROVE phase' # "Running"
    OBVIOUS
  <2>1. CASE InstallDeadline
    <3>1. HasAny("owner", Closers) /\ phase' = phase
      BY <1>4, <2>1 DEF InstallDeadline
    <3> QED
      BY <1>13, <3>1, OwnerShort
  <2>2. CASE ~InstallDeadline
    <3>1. deadline
      BY <1>3, <2>2 DEF VariablesWritten, DeadlineExpires, FinalizeWorker
    <3> QED
      BY <1>8, <1>12, <1>13, <3>1
  <2> QED
    BY <2>1, <2>2
<1>16. "logicalFailureDeliveryPending" \in flags' => Reported'
  BY <1>6 DEF CloseOK
<1>17. ASSUME NEW t \in Threads \ {"owner"}, Has(t, "reportLogicalFailure")' PROVE NoMoreHandoff'
  <2>1. NoMoreHandoff' \/ Has(t, "reportLogicalFailure")
    BY <1>3, <1>4, <1>5, <1>17 DEF EntriesWritten, Keeps, Has
  <2> QED
    BY <1>7, <2>1 DEF CloseOK
<1>18. ASSUME deadline', Has("owner", "reportLogicalFailure")' \/ Reported' PROVE NoMoreHandoff'
  <2>1. CASE ~deadline
    <3>1. InstallDeadline
      BY <1>3, <1>18, <2>1 DEF VariablesWritten, DeadlineExpires, FinalizeWorker
    <3>2. flags' = flags
      BY <3>1 DEF InstallDeadline
    <3> QED
      BY <1>4, <1>18, <2>1, <3>1, <3>2
  <2>2. CASE deadline /\ Enters
    <3>1. ~Early /\ ~Has("owner", "reportLogicalFailure")
      BY <1>4, <1>13, <2>2
    <3>2. CASE Reported
      BY <1>7, <2>2, <3>2 DEF CloseOK
    <3>3. CASE Reported' /\ ~Reported
      BY <1>7, <1>9, <2>2, <3>1, <3>3 DEF NoMoreHandoff
    <3>4. CASE ~Reported'
      <4>1. CloseFailed
        BY <1>4, <1>18, <2>2, <3>4
      <4>2. ~Reported /\ (phase = "Failed" \/ "abortWorker" \in flags)
        BY <1>9, <2>2, <4>1
      <4> QED
        BY <1>7, <3>1, <4>2 DEF CloseOK
    <3> QED
      BY <3>2, <3>3, <3>4
  <2>3. CASE deadline /\ ~Enters
    <3>1. ~InstallDeadline /\ ~FailsStart /\ ~DeadlineExpires /\ ~FinalizeWorker
      BY <1>4, <1>8, <1>13, <1>18, <2>3, OwnerShort DEF DeadlineExpires, FinalizeWorker
    <3>2. ASSUME Reported', ~Reported PROVE NoMoreHandoff'
      <4>1. PICK t \in Threads : ReportLogicalFailure(t)
        BY <1>3, <2>3, <3>1, <3>2 DEF FlagsWritten, Same
      <4>2. Has(t, "reportLogicalFailure")
        BY <1>5, <4>1
      <4> QED
        BY <1>7, <2>3, <4>2 DEF CloseOK
    <3>3. ASSUME Has("owner", "reportLogicalFailure")', ~Has("owner", "reportLogicalFailure")
          PROVE  NoMoreHandoff'
      BY <1>3, <1>5, <2>3, <3>1, <3>3, OwnerShort DEF EntriesWritten, Keeps, Has
    <3>4. ASSUME Has("owner", "reportLogicalFailure") \/ Reported PROVE NoMoreHandoff'
      BY <1>7, <2>3, <3>4 DEF CloseOK
    <3> QED
      BY <1>18, <3>2, <3>3, <3>4
  <2> QED
    BY <2>1, <2>2, <2>3
<1>19. ASSUME phase' = "Failed" \/ "abortWorker" \in flags'
       PROVE  NoMoreHandoff' \/ Reported' \/ Has("owner", "reportLogicalFailure")'
  <2> SUFFICES ASSUME ~NoMoreHandoff', ~Reported' PROVE Has("owner", "reportLogicalFailure")'
    OBVIOUS
  <2>1. CASE FailsStart
    BY <1>5, <2>1
  <2>2. CASE ~FailsStart
    <3>1. \A t \in Threads : ~ReportLogicalFailure(t) /\ ~AttachFinalizer(t)
                             /\ (MarkSendFailure(t) => Keeps({"reportLogicalFailure"}) /\ UNCHANGED <<flags, phase>>)
      BY <1>5, <1>6
    <3>2. ~ReceiveFails
      BY <1>5, SMTT(30)
    <3>3. phase = "Failed" \/ "abortWorker" \in flags
      BY <1>3, <1>9, <1>19, <2>2, <3>1, <3>2
      DEF VariablesWritten, FlagsWritten, Same, Activate, FinishWorker, FinalizeWorker
    <3>4. Has("owner", "reportLogicalFailure")
      BY <1>6, <1>7, <3>3 DEF CloseOK
    <3>5. ~Enters /\ ~InstallDeadline
      BY <1>4, <3>4
    <3>6. Keeps({"reportLogicalFailure"})
      BY <1>3, <2>2, <3>1, <3>2, <3>5 DEF EntriesWritten
    <3> QED
      BY <3>4, <3>6, OwnerShort DEF Keeps, Has
  <2> QED
    BY <2>1, <2>2
<1> QED
  BY <1>11, <1>14, <1>15, <1>16, <1>17, <1>18, <1>19 DEF CloseOK

\* What becomes of the callbacks that wait when a source of the owner's context runs.
LEMMA TakeOutcomes ==
  ASSUME CloseOK, DeadlineExpires \/ LogicalSourceRuns \/ FinalizeWorker
  PROVE  /\ UNCHANGED <<knownResults, passed, reports>>
         /\ \/ UNCHANGED <<closeCallbacks, invoking, logicalResult>>
            \/ invoking'.callbacks = {} /\ UNCHANGED <<closeCallbacks, logicalResult>>
            \/ /\ invoking'.callbacks = closeCallbacks /\ closeCallbacks' = {}
               /\ invoking'.result = logicalResult'
               /\ "logicalResultReported" \in flags'
               /\ deadline' => "failureHandoffPending" \notin flags'
                               /\ "failureFallbackPending" \notin flags'
<1>1. "logicalFailureDeliveryPending" \in flags => "logicalResultReported" \in flags
  BY DEF CloseOK
<1>2. \A F : /\ "logicalResultReported" \in F => "logicalResultReported" \in TakeFallback(F)
             /\ "failureFallbackPending" \notin TakeFallback(F)
             /\ "failureHandoffPending" \notin F => "failureHandoffPending" \notin TakeFallback(F)
  BY DEF TakeFallback
<1>3. \A F, result : TakeCallbacks(F, result) =>
        invoking'.callbacks = closeCallbacks /\ closeCallbacks' = {} /\ invoking'.result = result
  BY DEF TakeCallbacks
<1>4. UNCHANGED <<knownResults, passed, reports>>
  BY DEF DeadlineExpires, LogicalSourceRuns, FinalizeWorker, historyVars
<1>5. CASE DeadlineExpires
  <2>1. ~deadline'
    BY <1>5 DEF DeadlineExpires
  <2>2. \/ UNCHANGED <<closeCallbacks, invoking, logicalResult>>
        \/ /\ \E F : TakeCallbacks(F, logicalResult')
           /\ "logicalResultReported" \in flags'
    BY <1>1, <1>2, <1>5 DEF DeadlineExpires, LogicalDelivery, callbackVars
  <2> QED
    BY <1>3, <1>4, <2>1, <2>2
<1>6. CASE LogicalSourceRuns
  <2>1. UNCHANGED logicalResult
    BY <1>6 DEF LogicalSourceRuns, resultVars
  <2>2. \/ UNCHANGED <<closeCallbacks, invoking>>
        \/ /\ \E F : TakeCallbacks(F, logicalResult)
           /\ "failureHandoffPending" \notin flags /\ "logicalResultReported" \in flags
           /\ flags' = TakeFallback(flags \ LogicalDelivery)
    BY <1>1, <1>6 DEF LogicalSourceRuns, callbackVars
  <2> QED
    BY <1>2, <1>3, <1>4, <2>1, <2>2 DEF LogicalDelivery
<1>7. CASE FinalizeWorker
  <2>1. ~deadline'
    BY <1>7 DEF FinalizeWorker
  <2>2. CASE FinalizerReports(flags)
    BY <1>4, <1>7, <2>1, <2>2 DEF FinalizeWorker
  <2>3. CASE ~FinalizerReports(flags)
    BY <1>4, <1>7, <2>3 DEF FinalizeWorker
  <2> QED
    BY <2>2, <2>3
<1> QED
  BY <1>5, <1>6, <1>7

\* The result changes only while nobody has heard of one.
LEMMA ResultMoves ==
  ASSUME TypeOK, EarlyOK, ThreadsOK, FinalizerOK, HandoffOK, CloseOK, ResultsOK,
         [Next]_vars, ~StartMoves, logicalResult' # logicalResult
  PROVE  /\ ~Told /\ "logicalResultReported" \in flags'
         /\ logicalResult' = "Closed" => NeverStarted' \/ Over'
<1>1. VariablesWritten
  BY OnlyVariablesWritten
<1>2. \/ \E t \in Threads : ReportLogicalFailure(t)
      \/ Closes \/ CloseAfterStart \/ DeadlineExpires \/ FinalizeWorker
  BY <1>1 DEF VariablesWritten
<1>3. "logicalResultReported" \notin flags => ~Told /\ logicalResult = "Failed"
  BY DEF ResultsOK
<1>4. Over => Over'
  BY OverStays
<1>5. \A t \in Threads : ~ReportLogicalFailure(t)
  BY <1>3 DEF ReportLogicalFailure
<1>6. CASE Closes \/ CloseAfterStart
  <2>1. PICK own : CloseOutcome(own)
    BY <1>6, CloseOutcomes
  <2>2. /\ "logicalResultReported" \notin flags /\ "logicalResultReported" \in flags'
        /\ \/ phase = "New" /\ phase' = "PhysicallyStopped"
           \/ CloseReady
    BY <2>1 DEF CloseOutcome
  <2>3. CASE phase = "New" /\ phase' = "PhysicallyStopped"
    <3>1. ~client /\ started = {}
      BY <2>3, SMTT(30) DEF EarlyOK, Early, EarlyStacks, EarlyProgress, Idle
    <3>2. client' = client /\ started' = started
      BY <1>6 DEF Closes, Close, CloseAfterStart, CloseEnters, threadVars
    <3>3. NeverStarted'
      BY <2>3, <3>1, <3>2 DEF NeverStarted, Early
    <3> QED
      BY <1>3, <2>2, <3>3
  <2>4. CASE CloseReady
    <3>1. Over
      BY <2>4 DEF CloseReady, TerminalDeliveryReady, Over
    <3> QED
      BY <1>3, <1>4, <2>2, <3>1
  <2> QED
    BY <2>2, <2>3, <2>4
<1>7. CASE DeadlineExpires
  <2>1. \/ /\ {"logicalFailureDeliveryPending", "failureHandoffPending"} \subseteq flags
           /\ flags' = flags \ LogicalDelivery /\ logicalResult' = "TimedOut"
        \/ /\ "logicalResultReported" \notin flags /\ "logicalResultReported" \in flags'
           /\ \/ logicalResult' = "TimedOut"
              \/ "physicalFinished" \in TakeFallback(flags) /\ TerminalDeliveryReady(TakeFallback(flags))
    BY <1>7 DEF DeadlineExpires
  <2>2. CASE /\ {"logicalFailureDeliveryPending", "failureHandoffPending"} \subseteq flags
             /\ flags' = flags \ LogicalDelivery /\ logicalResult' = "TimedOut"
    <3>1. deadline /\ "logicalResultReported" \in flags
      BY <1>7, <2>2 DEF DeadlineExpires, CloseOK
    <3>2. ~Told
      BY <2>2, <3>1 DEF ResultsOK
    <3> QED
      BY <2>2, <3>1, <3>2 DEF LogicalDelivery
  <2>3. CASE /\ "logicalResultReported" \notin flags /\ "logicalResultReported" \in flags'
             /\ \/ logicalResult' = "TimedOut"
                \/ "physicalFinished" \in TakeFallback(flags) /\ TerminalDeliveryReady(TakeFallback(flags))
    <3>1. "physicalFinished" \in TakeFallback(flags) /\ TerminalDeliveryReady(TakeFallback(flags)) => Over
      BY DEF TakeFallback, TerminalDeliveryReady, ReceiptSettled, Over
    <3> QED
      BY <1>3, <1>4, <2>3, <3>1
  <2> QED
    BY <2>1, <2>2, <2>3
<1>8. CASE FinalizeWorker
  <2>1. finalizer = "attached" /\ "logicalResultReported" \notin flags /\ "logicalResultReported" \in flags'
    BY <1>8 DEF FinalizeWorker, FinalizerReports
  <2>2. "reaperReady" \in flags /\ ReceiptSettled(flags)
    BY <2>1 DEF FinalizerOK
  <2>3. Over
    BY <2>2 DEF ThreadsOK, Exited, Idle, Over
  <2> QED
    BY <1>3, <1>4, <2>1, <2>3
<1> QED
  BY <1>2, <1>5, <1>6, <1>7, <1>8

LEMMA PlacesStep ==
  ASSUME TypeOK, EarlyOK, CloseOK, PlacesOK, ResultsOK, [Next]_vars
  PROVE  PlacesOK'
<1>1. TypeOK' /\ EarlyOK' /\ (Early' \/ ~StartMoves)
  BY StartIsOver
<1>2. ASSUME Early' PROVE PlacesOK'
  <2>1. TypeOK' /\ EarlyOK' /\ Early'
    BY <1>1, <1>2
  <2>2. (TypeOK /\ EarlyOK /\ Early => PlacesOK)'
    BY EarlyResults, PTL
  <2> QED
    BY <2>1, <2>2
<1> SUFFICES ASSUME ~StartMoves PROVE PlacesOK'
  BY <1>1, <1>2
<1>3. VariablesWritten
  BY OnlyVariablesWritten
<1>4. CASE DeadlineExpires \/ LogicalSourceRuns \/ FinalizeWorker
  <2>1. /\ UNCHANGED <<knownResults, passed, reports>>
        /\ \/ UNCHANGED <<closeCallbacks, invoking>>
           \/ invoking'.callbacks = {} /\ UNCHANGED closeCallbacks
           \/ invoking'.callbacks = closeCallbacks /\ closeCallbacks' = {}
    BY <1>4, TakeOutcomes
  <2>2. KnownCallbacks' = KnownCallbacks /\ ReportedCallbacks' = ReportedCallbacks
    BY <2>1 DEF KnownCallbacks, ReportedCallbacks
  <2> QED
    BY <2>1, <2>2 DEF PlacesOK
<1>5. CASE Closes \/ CloseAfterStart
  <2>1. PICK own \in SUBSET (Callbacks \ passed) : passed' = passed \cup own /\ CloseOutcome(own)
    BY <1>5, CloseOutcomes, SMTT(30)
  <2>2. UNCHANGED <<invoking, reports>>
    BY <1>5 DEF Closes, Close, CloseAfterStart, CloseEnters
  <2>3. ReportedCallbacks' = ReportedCallbacks
    BY <2>2 DEF ReportedCallbacks
  <2>4. ASSUME NEW C, NEW r, knownResults' = knownResults \cup [callback : C, result : {r}]
        PROVE  KnownCallbacks' = KnownCallbacks \cup C
    <3>1. \A known \in [callback : C, result : {r}] : known.callback \in C
      OBVIOUS
    <3>2. \A c \in C : [callback |-> c, result |-> r] \in knownResults'
      BY <2>4
    <3>3. KnownCallbacks' \subseteq KnownCallbacks \cup C
      BY <2>4, <3>1 DEF KnownCallbacks
    <3>4. C \subseteq KnownCallbacks'
      <4> SUFFICES ASSUME NEW c \in C PROVE c \in KnownCallbacks'
        OBVIOUS
      <4>1. [callback |-> c, result |-> r].callback = c
        OBVIOUS
      <4> QED
        BY <3>2, <4>1 DEF KnownCallbacks
    <3>5. KnownCallbacks \subseteq KnownCallbacks'
      BY <2>4 DEF KnownCallbacks
    <3> QED
      BY <3>3, <3>4, <3>5
  <2>5. UNCHANGED knownResults => KnownCallbacks' = KnownCallbacks
    BY DEF KnownCallbacks
  <2>6. \/ KnownCallbacks' = KnownCallbacks /\ closeCallbacks' = closeCallbacks \cup own
        \/ KnownCallbacks' = KnownCallbacks \cup own /\ UNCHANGED closeCallbacks
        \/ KnownCallbacks' = KnownCallbacks \cup closeCallbacks \cup own /\ closeCallbacks' = {}
    <3>1. \A r : knownResults' = knownResults \cup [callback : own, result : {r}]
            => KnownCallbacks' = KnownCallbacks \cup own
      BY <2>4
    <3>2. \A r : knownResults' = knownResults \cup [callback : closeCallbacks \cup own, result : {r}]
            => KnownCallbacks' = KnownCallbacks \cup (closeCallbacks \cup own)
      BY <2>4
    <3>3. \/ UNCHANGED knownResults /\ closeCallbacks' = closeCallbacks \cup own
          \/ /\ \E r : knownResults' = knownResults \cup [callback : own, result : {r}]
             /\ UNCHANGED closeCallbacks
          \/ /\ \E r : knownResults' = knownResults \cup [callback : closeCallbacks \cup own, result : {r}]
             /\ closeCallbacks' = {}
      BY <2>1 DEF CloseOutcome
    <3> QED
      BY <2>5, <3>1, <3>2, <3>3
  <2> QED
    BY <2>1, <2>2, <2>3, <2>6 DEF PlacesOK
<1>6. CASE InvokeCallbacks
  <2>1. /\ UNCHANGED <<closeCallbacks, knownResults, passed>>
        /\ invoking'.callbacks = {}
        /\ reports' = [c \in Callbacks |->
             IF c \in invoking.callbacks THEN Append(reports[c], invoking.result) ELSE reports[c]]
    BY <1>6 DEF InvokeCallbacks, sourceVars, TypeOK
  <2>2. \A c \in invoking.callbacks : c \in Callbacks /\ Append(reports[c], invoking.result) # <<>>
    <3> SUFFICES ASSUME NEW c \in invoking.callbacks
                 PROVE  c \in Callbacks /\ Append(reports[c], invoking.result) # <<>>
      OBVIOUS
    <3>1. c \in Callbacks /\ reports[c] \in Seq(Results) /\ invoking.result \in Results
      BY DEF TypeOK
    <3> QED
      BY <3>1
  <2>3. ReportedCallbacks' = ReportedCallbacks \cup invoking.callbacks
    BY <2>1, <2>2 DEF ReportedCallbacks
  <2>4. KnownCallbacks' = KnownCallbacks
    BY <2>1 DEF KnownCallbacks
  <2> QED
    BY <2>1, <2>3, <2>4 DEF PlacesOK
<1>7. CASE KnownResultRuns
  <2>1. PICK known \in knownResults :
          /\ knownResults' = knownResults \ {known}
          /\ reports' = [reports EXCEPT ![known.callback] = Append(@, known.result)]
    BY <1>7 DEF KnownResultRuns
  <2>2. UNCHANGED <<closeCallbacks, invoking, passed>>
    BY <1>7 DEF KnownResultRuns, callbackVars
  <2>3. /\ known.callback \in Callbacks /\ known.result \in Results /\ reports \in [Callbacks -> Seq(Results)]
        /\ \A other \in knownResults : other \in [callback : Callbacks, result : Results]
    BY DEF TypeOK
  <2>4. Append(reports[known.callback], known.result) # <<>>
    <3>1. reports[known.callback] \in Seq(Results)
      BY <2>3
    <3> QED
      BY <2>3, <3>1, SMTT(30)
  <2>5. ReportedCallbacks' = ReportedCallbacks \cup {known.callback}
    BY <2>1, <2>3, <2>4 DEF ReportedCallbacks
  <2>6. \A other \in knownResults : other.callback = known.callback => other = known
    BY <2>3 DEF ResultsOK
  <2>7. KnownCallbacks' = KnownCallbacks \ {known.callback} /\ known.callback \in KnownCallbacks
    BY <2>1, <2>6 DEF KnownCallbacks
  <2> QED
    BY <2>2, <2>5, <2>7 DEF PlacesOK
<1>8. CASE UNCHANGED <<closeCallbacks, invoking, knownResults, passed, reports>>
  <2>1. KnownCallbacks' = KnownCallbacks /\ ReportedCallbacks' = ReportedCallbacks
    BY <1>8 DEF KnownCallbacks, ReportedCallbacks
  <2> QED
    BY <1>8, <2>1 DEF PlacesOK
<1> QED
  BY <1>3, <1>4, <1>5, <1>6, <1>7, <1>8 DEF VariablesWritten

\* Whoever hears of a result now hears the one that holds, and none is told before it is
\* reported.
LEMMA ToldSteps ==
  ASSUME TypeOK, CloseOK, PlacesOK, ResultsOK, [Next]_vars, ~StartMoves
  PROVE  /\ \A known \in knownResults' : known \in knownResults \/ known.result = logicalResult'
         /\ invoking'.callbacks # {} => invoking' = invoking \/ invoking'.result = logicalResult'
         /\ \A c \in Callbacks :
              \/ reports'[c] = reports[c]
              \/ Told /\ reports'[c] = <<logicalResult>>
         /\ Told' => Told \/ "logicalResultReported" \in flags'
         /\ \/ DeadlineExpires \/ LogicalSourceRuns \/ FinalizeWorker \/ Closes \/ CloseAfterStart
            \/ (Told' => Told) /\ UNCHANGED logicalResult
<1>1. VariablesWritten
  BY OnlyVariablesWritten
<1>2. CASE DeadlineExpires \/ LogicalSourceRuns \/ FinalizeWorker
  BY <1>2, TakeOutcomes DEF Told, ReportedCallbacks
<1>3. CASE Closes \/ CloseAfterStart
  <2>1. PICK own : CloseOutcome(own)
    BY <1>3, CloseOutcomes, SMTT(30)
  <2>2. UNCHANGED <<invoking, reports>>
    BY <1>3 DEF Closes, Close, CloseAfterStart, CloseEnters
  <2>3. \A C, r : \A known \in [callback : C, result : {r}] : known.result = r
    OBVIOUS
  <2>4. \A known \in knownResults' : known \in knownResults \/ known.result = logicalResult'
    BY <2>1, <2>3 DEF CloseOutcome
  <2>5. knownResults' # knownResults => "logicalResultReported" \in flags'
    BY <2>1 DEF CloseOutcome
  <2>6. Told' => Told \/ "logicalResultReported" \in flags'
    BY <2>2, <2>5 DEF Told, ReportedCallbacks
  <2> QED
    BY <1>3, <2>2, <2>4, <2>6
<1>4. CASE ~(DeadlineExpires \/ LogicalSourceRuns \/ FinalizeWorker \/ Closes \/ CloseAfterStart)
  <2>1. UNCHANGED logicalResult
    <3>1. \A t \in Threads : ReportLogicalFailure(t) => logicalResult' = logicalResult
      BY DEF ReportLogicalFailure, ResultsOK
    <3> QED
      BY <1>1, <1>4, <3>1 DEF VariablesWritten
  <2>2. CASE InvokeCallbacks
    <3>1. /\ UNCHANGED knownResults
          /\ invoking'.callbacks = {}
          /\ reports' = [c \in Callbacks |->
               IF c \in invoking.callbacks THEN Append(reports[c], invoking.result) ELSE reports[c]]
      BY <2>2 DEF InvokeCallbacks, sourceVars, TypeOK
    <3>2. ASSUME NEW c \in invoking.callbacks
          PROVE  c \in Callbacks /\ Told /\ Append(reports[c], invoking.result) = <<logicalResult>>
      <4>1. c \in Callbacks /\ Told
        BY <3>2 DEF TypeOK, Told
      <4>2. reports[c] = <<>>
        BY <3>2, <4>1 DEF PlacesOK, ReportedCallbacks
      <4>3. invoking.result = logicalResult
        BY <3>2 DEF ResultsOK
      <4> QED
        BY <4>1, <4>2, <4>3
    <3>3. \A c \in Callbacks : reports'[c] = reports[c] \/ (Told /\ reports'[c] = <<logicalResult>>)
      BY <3>1, <3>2
    <3>4. Told' => Told
      BY <3>1, <3>3 DEF Told, ReportedCallbacks
    <3> QED
      BY <2>1, <3>1, <3>3, <3>4
  <2>3. CASE KnownResultRuns
    <3>1. PICK known \in knownResults :
            /\ knownResults' = knownResults \ {known}
            /\ reports' = [reports EXCEPT ![known.callback] = Append(@, known.result)]
      BY <2>3 DEF KnownResultRuns
    <3>2. UNCHANGED invoking /\ Told
      BY <2>3 DEF KnownResultRuns, callbackVars, Told
    <3>3. known.callback \in Callbacks /\ reports \in [Callbacks -> Seq(Results)]
      BY DEF TypeOK
    <3>4. reports[known.callback] = <<>>
      BY <3>3 DEF PlacesOK, KnownCallbacks, ReportedCallbacks
    <3>5. known.result = logicalResult
      BY DEF ResultsOK
    <3>6. Append(reports[known.callback], known.result) = <<logicalResult>>
      BY <3>4, <3>5
    <3>7. \A c \in Callbacks : reports'[c] = reports[c] \/ reports'[c] = <<logicalResult>>
      BY <3>1, <3>3, <3>6
    <3> QED
      BY <2>1, <3>1, <3>2, <3>7
  <2>4. CASE ~InvokeCallbacks /\ ~KnownResultRuns
    <3>1. UNCHANGED <<knownResults, invoking, reports>>
      BY <1>1, <1>4, <2>4 DEF VariablesWritten
    <3> QED
      BY <2>1, <3>1 DEF Told, ReportedCallbacks
  <2> QED
    BY <2>2, <2>3, <2>4
<1> QED
  BY <1>2, <1>3, <1>4

\* When the deadline is still attached, no failure that a callback has not heard of comes up
\* once somebody has been told a result.
LEMMA DeadlineStep ==
  ASSUME TypeOK, EarlyOK, ThreadsOK, ReceiptOK, HandoffOK, OrderOK, CloseOK, PlacesOK, ResultsOK,
         [Next]_vars, ~StartMoves,
         deadline', "logicalResultReported" \in flags', Told' \/ logicalResult' # "Failed"
  PROVE  flags' \cap {"failureHandoffPending", "failureFallbackPending"} = {}
<1> DEFINE Takes == DeadlineExpires \/ LogicalSourceRuns \/ FinalizeWorker
           Enters == Closes \/ CloseAfterStart
           Heeded == Told \/ logicalResult # "Failed"
<1>1. VariablesWritten /\ FlagsWritten
  BY OnlyVariablesWritten, OnlyFlagsWritten
<1>2. Takes \/ Enters \/ ((Told' => Told) /\ UNCHANGED logicalResult)
  BY ToldSteps, SMTT(30)
<1>3. deadline
  <2>1. ~InstallDeadline \/ deadline
    <3>1. InstallDeadline => flags' = flags
      BY DEF InstallDeadline
    <3> QED
      BY <3>1, CloserSteps
  <2> QED
    BY <1>1, <2>1 DEF VariablesWritten, DeadlineExpires, FinalizeWorker
<1>4. Heeded => /\ "logicalResultReported" \in flags
                /\ flags \cap {"failureHandoffPending", "failureFallbackPending"} = {}
  BY <1>3 DEF ResultsOK
<1>5. CASE Takes
  <2>1. \/ Heeded
        \/ "failureHandoffPending" \notin flags' /\ "failureFallbackPending" \notin flags'
    BY <1>5, TakeOutcomes DEF Told, ReportedCallbacks
  <2>2. Heeded => "failureHandoffPending" \notin flags' /\ "failureFallbackPending" \notin flags'
    BY <1>4, <1>5, FallbackFlags DEF Same
  <2> QED
    BY <2>1, <2>2
<1>6. CASE Enters
  <2>1. PICK own : CloseOutcome(own)
    BY <1>6, CloseOutcomes, SMTT(30)
  <2>2. UNCHANGED <<invoking, reports>>
    BY <1>6 DEF Closes, Close, CloseAfterStart, CloseEnters
  <2>3. phase # "New"
    BY <1>3 DEF CloseOK, Early
  <2>4. \/ Heeded
        \/ "failureHandoffPending" \notin flags /\ "failureFallbackPending" \notin flags
    BY <2>1, <2>2, <2>3 DEF CloseOutcome, Told, ReportedCallbacks, CloseReady, TerminalDeliveryReady
  <2>5. Same("failureHandoffPending") /\ Same("failureFallbackPending")
    BY <2>1 DEF CloseOutcome, Cond, Same
  <2> QED
    BY <1>4, <2>4, <2>5 DEF Same
<1>7. CASE ~Takes /\ ~Enters
  <2>1. Heeded
    BY <1>2, <1>7
  <2>2. NoMoreHandoff
    BY <1>3, <1>4, <2>1 DEF CloseOK
  <2>3. "failureHandoffPending" \notin flags'
    BY <1>4, <2>1, <2>2, NoneBegins
  <2>4. \A t \in Threads : ~HandOffFails(t)
    BY <1>4, <2>1, HandoffSteps DEF HandoffOK
  <2>5. "failureFallbackPending" \notin flags'
    BY <1>1, <1>4, <1>7, <2>1, <2>4 DEF FlagsWritten, Same
  <2> QED
    BY <2>3, <2>5
<1> QED
  BY <1>5, <1>6, <1>7

LEMMA ResultsStep ==
  ASSUME TypeOK, EarlyOK, ThreadsOK, ReceiptOK, FinalizerOK, HandoffOK, OrderOK, CloseOK,
         PlacesOK, ResultsOK, [Next]_vars
  PROVE  ResultsOK'
<1>1. TypeOK' /\ EarlyOK' /\ (Early' \/ ~StartMoves)
  BY StartIsOver
<1>2. ASSUME Early' PROVE ResultsOK'
  <2>1. TypeOK' /\ EarlyOK' /\ Early'
    BY <1>1, <1>2
  <2>2. (TypeOK /\ EarlyOK /\ Early => ResultsOK)'
    BY EarlyResults, PTL
  <2> QED
    BY <2>1, <2>2
<1> SUFFICES ASSUME ~StartMoves, ~Early' PROVE ResultsOK'
  BY <1>1, <1>2
<1>3. VariablesWritten
  BY OnlyVariablesWritten
<1>4. /\ \A known \in knownResults' : known \in knownResults \/ known.result = logicalResult'
      /\ invoking'.callbacks # {} => invoking' = invoking \/ invoking'.result = logicalResult'
      /\ \A c \in Callbacks : reports'[c] = reports[c] \/ (Told /\ reports'[c] = <<logicalResult>>)
      /\ Told' => Told \/ "logicalResultReported" \in flags'
  BY ToldSteps
<1>5. logicalResult' # logicalResult =>
        /\ ~Told /\ "logicalResultReported" \in flags'
        /\ logicalResult' = "Closed" => NeverStarted' \/ Over'
  BY ResultMoves
<1>6. "logicalResultReported" \in flags => "logicalResultReported" \in flags'
  BY ReportedStays
<1>7. Over => Over'
  BY OverStays
<1>8. Told' => "logicalResultReported" \in flags'
  BY <1>4, <1>6 DEF ResultsOK
<1>9. \A known \in knownResults' : known.result = logicalResult'
  <2>1. knownResults # {} => Told
    BY DEF Told
  <2> QED
    BY <1>4, <1>5, <2>1 DEF ResultsOK
<1>10. invoking'.callbacks # {} => invoking'.result = logicalResult'
  <2>1. invoking.callbacks # {} => Told
    BY DEF Told
  <2> QED
    BY <1>4, <1>5, <2>1 DEF ResultsOK
<1>11. \A c \in Callbacks : reports'[c] \in {<<>>, <<logicalResult'>>}
  <2>1. \A c \in Callbacks : reports[c] # <<>> => Told
    BY DEF Told, ReportedCallbacks
  <2> QED
    BY <1>4, <1>5, <2>1 DEF ResultsOK
<1>12. deadline' /\ "logicalResultReported" \in flags' /\ (Told' \/ logicalResult' # "Failed")
         => flags' \cap {"failureHandoffPending", "failureFallbackPending"} = {}
  BY DeadlineStep
<1>13. logicalResult' # "Failed" => "logicalResultReported" \in flags'
  BY <1>5, <1>6 DEF ResultsOK
<1>14. logicalResult' = "Closed" => NeverStarted' \/ Over'
  <2>1. NeverStarted => NeverStarted'
    BY <1>3 DEF VariablesWritten, NeverStarted, DestroyClient
  <2> QED
    BY <1>5, <1>7, <2>1 DEF ResultsOK
<1> QED
  BY <1>8, <1>9, <1>10, <1>11, <1>12, <1>13, <1>14 DEF ResultsOK

\* Whatever the step, one thread replaces its first entry, or an idle one gets something to do.
LEMMA StepKinds ==
  ASSUME TypeOK, [Next]_vars, ~StartMoves
  PROVE  todo' = todo \/ \E t \in Threads : \E E : Step(t, E) \/ Given(t, E)
<1> DEFINE Kind == todo' = todo \/ \E t \in Threads : \E E : Step(t, E) \/ Given(t, E)
<1>1. todo \in Stacks /\ failureCallback \in BOOLEAN /\ client \in BOOLEAN /\ deadline \in BOOLEAN
  BY DEF TypeOK, Stacks
<1>2. ASSUME NEW t \in Threads, FailureStep(t) PROVE Kind
  BY <1>2, FailureSteps
<1>3. ASSUME OwnerMoves PROVE Kind
  <2>1. InvokeFailure \/ InvokeCallbacks \/ CallbackReturns \/ ActivationFails \/ OpenGate
          \/ CloseQueues \/ OwnerSendsClose => Kind
    BY <1>1, SimpleEffects, OwnerShort
  <2>2. StartFails \/ ThreadFails \/ Activate \/ CloseLocks \/ InstallDeadline => Kind
    BY <1>1, StartAndCloseEffects, OwnerShort
  <2>3. CloseAfterStart => Kind
    BY <1>1, CloseAfterStartEffects, OwnerShort
  <2> QED
    BY <1>3, <2>1, <2>2, <2>3 DEF OwnerMoves
<1>4. ASSUME WorkerMoves PROVE Kind
  <2>1. SenderLocks \/ SenderSends \/ WaitGate \/ Poll \/ Receive \/ ReceiveClosed \/ NoteClosed
          \/ DeliverClosed \/ DestroyClient \/ FinishWorker \/ LockClose => Kind
    BY <1>1, SimpleEffects, OwnerShort
  <2>2. WorkerSendsClose \/ ReceiveFails \/ JoinWorker => Kind
    BY <1>1, WorkerSendsEffects, ReceiveFailsEffects, JoinEffects, OwnerShort
  <2> QED
    BY <1>4, <2>1, <2>2 DEF WorkerMoves
<1>5. ASSUME Loaded PROVE Kind
  <2>1. SenderCalled \/ (\E t \in Threads : ReceiptReleased(t)) \/ KnownResultRuns
          \/ FailureSourceRuns \/ FinalizeWorker => Kind
    BY <1>1, LoadEffects, OwnerShort
  <2>2. DeadlineExpires \/ LogicalSourceRuns => Kind
    <3>1. \A F, result : Idle("owner") /\ TakeCallbacks(F, result) => Kind
      BY <1>1, TakeEffects, OwnerShort
    <3> QED
      BY <3>1 DEF DeadlineExpires, LogicalSourceRuns
  <2> QED
    BY <1>5, <2>1, <2>2 DEF Loaded
<1>6. ASSUME NEW own, Close(own) PROVE Kind
  BY <1>1, <1>6, CloseEffects, OwnerShort
<1>7. ASSUME OtherSessionEnds \/ UNCHANGED vars PROVE Kind
  BY <1>7 DEF OtherSessionEnds, vars
<1> QED
  BY <1>2, <1>3, <1>4, <1>5, <1>6, <1>7, NextCases

LEMMA SchedulesFirstStep ==
  ASSUME TypeOK, \A t \in Threads : SchedulesFirst(todo[t]), [Next]_vars, ~StartMoves
  PROVE  \A t \in Threads : SchedulesFirst(todo'[t])
<1>1. todo \in Stacks
  BY DEF TypeOK, Stacks
<1>2. ASSUME NEW t \in Threads, NEW E, Step(t, E)
      PROVE  \A u \in Threads : SchedulesFirst(todo'[u])
  <2>1. SchedulesFirst(todo'[t]) /\ \A u \in Threads : u # t => todo'[u] = todo[u]
    BY <1>1, <1>2, ReplacesFirst, ReplacesFacts DEF Step
  <2> QED
    BY <2>1
<1>3. ASSUME NEW t \in Threads, NEW E, Given(t, E)
      PROVE  \A u \in Threads : SchedulesFirst(todo'[u])
  <2>1. SchedulesFirst(todo'[t]) /\ \A u \in Threads : u # t => todo'[u] = todo[u]
    BY <1>1, <1>3, LoadsOrder, LoadsFacts DEF Given
  <2> QED
    BY <2>1
<1> QED
  BY <1>2, <1>3, StepKinds

\* The sources that deliver the logical failure: those attached and those about to be.
Sources == logicalSources + Cardinality(Scheduling)

LEMMA SchedulingFinite == IsFiniteSet(Scheduling) /\ Cardinality(Scheduling) \in Nat
<1>1. IsFiniteSet(Threads)
  <2>1. Threads = ((({} \cup {"owner"}) \cup {"worker"}) \cup {"reaper"}) \cup {"sender"} \cup {"helper"}
    BY DEF Threads
  <2>2. \A S, x : IsFiniteSet(S) => IsFiniteSet(S \cup {x})
    BY FS_AddElement
  <2>3. IsFiniteSet({})
    BY FS_EmptySet
  <2> QED
    BY <2>1, <2>2, <2>3
<1>2. Scheduling \in SUBSET Threads
  BY DEF Scheduling
<1> QED
  BY <1>1, <1>2, FS_Subset, FS_CardinalityType

LEMMA SourceCount ==
  ASSUME TypeOK, \A t \in Threads : SchedulesFirst(todo[t]), [Next]_vars, ~StartMoves
  PROVE  /\ Sources \in Nat
         /\ LogicalSourceRuns => ~Schedules /\ Sources' = Sources - 1
         /\ ~LogicalSourceRuns => Sources' = Sources + One(Schedules)
<1>1. VariablesWritten /\ FlagsWritten /\ EntriesWritten
  BY OnlyVariablesWritten, OnlyFlagsWritten, OnlyEntriesWritten
<1>2. todo \in Stacks /\ logicalSources \in Nat
  BY DEF TypeOK, Stacks
<1>4. IsFiniteSet(Scheduling) /\ Cardinality(Scheduling) \in Nat
  BY SchedulingFinite
<1>5. Sources \in Nat
  BY <1>2, <1>4 DEF Sources
<1>6. ASSUME NEW t \in Threads, NEW R, "scheduleLogical" \notin R,
             Step(t, Cond(Schedules, "scheduleLogical") \cup R), Head(todo[t]) # "scheduleLogical",
             UNCHANGED logicalSources
      PROVE  Sources' = Sources + One(Schedules)
  <2>1. /\ \A u \in Threads : u # t => todo'[u] = todo[u]
        /\ Range(todo[t]) = {Head(todo[t])} \cup Range(Tail(todo[t]))
        /\ Range(todo'[t]) = (Cond(Schedules, "scheduleLogical") \cup R) \cup Range(Tail(todo[t]))
        /\ "scheduleLogical" \notin Range(Tail(todo[t]))
    BY <1>2, <1>6, ReplacesFacts, ReplacesFirst DEF Step
  <2>2. t \notin Scheduling
    BY <1>6, <2>1 DEF Scheduling, Has
  <2>3. CASE Schedules
    <3>1. Scheduling' = Scheduling \cup {t}
      BY <2>1, <2>3 DEF Scheduling, Has, Cond
    <3>2. Cardinality(Scheduling') = Cardinality(Scheduling) + 1
      BY <1>4, <2>2, <3>1, FS_AddElement
    <3> QED
      BY <1>2, <1>4, <1>6, <2>3, <3>2 DEF Sources, One
  <2>4. CASE ~Schedules
    <3>1. Scheduling' = Scheduling
      BY <1>6, <2>1, <2>2, <2>4 DEF Scheduling, Has, Cond
    <3> QED
      BY <1>2, <1>4, <1>6, <2>4, <3>1 DEF Sources, One
  <2> QED
    BY <2>3, <2>4
<1>7. ASSUME NEW t \in Threads, CompleteDelivery(t) \/ HandOffFails(t) \/ ReportLogicalFailure(t)
      PROVE  Sources' = Sources + One(Schedules)
  <2>1. UNCHANGED logicalSources /\ Head(todo[t]) # "scheduleLogical"
    BY <1>7 DEF CompleteDelivery, HandOffFails, ReportLogicalFailure, sourceVars, At
  <2>2. \E R : "scheduleLogical" \notin R /\ Step(t, Cond(Schedules, "scheduleLogical") \cup R)
    <3>1. ASSUME NEW F, Releases(t, F)
          PROVE  \E R : "scheduleLogical" \notin R /\ Step(t, Cond(Schedules, "scheduleLogical") \cup R)
      <4>1. "scheduleLogical" \notin Cond(Claims, "attachFinalizer")
        BY DEF Cond
      <4> QED
        BY <3>1, <4>1 DEF Releases
    <3>2. ASSUME NEW E, E = Cond(Schedules, "scheduleLogical"), Step(t, E)
          PROVE  \E R : "scheduleLogical" \notin R /\ Step(t, Cond(Schedules, "scheduleLogical") \cup R)
      <4>1. E = Cond(Schedules, "scheduleLogical") \cup {}
        BY <3>2
      <4> QED
        BY <3>2, <4>1
    <3>3. flags' = flags => Cond(Schedules, "scheduleLogical") = {}
      BY DEF Cond, Schedules
    <3> QED
      BY <1>2, <1>7, <3>1, <3>2, <3>3, CompleteEffects, RefusedEffects, LogicalEffects
  <2> QED
    BY <1>6, <2>1, <2>2
<1>8. ASSUME NEW t \in Threads, ScheduleLogicalSource(t)
      PROVE  Sources' = Sources + One(Schedules)
  <2>1. Step(t, {}) /\ At(t, "scheduleLogical")
    BY <1>2, <1>8, OtherFailureEffects DEF ScheduleLogicalSource
  <2>2. /\ \A u \in Threads : u # t => todo'[u] = todo[u]
        /\ Range(todo'[t]) = Range(Tail(todo[t]))
        /\ "scheduleLogical" \notin Range(Tail(todo[t]))
    <3>1. Replaces(t, {}, todo, todo') /\ SchedulesFirst(todo[t])
      BY <2>1 DEF Step
    <3>2. \A E : Replaces(t, E, todo, todo') =>
            /\ \A u \in Threads : u # t => todo'[u] = todo[u]
            /\ Range(todo'[t]) = E \cup Range(Tail(todo[t]))
      BY <1>2, ReplacesFacts
    <3>3. "scheduleLogical" \notin Range(Tail(todo[t]))
      BY <1>2, <3>1, ReplacesFirst
    <3> QED
      BY <3>1, <3>2, <3>3
  <2>3. "scheduleLogical" \in Range(todo[t])
    BY <1>2, <2>1, AtHas
  <2>4. Scheduling' = Scheduling \ {t} /\ t \in Scheduling
    BY <2>2, <2>3 DEF Scheduling, Has
  <2>5. Cardinality(Scheduling') = Cardinality(Scheduling) - 1
    BY <1>4, <2>4, FS_RemoveElement
  <2>6. logicalSources' = logicalSources + 1 /\ ~Schedules
    BY <1>8 DEF ScheduleLogicalSource, Schedules
  <2> QED
    BY <1>2, <1>4, <2>5, <2>6 DEF Sources, One
<1>9. CASE \A t \in Threads : ~CompleteDelivery(t) /\ ~HandOffFails(t) /\ ~ReportLogicalFailure(t)
                              /\ ~ScheduleLogicalSource(t)
  <2>1. Scheduling' = Scheduling
    BY <1>1, <1>9 DEF EntriesWritten, Keeps, Scheduling, Has
  <2>2. ~Schedules
    <3>1. DeadlineExpires \/ LogicalSourceRuns \/ FinalizeWorker => ~Schedules
      BY DEF DeadlineExpires, LogicalSourceRuns, FinalizeWorker, TakeFallback, LogicalDelivery, Schedules
    <3> QED
      BY <1>1, <1>9, <3>1 DEF FlagsWritten, Same, Schedules
  <2>3. ~LogicalSourceRuns => logicalSources' = logicalSources
    BY <1>1, <1>9 DEF VariablesWritten
  <2>4. LogicalSourceRuns => logicalSources' = logicalSources - 1
    BY DEF LogicalSourceRuns
  <2> QED
    BY <1>2, <1>4, <1>5, <2>1, <2>2, <2>3, <2>4 DEF Sources, One
<1>10. LogicalSourceRuns => \A t \in Threads : ~CompleteDelivery(t) /\ ~HandOffFails(t)
                              /\ ~ReportLogicalFailure(t) /\ ~ScheduleLogicalSource(t)
  <2>1. LogicalSourceRuns => logicalSources' = logicalSources - 1
    BY DEF LogicalSourceRuns
  <2>2. \A t \in Threads : CompleteDelivery(t) \/ HandOffFails(t) \/ ReportLogicalFailure(t)
          => logicalSources' = logicalSources
    BY DEF CompleteDelivery, HandOffFails, ReportLogicalFailure, sourceVars
  <2>3. \A t \in Threads : ScheduleLogicalSource(t) => logicalSources' = logicalSources + 1
    BY DEF ScheduleLogicalSource
  <2> QED
    BY <1>2, <2>1, <2>2, <2>3
<1> QED
  BY <1>5, <1>7, <1>8, <1>9, <1>10

\* finalizeWorker runs once, after everything the failure paths wait for.
LEMMA FinalizedSteps ==
  ASSUME TypeOK, EarlyOK, ThreadsOK, ReceiptOK, FinalizerOK, [Next]_vars, ~StartMoves
  PROVE  /\ Finalized => Finalized' /\ Over
         /\ Finalized' /\ ~Finalized => FinalizeWorker
         /\ FinalizeWorker => Finalized'
<1>1. VariablesWritten /\ FlagsWritten
  BY OnlyVariablesWritten, OnlyFlagsWritten
<1>2. todo \in Stacks
  BY DEF TypeOK, Stacks
<1>3. FinalizerOK'
  BY FinalizerStep
<1>4. "finalizationScheduled" \in flags => "finalizationScheduled" \in flags'
  <2>1. \A t \in Threads : \A F : Releases(t, F) /\ "finalizationScheduled" \in F
          => "finalizationScheduled" \in flags'
    BY DEF Releases
  <2>2. \A t \in Threads : CompleteDelivery(t) \/ HandOffFails(t) \/ SettleClosedDelivery(t) =>
          ("finalizationScheduled" \in flags => "finalizationScheduled" \in flags')
    BY <1>2, <2>1, CompleteEffects, RefusedEffects, SettleEffects
    DEF CompletedFlags, RefusedFlags, SettledFlags
  <2>3. JoinWorker => ("finalizationScheduled" \in flags => "finalizationScheduled" \in flags')
    BY <1>2, JoinEffects
  <2> QED
    BY <1>1, <2>2, <2>3 DEF FlagsWritten, Same
<1>5. FinalizeWorker => Finalized'
  BY <1>4 DEF FinalizeWorker, Finalized, FinalizerOK
<1>6. \A t \in Threads : AttachFinalizer(t) => finalizer = "prepared" /\ finalizer' # "none"
  <2>1. \A t \in Threads : AttachFinalizer(t) => Has(t, "attachFinalizer") /\ finalizer' \in {finalizer, "attached"}
    BY FinalizerSteps
  <2> QED
    BY <2>1 DEF FinalizerOK
<1>7. StartFails => "finalizationScheduled" \notin flags /\ "finalizationScheduled" \notin flags'
  BY <1>1, Leaving, EarlyFlags DEF StartFails, Flags
<1>8. ASSUME Finalized PROVE Finalized' /\ Over
  <2>1. "reaperReady" \in flags /\ ReceiptSettled(flags)
    BY <1>8 DEF Finalized, FinalizerOK
  <2>2. Over
    BY <2>1 DEF ThreadsOK, Exited, Idle, Over
  <2>3. finalizer' = "none"
    BY <1>1, <1>6, <1>7, <1>8 DEF Finalized, VariablesWritten, FinalizeWorker
  <2> QED
    BY <1>4, <1>8, <2>2, <2>3 DEF Finalized
<1>9. ASSUME Finalized', ~Finalized PROVE FinalizeWorker
  <2>1. CASE "finalizationScheduled" \in flags
    BY <1>1, <1>6, <1>7, <1>9, <2>1 DEF Finalized, VariablesWritten
  <2>2. CASE "finalizationScheduled" \notin flags
    <3>1. Claims
      BY <1>9, <2>2 DEF Claims, Finalized
    <3>2. \E t \in Threads : ClaimedBy(t)
      BY <1>1, <1>9, <2>2, FinalizerSteps, OwnerShort DEF FlagsWritten, Same, Finalized
    <3>3. PICK t \in Threads : Holds({"attachFinalizer"}, t, {"attachFinalizer"})
      BY <3>1, <3>2 DEF ClaimedBy
    <3>4. Has(t, "attachFinalizer")'
      BY <3>3 DEF Holds, Has
    <3> QED
      BY <1>3, <1>9, <3>4 DEF FinalizerOK, Finalized
  <2> QED
    BY <2>1, <2>2
<1> QED
  BY <1>5, <1>8, <1>9

LEMMA SourcesStep ==
  ASSUME TypeOK, EarlyOK, ThreadsOK, ReceiptOK, FinalizerOK, HandoffOK, OrderOK, CloseOK,
         SourcesOK, [Next]_vars
  PROVE  SourcesOK'
<1>1. TypeOK' /\ EarlyOK' /\ (Early' \/ ~StartMoves)
  BY StartIsOver
<1>2. ASSUME Early' PROVE SourcesOK'
  <2>1. TypeOK' /\ EarlyOK' /\ Early'
    BY <1>1, <1>2
  <2>2. (TypeOK /\ EarlyOK /\ Early => SourcesOK)'
    BY EarlyResults, PTL
  <2> QED
    BY <2>1, <2>2
<1> SUFFICES ASSUME ~StartMoves PROVE SourcesOK'
  BY <1>1, <1>2
<1>3. VariablesWritten /\ FlagsWritten
  BY OnlyVariablesWritten, OnlyFlagsWritten
<1>4. todo \in Stacks /\ \A t \in Threads : SchedulesFirst(todo[t])
  BY DEF TypeOK, Stacks, SourcesOK
<1>5. \A t \in Threads : SchedulesFirst(todo'[t])
  BY <1>4, SchedulesFirstStep
<1>6. /\ Sources \in Nat
      /\ LogicalSourceRuns => ~Schedules /\ Sources' = Sources - 1
      /\ ~LogicalSourceRuns => Sources' = Sources + One(Schedules)
  BY <1>4, SourceCount
<1>7. /\ Finalized => Finalized' /\ Over
      /\ Finalized' /\ ~Finalized => FinalizeWorker
      /\ FinalizeWorker => Finalized'
  BY FinalizedSteps
<1>8. "logicalResultReported" \in flags => "logicalResultReported" \in flags'
  BY ReportedStays
<1>9. /\ Sources <= 2
      /\ ~Finalized => Sources <= One("logicalFailureSourceScheduled" \in flags)
                                    + One("logicalResultReported" \in flags /\ ~deadline)
      /\ Finalized => /\ flags \cap {"logicalFailureDeliveryPending", "failureHandoffPending",
                                    "failureFallbackPending"} = {}
                      /\ "logicalResultReported" \in flags
  BY DEF SourcesOK, Sources
<1>10. FinalizeWorker => ~Schedules
  BY DEF FinalizeWorker, TakeFallback, LogicalDelivery, Schedules
<1>11. ASSUME Finalized
       PROVE  /\ ~Schedules
              /\ flags' \cap {"logicalFailureDeliveryPending", "failureHandoffPending",
                              "failureFallbackPending"} = {}
  <2>1. "failureHandoffPending" \notin flags'
    BY <1>7, <1>9, <1>11, NoneBegins DEF NoMoreHandoff
  <2>2. \A t \in Threads : ~HandOffFails(t)
    BY <1>9, <1>11, HandoffSteps DEF HandoffOK
  <2>3. \A t \in Threads : CompleteDelivery(t) => flags' = flags
    BY <1>4, <1>9, <1>11, CompleteEffects
  <2>4. \A t \in Threads : ReportLogicalFailure(t) => flags' = flags
    BY <1>9, <1>11 DEF ReportLogicalFailure
  <2>5. Closes \/ CloseAfterStart => flags' = flags
    <3>1. \A own : CloseOutcome(own) => flags' = flags
      BY <1>9, <1>11 DEF CloseOutcome, CloseWaits
    <3> QED
      BY <3>1, CloseOutcomes
  <2>6. DeadlineExpires \/ LogicalSourceRuns \/ FinalizeWorker =>
          /\ "logicalFailureDeliveryPending" \in flags' => "logicalFailureDeliveryPending" \in flags
          /\ "failureFallbackPending" \in flags' => "failureFallbackPending" \in flags
          /\ ~Schedules
    BY DEF DeadlineExpires, LogicalSourceRuns, FinalizeWorker, TakeFallback, LogicalDelivery, Schedules
  <2>7. "logicalFailureDeliveryPending" \notin flags' /\ "failureFallbackPending" \notin flags'
    BY <1>3, <1>9, <1>11, <2>2, <2>3, <2>4, <2>5, <2>6 DEF FlagsWritten, Same
  <2>8. ~Schedules
    BY <1>3, <2>2, <2>3, <2>4, <2>6 DEF FlagsWritten, Same, Schedules
  <2> QED
    BY <2>1, <2>7, <2>8
<1>12. ASSUME Finalized'
       PROVE  /\ Sources' <= 2
              /\ flags' \cap {"logicalFailureDeliveryPending", "failureHandoffPending",
                              "failureFallbackPending"} = {}
              /\ "logicalResultReported" \in flags'
  <2>1. CASE Finalized
    BY <1>6, <1>8, <1>9, <1>11, <2>1 DEF One
  <2>2. CASE ~Finalized
    <3>1. FinalizeWorker
      BY <1>7, <1>12, <2>2
    <3>2. ~Schedules /\ "logicalResultReported" \in flags'
          /\ "logicalFailureDeliveryPending" \notin flags'
      BY <1>10, <3>1 DEF FinalizeWorker, FinalizerReports, TakeFallback, LogicalDelivery, CloseOK
    <3>3. "failureHandoffPending" \notin flags' /\ "failureFallbackPending" \notin flags'
      <4>1. /\ Same("failureHandoffPending")
            /\ FinalizeWorker => /\ "failureHandoffPending" \notin flags
                                 /\ "failureFallbackPending" \notin flags'
        BY <3>1, FallbackFlags
      <4> QED
        BY <3>1, <4>1 DEF Same
    <3>4. Sources' <= 2
      BY <1>6, <1>9, <3>2 DEF One
    <3> QED
      BY <3>2, <3>3, <3>4
  <2> QED
    BY <2>1, <2>2
<1>13. ASSUME ~Finalized'
       PROVE  Sources' <= One("logicalFailureSourceScheduled" \in flags')
                            + One("logicalResultReported" \in flags' /\ ~deadline')
  <2> DEFINE Before == One("logicalResultReported" \in flags /\ ~deadline)
             After == One("logicalResultReported" \in flags' /\ ~deadline')
  <2>1. /\ Sources <= One("logicalFailureSourceScheduled" \in flags) + Before
        /\ ~FinalizeWorker
    BY <1>7, <1>9, <1>13
  <2>2. \A c, d \in BOOLEAN : One(c) \in {0, 1} /\ ((c => d) => One(c) <= One(d))
    BY DEF One
  <2>3. Before \in {0, 1} /\ After \in {0, 1} /\ Before <= After
    <3>1. deadline' /\ ~deadline => "logicalResultReported" \notin flags
      BY <1>3, CloserSteps DEF VariablesWritten, DeadlineExpires, FinalizeWorker
    <3> QED
      BY <1>8, <2>2, <3>1, SMTT(30) DEF One
  <2>4. CASE Schedules
    <3>1. "logicalFailureSourceScheduled" \in flags' /\ "logicalFailureSourceScheduled" \notin flags
          /\ Sources' = Sources + 1
      BY <1>6, <2>4 DEF Schedules, One
    <3> QED
      BY <1>6, <2>1, <2>3, <3>1 DEF One
  <2>5. CASE ~Schedules /\ Same("logicalFailureSourceScheduled")
    <3>1. Sources' <= Sources /\ Sources' \in Int
      BY <1>6, <2>5 DEF One
    <3> QED
      BY <1>6, <2>1, <2>3, <2>5, <3>1 DEF One, Same
  <2>6. CASE /\ "logicalFailureSourceScheduled" \in flags
             /\ "logicalFailureSourceScheduled" \notin flags'
    <3>1. ~Schedules
      BY <2>6 DEF Schedules
    <3>2. DeadlineExpires \/ LogicalSourceRuns
      <4>1. \A t \in Threads : \A F : Releases(t, F) /\ "logicalFailureSourceScheduled" \in F
              => "logicalFailureSourceScheduled" \in flags'
        BY DEF Releases
      <4>2. \A t \in Threads : CompleteDelivery(t) \/ HandOffFails(t) \/ ReportLogicalFailure(t) =>
              ("logicalFailureSourceScheduled" \in flags => "logicalFailureSourceScheduled" \in flags')
        BY <1>4, <4>1, CompleteEffects, RefusedEffects, LogicalEffects DEF CompletedFlags, RefusedFlags
      <4> QED
        BY <1>3, <2>1, <2>6, <4>2 DEF FlagsWritten, Same
    <3>3. CASE LogicalSourceRuns
      BY <1>6, <2>1, <2>3, <2>6, <3>3 DEF One
    <3>4. CASE DeadlineExpires /\ ~LogicalSourceRuns
      <4>1. deadline /\ ~deadline' /\ "logicalResultReported" \in flags'
        BY <2>6, <3>4 DEF DeadlineExpires, CloseOK, TakeFallback, LogicalDelivery
      <4>2. Before = 0 /\ After = 1
        BY <4>1 DEF One
      <4> QED
        BY <1>6, <2>1, <2>6, <3>1, <3>4, <4>2 DEF One
    <3> QED
      BY <3>2, <3>3, <3>4
  <2> QED
    BY <2>4, <2>5, <2>6 DEF Schedules, Same
<1>14. Sources' <= 2
  <2>1. \A c \in BOOLEAN : One(c) \in {0, 1}
    BY DEF One
  <2>2. CASE ~Finalized'
    <3>1. Sources' \in Int
      BY <1>6 DEF One
    <3> QED
      BY <1>13, <2>1, <2>2, <3>1 DEF One
  <2> QED
    BY <1>12, <2>2
<1> QED
  BY <1>5, <1>12, <1>13, <1>14 DEF SourcesOK, Sources

\* Everything that is known of a reachable state.
SessionInv ==
  ClientInv /\ HandoffOK /\ OrderOK /\ CloseOK /\ PlacesOK /\ ResultsOK /\ SourcesOK

LEMMA SessionInvInit == Init => SessionInv
BY InitEarly, ClientInvInit, EarlyResults DEF SessionInv

LEMMA SessionInvStep == SessionInv /\ [Next]_vars => SessionInv'
<1> SUFFICES ASSUME SessionInv, [Next]_vars PROVE SessionInv'
  OBVIOUS
<1>1. /\ TypeOK /\ EarlyOK /\ ThreadsOK /\ LockOK /\ ReceiptOK /\ FinalizerOK /\ RegistryOK
      /\ HandoffOK /\ OrderOK /\ CloseOK /\ PlacesOK /\ ResultsOK /\ SourcesOK
  BY DEF SessionInv, ClientInv
<1>2. ClientInv'
  BY ClientInvStep DEF SessionInv
<1>3. HandoffOK' /\ OrderOK' /\ CloseOK'
  BY <1>1, HandoffStep, OrderStep, ClosingStep
<1>4. PlacesOK' /\ ResultsOK' /\ SourcesOK'
  BY <1>1, PlacesStep, ResultsStep, SourcesStep
<1> QED
  BY <1>2, <1>3, <1>4 DEF SessionInv

LEMMA SessionInvSafe == SessionInv => OneFinalResult
<1> SUFFICES ASSUME SessionInv PROVE OneFinalResult
  OBVIOUS
<1>1. TypeOK /\ EarlyOK /\ ThreadsOK /\ LockOK /\ ReceiptOK /\ ResultsOK /\ SourcesOK
  BY DEF SessionInv, ClientInv
<1>2. logicalSources <= 2
  <2>1. logicalSources \in Nat /\ Cardinality(Scheduling) \in Nat
    BY <1>1, SchedulingFinite DEF TypeOK
  <2>2. logicalSources + Cardinality(Scheduling) <= 2
    BY <1>1 DEF SourcesOK, Sources
  <2> QED
    BY <2>1, <2>2
<1>3. \E r \in Results : \A c \in Callbacks : reports[c] \in {<<>>, <<r>>}
  BY <1>1 DEF ResultsOK, TypeOK
<1>4. ASSUME Heard("Closed")
      PROVE  /\ ReceiptSettled(flags) /\ ~client /\ receipt # "held"
             /\ "worker" \in started => "physicalFinished" \in flags
  <2>1. PICK c \in Callbacks : reports[c] # <<>> /\ Head(reports[c]) = "Closed"
    BY <1>4 DEF Heard
  <2>2. reports[c] = <<logicalResult>>
    BY <1>1, <2>1 DEF ResultsOK
  <2>3. logicalResult = "Closed"
    BY <2>1, <2>2
  <2>4. NeverStarted \/ Over
    BY <1>1, <2>3 DEF ResultsOK
  <2>5. CASE NeverStarted
    <3>1. ~client /\ started = {} /\ "closedDeliveryExpected" \notin flags
      BY <1>1, <2>5 DEF NeverStarted, ReceiptOK
    <3> QED
      BY <1>1, <3>1 DEF ReceiptOK, ReceiptSettled
  <2>6. CASE Over
    <3>1. "worker" \in started /\ ~client
      BY <1>1, <2>6 DEF Over, ThreadsOK, Exited, Idle
    <3> QED
      BY <1>1, <2>6, <3>1 DEF Over, ReceiptOK, ReceiptSettled
  <2> QED
    BY <2>4, <2>5, <2>6
<1> QED
  BY <1>1, <1>2, <1>3, <1>4 DEF OneFinalResult

\* All close callbacks of one backend hear one result, each at most once, whichever of the
\* deadline, the finalizer, the logical failure and a later close() reports it; and Closed is
\* heard only when the receipt has settled and the client is gone, or never was there
\* (close, reportDeadline, finalizeWorker, deliverLogicalFailure, runResultCallback).
THEOREM FinalResult == Spec => []OneFinalResult
<1>1. Init => SessionInv
  BY SessionInvInit
<1>2. SessionInv /\ [Next]_vars => SessionInv'
  BY SessionInvStep
<1>3. SessionInv => OneFinalResult
  BY SessionInvSafe
<1> QED
  BY <1>1, <1>2, <1>3, PTL DEF Spec
=============================================================================
