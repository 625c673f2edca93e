-------------------------- MODULE MessageQueueProofs --------------------------
(***************************************************************************)
(* Proofs about MessageQueue: no message that left the queue is lost.      *)
(*                                                                         *)
(* The invariant is a predicate of an account a and a stack s, because a   *)
(* handler goes through several of them before its step ends: it holds of  *)
(* the account each operator is given and of the one it returns, and a     *)
(* message that is being displayed is in the set D of those excused.       *)
(***************************************************************************)
EXTENDS MessageQueue, TLAPS, FiniteSetTheorems, SequenceTheorems, WellFoundedInduction

-----------------------------------------------------------------------------
(* The invariant *)

AccountFields ==
  {"msg", "exists", "ready", "entries", "gap", "history", "older", "newer", "replies",
   "downloads", "conversions", "dialogs", "client", "located", "deleted", "overtaken",
   "shown"}

MessageFields ==
  {"disp", "inc", "rev", "kind", "wantsReply", "replyDone", "complete", "timeout",
   "converted", "ready"}

Dispositions == {"absent", "queued", "released", "cancelled"}

MessageOK(x) ==
  /\ MessageFields \subseteq DOMAIN x
  /\ x.disp \in Dispositions /\ x.inc \in 1 .. 2 /\ x.rev \in Nat
  /\ x.converted => IsSticker(x.kind)

AccountOK(a) ==
  /\ AccountFields \subseteq DOMAIN a
  /\ DOMAIN a.msg = Messages
  /\ \A m \in Messages : MessageOK(a.msg[m])
  /\ a.entries \in Seq(Messages) /\ a.older \in Nat /\ a.newer \in Nat
  /\ a.client \in {"open", "closing", "gone"}
  /\ a.client = "open" => \A m \in Messages : a.msg[m].inc = 1
  /\ \A h \in a.replies : h.m \in Messages

QueueOK(a) ==
  /\ ToSet(a.entries) = {m \in Messages : a.msg[m].disp = "queued"}
  /\ a.exists \/ (a.entries = <<>> /\ a.ready)

\* A handle that was given out: of a message that came, and of no incarnation or
\* revision to come.
Knows(a, h) ==
  /\ h.m \in Messages /\ h.inc \in Nat /\ h.rev \in Nat
  /\ a.msg[h.m].disp # "absent"
  /\ \/ h.inc < a.msg[h.m].inc
     \/ h.inc = a.msg[h.m].inc /\ h.rev <= a.msg[h.m].rev

\* Only stickers are converted.
Sticky(a, h) == Current(a, h) => IsSticker(a.msg[h.m].kind)

WorkOK(a) ==
  /\ \A d \in a.downloads : "h" \in DOMAIN d
  /\ \A h \in Work(a) : Knows(a, h)
  /\ \A c \in a.conversions : Sticky(a, c.h)

FrameOK(a, f) ==
  /\ {"kind", "h", "rest", "more"} \subseteq DOMAIN f
  /\ f.kind \in {"file", "convert", "moveReply", "error"} => Knows(a, f.h)
  /\ f.kind = "convert" => Sticky(a, f.h)
  /\ f.kind = "batch" =>
       /\ \E S : f.rest \in Seq(S)
       /\ f.rest # <<>>
       /\ \A j \in DOMAIN f.rest : Knows(a, f.rest[j])

FramesOK(a, s) == \A i \in DOMAIN s : FrameOK(a, s[i])

\* The messages to come.
AbsentFrom(a, n) == \A m \in Messages : m <= n => a.msg[m].disp = "absent"

PageOK(a, f) ==
  /\ f.rest \in Seq(Messages) /\ a.older + Len(f.rest) < FirstLive
  /\ \A k \in 1 .. Len(f.rest) : f.rest[k] = a.older + Len(f.rest) + 1 - k
  /\ AbsentFrom(a, a.older + Len(f.rest))

PagesOK(a, s) == \A i \in DOMAIN s : s[i].kind = "page" => PageOK(a, s[i])

NoPage(s) == \A i \in DOMAIN s : s[i].kind # "page"
OnePage(s) == \A i, j \in DOMAIN s : s[i].kind = "page" /\ s[j].kind = "page" => i = j

\* The missed messages are fetched once: the gap becomes a request, a request becomes a
\* page, and a page becomes a request again.
HistoryOK(a, s) ==
  /\ a.older < FirstLive /\ FirstLive <= a.newer
  /\ AbsentFrom(a, a.older)
  /\ \A m \in Messages : m >= a.newer => a.msg[m].disp = "absent"
  /\ a.gap => ~a.history
  /\ a.gap \/ a.history => NoPage(s)
  /\ OnePage(s)
  /\ PagesOK(a, s)

\* The content that a message has now.
Names(x, m, h) == h.m = m /\ h.inc = x.inc /\ h.rev = x.rev

Lists(f, x, m) == f.kind = "batch" /\ \E j \in DOMAIN f.rest : Names(x, m, f.rest[j])

\* A batch that will be displayed lists the message: no quit comes before it.
Awaits(s, x, m) ==
  \E i \in DOMAIN s : Lists(s[i], x, m) /\ \A k \in 1 .. i : s[k].kind # "quit"

\* It was displayed, or an edit overtook it.
Shown(a, m) == m \in a.overtaken \/ \E e \in a.shown : e.m = m

Owed(x) == x.disp = "released" /\ ~IsSticker(x.kind)

OwedOK(a, s, D) ==
  \A m \in Messages : m \notin a.deleted /\ m \notin D /\ Owed(a.msg[m]) =>
    Shown(a, m) \/ Awaits(s, a.msg[m], m)

IsStack(s) == \E S : s \in Seq(S)

DisplaysOf(s) == Cardinality({i \in DOMAIN s : s[i].kind = "display"})

\* There may be one more display.
Room(s) == DisplaysOf(s) + 1 <= MaxDepth
Fits(s) == DisplaysOf(s) <= MaxDepth /\ (s # <<>> /\ Head(s).kind # "display" => Room(s))

Sound(a, s, D) ==
  /\ AccountOK(a) /\ QueueOK(a) /\ WorkOK(a)
  /\ IsStack(s) /\ FramesOK(a, s) /\ HistoryOK(a, s) /\ OwedOK(a, s, D)

QueueInv == Sound(account, stack, {}) /\ Fits(stack)

-----------------------------------------------------------------------------
(* Sequences *)

LEMMA LeastNat == \A T \in SUBSET Nat : T # {} => \E m \in T : \A k \in T : m <= k
<1> SUFFICES ASSUME NEW T \in SUBSET Nat, T # {} PROVE \E m \in T : \A k \in T : m <= k
  OBVIOUS
<1> DEFINE Less == {p \in Nat \X Nat : p[1] < p[2]}
<1>1. \A i, k \in Nat : k < i => <<k, i>> \in Less
  OBVIOUS
<1>2. IsWellFoundedOn(Less, Nat)
  <2>1. OpToRel(<, Nat) = Less
    BY DEF OpToRel
  <2> QED
    BY <2>1, NatLessThanWellFounded
<1> HIDE DEF Less
<1>3. PICK m \in T : \A k \in T : <<k, m>> \notin Less
  BY <1>2, WFMin
<1>4. \A k \in T : k \in Nat /\ m \in Nat /\ ~(k < m)
  BY <1>1, <1>3
<1> QED
  BY <1>4

\* What Kept computes for a prefix of the queue.
IsKept(f, s, gone, n) ==
  f = [i \in 0 .. n |-> IF i = 0 THEN <<>>
                        ELSE IF s[i] \in gone THEN f[i - 1] ELSE Append(f[i - 1], s[i])]

LEMMA KeptExists ==
  ASSUME NEW s, NEW gone, NEW n \in Nat
  PROVE  \E f : IsKept(f, s, gone, n)
<1> DEFINE Bad == {k \in Nat : ~ \E f : IsKept(f, s, gone, k)}
<1>1. SUFFICES ASSUME Bad # {} PROVE FALSE
  OBVIOUS
<1>2. PICK m \in Bad : \A k \in Bad : m <= k
  BY <1>1, LeastNat
<1>3. m # 0
  <2>1. IsKept([i \in 0 .. 0 |-> <<>>], s, gone, 0)
    BY DEF IsKept
  <2> QED
    BY <1>2, <2>1
<1>4. m - 1 \in Nat /\ m - 1 \notin Bad
  BY <1>2, <1>3
<1>5. PICK f : IsKept(f, s, gone, m - 1)
  BY <1>4
<1> DEFINE g == [i \in 0 .. m |->
                   IF i < m THEN f[i]
                   ELSE IF s[i] \in gone THEN f[i - 1] ELSE Append(f[i - 1], s[i])]
<1>6. IsKept(g, s, gone, m)
  <2>1. \A i \in 0 .. m :
          g[i] = IF i = 0 THEN <<>>
                 ELSE IF s[i] \in gone THEN g[i - 1] ELSE Append(g[i - 1], s[i])
    <3> TAKE i \in 0 .. m
    <3>1. CASE i < m
      <4>1. /\ i \in 0 .. m - 1
            /\ i # 0 => i - 1 \in 0 .. m - 1 /\ i - 1 \in 0 .. m /\ i - 1 < m
        BY <1>3, <1>4, <3>1
      <4>2. f[i] = IF i = 0 THEN <<>>
                   ELSE IF s[i] \in gone THEN f[i - 1] ELSE Append(f[i - 1], s[i])
        BY <1>5, <4>1 DEF IsKept
      <4> QED
        BY <3>1, <4>1, <4>2
    <3>2. CASE i = m
      <4>1. i - 1 \in 0 .. m /\ i - 1 < m /\ i # 0 /\ ~(i < m)
        BY <1>3, <1>4, <3>2
      <4>2. g[i - 1] = f[i - 1]
        BY <4>1
      <4> QED
        BY <3>2, <4>1, <4>2
    <3> QED
      BY <3>1, <3>2
  <2> HIDE DEF g
  <2>2. DOMAIN g = 0 .. m /\ g = [i \in DOMAIN g |-> g[i]]
    BY DEF g
  <2> QED
    BY <2>1, <2>2 DEF IsKept
<1> QED
  BY <1>2, <1>6

LEMMA KeptIs ==
  ASSUME NEW s, NEW gone, Len(s) \in Nat
  PROVE  \E f : IsKept(f, s, gone, Len(s)) /\ Kept(s, gone) = f[Len(s)]
<1> DEFINE f == CHOOSE f : IsKept(f, s, gone, Len(s))
<1>1. IsKept(f, s, gone, Len(s))
  BY KeptExists
<1>2. Kept(s, gone) = f[Len(s)]
  BY DEF Kept, IsKept
<1> QED
  BY <1>1, <1>2

LEMMA KeptProperties ==
  ASSUME NEW S, NEW s \in Seq(S), NEW gone
  PROVE  Kept(s, gone) \in Seq(S) /\ ToSet(Kept(s, gone)) = ToSet(s) \ gone
<1> DEFINE n == Len(s)
<1>1. n \in Nat /\ DOMAIN s = 1 .. n /\ \A i \in 1 .. n : s[i] \in S
  BY LenProperties
<1>2. PICK f : IsKept(f, s, gone, n) /\ Kept(s, gone) = f[n]
  BY <1>1, KeptIs
<1> HIDE DEF n
<1> DEFINE First(k) == {s[i] : i \in 1 .. k} \ gone
           Good(k) == f[k] \in Seq(S) /\ ToSet(f[k]) = First(k)
           Bad == {k \in 0 .. n : ~Good(k)}
<1>3. \A i \in 0 .. n : f[i] = IF i = 0 THEN <<>>
                               ELSE IF s[i] \in gone THEN f[i - 1] ELSE Append(f[i - 1], s[i])
  BY <1>2 DEF IsKept
<1>4. Good(0)
  <2>1. f[0] = <<>>
    BY <1>1, <1>3
  <2>2. <<>> \in Seq(S) /\ ToSet(<<>>) = {}
    BY DEF ToSet
  <2> QED
    BY <2>1, <2>2
<1>5. ASSUME NEW k \in 1 .. n, Good(k - 1) PROVE Good(k)
  <2>1. k \in 0 .. n /\ k # 0 /\ s[k] \in S /\ k - 1 \in Nat
    BY <1>1
  <2>2. f[k] = IF s[k] \in gone THEN f[k - 1] ELSE Append(f[k - 1], s[k])
    BY <1>3, <2>1
  <2>3. {s[i] : i \in 1 .. k} = {s[i] : i \in 1 .. k - 1} \cup {s[k]}
    BY <1>1, <2>1
  <2> DEFINE r == f[k - 1]
  <2>4. r \in Seq(S) /\ ToSet(r) = First(k - 1)
    BY <1>5
  <2>5. CASE s[k] \in gone
    BY <2>2, <2>3, <2>4, <2>5
  <2>6. CASE s[k] \notin gone
    <3> HIDE DEF r
    <3>1. /\ Append(r, s[k]) \in Seq(S) /\ Len(Append(r, s[k])) = Len(r) + 1
          /\ \A i \in 1 .. Len(r) : Append(r, s[k])[i] = r[i]
          /\ Append(r, s[k])[Len(r) + 1] = s[k]
      BY <2>1, <2>4, AppendProperties
    <3>2. Len(r) \in Nat /\ DOMAIN r = 1 .. Len(r)
          /\ DOMAIN Append(r, s[k]) = 1 .. Len(r) + 1
      BY <2>4, <3>1, LenProperties
    <3>3. ToSet(Append(r, s[k])) = ToSet(r) \cup {s[k]}
      <4> DEFINE t == Append(r, s[k])
      <4>1. \A i \in 1 .. Len(r) + 1 : i \in 1 .. Len(r) \/ i = Len(r) + 1
        BY <3>2
      <4>2. 1 .. Len(r) \subseteq 1 .. Len(r) + 1 /\ Len(r) + 1 \in 1 .. Len(r) + 1
        BY <3>2
      <4> QED
        BY <3>1, <3>2, <4>1, <4>2 DEF ToSet
    <3>4. f[k] = Append(r, s[k])
      BY <2>2, <2>6 DEF r
    <3> QED
      BY <2>3, <2>4, <2>6, <3>1, <3>3, <3>4
  <2> QED
    BY <2>5, <2>6
<1>6. Bad = {}
  <2> SUFFICES ASSUME Bad # {} PROVE FALSE
    OBVIOUS
  <2> HIDE DEF Good
  <2>1. Bad \in SUBSET Nat
    BY <1>1
  <2>2. PICK m \in Bad : \A k \in Bad : m <= k
    BY <2>1, LeastNat
  <2>3. m # 0
    BY <1>4, <2>2
  <2>4. m \in 1 .. n /\ m - 1 \in 0 .. n /\ ~(m <= m - 1)
    BY <1>1, <2>2, <2>3
  <2>5. Good(m - 1)
    BY <2>2, <2>4
  <2> QED
    BY <1>5, <2>2, <2>4, <2>5
<1>7. Good(n)
  <2> HIDE DEF Good
  <2> QED
    BY <1>1, <1>6
<1>8. ToSet(s) = {s[i] : i \in 1 .. n}
  BY <1>1 DEF ToSet
<1> QED
  BY <1>2, <1>7, <1>8

LEMMA SetOf ==
  ASSUME NEW S, NEW s \in Seq(S)
  PROVE  ToSet(s) = {s[i] : i \in 1 .. Len(s)}
BY LenProperties DEF ToSet

LEMMA AddedProperties ==
  ASSUME NEW S, NEW s \in Seq(S), NEW x \in S
  PROVE  /\ Append(s, x) \in Seq(S) /\ ToSet(Append(s, x)) = ToSet(s) \cup {x}
         /\ <<x>> \o s \in Seq(S) /\ ToSet(<<x>> \o s) = ToSet(s) \cup {x}
<1>0. Len(s) \in Nat
  BY LenProperties
<1>1. /\ 1 .. Len(s) \subseteq 1 .. Len(s) + 1
      /\ \A i \in 1 .. Len(s) + 1 : i \in 1 .. Len(s) \/ i = Len(s) + 1
      /\ \A i \in 1 .. Len(s) + 1 : i = 1 \/ (i - 1 \in 1 .. Len(s) /\ i # 1)
      /\ \A i \in 1 .. Len(s) : i + 1 \in 1 .. Len(s) + 1 /\ i + 1 # 1 /\ i + 1 - 1 = i
      /\ 1 \in 1 .. Len(s) + 1 /\ Len(s) + 1 \in 1 .. Len(s) + 1
  BY <1>0
<1> DEFINE t == Append(s, x)
<1>2. /\ t \in Seq(S) /\ Len(t) = Len(s) + 1 /\ \A i \in 1 .. Len(s) : t[i] = s[i]
      /\ t[Len(s) + 1] = x
  BY AppendProperties
<1>3. ToSet(t) = ToSet(s) \cup {x}
  <2> HIDE DEF t
  <2>1. ToSet(t) = {t[i] : i \in 1 .. Len(s) + 1} /\ ToSet(s) = {s[i] : i \in 1 .. Len(s)}
    BY <1>2, SetOf
  <2> QED
    BY <1>1, <1>2, <2>1
<1> DEFINE o == <<x>>
           u == o \o s
<1>4. o \in Seq(S) /\ Len(o) = 1 /\ o[1] = x
  OBVIOUS
<1>5. /\ u \in Seq(S) /\ Len(u) = Len(s) + 1 /\ u[1] = x
      /\ \A i \in 1 .. Len(s) : u[i + 1] = s[i]
  <2> HIDE DEF o
  <2>0. /\ u \in Seq(S) /\ Len(u) = Len(o) + Len(s)
        /\ \A i \in 1 .. Len(o) + Len(s) :
             u[i] = IF i <= Len(o) THEN o[i] ELSE s[i - Len(o)]
    BY <1>4, ConcatProperties
  <2>1. /\ u \in Seq(S) /\ Len(u) = 1 + Len(s)
        /\ \A i \in 1 .. 1 + Len(s) : u[i] = IF i <= 1 THEN o[i] ELSE s[i - 1]
    BY <1>4, <2>0
  <2> HIDE DEF u
  <2> QED
    BY <1>0, <1>4, <2>1
<1>6. ToSet(u) = ToSet(s) \cup {x}
  <2> HIDE DEF u
  <2>1. ToSet(u) = {u[i] : i \in 1 .. Len(s) + 1} /\ ToSet(s) = {s[i] : i \in 1 .. Len(s)}
    BY <1>5, SetOf
  <2>2. \A i \in 1 .. Len(s) + 1 : i = 1 \/ \E k \in 1 .. Len(s) : i = k + 1
    <3> TAKE i \in 1 .. Len(s) + 1
    <3>1. i # 1 => i - 1 \in 1 .. Len(s) /\ i = (i - 1) + 1
      BY <1>0
    <3> QED
      BY <3>1
  <2>3. ToSet(u) \subseteq ToSet(s) \cup {x}
    <3>1. \A i \in 1 .. Len(s) + 1 : u[i] = x \/ \E k \in 1 .. Len(s) : u[i] = s[k]
      BY <1>5, <2>2
    <3> QED
      BY <2>1, <3>1
  <2>4. ToSet(s) \cup {x} \subseteq ToSet(u)
    BY <1>1, <1>5, <2>1
  <2> QED
    BY <2>3, <2>4
<1> QED
  BY <1>2, <1>3, <1>5, <1>6 DEF t, u

\* A frame is put on a stack, or taken from it.
LEMMA PushIs ==
  ASSUME NEW s, IsStack(s), NEW f
  PROVE  LET t == <<f>> \o s
         IN /\ IsStack(t) /\ t # <<>> /\ Head(t) = f /\ Tail(t) = s
            /\ Len(s) \in Nat /\ DOMAIN s = 1 .. Len(s)
            /\ DOMAIN t = 1 .. Len(s) + 1 /\ t[1] = f
            /\ \A i \in 1 .. Len(s) : t[i + 1] = s[i]
            /\ \A i \in 2 .. Len(s) + 1 : t[i] = s[i - 1]
<1>1. PICK S0 : s \in Seq(S0)
  BY DEF IsStack
<1> DEFINE S == S0 \cup {f}
<1>2. s \in Seq(S) /\ f \in S
  BY <1>1, SeqMonotonic
<1> HIDE DEF S
<1>3. Len(s) \in Nat /\ DOMAIN s = 1 .. Len(s)
  BY <1>2, LenProperties
<1> DEFINE o == <<f>>
           t == o \o s
<1>4. o \in Seq(S) /\ Len(o) = 1 /\ o[1] = f
  BY <1>2
<1>5. /\ t \in Seq(S) /\ Len(t) = Len(s) + 1
      /\ \A i \in 1 .. Len(s) + 1 : t[i] = IF i <= 1 THEN o[i] ELSE s[i - 1]
  <2> HIDE DEF o
  <2>0. /\ t \in Seq(S) /\ Len(t) = Len(o) + Len(s)
        /\ \A i \in 1 .. Len(o) + Len(s) :
             t[i] = IF i <= Len(o) THEN o[i] ELSE s[i - Len(o)]
    BY <1>2, <1>4, ConcatProperties
  <2>1. /\ t \in Seq(S) /\ Len(t) = 1 + Len(s)
        /\ \A i \in 1 .. 1 + Len(s) : t[i] = IF i <= 1 THEN o[i] ELSE s[i - 1]
    BY <1>4, <2>0
  <2> QED
    BY <1>3, <2>1
<1> HIDE DEF t, o
<1>6. DOMAIN t = 1 .. Len(s) + 1 /\ t # <<>>
  BY <1>3, <1>5, LenProperties, EmptySeq
<1>7. /\ t[1] = f
      /\ \A i \in 1 .. Len(s) : t[i + 1] = s[i]
      /\ \A i \in 2 .. Len(s) + 1 : t[i] = s[i - 1]
  BY <1>3, <1>4, <1>5
<1>8. Head(t) = f
  BY <1>5, <1>7 DEF Head
<1>9. Tail(t) = s
  <2>1. /\ Tail(t) \in Seq(S) /\ Len(Tail(t)) = Len(s)
        /\ \A i \in 1 .. Len(Tail(t)) : Tail(t)[i] = t[i + 1]
    BY <1>3, <1>5, <1>6, HeadTailProperties
  <2> DEFINE r == Tail(t)
  <2> HIDE DEF r
  <2>2. r \in Seq(S) /\ Len(r) = Len(s) /\ \A i \in 1 .. Len(s) : r[i] = s[i]
    BY <2>1, <1>7 DEF r
  <2>3. r = s
    BY <1>2, <2>2, SeqEqual
  <2> QED
    BY <2>3 DEF r
<1>10. IsStack(t)
  BY <1>5 DEF IsStack
<1> QED
  BY <1>3, <1>6, <1>7, <1>8, <1>9, <1>10 DEF t, o

LEMMA PopIs ==
  ASSUME NEW s, IsStack(s), s # <<>>
  PROVE  LET t == Tail(s)
         IN /\ IsStack(t) /\ Head(s) = s[1]
            /\ Len(t) \in Nat /\ DOMAIN t = 1 .. Len(t)
            /\ DOMAIN s = 1 .. Len(t) + 1
            /\ \A i \in 1 .. Len(t) : t[i] = s[i + 1]
            /\ \A i \in 2 .. Len(t) + 1 : s[i] = t[i - 1]
<1>1. PICK S : s \in Seq(S)
  BY DEF IsStack
<1> DEFINE t == Tail(s)
<1>2. /\ t \in Seq(S) /\ Len(t) = Len(s) - 1
      /\ \A i \in 1 .. Len(t) : t[i] = s[i + 1]
  BY <1>1, HeadTailProperties
<1>3. Head(s) = s[1]
  BY <1>1 DEF Head
<1> HIDE DEF t
<1>4. /\ Len(t) \in Nat /\ DOMAIN t = 1 .. Len(t)
      /\ Len(s) \in Nat /\ DOMAIN s = 1 .. Len(s)
  BY <1>1, <1>2, LenProperties
<1>5. Len(s) = Len(t) + 1 /\ DOMAIN s = 1 .. Len(t) + 1
  BY <1>2, <1>4
<1>6. \A i \in 2 .. Len(t) + 1 : s[i] = t[i - 1]
  <2> TAKE i \in 2 .. Len(t) + 1
  <2>1. i - 1 \in 1 .. Len(t) /\ i - 1 + 1 = i
    BY <1>4
  <2> QED
    BY <1>2, <2>1
<1>7. IsStack(t)
  BY <1>2 DEF IsStack
<1> QED
  BY <1>2, <1>3, <1>4, <1>5, <1>6, <1>7 DEF t

-----------------------------------------------------------------------------
(* Stacks *)

LEMMA CountShifted ==
  ASSUME NEW S \in SUBSET Nat, IsFiniteSet(S), NEW T \in SUBSET Nat,
         \A i \in Nat : i \in S <=> i + 1 \in T, 0 \notin T
  PROVE  IsFiniteSet(T) /\ Cardinality(T) = Cardinality(S)
<1> DEFINE f == [i \in S |-> i + 1]
<1>1. f \in [S -> T]
  OBVIOUS
<1>2. \A i, j \in S : f[i] = f[j] => i = j
  OBVIOUS
<1>3. \A j \in T : \E i \in S : f[i] = j
  <2> TAKE j \in T
  <2>1. j - 1 \in Nat /\ (j - 1) + 1 = j
    OBVIOUS
  <2>2. j - 1 \in S
    BY <2>1
  <2> QED
    BY <2>1, <2>2
<1>4. ExistsBijection(S, T)
  BY <1>1, <1>2, <1>3 DEF ExistsBijection, Bijection, Injection, Surjection, IsInjective
<1> QED
  BY <1>4, FS_Bijection

LEMMA DisplaysType ==
  ASSUME NEW s, IsStack(s)
  PROVE  /\ IsFiniteSet({i \in DOMAIN s : s[i].kind = "display"})
         /\ DisplaysOf(s) \in Nat
<1>1. PICK S : s \in Seq(S)
  BY DEF IsStack
<1>2. DOMAIN s = 1 .. Len(s) /\ Len(s) \in Nat
  BY <1>1, LenProperties
<1>3. IsFiniteSet(1 .. Len(s))
  BY <1>2, FS_Interval
<1>4. IsFiniteSet({i \in DOMAIN s : s[i].kind = "display"})
  BY <1>2, <1>3, FS_Subset
<1> QED
  BY <1>4, FS_CardinalityType DEF DisplaysOf

\* One more frame t[1] than s, whose i-th frame is the next one of t.
LEMMA DisplaysShift ==
  ASSUME NEW s, IsStack(s), NEW t, NEW n \in Nat, DOMAIN s = 1 .. n, DOMAIN t = 1 .. n + 1,
         \A i \in 1 .. n : t[i + 1] = s[i]
  PROVE  DisplaysOf(t) = DisplaysOf(s) + IF t[1].kind = "display" THEN 1 ELSE 0
<1> DEFINE S == {i \in DOMAIN s : s[i].kind = "display"}
           T == {i \in DOMAIN t : i # 1 /\ t[i].kind = "display"}
<1>1. IsFiniteSet(S) /\ DisplaysOf(s) = Cardinality(S) /\ Cardinality(S) \in Nat
  BY DisplaysType DEF DisplaysOf
<1>2. S \in SUBSET Nat /\ T \in SUBSET Nat /\ 0 \notin T
  OBVIOUS
<1>3. \A i \in Nat : i \in S <=> i + 1 \in T
  <2> TAKE i \in Nat
  <2>1. i \in 1 .. n <=> i + 1 \in 1 .. n + 1 /\ i + 1 # 1
    OBVIOUS
  <2> QED
    BY <2>1
<1>4. {i \in DOMAIN t : t[i].kind = "display"}
        = IF t[1].kind = "display" THEN T \cup {1} ELSE T
  OBVIOUS
<1>5. 1 \notin T
  OBVIOUS
<1> HIDE DEF S, T
<1>6. IsFiniteSet(T) /\ Cardinality(T) = Cardinality(S)
  BY <1>1, <1>2, <1>3, CountShifted
<1>7. Cardinality(T \cup {1}) = Cardinality(T) + 1
  BY <1>5, <1>6, FS_AddElement
<1>8. DisplaysOf(t) = IF t[1].kind = "display" THEN Cardinality(T \cup {1}) ELSE Cardinality(T)
  BY <1>4 DEF DisplaysOf
<1> QED
  BY <1>1, <1>6, <1>7, <1>8

LEMMA Push ==
  ASSUME NEW a, NEW s, IsStack(s), NEW f
  PROVE  LET t == <<f>> \o s
         IN /\ IsStack(t) /\ t # <<>> /\ Head(t) = f
            /\ FramesOK(a, s) /\ FrameOK(a, f) => FramesOK(a, t)
            /\ PagesOK(a, s) /\ (f.kind = "page" => PageOK(a, f)) => PagesOK(a, t)
            /\ NoPage(s) /\ f.kind # "page" => NoPage(t)
            /\ OnePage(s) /\ (f.kind = "page" => NoPage(s)) => OnePage(t)
            /\ \A x, m : f.kind # "quit" /\ Awaits(s, x, m) => Awaits(t, x, m)
            /\ \A x, m : Lists(f, x, m) => Awaits(t, x, m)
            /\ DisplaysOf(t) = DisplaysOf(s) + IF f.kind = "display" THEN 1 ELSE 0
<1> DEFINE t == <<f>> \o s
           n == Len(s)
<1>1. /\ IsStack(t) /\ t # <<>> /\ Head(t) = f
      /\ n \in Nat /\ DOMAIN s = 1 .. n /\ DOMAIN t = 1 .. n + 1 /\ t[1] = f
      /\ \A i \in 1 .. n : t[i + 1] = s[i]
      /\ \A i \in 2 .. n + 1 : t[i] = s[i - 1]
  <2>1. LET u == <<f>> \o s
        IN /\ IsStack(u) /\ u # <<>> /\ Head(u) = f /\ Tail(u) = s
           /\ Len(s) \in Nat /\ DOMAIN s = 1 .. Len(s)
           /\ DOMAIN u = 1 .. Len(s) + 1 /\ u[1] = f
           /\ \A i \in 1 .. Len(s) : u[i + 1] = s[i]
           /\ \A i \in 2 .. Len(s) + 1 : u[i] = s[i - 1]
    BY PushIs, ZenonT(60)
  <2> QED
    BY <2>1, Zenon
<1> HIDE DEF t, n
<1>2. \A i \in 1 .. n + 1 : i = 1 \/ (i \in 2 .. n + 1 /\ i - 1 \in 1 .. n /\ i # 1)
  BY <1>1
<1>3. ASSUME FramesOK(a, s), FrameOK(a, f) PROVE FramesOK(a, t)
  BY <1>1, <1>2, <1>3 DEF FramesOK
<1>4. ASSUME PagesOK(a, s), f.kind = "page" => PageOK(a, f) PROVE PagesOK(a, t)
  BY <1>1, <1>2, <1>4 DEF PagesOK
<1>5. ASSUME NoPage(s), f.kind # "page" PROVE NoPage(t)
  <2>1. \A i \in 1 .. n + 1 : t[i].kind # "page"
    <3> TAKE i \in 1 .. n + 1
    <3>1. CASE i = 1
      BY <1>1, <1>5, <3>1
    <3>2. CASE i # 1
      <4>1. i - 1 \in 1 .. n /\ t[i] = s[i - 1]
        BY <1>1, <1>2, <3>2
      <4> QED
        BY <1>1, <1>5, <4>1 DEF NoPage
    <3> QED
      BY <3>1, <3>2
  <2> QED
    BY <1>1, <2>1 DEF NoPage
<1>6. ASSUME OnePage(s), f.kind = "page" => NoPage(s) PROVE OnePage(t)
  <2> SUFFICES ASSUME NEW i \in 1 .. n + 1, NEW j \in 1 .. n + 1,
                      t[i].kind = "page", t[j].kind = "page"
               PROVE  i = j
    BY <1>1 DEF OnePage
  <2>1. i # 1 => i \in 2 .. n + 1 /\ i - 1 \in 1 .. n /\ s[i - 1].kind = "page"
    BY <1>1, <1>2
  <2>2. j # 1 => j \in 2 .. n + 1 /\ j - 1 \in 1 .. n /\ s[j - 1].kind = "page"
    BY <1>1, <1>2
  <2>3. i # 1 /\ j # 1 => i - 1 = j - 1
    BY <1>1, <1>6, <2>1, <2>2 DEF OnePage
  <2>4. i = 1 \/ j = 1 => i = 1 /\ j = 1
    BY <1>1, <1>6, <2>1, <2>2 DEF NoPage
  <2> QED
    BY <1>1, <2>3, <2>4
<1>7. ASSUME NEW x, NEW m, f.kind # "quit", Awaits(s, x, m) PROVE Awaits(t, x, m)
  <2>1. PICK i \in 1 .. n : Lists(s[i], x, m) /\ \A k \in 1 .. i : s[k].kind # "quit"
    BY <1>1, <1>7 DEF Awaits
  <2>2. i + 1 \in 1 .. n + 1 /\ t[i + 1] = s[i]
    BY <1>1
  <2>3. \A k \in 1 .. i + 1 : t[k].kind # "quit"
    <3> TAKE k \in 1 .. i + 1
    <3>1. k # 1 => k \in 2 .. n + 1 /\ k - 1 \in 1 .. i
      BY <1>1
    <3> QED
      BY <1>1, <1>7, <2>1, <3>1
  <2> QED
    BY <1>1, <2>1, <2>2, <2>3 DEF Awaits
<1>8. ASSUME NEW x, NEW m, Lists(f, x, m) PROVE Awaits(t, x, m)
  <2>1. 1 \in 1 .. n + 1 /\ \A k \in 1 .. 1 : k = 1
    BY <1>1
  <2>2. f.kind # "quit"
    BY <1>8 DEF Lists
  <2> QED
    BY <1>1, <1>8, <2>1, <2>2 DEF Awaits
<1>9. DisplaysOf(t) = DisplaysOf(s) + IF f.kind = "display" THEN 1 ELSE 0
  BY <1>1, DisplaysShift
<1> QED
  BY <1>1, <1>3, <1>4, <1>5, <1>6, <1>7, <1>8, <1>9 DEF t

LEMMA Pop ==
  ASSUME NEW a, NEW s, IsStack(s), s # <<>>
  PROVE  LET t == Tail(s)
             f == Head(s)
         IN /\ IsStack(t)
            /\ FramesOK(a, s) => FramesOK(a, t) /\ FrameOK(a, f)
            /\ PagesOK(a, s) => PagesOK(a, t) /\ (f.kind = "page" => PageOK(a, f))
            /\ NoPage(s) => NoPage(t) /\ f.kind # "page"
            /\ OnePage(s) => OnePage(t) /\ (f.kind = "page" => NoPage(t))
            /\ \A x, m : Awaits(s, x, m) =>
                 f.kind # "quit" /\ (Lists(f, x, m) \/ Awaits(t, x, m))
            /\ DisplaysOf(s) = DisplaysOf(t) + IF f.kind = "display" THEN 1 ELSE 0
<1> DEFINE t == Tail(s)
           f == Head(s)
           n == Len(t)
<1>1. /\ IsStack(t) /\ f = s[1]
      /\ n \in Nat /\ DOMAIN t = 1 .. n /\ DOMAIN s = 1 .. n + 1
      /\ \A i \in 1 .. n : t[i] = s[i + 1]
      /\ \A i \in 2 .. n + 1 : s[i] = t[i - 1]
  BY PopIs
<1> HIDE DEF t, n, f
<1>2. 1 \in 1 .. n + 1 /\ \A i \in 1 .. n : i + 1 \in 1 .. n + 1 /\ i + 1 # 1
  BY <1>1
<1>3. ASSUME FramesOK(a, s) PROVE FramesOK(a, t) /\ FrameOK(a, f)
  BY <1>1, <1>2, <1>3 DEF FramesOK
<1>4. ASSUME PagesOK(a, s) PROVE PagesOK(a, t) /\ (f.kind = "page" => PageOK(a, f))
  BY <1>1, <1>2, <1>4 DEF PagesOK
<1>5. ASSUME NoPage(s) PROVE NoPage(t) /\ f.kind # "page"
  BY <1>1, <1>2, <1>5 DEF NoPage
<1>6. ASSUME OnePage(s) PROVE OnePage(t) /\ (f.kind = "page" => NoPage(t))
  <2>1. ASSUME NEW i \in 1 .. n, NEW j \in 1 .. n, t[i].kind = "page", t[j].kind = "page"
        PROVE  i = j
    <3>1. /\ i + 1 \in DOMAIN s /\ s[i + 1].kind = "page"
          /\ j + 1 \in DOMAIN s /\ s[j + 1].kind = "page"
      BY <1>1, <1>2, <2>1
    <3>2. i + 1 = j + 1
      BY <1>6, <3>1 DEF OnePage
    <3> QED
      BY <1>1, <3>2
  <2>2. ASSUME f.kind = "page", NEW i \in 1 .. n PROVE t[i].kind # "page"
    BY <1>1, <1>2, <1>6, <2>2 DEF OnePage
  <2> QED
    BY <1>1, <2>1, <2>2 DEF OnePage, NoPage
<1>7. ASSUME NEW x, NEW m, Awaits(s, x, m)
      PROVE  f.kind # "quit" /\ (Lists(f, x, m) \/ Awaits(t, x, m))
  <2>1. PICK i \in 1 .. n + 1 : Lists(s[i], x, m) /\ \A k \in 1 .. i : s[k].kind # "quit"
    BY <1>1, <1>7 DEF Awaits
  <2>2. 1 \in 1 .. i
    BY <1>1
  <2>3. CASE i = 1
    BY <1>1, <2>1, <2>2, <2>3
  <2>4. CASE i # 1
    <3>1. i - 1 \in 1 .. n /\ i \in 2 .. n + 1
      BY <1>1, <2>4
    <3>2. \A k \in 1 .. i - 1 : t[k] = s[k + 1] /\ k + 1 \in 1 .. i
      BY <1>1, <3>1
    <3> QED
      BY <1>1, <2>1, <2>2, <3>1, <3>2 DEF Awaits
  <2> QED
    BY <2>3, <2>4
<1>8. DisplaysOf(s) = DisplaysOf(t) + IF f.kind = "display" THEN 1 ELSE 0
  <2>1. \A i \in 1 .. n : s[i + 1] = t[i]
    BY <1>1
  <2> QED
    BY <1>1, <2>1, DisplaysShift
<1> QED
  BY <1>1, <1>3, <1>4, <1>5, <1>6, <1>7, <1>8 DEF t, f

-----------------------------------------------------------------------------
(* From one account to the next *)

SameContent(x, y) ==
  y.disp = x.disp /\ y.inc = x.inc /\ y.rev = x.rev /\ y.kind = x.kind

\* What the account says of a message that came stays true of its past.
Later(x, y) ==
  x.disp # "absent" =>
    /\ y.disp # "absent"
    /\ \/ x.inc < y.inc
       \/ x.inc = y.inc /\ x.rev < y.rev
       \/ /\ x.inc = y.inc /\ x.rev = y.rev
          /\ x.disp = "cancelled" => y.disp = "cancelled"
          /\ IsSticker(x.kind) => IsSticker(y.kind)

Advance(a, b) == \A m \in Messages : Later(a.msg[m], b.msg[m])

NobodyCame(a, b) ==
  \A m \in Messages : a.msg[m].disp = "absent" => b.msg[m].disp = "absent"

HistorySame(a, b) ==
  b.gap = a.gap /\ b.history = a.history /\ b.older = a.older /\ b.newer = a.newer

\* The work of b is about contents that a knows.
WorkFits(a, b) ==
  /\ \A d \in b.downloads : "h" \in DOMAIN d
  /\ \A h \in Work(b) : Knows(a, h)
  /\ \A c \in b.conversions : Sticky(a, c.h)

WorkSame(a, b) ==
  b.downloads = a.downloads /\ b.conversions = a.conversions /\ b.dialogs = a.dialogs

DoneKept(a, b) ==
  /\ a.deleted \subseteq b.deleted /\ a.shown \subseteq b.shown
  /\ a.overtaken \subseteq b.overtaken

LEMMA AdvanceKnows ==
  ASSUME NEW a, NEW b, AccountOK(a), AccountOK(b), Advance(a, b), NEW h, Knows(a, h)
  PROVE  Knows(b, h) /\ (Sticky(a, h) => Sticky(b, h))
<1> DEFINE x == a.msg[h.m]
           y == b.msg[h.m]
<1>1. /\ h.m \in Messages /\ h.inc \in Nat /\ h.rev \in Nat /\ x.disp # "absent"
      /\ h.inc < x.inc \/ (h.inc = x.inc /\ h.rev <= x.rev)
  BY DEF Knows
<1>2. /\ x.inc \in Nat /\ y.inc \in Nat /\ x.rev \in Nat /\ y.rev \in Nat
      /\ Later(x, y)
  <2>1. MessageOK(x) /\ MessageOK(y) /\ Later(x, y)
    BY <1>1 DEF AccountOK, Advance
  <2> HIDE DEF x, y
  <2>2. 1 .. 2 \subseteq Nat
    OBVIOUS
  <2> QED
    BY <2>1, <2>2 DEF MessageOK
<1> HIDE DEF x, y
<1>3. /\ y.disp # "absent"
      /\ h.inc < y.inc \/ (h.inc = y.inc /\ h.rev <= y.rev)
  BY <1>1, <1>2 DEF Later
<1>4. ASSUME y.inc = h.inc, y.rev = h.rev, y.disp # "cancelled"
      PROVE  /\ x.inc = h.inc /\ x.rev = h.rev /\ x.disp # "cancelled"
             /\ IsSticker(x.kind) => IsSticker(y.kind)
  BY <1>1, <1>2, <1>4 DEF Later
<1> QED
  BY <1>1, <1>3, <1>4 DEF Knows, Sticky, Current, x, y

LEMMA AdvanceFrames ==
  ASSUME NEW a, NEW b, AccountOK(a), AccountOK(b), Advance(a, b), NEW s, FramesOK(a, s)
  PROVE  FramesOK(b, s)
<1>1. \A h : Knows(a, h) => Knows(b, h) /\ (Sticky(a, h) => Sticky(b, h))
  BY AdvanceKnows
<1>2. \A f : FrameOK(a, f) => FrameOK(b, f)
  BY <1>1 DEF FrameOK
<1> QED
  BY <1>2 DEF FramesOK

LEMMA AdvanceWork ==
  ASSUME NEW a, NEW b, AccountOK(a), AccountOK(b), Advance(a, b), WorkFits(a, b)
  PROVE  WorkOK(b)
<1>1. \A h : Knows(a, h) => Knows(b, h) /\ (Sticky(a, h) => Sticky(b, h))
  BY AdvanceKnows
<1>2. \A c \in b.conversions : c.h \in Work(b)
  BY DEF Work
<1> QED
  BY <1>1, <1>2 DEF WorkOK, WorkFits

LEMMA SameWorkFits ==
  ASSUME NEW a, NEW b, WorkOK(a), WorkSame(a, b)
  PROVE  WorkFits(a, b)
BY DEF WorkOK, WorkFits, WorkSame, Work

LEMMA AdvanceHistory ==
  ASSUME NEW a, NEW b, NEW s, HistoryOK(a, s), HistorySame(a, b), NobodyCame(a, b)
  PROVE  HistoryOK(b, s)
<1>1. \A f : PageOK(a, f) => PageOK(b, f)
  BY DEF PageOK, AbsentFrom, HistorySame, NobodyCame
<1> QED
  BY <1>1 DEF HistoryOK, PagesOK, AbsentFrom, HistorySame, NobodyCame

LEMMA AdvanceOwed ==
  ASSUME NEW a, NEW b, NEW s, NEW D, OwedOK(a, s, D), DoneKept(a, b), NEW E,
         \A m \in Messages : m \notin E /\ m \notin b.deleted /\ Owed(b.msg[m]) =>
           m \notin D /\ SameContent(a.msg[m], b.msg[m])
  PROVE  OwedOK(b, s, E)
<1> SUFFICES ASSUME NEW m \in Messages, m \notin b.deleted, m \notin E, Owed(b.msg[m])
             PROVE  Shown(b, m) \/ Awaits(s, b.msg[m], m)
  BY DEF OwedOK
<1>1. m \notin D /\ m \notin a.deleted /\ SameContent(a.msg[m], b.msg[m])
  BY DEF DoneKept
<1>2. Shown(a, m) \/ Awaits(s, a.msg[m], m)
  BY <1>1 DEF OwedOK, Owed, SameContent
<1>3. CASE Shown(a, m)
  BY <1>3 DEF Shown, DoneKept
<1>4. CASE Awaits(s, a.msg[m], m)
  BY <1>1, <1>4 DEF Awaits, Lists, Names, SameContent
<1> QED
  BY <1>2, <1>3, <1>4

LEMMA Update ==
  ASSUME NEW a, NEW s, NEW D, Sound(a, s, D), NEW b, AccountOK(b), QueueOK(b),
         Advance(a, b), NobodyCame(a, b), HistorySame(a, b), WorkFits(a, b),
         DoneKept(a, b), NEW E,
         \A m \in Messages : m \notin E /\ m \notin b.deleted /\ Owed(b.msg[m]) =>
           m \notin D /\ SameContent(a.msg[m], b.msg[m])
  PROVE  Sound(b, s, E)
BY AdvanceFrames, AdvanceWork, AdvanceHistory, AdvanceOwed DEF Sound

\* What the invariant sees of the messages stays as it is.
Alike(a, b) ==
  /\ AccountFields \subseteq DOMAIN b /\ DOMAIN b.msg = Messages
  /\ \A m \in Messages : MessageOK(b.msg[m]) /\ SameContent(a.msg[m], b.msg[m])
  /\ b.entries = a.entries /\ b.exists = a.exists /\ b.ready = a.ready
  /\ b.client = a.client /\ HistorySame(a, b)
  /\ \A h \in b.replies : h.m \in Messages

LEMMA Minor ==
  ASSUME NEW a, NEW s, NEW D, Sound(a, s, D), NEW b, Alike(a, b), WorkFits(a, b),
         DoneKept(a, b)
  PROVE  Sound(b, s, D) /\ Advance(a, b)
<1>1. /\ AccountOK(a) /\ QueueOK(a)
      /\ \A m \in Messages : MessageOK(b.msg[m]) /\ SameContent(a.msg[m], b.msg[m])
  BY DEF Sound, Alike
<1>2. AccountOK(b)
  BY <1>1 DEF AccountOK, Alike, HistorySame, SameContent
<1>3. QueueOK(b)
  BY <1>1 DEF QueueOK, Alike, SameContent
<1>4. Advance(a, b) /\ NobodyCame(a, b)
  BY <1>1 DEF Advance, NobodyCame, Later, SameContent
<1>5. \A m \in Messages : m \notin D /\ m \notin b.deleted /\ Owed(b.msg[m]) =>
        m \notin D /\ SameContent(a.msg[m], b.msg[m])
  BY <1>1
<1> QED
  BY <1>2, <1>3, <1>4, <1>5, Update DEF Alike

-----------------------------------------------------------------------------
(* Displays and requests *)

LEMMA PushRoom ==
  ASSUME NEW s, IsStack(s), Room(s), NEW f
  PROVE  Fits(<<f>> \o s) /\ (f.kind # "display" => Room(<<f>> \o s))
<1> DEFINE t == <<f>> \o s
<1>1. /\ Head(t) = f
      /\ DisplaysOf(t) = DisplaysOf(s) + IF f.kind = "display" THEN 1 ELSE 0
  BY Push
<1> HIDE DEF t
<1>2. MaxDepth \in Nat /\ DisplaysOf(s) \in Nat
  BY BoundsAssumption, DisplaysType
<1> QED
  BY <1>1, <1>2 DEF Fits, Room, t

LEMMA SoundPush ==
  ASSUME NEW a, NEW s, NEW D, Sound(a, s, D), NEW f, FrameOK(a, f),
         f.kind \notin {"page", "quit"}
  PROVE  Sound(a, <<f>> \o s, D)
<1> DEFINE t == <<f>> \o s
<1>1. IsStack(s) /\ FramesOK(a, s) /\ HistoryOK(a, s) /\ OwedOK(a, s, D)
  BY DEF Sound
<1>2. /\ IsStack(t) /\ FramesOK(a, t)
      /\ PagesOK(a, s) => PagesOK(a, t)
      /\ NoPage(s) => NoPage(t)
      /\ OnePage(s) => OnePage(t)
      /\ \A x, m : Awaits(s, x, m) => Awaits(t, x, m)
  BY <1>1, Push
<1> HIDE DEF t
<1>3. HistoryOK(a, t) /\ OwedOK(a, t, D)
  BY <1>1, <1>2 DEF HistoryOK, OwedOK
<1> QED
  BY <1>2, <1>3 DEF Sound, t

LEMMA PlainFrame ==
  ASSUME NEW a, NEW f, {"kind", "h", "rest", "more"} \subseteq DOMAIN f,
         f.kind \in {"display", "deleted", "notices", "quit", "page"}
  PROVE  FrameOK(a, f)
BY DEF FrameOK

LEMMA DisplayStep ==
  ASSUME NEW a, NEW s, NEW D, Sound(a, s, D), Room(s), NEW e, NEW E,
         D \subseteq E \cup {e.m}
  PROVE  LET r == Display(a, s, e)
         IN Sound(r.account, r.stack, E) /\ Fits(r.stack)
<1> DEFINE b == [a EXCEPT !.shown = @ \cup {[m |-> e.m, part |-> e.part,
                                             version |-> e.version, late |-> e.late]},
                          !.last = e]
           f == [Frame("display") EXCEPT !.ms = {e.m}]
           t == <<f>> \o s
<1>1. AccountFields \subseteq DOMAIN a
  BY DEF Sound, AccountOK
<1>2. /\ AccountFields \subseteq DOMAIN b /\ b.msg = a.msg
      /\ b.entries = a.entries /\ b.exists = a.exists /\ b.ready = a.ready
      /\ b.client = a.client /\ HistorySame(a, b) /\ WorkSame(a, b)
      /\ b.replies = a.replies /\ b.deleted = a.deleted /\ b.overtaken = a.overtaken
      /\ b.shown = a.shown \cup {[m |-> e.m, part |-> e.part,
                                  version |-> e.version, late |-> e.late]}
  BY <1>1 DEF AccountFields, HistorySame, WorkSame
<1>3. Display(a, s, e) = [account |-> b, stack |-> t]
  BY DEF Display, At
<1> HIDE DEF b
<1>4. Alike(a, b) /\ WorkFits(a, b) /\ DoneKept(a, b)
  <2>1. WorkFits(a, b)
    BY <1>2, SameWorkFits DEF Sound
  <2> QED
    BY <1>2, <2>1 DEF Alike, DoneKept, SameContent, Sound, AccountOK
<1>5. Sound(b, s, D)
  BY <1>4, Minor
<1>6. Shown(b, e.m)
  <2> DEFINE w == [m |-> e.m, part |-> e.part, version |-> e.version, late |-> e.late]
  <2>1. w.m = e.m
    OBVIOUS
  <2>2. w \in b.shown
    BY <1>2
  <2> HIDE DEF w
  <2> QED
    BY <2>1, <2>2 DEF Shown
<1>7. Sound(b, s, E)
  BY <1>5, <1>6 DEF Sound, OwedOK
<1>8. Sound(b, t, E) /\ Fits(t)
  <2>1. FrameOK(b, f) /\ f.kind = "display"
    BY PlainFrame DEF Frame
  <2> HIDE DEF f
  <2> QED
    BY <1>7, <2>1, SoundPush, PushRoom DEF Sound
<1> QED
  BY <1>3, <1>8

LEMMA DisplayPlain ==
  ASSUME NEW a, NEW s, Sound(a, s, {}), Room(s), NEW e
  PROVE  LET r == Display(a, s, e)
         IN Sound(r.account, r.stack, {}) /\ Fits(r.stack)
<1> DEFINE D == {}
           r == Display(a, s, e)
<1>1. Sound(a, s, D) /\ D \subseteq D \cup {e.m}
  OBVIOUS
<1> HIDE DEF D
<1>2. Sound(r.account, r.stack, D) /\ Fits(r.stack)
  BY <1>1, DisplayStep
<1> QED
  BY <1>2 DEF D

LEMMA NotifyStep ==
  ASSUME NEW a, NEW s, NEW D, Sound(a, s, D), Room(s)
  PROVE  LET r == Notify(a, s)
         IN r.account = a /\ Sound(r.account, r.stack, D) /\ Fits(r.stack)
<1>1. FrameOK(a, Frame("display"))
  BY PlainFrame DEF Frame
<1> QED
  BY <1>1, SoundPush, PushRoom DEF Notify, At, Sound, Frame

LEMMA StartDownloadStep ==
  ASSUME NEW a, NEW s, NEW D, Sound(a, s, D), NEW h, Knows(a, h), NEW reply
  PROVE  LET b == StartDownload(a, h, reply)
         IN Sound(b, s, D) /\ b.msg = a.msg /\ b.client = a.client
<1> DEFINE d == [id |-> FreshId(a.downloads), h |-> h, timer |-> TRUE, reply |-> reply,
                 version |-> a.msg[h.m].version]
           b == StartDownload(a, h, reply)
<1>1. AccountFields \subseteq DOMAIN a /\ WorkOK(a)
  BY DEF Sound, AccountOK
<1>2. "h" \in DOMAIN d /\ d.h = h
  OBVIOUS
<1>3. b = [a EXCEPT !.downloads = @ \cup {d}]
  BY DEF StartDownload
<1> HIDE DEF d, b
<1>4. /\ AccountFields \subseteq DOMAIN b /\ b.msg = a.msg
      /\ b.entries = a.entries /\ b.exists = a.exists /\ b.ready = a.ready
      /\ b.client = a.client /\ HistorySame(a, b) /\ b.replies = a.replies
      /\ DoneKept(a, b) /\ b.downloads = a.downloads \cup {d}
      /\ b.conversions = a.conversions /\ b.dialogs = a.dialogs
  BY <1>1, <1>3 DEF AccountFields, HistorySame, DoneKept
<1>5. WorkFits(a, b)
  BY <1>1, <1>2, <1>4 DEF WorkFits, WorkOK, Work
<1>6. Alike(a, b)
  BY <1>4 DEF Alike, SameContent, Sound, AccountOK
<1> QED
  BY <1>4, <1>5, <1>6, Minor DEF b

LEMMA StartConversionStep ==
  ASSUME NEW a, NEW s, NEW D, Sound(a, s, D), NEW h, Knows(a, h), Sticky(a, h),
         NEW reply, NEW version
  PROVE  LET b == StartConversion(a, h, reply, version)
         IN Sound(b, s, D) /\ b.msg = a.msg /\ b.client = a.client
<1> DEFINE d == [id |-> FreshId(a.conversions), h |-> h, reply |-> reply,
                 version |-> version]
           b == StartConversion(a, h, reply, version)
<1>1. AccountFields \subseteq DOMAIN a /\ WorkOK(a)
  BY DEF Sound, AccountOK
<1>2. d.h = h
  OBVIOUS
<1>3. b = [a EXCEPT !.conversions = @ \cup {d}]
  BY DEF StartConversion
<1> HIDE DEF d, b
<1>4. /\ AccountFields \subseteq DOMAIN b /\ b.msg = a.msg
      /\ b.entries = a.entries /\ b.exists = a.exists /\ b.ready = a.ready
      /\ b.client = a.client /\ HistorySame(a, b) /\ b.replies = a.replies
      /\ DoneKept(a, b) /\ b.conversions = a.conversions \cup {d}
      /\ b.downloads = a.downloads /\ b.dialogs = a.dialogs
  BY <1>1, <1>3 DEF AccountFields, HistorySame, DoneKept
<1>5. WorkFits(a, b)
  BY <1>1, <1>2, <1>4 DEF WorkFits, WorkOK, Work
<1>6. Alike(a, b)
  BY <1>4 DEF Alike, SameContent, Sound, AccountOK
<1> QED
  BY <1>4, <1>5, <1>6, Minor DEF b

LEMMA AskOrDownloadStep ==
  ASSUME NEW a, NEW s, NEW D, Sound(a, s, D), NEW h, Knows(a, h)
  PROVE  Sound(AskOrDownload(a, h), s, D)
<1> DEFINE d == [h |-> h, reply |-> a.msg[h.m].reply]
           b == [a EXCEPT !.dialogs = @ \cup {d}]
<1>1. AccountFields \subseteq DOMAIN a /\ WorkOK(a)
  BY DEF Sound, AccountOK
<1>2. d.h = h
  OBVIOUS
<1>3. \/ AskOrDownload(a, h) = b
      \/ AskOrDownload(a, h) = a
      \/ AskOrDownload(a, h) = StartDownload(a, h, a.msg[h.m].reply)
  BY DEF AskOrDownload
<1> HIDE DEF d
<1>4. /\ AccountFields \subseteq DOMAIN b /\ b.msg = a.msg
      /\ b.entries = a.entries /\ b.exists = a.exists /\ b.ready = a.ready
      /\ b.client = a.client /\ HistorySame(a, b) /\ b.replies = a.replies
      /\ DoneKept(a, b) /\ b.dialogs = a.dialogs \cup {d}
      /\ b.downloads = a.downloads /\ b.conversions = a.conversions
  BY <1>1 DEF AccountFields, HistorySame, DoneKept
<1> HIDE DEF b
<1>5. WorkFits(a, b)
  BY <1>1, <1>2, <1>4 DEF WorkFits, WorkOK, Work
<1>6. Alike(a, b)
  BY <1>4 DEF Alike, SameContent, Sound, AccountOK
<1>7. Sound(b, s, D)
  BY <1>5, <1>6, <1>4, Minor
<1>8. Sound(StartDownload(a, h, a.msg[h.m].reply), s, D)
  BY StartDownloadStep
<1> QED
  BY <1>3, <1>7, <1>8

\* fetchReplyExtra and fetchContentExtra
LEMMA FetchReplyStep ==
  ASSUME NEW a, NEW s, NEW D, Sound(a, s, D), NEW m \in Messages
  PROVE  LET b == FetchReply(a, m)
         IN Sound(b, s, D) /\ b.msg = a.msg /\ b.client = a.client
<1> DEFINE h == MessageHandle(a, m)
           b == [a EXCEPT !.replies = @ \cup {h}]
<1>1. AccountFields \subseteq DOMAIN a /\ WorkOK(a) /\ \A g \in a.replies : g.m \in Messages
  BY DEF Sound, AccountOK
<1>2. h.m = m
  BY DEF MessageHandle
<1>3. FetchReply(a, m) = b \/ FetchReply(a, m) = a
  BY DEF FetchReply
<1> HIDE DEF h
<1>4. /\ AccountFields \subseteq DOMAIN b /\ b.msg = a.msg
      /\ b.entries = a.entries /\ b.exists = a.exists /\ b.ready = a.ready
      /\ b.client = a.client /\ HistorySame(a, b) /\ WorkSame(a, b)
      /\ DoneKept(a, b) /\ b.replies = a.replies \cup {h}
  BY <1>1 DEF AccountFields, HistorySame, DoneKept, WorkSame
<1> HIDE DEF b
<1>5. WorkFits(a, b)
  BY <1>1, <1>4, SameWorkFits
<1>6. Alike(a, b)
  BY <1>1, <1>2, <1>4 DEF Alike, SameContent, Sound, AccountOK
<1>7. Sound(b, s, D)
  BY <1>4, <1>5, <1>6, Minor
<1> QED
  BY <1>3, <1>4, <1>7

LEMMA ContentHandleKnown ==
  ASSUME NEW a, AccountOK(a), NEW m \in Messages, a.msg[m].disp # "absent"
  PROVE  Knows(a, ContentHandle(a, m)) /\ Names(a.msg[m], m, ContentHandle(a, m))
<1> DEFINE h == ContentHandle(a, m)
<1>1. h.m = m /\ h.inc = a.msg[m].inc /\ h.rev = a.msg[m].rev
  BY DEF ContentHandle
<1>2. a.msg[m].inc \in Nat /\ a.msg[m].rev \in Nat
  <2>1. 1 .. 2 \subseteq Nat
    OBVIOUS
  <2> QED
    BY <2>1 DEF AccountOK, MessageOK
<1> HIDE DEF h
<1> QED
  BY <1>1, <1>2 DEF Knows, Names, h

LEMMA FetchContentStep ==
  ASSUME NEW a, NEW s, NEW D, Sound(a, s, D), NEW m \in Messages,
         a.msg[m].disp # "absent"
  PROVE  Sound(FetchContent(a, m), s, D)
<1> DEFINE h == ContentHandle(a, m)
<1>1. Knows(a, h) /\ h.m = m
  BY ContentHandleKnown DEF Sound, Names
<1>2. CASE a.msg[m].kind = "localSticker"
  <2>1. Sticky(a, h)
    BY <1>1, <1>2 DEF Sticky, IsSticker
  <2>2. FetchContent(a, m) = StartConversion(a, h, FALSE, a.msg[m].version)
    BY <1>2 DEF FetchContent
  <2> HIDE DEF h
  <2>3. Sound(StartConversion(a, h, FALSE, a.msg[m].version), s, D)
    BY <1>1, <2>1, StartConversionStep
  <2> QED
    BY <2>2, <2>3
<1>3. CASE a.msg[m].kind \in {"file", "sticker"}
  <2>1. FetchContent(a, m) = StartDownload(a, h, FALSE)
    BY <1>3 DEF FetchContent
  <2> HIDE DEF h
  <2>3. Sound(StartDownload(a, h, FALSE), s, D)
    BY <1>1, StartDownloadStep
  <2> QED
    BY <2>1, <2>3
<1>4. CASE a.msg[m].kind \notin {"localSticker", "file", "sticker"}
  BY <1>4 DEF FetchContent
<1> QED
  BY <1>2, <1>3, <1>4

-----------------------------------------------------------------------------
(* showDownloadedSticker, showFileInline, showMessage, showMessages *)

LEMMA RoomFits ==
  ASSUME NEW s, IsStack(s), Room(s)
  PROVE  Fits(s)
<1>1. MaxDepth \in Nat /\ DisplaysOf(s) \in Nat
  BY BoundsAssumption, DisplaysType
<1> QED
  BY <1>1 DEF Room, Fits

LEMMA ShowStickerStep ==
  ASSUME NEW a, NEW s, NEW D, Sound(a, s, D), Room(s), NEW h, Knows(a, h), Sticky(a, h),
         NEW version, NEW late, NEW reply
  PROVE  LET r == ShowSticker(a, s, h, version, late, reply)
         IN Sound(r.account, r.stack, D) /\ Fits(r.stack)
<1> DEFINE f == [Frame("convert") EXCEPT !.h = h, !.reply = reply, !.version = version]
           t == <<f>> \o s
           e == Event(h.m, "notice", version, late, reply)
<1>1. FrameOK(a, f) /\ f.kind = "convert"
  BY DEF Frame, FrameOK
<1>2. ShowSticker(a, s, h, version, late, reply) = Display(a, t, e)
  BY DEF ShowSticker
<1> HIDE DEF f, e
<1>3. Sound(a, t, D) /\ Room(t)
  BY <1>1, SoundPush, PushRoom DEF Sound
<1> HIDE DEF t
<1>4. LET r == Display(a, t, e) IN Sound(r.account, r.stack, D) /\ Fits(r.stack)
  BY <1>3, DisplayStep
<1> QED
  BY <1>2, <1>4

LEMMA ShowFileStep ==
  ASSUME NEW a, NEW s, NEW D, Sound(a, s, D), Room(s), NEW h, Knows(a, h)
  PROVE  LET r == ShowFile(a, s, h)
         IN /\ Sound(r.account, r.stack, D) /\ Fits(r.stack)
            /\ ~IsSticker(a.msg[h.m].kind) /\ a.msg[h.m].complete =>
                 Sound(r.account, r.stack, D \ {h.m})
<1> DEFINE x == a.msg[h.m]
           show(part) == Display(a, s, Event(h.m, part, x.file, FALSE, x.reply))
           r == ShowFile(a, s, h)
<1>1. IsStack(s) /\ Fits(s) /\ (x.converted => IsSticker(x.kind))
  BY RoomFits DEF Sound, Knows, AccountOK, MessageOK
<1>2. \A part : /\ Sound(show(part).account, show(part).stack, D)
                /\ Sound(show(part).account, show(part).stack, D \ {h.m})
                /\ Fits(show(part).stack)
  <2> TAKE part
  <2> DEFINE e == Event(h.m, part, x.file, FALSE, x.reply)
  <2>1. e.m = h.m
    BY DEF Event
  <2> HIDE DEF e
  <2>2. \A E : D \subseteq E \cup {e.m} =>
          LET d == Display(a, s, e) IN Sound(d.account, d.stack, E) /\ Fits(d.stack)
    BY DisplayStep
  <2>3. D \subseteq D \cup {e.m} /\ D \subseteq (D \ {h.m}) \cup {e.m}
    BY <2>1
  <2> QED
    BY <2>2, <2>3 DEF e
<1> HIDE DEF show
<1>3. CASE x.converted
  <2>1. r = IF x.success THEN show("image") ELSE At(a, s)
    BY <1>3 DEF ShowFile, show
  <2> QED
    BY <1>1, <1>2, <1>3, <2>1 DEF At
<1>4. CASE ~x.converted /\ x.complete /\ ~IsSticker(x.kind)
  <2>1. r = show("file")
    BY <1>4 DEF ShowFile, show
  <2> QED
    BY <1>2, <2>1
<1>5. CASE ~x.converted /\ x.complete /\ IsSticker(x.kind)
  <2>1. r = ShowSticker(a, s, h, x.file, FALSE, x.reply) \/ r = At(a, s)
    BY <1>5 DEF ShowFile
  <2>2. Sticky(a, h)
    BY <1>5 DEF Sticky
  <2>3. LET q == ShowSticker(a, s, h, x.file, FALSE, x.reply)
        IN Sound(q.account, q.stack, D) /\ Fits(q.stack)
    BY <2>2, ShowStickerStep
  <2>4. At(a, s).account = a /\ At(a, s).stack = s
    BY DEF At
  <2> HIDE DEF r
  <2>5. Sound(r.account, r.stack, D) /\ Fits(r.stack)
    BY <1>1, <2>1, <2>3, <2>4
  <2> QED
    BY <1>5, <2>5 DEF r
<1>6. CASE ~x.converted /\ ~x.complete
  <2>1. r = At(AskOrDownload(a, h), s) \/ r = At(a, s)
    BY <1>6 DEF ShowFile
  <2>2. Sound(AskOrDownload(a, h), s, D)
    BY AskOrDownloadStep
  <2> QED
    BY <1>1, <1>6, <2>1, <2>2 DEF At
<1> QED
  BY <1>3, <1>4, <1>5, <1>6

LEMMA StickerIsNotOwed ==
  ASSUME NEW a, NEW s, NEW m, Sound(a, s, {m}), ~Owed(a.msg[m])
  PROVE  Sound(a, s, {})
BY DEF Sound, OwedOK

LEMMA ShowMessageStep ==
  ASSUME NEW a, NEW s, NEW h, Sound(a, s, {h.m}), Room(s), Knows(a, h)
  PROVE  LET r == ShowMessage(a, s, h)
         IN Sound(r.account, r.stack, {}) /\ Fits(r.stack)
<1> DEFINE x == a.msg[h.m]
           r == ShowMessage(a, s, h)
<1>1. CASE x.kind = "text"
  <2> DEFINE e == Event(h.m, "text", x.version, FALSE, x.reply)
  <2>1. r = Display(a, s, e) /\ e.m = h.m
    BY <1>1 DEF ShowMessage, Event
  <2> HIDE DEF e
  <2>2. {h.m} \subseteq {} \cup {e.m}
    BY <2>1
  <2>3. LET q == Display(a, s, e) IN Sound(q.account, q.stack, {}) /\ Fits(q.stack)
    BY <2>2, DisplayStep
  <2> QED
    BY <2>1, <2>3
<1>2. CASE x.kind # "text" /\ IsSticker(x.kind)
  <2>1. r = ShowFile(a, s, h)
    BY <1>2 DEF ShowMessage
  <2>2. Sound(a, s, {})
    BY <1>2, StickerIsNotOwed DEF Owed
  <2> QED
    BY <2>1, <2>2, ShowFileStep
<1>3. CASE x.kind # "text" /\ ~IsSticker(x.kind) /\ x.complete
  <2>1. r = ShowFile(a, s, h)
    BY <1>3 DEF ShowMessage
  <2>2. {h.m} \ {h.m} = {}
    OBVIOUS
  <2>3. LET q == ShowFile(a, s, h)
        IN Sound(q.account, q.stack, {h.m} \ {h.m}) /\ Fits(q.stack)
    BY <1>3, ShowFileStep
  <2> QED
    BY <2>1, <2>2, <2>3
<1>4. CASE x.kind # "text" /\ ~IsSticker(x.kind) /\ ~x.complete
  <2> DEFINE e == Event(h.m, "notice", x.version, FALSE, x.reply)
             f == [Frame("file") EXCEPT !.h = h]
             t == <<f>> \o s
  <2>1. r = Display(a, t, e) /\ e.m = h.m
    BY <1>4 DEF ShowMessage, Event
  <2>2. FrameOK(a, f) /\ f.kind = "file"
    BY DEF Frame, FrameOK
  <2> HIDE DEF e, f
  <2>3. Sound(a, t, {h.m}) /\ Room(t)
    BY <2>2, SoundPush, PushRoom DEF Sound
  <2> HIDE DEF t
  <2>4. {h.m} \subseteq {} \cup {e.m}
    BY <2>1
  <2>5. LET q == Display(a, t, e) IN Sound(q.account, q.stack, {}) /\ Fits(q.stack)
    BY <2>3, <2>4, DisplayStep
  <2> QED
    BY <2>1, <2>5
<1> QED
  BY <1>1, <1>2, <1>3, <1>4

\* showMessages: those excused are in the batch, and are displayed with it.
LEMMA ShowMessagesStep ==
  ASSUME NEW a, NEW s, NEW D, Sound(a, s, D), Room(s),
         NEW S, NEW batch \in Seq(S), \A j \in DOMAIN batch : Knows(a, batch[j]),
         \A m \in D : Owed(a.msg[m]) => \E j \in DOMAIN batch : Names(a.msg[m], m, batch[j])
  PROVE  LET r == ShowMessages(a, s, batch)
         IN r.account = a /\ Sound(a, r.stack, {}) /\ Room(r.stack)
<1>1. CASE batch = <<>>
  <2>1. ShowMessages(a, s, batch) = At(a, s)
    BY <1>1 DEF ShowMessages
  <2>2. DOMAIN batch = {}
    BY <1>1
  <2>3. \A m \in D : ~Owed(a.msg[m])
    BY <2>2
  <2>4. Sound(a, s, {})
    BY <2>3 DEF Sound, OwedOK
  <2> QED
    BY <2>1, <2>4 DEF At
<1>2. CASE batch # <<>>
  <2> DEFINE f == [Frame("batch") EXCEPT !.rest = batch]
             t == <<f>> \o s
  <2>1. ShowMessages(a, s, batch) = At(a, t)
    BY <1>2 DEF ShowMessages
  <2>2. f.kind = "batch" /\ f.rest = batch /\ {"kind", "h", "rest", "more"} \subseteq DOMAIN f
    BY DEF Frame
  <2> HIDE DEF f
  <2>3. FrameOK(a, f)
    BY <1>2, <2>2 DEF FrameOK
  <2>4. Sound(a, t, D) /\ Room(t)
    BY <2>2, <2>3, SoundPush, PushRoom DEF Sound
  <2>5. \A m \in D : Owed(a.msg[m]) => Awaits(t, a.msg[m], m)
    <3>1. \A m \in D : Owed(a.msg[m]) => Lists(f, a.msg[m], m)
      BY <2>2 DEF Lists
    <3>2. \A y, m : Lists(f, y, m) => Awaits(t, y, m)
      BY Push DEF Sound
    <3> QED
      BY <3>1, <3>2
  <2> HIDE DEF t
  <2>6. Sound(a, t, {})
    BY <2>4, <2>5 DEF Sound, OwedOK
  <2> QED
    BY <2>1, <2>4, <2>6 DEF At
<1> QED
  BY <1>1, <1>2

-----------------------------------------------------------------------------
(* The queue *)

LEMMA MinIs ==
  ASSUME NEW T \in SUBSET Nat, T # {}
  PROVE  Min(T) \in T /\ \A k \in T : Min(T) <= k
<1>1. \E m \in T : \A k \in T : m <= k
  BY LeastNat
<1> QED
  BY <1>1 DEF Min

LEMMA ReadyPrefixIs ==
  ASSUME NEW a, AccountOK(a)
  PROVE  /\ ReadyPrefix(a) \in Seq(Messages)
         /\ ToSet(ReadyPrefix(a)) \subseteq ToSet(a.entries)
<1> DEFINE e == a.entries
           blocked == {i \in DOMAIN e : ~a.msg[e[i]].ready}
<1>1. e \in Seq(Messages) /\ Len(e) \in Nat /\ DOMAIN e = 1 .. Len(e)
  BY LenProperties DEF AccountOK
<1>2. CASE blocked = {}
  BY <1>1, <1>2 DEF ReadyPrefix
<1>3. CASE blocked # {}
  <2> DEFINE n == Min(blocked) - 1
             b == SubSeq(e, 1, n)
  <2>4. ReadyPrefix(a) = b
    BY <1>3 DEF ReadyPrefix
  <2>1. blocked \subseteq 1 .. Len(e)
    BY <1>1
  <2> HIDE DEF blocked, e
  <2>2. Min(blocked) \in 1 .. Len(e)
    <3>1. blocked \in SUBSET Nat
      BY <1>1, <2>1
    <3> QED
      BY <1>3, <2>1, <3>1, MinIs
  <2>3. n \in 0 .. Len(e)
    BY <1>1, <2>2
  <2> HIDE DEF n
  <2>5. b \in Seq(Messages) /\ Len(b) = n /\ \A i \in 1 .. n : b[i] = e[i]
    BY <1>1, <2>3, SMTT(30)
  <2> HIDE DEF b
  <2>6. ToSet(b) = {b[i] : i \in 1 .. n} /\ ToSet(e) = {e[i] : i \in 1 .. Len(e)}
    BY <1>1, <2>5, SetOf
  <2>7. 1 .. n \subseteq 1 .. Len(e)
    BY <1>1, <2>3
  <2>8. ToSet(b) \subseteq ToSet(e)
    BY <2>5, <2>6, <2>7
  <2> QED
    BY <2>4, <2>5, <2>8 DEF e
<1> QED
  BY <1>2, <1>3

\* A message whose disposition alone is changed.
LEMMA Disposed ==
  ASSUME NEW x, MessageOK(x), NEW d \in Dispositions
  PROVE  LET y == [x EXCEPT !.disp = d]
         IN /\ MessageOK(y) /\ y.disp = d /\ y.inc = x.inc /\ y.rev = x.rev
            /\ y.kind = x.kind /\ y.converted = x.converted
BY DEF MessageOK, MessageFields

LEMMA ExtractStep ==
  ASSUME NEW a, NEW s, Sound(a, s, {}), Room(s)
  PROVE  LET r == Extract(a, s)
         IN Sound(r.account, r.stack, {}) /\ Room(r.stack)
<1> DEFINE q == ReadyPrefix(a)
           G == ToSet(q)
           left == Kept(a.entries, G)
           msgs == [m \in Messages |->
             IF m \in G THEN [a.msg[m] EXCEPT !.disp = "released"] ELSE a.msg[m]]
           b == [a EXCEPT !.msg = msgs, !.entries = left, !.exists = left # <<>> \/ ~a.ready]
           handles == [i \in DOMAIN q |-> ContentHandle(a, q[i])]
<1>1. /\ AccountOK(a) /\ QueueOK(a) /\ WorkOK(a) /\ AccountFields \subseteq DOMAIN a
      /\ a.entries \in Seq(Messages)
  BY DEF Sound, AccountOK
<1>2. q \in Seq(Messages) /\ G \subseteq ToSet(a.entries)
  BY <1>1, ReadyPrefixIs
<1>3. left \in Seq(Messages) /\ ToSet(left) = ToSet(a.entries) \ G
  BY <1>1, KeptProperties
<1>4. Extract(a, s) = ShowMessages(b, s, handles)
  BY DEF Extract
<1>5. /\ AccountFields \subseteq DOMAIN b /\ b.msg = msgs /\ b.entries = left
      /\ b.exists = (left # <<>> \/ ~a.ready) /\ b.ready = a.ready
      /\ b.client = a.client /\ HistorySame(a, b) /\ WorkSame(a, b)
      /\ b.replies = a.replies /\ DoneKept(a, b)
  BY <1>1 DEF AccountFields, HistorySame, WorkSame, DoneKept
<1>6. \A m \in Messages : m \in G => a.msg[m].disp = "queued"
  BY <1>1, <1>2 DEF QueueOK
<1>7. \A m \in Messages :
        /\ MessageOK(b.msg[m]) /\ b.msg[m].inc = a.msg[m].inc
        /\ b.msg[m].rev = a.msg[m].rev /\ b.msg[m].kind = a.msg[m].kind
        /\ m \in G => b.msg[m].disp = "released"
        /\ m \notin G => b.msg[m].disp = a.msg[m].disp
  <2> TAKE m \in Messages
  <2>1. MessageOK(a.msg[m])
    BY <1>1 DEF AccountOK
  <2>2. b.msg[m] = IF m \in G THEN [a.msg[m] EXCEPT !.disp = "released"] ELSE a.msg[m]
    BY <1>5
  <2> HIDE DEF b, G
  <2>3. "released" \in Dispositions
    BY DEF Dispositions
  <2> QED
    BY <2>1, <2>2, <2>3, Disposed
<1>8. DOMAIN b.msg = Messages
  BY <1>5
<1> HIDE DEF q, G, left, msgs, b
<1>9. AccountOK(b)
  BY <1>1, <1>3, <1>5, <1>7, <1>8 DEF AccountOK, HistorySame
<1>10. QueueOK(b)
  <2>1. ToSet(b.entries) = {m \in Messages : b.msg[m].disp = "queued"}
    BY <1>1, <1>3, <1>5, <1>7 DEF QueueOK
  <2>2. b.exists \/ (b.entries = <<>> /\ b.ready)
    BY <1>5
  <2> QED
    BY <2>1, <2>2 DEF QueueOK
<1>11. Advance(a, b) /\ NobodyCame(a, b)
  BY <1>6, <1>7 DEF Advance, Later, NobodyCame
<1>12. WorkFits(a, b)
  BY <1>1, <1>5, SameWorkFits
<1>13. Sound(b, s, G)
  <2>1. \A m \in Messages : m \notin G /\ m \notin b.deleted /\ Owed(b.msg[m]) =>
          m \notin {} /\ SameContent(a.msg[m], b.msg[m])
    BY <1>7 DEF SameContent
  <2> QED
    BY <1>5, <1>9, <1>10, <1>11, <1>12, <2>1, Update
<1>14. handles \in Seq({ContentHandle(a, m) : m \in Messages})
  <2>1. Len(q) \in Nat /\ DOMAIN q = 1 .. Len(q) /\ \A i \in 1 .. Len(q) : q[i] \in Messages
    BY <1>2, LenProperties
  <2>2. \A i \in 1 .. Len(q) : ContentHandle(a, q[i]) \in {ContentHandle(a, m) : m \in Messages}
    BY <2>1
  <2>3. handles = [i \in 1 .. Len(q) |-> ContentHandle(a, q[i])]
    BY <2>1
  <2> QED
    BY <2>1, <2>2, <2>3, IsASeq
<1>15. \A j \in DOMAIN handles :
         q[j] \in G /\ q[j] \in Messages /\ handles[j] = ContentHandle(a, q[j])
  BY <1>2, LenProperties DEF ToSet, G
<1>16. \A m \in Messages : m \in G =>
         /\ Knows(b, ContentHandle(a, m)) /\ Names(b.msg[m], m, ContentHandle(a, m))
  <2> TAKE m \in Messages
  <2>1. m \in G => b.msg[m].disp # "absent"
    BY <1>7
  <2>2. ContentHandle(a, m) = ContentHandle(b, m)
    BY <1>7 DEF ContentHandle
  <2> QED
    BY <1>9, <2>1, <2>2, ContentHandleKnown
<1>17. \A j \in DOMAIN handles : Knows(b, handles[j])
  BY <1>15, <1>16
<1>18. \A m \in G : Owed(b.msg[m]) => \E j \in DOMAIN handles : Names(b.msg[m], m, handles[j])
  <2> TAKE m \in G
  <2>1. PICK j \in DOMAIN q : q[j] = m
    BY DEF G, ToSet
  <2>2. j \in DOMAIN handles /\ handles[j] = ContentHandle(a, m) /\ m \in Messages
    BY <1>15, <2>1
  <2> QED
    BY <1>16, <2>2
<1> HIDE DEF handles
<1>19. LET r == ShowMessages(b, s, handles)
       IN r.account = b /\ Sound(b, r.stack, {}) /\ Room(r.stack)
  BY <1>13, <1>14, <1>17, <1>18, ShowMessagesStep
<1> QED
  BY <1>4, <1>19

\* One message is changed, not its content.
LEMMA Touch ==
  ASSUME NEW a, NEW s, NEW D, Sound(a, s, D), NEW m \in Messages,
         NEW y, MessageOK(y), SameContent(a.msg[m], y)
  PROVE  LET b == [a EXCEPT !.msg[m] = y]
         IN /\ Sound(b, s, D) /\ Advance(a, b) /\ b.msg[m] = y
            /\ WorkSame(a, b) /\ b.client = a.client
            /\ \A k \in Messages : k # m => b.msg[k] = a.msg[k]
<1> DEFINE b == [a EXCEPT !.msg[m] = y]
<1>1. AccountFields \subseteq DOMAIN a /\ DOMAIN a.msg = Messages
  BY DEF Sound, AccountOK
<1>2. /\ AccountFields \subseteq DOMAIN b /\ DOMAIN b.msg = Messages /\ b.msg[m] = y
      /\ \A k \in Messages : k # m => b.msg[k] = a.msg[k]
      /\ b.entries = a.entries /\ b.exists = a.exists /\ b.ready = a.ready
      /\ b.client = a.client /\ HistorySame(a, b) /\ WorkSame(a, b)
      /\ b.replies = a.replies /\ DoneKept(a, b)
  BY <1>1 DEF AccountFields, HistorySame, WorkSame, DoneKept
<1> HIDE DEF b
<1>3. WorkFits(a, b)
  BY <1>2, SameWorkFits DEF Sound
<1>4. \A k \in Messages : MessageOK(b.msg[k]) /\ SameContent(a.msg[k], b.msg[k])
  <2>1. \A k \in Messages : MessageOK(a.msg[k]) /\ SameContent(a.msg[k], a.msg[k])
    BY DEF Sound, AccountOK, SameContent
  <2> QED
    BY <1>2, <2>1
<1>5. Alike(a, b)
  BY <1>2, <1>4 DEF Alike, Sound, AccountOK
<1>6. Sound(b, s, D) /\ Advance(a, b)
  BY <1>2, <1>3, <1>5, Minor
<1> QED
  BY <1>2, <1>6 DEF b

LEMMA SetMessageReadyStep ==
  ASSUME NEW a, NEW s, Sound(a, s, {}), Room(s), NEW m \in Messages
  PROVE  LET r == SetMessageReady(a, s, m)
         IN Sound(r.account, r.stack, {}) /\ Room(r.stack)
<1> DEFINE y == [a.msg[m] EXCEPT !.ready = TRUE]
           b == [a EXCEPT !.msg[m] = y]
           r == SetMessageReady(a, s, m)
<1>1. MessageOK(a.msg[m])
  BY DEF Sound, AccountOK
<1>2. MessageOK(y) /\ SameContent(a.msg[m], y)
  BY <1>1 DEF MessageOK, MessageFields, SameContent
<1>3. r = Extract(b, s) \/ r = At(b, s)
  BY DEF SetMessageReady
<1> HIDE DEF y
<1>4. Sound(b, s, {})
  BY <1>2, Touch
<1> HIDE DEF b, r
<1>5. LET q == Extract(b, s) IN Sound(q.account, q.stack, {}) /\ Room(q.stack)
  BY <1>4, ExtractStep
<1> QED
  BY <1>3, <1>4, <1>5 DEF At, r

LEMMA CheckMessageReadyStep ==
  ASSUME NEW a, NEW s, Sound(a, s, {}), Room(s), NEW m \in Messages
  PROVE  LET r == CheckMessageReady(a, s, m)
         IN Sound(r.account, r.stack, {}) /\ Room(r.stack)
<1>1. \/ CheckMessageReady(a, s, m) = SetMessageReady(a, s, m)
      \/ CheckMessageReady(a, s, m) = At(a, s)
  BY DEF CheckMessageReady
<1>2. LET r == SetMessageReady(a, s, m) IN Sound(r.account, r.stack, {}) /\ Room(r.stack)
  BY SetMessageReadyStep
<1> QED
  BY <1>1, <1>2 DEF At

-----------------------------------------------------------------------------
(* handleIncomingMessage *)

\* A message comes: history has not brought it yet, nor will a page.
Comes(a, s, m) ==
  /\ m \in Messages /\ a.msg[m].disp = "absent" /\ a.older < m /\ m < a.newer
  /\ \A i \in DOMAIN s : s[i].kind = "page" => a.older + Len(s[i].rest) < m

\* It has come, to the queue or past it.
Came(a, b, m) ==
  /\ AccountFields \subseteq DOMAIN b /\ DOMAIN b.msg = Messages
  /\ \A k \in Messages : k # m => b.msg[k] = a.msg[k]
  /\ MessageOK(b.msg[m]) /\ b.msg[m].inc = 1
  /\ \/ /\ b.msg[m].disp = "queued" /\ b.exists
        /\ b.entries \in Seq(Messages) /\ ToSet(b.entries) = ToSet(a.entries) \cup {m}
     \/ b.msg[m].disp = "released" /\ (b.exists <=> a.exists) /\ b.entries = a.entries
  /\ b.ready = a.ready /\ b.client = a.client /\ b.replies = a.replies
  /\ HistorySame(a, b) /\ WorkSame(a, b) /\ DoneKept(a, b)

LEMMA Arrive ==
  ASSUME NEW a, NEW s, Sound(a, s, {}), NEW m, Comes(a, s, m), NEW b, Came(a, b, m)
  PROVE  Sound(b, s, {m}) /\ (b.msg[m].disp = "queued" => Sound(b, s, {}))
<1>1. AccountOK(a) /\ QueueOK(a) /\ HistoryOK(a, s) /\ m \in Messages
  BY DEF Sound, Comes
<1>3. /\ DOMAIN b.msg = Messages /\ AccountFields \subseteq DOMAIN b
      /\ \A k \in Messages : k # m => b.msg[k] = a.msg[k]
      /\ MessageOK(b.msg[m]) /\ b.msg[m].inc = 1
      /\ b.ready = a.ready /\ b.client = a.client /\ b.replies = a.replies
      /\ HistorySame(a, b) /\ WorkSame(a, b) /\ DoneKept(a, b)
  BY DEF Came
<1>2. \/ /\ b.msg[m].disp = "queued" /\ b.exists
         /\ b.entries \in Seq(Messages) /\ ToSet(b.entries) = ToSet(a.entries) \cup {m}
      \/ b.msg[m].disp = "released" /\ (b.exists <=> a.exists) /\ b.entries = a.entries
  BY DEF Came
<1>4. AccountOK(b)
  BY <1>1, <1>2, <1>3 DEF AccountOK, HistorySame
<1>5. QueueOK(b)
  <2>1. \A k \in Messages : k # m => (b.msg[k].disp = "queued" <=> k \in ToSet(a.entries))
    BY <1>1, <1>3 DEF QueueOK
  <2>2. m \notin ToSet(a.entries) /\ ToSet(a.entries) \subseteq Messages
    BY <1>1 DEF QueueOK, Comes
  <2>3. ToSet(b.entries) = {k \in Messages : b.msg[k].disp = "queued"}
    BY <1>1, <1>2, <1>3, <2>1, <2>2
  <2>4. b.exists \/ (b.entries = <<>> /\ b.ready)
    BY <1>1, <1>2, <1>3 DEF QueueOK
  <2> QED
    BY <2>3, <2>4 DEF QueueOK
<1>6. Advance(a, b)
  <2> SUFFICES ASSUME NEW k \in Messages PROVE Later(a.msg[k], b.msg[k])
    BY DEF Advance
  <2>1. CASE k = m
    BY <2>1, <1>1 DEF Later, Comes
  <2>2. CASE k # m
    BY <1>3, <2>2 DEF Later
  <2> QED
    BY <2>1, <2>2
<1>7. FramesOK(b, s)
  BY <1>1, <1>4, <1>6, AdvanceFrames DEF Sound
<1>8. WorkOK(b)
  <2>1. WorkFits(a, b)
    BY <1>3, SameWorkFits DEF Sound
  <2> QED
    BY <1>1, <1>4, <1>6, <2>1, AdvanceWork
<1>9. HistoryOK(b, s)
  <2>1. \A n : AbsentFrom(a, n) /\ ~(m <= n) => AbsentFrom(b, n)
    BY <1>3 DEF AbsentFrom
  <2>2. m \in Nat /\ a.older \in Nat /\ a.newer \in Nat
    BY <1>1, BoundsAssumption DEF AccountOK, Messages
  <2>3. PagesOK(b, s)
    <3> SUFFICES ASSUME NEW i \in DOMAIN s, s[i].kind = "page" PROVE PageOK(b, s[i])
      BY DEF PagesOK
    <3> DEFINE f == s[i]
    <3>1. PageOK(a, f) /\ a.older + Len(f.rest) < m
      BY <1>1 DEF HistoryOK, PagesOK, Comes
    <3> HIDE DEF f
    <3>2. Len(f.rest) \in Nat /\ b.older = a.older
      BY <1>3, <3>1, LenProperties DEF PageOK, HistorySame
    <3>3. AbsentFrom(b, a.older + Len(f.rest))
      BY <2>1, <2>2, <3>1, <3>2 DEF PageOK
    <3> QED
      BY <3>1, <3>2, <3>3 DEF PageOK, f
  <2>4. AbsentFrom(b, a.older)
    BY <1>1, <2>1, <2>2 DEF HistoryOK, Comes
  <2>5. \A k \in Messages : k >= a.newer => b.msg[k].disp = "absent"
    BY <1>1, <1>3, <2>2 DEF HistoryOK, Comes
  <2> QED
    BY <1>1, <1>3, <2>3, <2>4, <2>5 DEF HistoryOK, HistorySame
<1>10. ASSUME NEW E, m \in E \/ ~Owed(b.msg[m]) PROVE OwedOK(b, s, E)
  <2>1. \A k \in Messages : k \notin E /\ k \notin b.deleted /\ Owed(b.msg[k]) =>
          k \notin {} /\ SameContent(a.msg[k], b.msg[k])
    BY <1>3, <1>10 DEF SameContent
  <2> QED
    BY <1>3, <2>1, AdvanceOwed DEF Sound
<1> QED
  BY <1>4, <1>5, <1>7, <1>8, <1>9, <1>10 DEF Sound, Owed

LEMMA HandleIncomingStep ==
  ASSUME NEW a, NEW s, Sound(a, s, {}), Room(s), NEW m, Comes(a, s, m),
         NEW kind, NEW wantsReply, NEW action
  PROVE  LET r == HandleIncoming(a, s, m, kind, wantsReply, action)
         IN Sound(r.account, r.stack, {}) /\ Fits(r.stack)
<1> DEFINE x == [Absent EXCEPT !.kind = kind, !.wantsReply = wantsReply,
                               !.complete = IsLocal(kind)]
           y(disp, ready) == [x EXCEPT !.disp = disp, !.ready = ready]
           arrived(disp, ready) ==
             [a EXCEPT !.msg[m] = y(disp, ready),
                       !.entries = IF disp = "queued" THEN AddMessage(a, m, action) ELSE @,
                       !.exists = @ \/ disp = "queued"]
           released == arrived("released", TRUE)
           queued(ready) == arrived("queued", ready)
           r == HandleIncoming(a, s, m, kind, wantsReply, action)
<1>1. m \in Messages /\ a.entries \in Seq(Messages) /\ IsStack(s)
  BY DEF Sound, AccountOK, Comes
<1>2. \A disp \in {"queued", "released"}, ready \in BOOLEAN :
        MessageOK(y(disp, ready)) /\ y(disp, ready).disp = disp /\ y(disp, ready).inc = 1
  <2>1. MessageFields \subseteq DOMAIN Absent /\ DOMAIN x = DOMAIN Absent
    BY DEF MessageFields, Absent
  <2>2. x.inc = 1 /\ x.rev = 1 /\ x.converted = FALSE
    BY DEF Absent
  <2> HIDE DEF x
  <2>3. {"inc", "rev", "disp", "converted", "kind", "ready"} \subseteq DOMAIN x
    BY <2>1 DEF MessageFields
  <2> QED
    BY <2>1, <2>2, <2>3 DEF MessageOK, Dispositions
<1>3. /\ AddMessage(a, m, action) \in Seq(Messages)
      /\ ToSet(AddMessage(a, m, action)) = ToSet(a.entries) \cup {m}
  BY <1>1, AddedProperties DEF AddMessage
<1>4. \/ r = ShowMessage(released, s, ContentHandle(released, m))
      \/ r = At(queued(TRUE), s)
      \/ r = At(FetchContent(FetchReply(queued(FALSE), m), m), s)
  BY DEF HandleIncoming
<1> HIDE DEF x, y, r
<1>5. ASSUME NEW disp \in {"queued", "released"}, NEW ready \in BOOLEAN
      PROVE  Came(a, arrived(disp, ready), m) /\ arrived(disp, ready).msg[m].disp = disp
  <2> DEFINE z == y(disp, ready)
             b == arrived(disp, ready)
  <2>1. MessageOK(z) /\ z.disp = disp /\ z.inc = 1
    BY <1>2
  <2>2. AccountFields \subseteq DOMAIN a /\ DOMAIN a.msg = Messages
    BY DEF Sound, AccountOK
  <2> HIDE DEF z
  <2>3. b = [a EXCEPT !.msg[m] = z,
                      !.entries = IF disp = "queued" THEN AddMessage(a, m, action) ELSE @,
                      !.exists = @ \/ disp = "queued"]
    BY DEF z
  <2> HIDE DEF b
  <2>4. /\ AccountFields \subseteq DOMAIN b /\ DOMAIN b.msg = Messages /\ b.msg[m] = z
        /\ \A k \in Messages : k # m => b.msg[k] = a.msg[k]
        /\ b.entries = IF disp = "queued" THEN AddMessage(a, m, action) ELSE a.entries
        /\ b.exists <=> (a.exists \/ disp = "queued")
        /\ b.ready = a.ready
        /\ b.client = a.client /\ HistorySame(a, b) /\ WorkSame(a, b)
        /\ b.replies = a.replies /\ DoneKept(a, b)
    BY <1>1, <2>2, <2>3 DEF AccountFields, HistorySame, WorkSame, DoneKept
  <2>5. Came(a, b, m) /\ b.msg[m].disp = disp
    BY <1>3, <2>1, <2>4 DEF Came
  <2> QED
    BY <2>5 DEF b
<1> HIDE DEF arrived
<1>6. Sound(released, s, {m}) /\ released.msg[m].disp = "released"
  BY <1>5, Arrive
<1>11. \A ready \in BOOLEAN :
         Sound(queued(ready), s, {}) /\ queued(ready).msg[m].disp = "queued"
  BY <1>5, Arrive
<1> HIDE DEF released, queued
<1>7. LET q == ShowMessage(released, s, ContentHandle(released, m))
      IN Sound(q.account, q.stack, {}) /\ Fits(q.stack)
  <2> DEFINE h == ContentHandle(released, m)
  <2>1. released.msg[m].disp # "absent"
    BY <1>6
  <2>2. Knows(released, h) /\ h.m = m
    BY <1>1, <1>6, <2>1, ContentHandleKnown DEF Sound, Names
  <2> HIDE DEF h
  <2>3. LET q == ShowMessage(released, s, h)
        IN Sound(q.account, q.stack, {}) /\ Fits(q.stack)
    BY <1>6, <2>2, ShowMessageStep
  <2> QED
    BY <2>3 DEF h
<1>8. Sound(FetchContent(FetchReply(queued(FALSE), m), m), s, {})
  <2> DEFINE c == FetchReply(queued(FALSE), m)
  <2>1. Sound(c, s, {}) /\ c.msg = queued(FALSE).msg
    BY <1>1, <1>11, FetchReplyStep
  <2>2. c.msg[m].disp # "absent"
    BY <1>11, <2>1
  <2> HIDE DEF c
  <2>3. Sound(FetchContent(c, m), s, {})
    BY <1>1, <2>1, <2>2, FetchContentStep
  <2> QED
    BY <2>3 DEF c
<1>9. Fits(s)
  BY <1>1, RoomFits
<1>10. Sound(queued(TRUE), s, {})
  BY <1>11
<1>12. \A b : At(b, s).account = b /\ At(b, s).stack = s
  BY DEF At
<1>13. Sound(r.account, r.stack, {}) /\ Fits(r.stack)
  BY <1>4, <1>7, <1>8, <1>9, <1>10, <1>12
<1> QED
  BY <1>13 DEF r

-----------------------------------------------------------------------------
(* The calls *)

\* The account but for what the invariant does not see, and requests that have ended.
Fewer(a, b) ==
  /\ AccountFields \subseteq DOMAIN b /\ b.msg = a.msg
  /\ b.entries = a.entries /\ b.exists = a.exists /\ b.ready = a.ready
  /\ b.client = a.client /\ HistorySame(a, b) /\ b.deleted = a.deleted /\ b.shown = a.shown
  /\ b.overtaken = a.overtaken
  /\ b.replies \subseteq a.replies /\ b.downloads \subseteq a.downloads
  /\ b.conversions \subseteq a.conversions /\ b.dialogs \subseteq a.dialogs

LEMMA FewerStep ==
  ASSUME NEW a, NEW s, NEW D, Sound(a, s, D), NEW b, Fewer(a, b)
  PROVE  Sound(b, s, D) /\ \A h : Knows(a, h) => Knows(b, h)
<1>1. WorkFits(a, b)
  BY DEF Sound, Fewer, WorkFits, WorkOK, Work
<1>2. Alike(a, b) /\ DoneKept(a, b)
  BY DEF Alike, DoneKept, Fewer, SameContent, Sound, AccountOK
<1>3. Sound(b, s, D)
  BY <1>1, <1>2, Minor
<1> QED
  BY <1>3 DEF Knows, Fewer

LEMMA CallRoom ==
  ASSUME QueueInv, CanCall
  PROVE  Room(stack)
<1>1. Displays = DisplaysOf(stack)
  BY DEF Displays, DisplaysOf
<1>2. MaxDepth \in Nat \ {0} /\ DisplaysOf(stack) \in Nat
  BY BoundsAssumption, DisplaysType DEF QueueInv, Sound
<1>3. CASE stack = <<>>
  <2>1. {i \in DOMAIN stack : stack[i].kind = "display"} = {}
    BY <1>3
  <2>2. DisplaysOf(stack) = 0
    BY <2>1, FS_EmptySet DEF DisplaysOf
  <2> QED
    BY <1>2, <2>2 DEF Room
<1>4. CASE stack # <<>>
  BY <1>1, <1>2, <1>4 DEF CanCall, Room
<1> QED
  BY <1>3, <1>4

\* A call whose handler keeps the invariant.
LEMMA CallStep ==
  ASSUME NEW r, Step(r), Sound(r.account, r.stack, {}), Fits(r.stack)
  PROVE  QueueInv'
BY DEF Step, QueueInv

LEMMA CallRoomStep ==
  ASSUME NEW r, Step(r), Sound(r.account, r.stack, {}), Room(r.stack)
  PROVE  QueueInv'
BY RoomFits, CallStep DEF Sound

LEMMA AtStep ==
  ASSUME NEW a, NEW s, Step(At(a, s)), Sound(a, s, {}), Room(s)
  PROVE  QueueInv'
<1>1. At(a, s).account = a /\ At(a, s).stack = s
  BY DEF At
<1> QED
  BY <1>1, CallRoomStep

\* The history of a changes, not its messages.
LEMMA HistoryStep ==
  ASSUME NEW a, NEW s, Sound(a, s, {}), NEW b,
         AccountFields \subseteq DOMAIN b, b.msg = a.msg, b.entries = a.entries,
         b.exists \/ ((b.exists <=> a.exists) /\ (b.ready <=> a.ready)),
         b.client = a.client, b.replies = a.replies, WorkSame(a, b),
         b.deleted = a.deleted, b.shown = a.shown, b.overtaken = a.overtaken,
         b.older \in Nat, b.newer \in Nat,
         NEW t, IsStack(t), FramesOK(a, t), HistoryOK(b, t),
         \A x, m : Awaits(s, x, m) => Awaits(t, x, m)
  PROVE  Sound(b, t, {})
<1>1. AccountOK(b)
  BY DEF Sound, AccountOK
<1>2. QueueOK(b)
  BY DEF Sound, QueueOK
<1>3. WorkOK(b)
  BY SMTT(30) DEF Sound, WorkOK, WorkSame, Work, Knows, Sticky, Current
<1>4. FramesOK(b, t)
  BY DEF FramesOK, FrameOK, Knows, Sticky, Current
<1>5. OwedOK(b, t, {})
  BY DEF Sound, OwedOK, Shown
<1> QED
  BY <1>1, <1>2, <1>3, <1>4, <1>5 DEF Sound

LEMMA NewMessageStep ==
  ASSUME QueueInv, NewMessage
  PROVE  QueueInv'
<1> DEFINE a == IF account.gap THEN FetchHistory([account EXCEPT !.gap = FALSE])
                               ELSE account
           b == [a EXCEPT !.newer = @ + 1]
           m == a.newer
<1>1. PICK kind \in Kinds, wantsReply \in Replies :
        Call(HandleIncoming(b, stack, m, kind, wantsReply, "append"))
  BY DEF NewMessage
<1>2. /\ Sound(account, stack, {}) /\ account.newer <= MaxMessage
      /\ AccountOK(account) /\ AccountFields \subseteq DOMAIN account
      /\ HistoryOK(account, stack) /\ IsStack(stack) /\ FramesOK(account, stack)
  BY DEF QueueInv, Sound, AccountOK, NewMessage
<1>3. Room(stack)
  BY <1>1, CallRoom DEF Call
<1>4. /\ AccountFields \subseteq DOMAIN b /\ b.msg = account.msg
      /\ b.entries = account.entries /\ b.client = account.client
      /\ b.exists \/ ((b.exists <=> account.exists) /\ (b.ready <=> account.ready))
      /\ b.replies = account.replies /\ WorkSame(account, b)
      /\ b.deleted = account.deleted /\ b.shown = account.shown
      /\ b.overtaken = account.overtaken
      /\ b.older = account.older /\ b.newer = account.newer + 1 /\ m = account.newer
      /\ ~b.gap /\ (b.history => account.gap \/ account.history)
  BY <1>2 DEF AccountFields, FetchHistory, WorkSame
<1> HIDE DEF a, b, m
<1>5. m \in Messages /\ m \in Nat /\ account.older \in Nat /\ account.newer \in Nat
  BY <1>2, <1>4, BoundsAssumption DEF Messages, HistoryOK, AccountOK
<1>6. HistoryOK(b, stack)
  <2>1. PagesOK(b, stack) /\ AbsentFrom(b, b.older)
    BY <1>2, <1>4 DEF HistoryOK, PagesOK, PageOK, AbsentFrom
  <2>2. FirstLive <= b.newer /\ \A k \in Messages : k >= b.newer => b.msg[k].disp = "absent"
    BY <1>2, <1>4, <1>5, BoundsAssumption DEF HistoryOK, Messages
  <2> QED
    BY <1>2, <1>4, <2>1, <2>2 DEF HistoryOK
<1>7. Sound(b, stack, {})
  <2>1. b.older \in Nat /\ b.newer \in Nat
    BY <1>4, <1>5
  <2> QED
    BY <1>2, <1>4, <1>6, <2>1, HistoryStep
<1>8. Comes(b, stack, m)
  <2>1. FirstLive \in Nat /\ account.older < FirstLive /\ FirstLive <= m
    BY <1>2, <1>4, BoundsAssumption DEF HistoryOK
  <2>2. \A i \in DOMAIN stack : stack[i].kind = "page" => b.older + Len(stack[i].rest) < m
    <3> SUFFICES ASSUME NEW i \in DOMAIN stack, stack[i].kind = "page"
                 PROVE  b.older + Len(stack[i].rest) < m
      OBVIOUS
    <3> DEFINE f == stack[i]
    <3>1. PageOK(account, f)
      BY <1>2 DEF HistoryOK, PagesOK
    <3> HIDE DEF f
    <3>2. Len(f.rest) \in Nat /\ account.older + Len(f.rest) < FirstLive
      BY <3>1, LenProperties DEF PageOK
    <3>3. b.older + Len(f.rest) < m
      BY <1>4, <1>5, <2>1, <3>2
    <3> QED
      BY <3>3 DEF f
  <2>3. account.msg[m].disp = "absent"
    BY <1>2, <1>4, <1>5 DEF HistoryOK
  <2> QED
    BY <1>4, <1>5, <2>1, <2>2, <2>3 DEF Comes
<1> DEFINE r == HandleIncoming(b, stack, m, kind, wantsReply, "append")
<1>9. Sound(r.account, r.stack, {}) /\ Fits(r.stack)
  BY <1>3, <1>7, <1>8, HandleIncomingStep
<1>10. Step(r)
  BY <1>1 DEF Call
<1> HIDE DEF r
<1> QED
  BY <1>9, <1>10, CallStep

\* A request of history becomes a page of so many messages.
Fetched(a, b, size) ==
  /\ AccountFields \subseteq DOMAIN b /\ b.msg = a.msg /\ b.entries = a.entries
  /\ b.exists = a.exists /\ b.ready = a.ready /\ b.client = a.client
  /\ b.replies = a.replies /\ WorkSame(a, b)
  /\ b.deleted = a.deleted /\ b.shown = a.shown /\ b.overtaken = a.overtaken
  /\ b.newer = a.newer /\ b.gap = a.gap
  /\ b.older = a.older - size /\ ~b.history

LEMMA PageStep ==
  ASSUME NEW a, NEW s, Sound(a, s, {}), a.history, NEW size \in 0 .. a.older,
         NEW b, Fetched(a, b, size),
         NEW f, f.kind = "page", {"kind", "h", "rest", "more"} \subseteq DOMAIN f,
         f.rest = [i \in 1 .. size |-> a.older + 1 - i]
  PROVE  Sound(b, <<f>> \o s, {})
<1> DEFINE t == <<f>> \o s
<1>1. /\ AccountFields \subseteq DOMAIN a /\ a.older \in Nat /\ a.newer \in Nat
      /\ HistoryOK(a, s) /\ IsStack(s) /\ FramesOK(a, s)
  BY DEF Sound, AccountOK
<1>2. /\ AccountFields \subseteq DOMAIN b /\ b.msg = a.msg /\ b.entries = a.entries
      /\ b.exists = a.exists /\ b.ready = a.ready /\ b.client = a.client
      /\ b.replies = a.replies /\ WorkSame(a, b)
      /\ b.deleted = a.deleted /\ b.shown = a.shown /\ b.overtaken = a.overtaken
      /\ b.newer = a.newer /\ b.gap = a.gap
      /\ b.older = a.older - size /\ ~b.history
  BY DEF Fetched
<1>3. NoPage(s) /\ ~a.gap
  BY <1>1 DEF HistoryOK
<1>4. b.older \in Nat /\ size \in Nat /\ a.older = b.older + size
  BY <1>1, <1>2
<1>5. PageOK(b, f)
  <2> DEFINE p == f.rest
  <2>1. FirstLive \in 1 .. MaxMessage + 1 /\ a.older < FirstLive /\ MaxMessage \in Nat
    BY <1>1, BoundsAssumption DEF HistoryOK
  <2>2. \A k \in 1 .. size : a.older + 1 - k \in Messages
    BY <1>1, <1>4, <2>1, SMTT(30) DEF Messages
  <2>3. p \in Seq(Messages)
    BY <1>4, <2>2, IsASeq
  <2>4. \A k \in 1 .. size : p[k] = b.older + size + 1 - k
    BY <1>4
  <2>5. Len(p) = size
    BY <1>4, <2>3, LenProperties
  <2>6. AbsentFrom(b, b.older + size)
    BY <1>1, <1>2, <1>4 DEF HistoryOK, AbsentFrom
  <2> HIDE DEF p
  <2>7. p \in Seq(Messages) /\ b.older + Len(p) < FirstLive
        /\ (\A k \in 1 .. Len(p) : p[k] = b.older + Len(p) + 1 - k)
        /\ AbsentFrom(b, b.older + Len(p))
    BY <1>4, <2>1, <2>3, <2>4, <2>5, <2>6
  <2> QED
    BY <2>7 DEF PageOK, p
<1>6. FrameOK(a, f)
  BY PlainFrame
<1>7. PagesOK(b, s)
  BY <1>3 DEF PagesOK, NoPage
<1>8. /\ IsStack(t) /\ FramesOK(a, t) /\ PagesOK(b, t) /\ OnePage(t)
      /\ \A x, m : Awaits(s, x, m) => Awaits(t, x, m)
  <2>1. OnePage(s)
    BY <1>3 DEF NoPage, OnePage
  <2> QED
    BY <1>1, <1>3, <1>5, <1>6, <1>7, <2>1, Push
<1> HIDE DEF t
<1>9. HistoryOK(b, t)
  <2>1. b.older < FirstLive /\ \A k \in Messages : k <= b.older => k <= a.older
    BY <1>1, <1>4, BoundsAssumption DEF HistoryOK, Messages
  <2> QED
    BY <1>1, <1>2, <1>3, <1>8, <2>1 DEF HistoryOK, AbsentFrom
<1>10. Sound(b, t, {})
  BY <1>1, <1>2, <1>4, <1>8, <1>9, HistoryStep
<1> QED
  BY <1>10 DEF t

LEMMA HistoryPageStep ==
  ASSUME QueueInv, HistoryPage
  PROVE  QueueInv'
<1>1. PICK size \in 0 .. account.older, more \in BOOLEAN :
        LET page == [i \in 1 .. size |-> account.older + 1 - i]
        IN Call(At([account EXCEPT !.history = FALSE, !.older = @ - size],
                   <<[Frame("page") EXCEPT !.rest = page, !.more = more]>> \o stack))
  BY DEF HistoryPage
<1> DEFINE b == [account EXCEPT !.history = FALSE, !.older = @ - size]
           f == [Frame("page") EXCEPT !.rest = [i \in 1 .. size |-> account.older + 1 - i],
                                      !.more = more]
           t == <<f>> \o stack
<1>2. Step(At(b, t)) /\ Room(stack)
  BY <1>1, CallRoom DEF Call
<1>3. /\ f.kind = "page" /\ {"kind", "h", "rest", "more"} \subseteq DOMAIN f
      /\ f.rest = [i \in 1 .. size |-> account.older + 1 - i]
  BY DEF Frame
<1> HIDE DEF f
<1>7. AccountFields \subseteq DOMAIN account
  BY DEF QueueInv, Sound, AccountOK
<1>8. Fetched(account, b, size)
  BY <1>7 DEF AccountFields, WorkSame, Fetched
<1> HIDE DEF b
<1>4. Sound(b, t, {})
  BY <1>3, <1>8, PageStep DEF QueueInv, HistoryPage
<1>5. Room(t)
  BY <1>2, <1>3, PushRoom DEF QueueInv, Sound
<1> HIDE DEF t
<1>6. At(b, t).account = b /\ At(b, t).stack = t
  BY DEF At
<1> QED
  BY <1>2, <1>4, <1>5, <1>6, CallRoomStep

LEMMA HistoryFailsStep ==
  ASSUME QueueInv, HistoryFails
  PROVE  QueueInv'
<1> DEFINE b == [account EXCEPT !.history = FALSE]
           f == Frame("page")
           t == <<f>> \o stack
           r == Notify(b, t)
<1>1. Step(r) /\ Room(stack) /\ account.history
  BY CallRoom DEF Call, HistoryFails
<1>2. /\ f.kind = "page" /\ {"kind", "h", "rest", "more"} \subseteq DOMAIN f
      /\ f.rest = [i \in 1 .. 0 |-> account.older + 1 - i]
  BY DEF Frame
<1>3. AccountFields \subseteq DOMAIN account /\ account.older \in Nat
  BY DEF QueueInv, Sound, AccountOK
<1>4. Fetched(account, b, 0)
  BY <1>3 DEF AccountFields, WorkSame, Fetched
<1> HIDE DEF f, b
<1>5. 0 \in 0 .. account.older
  BY <1>3
<1>6. Sound(b, t, {})
  BY <1>1, <1>2, <1>4, <1>5, PageStep DEF QueueInv
<1>7. Room(t)
  BY <1>1, <1>2, PushRoom DEF QueueInv, Sound
<1> HIDE DEF t
<1>8. Sound(r.account, r.stack, {}) /\ Fits(r.stack)
  BY <1>6, <1>7, NotifyStep
<1> HIDE DEF r
<1> QED
  BY <1>1, <1>8, CallStep

LEMMA ReplyArrivesStep ==
  ASSUME QueueInv, NEW h \in account.replies, ReplyArrives(h)
  PROVE  QueueInv'
<1> DEFINE a == [account EXCEPT !.replies = @ \ {h}]
           b(found) == [a EXCEPT !.msg[h.m].replyDone = TRUE, !.msg[h.m].reply = found]
           r(found) == IF IsPending(a, h) THEN CheckMessageReady(b(found), stack, h.m)
                                          ELSE At(a, stack)
<1>1. PICK found \in BOOLEAN : Call(r(found))
  BY DEF ReplyArrives
<1>2. Step(r(found)) /\ Room(stack)
  BY <1>1, CallRoom DEF Call
<1>3. /\ Sound(account, stack, {}) /\ AccountFields \subseteq DOMAIN account
      /\ h.m \in Messages
  BY DEF QueueInv, Sound, AccountOK
<1>4. Fewer(account, a)
  BY <1>3 DEF Fewer, AccountFields, HistorySame
<1> HIDE DEF a
<1>5. Sound(a, stack, {})
  BY <1>3, <1>4, FewerStep
<1> DEFINE y == [[a.msg[h.m] EXCEPT !.replyDone = TRUE] EXCEPT !.reply = found]
<1>6. MessageOK(a.msg[h.m]) /\ DOMAIN a.msg = Messages /\ AccountFields \subseteq DOMAIN a
  BY <1>3, <1>5 DEF Sound, AccountOK
<1>7. MessageOK(y) /\ SameContent(a.msg[h.m], y)
  BY <1>6 DEF MessageOK, MessageFields, SameContent
<1>8. b(found) = [a EXCEPT !.msg[h.m] = y]
  BY <1>3, <1>6 DEF AccountFields
<1> HIDE DEF y, b
<1>9. Sound(b(found), stack, {})
  <2>1. Sound([a EXCEPT !.msg[h.m] = y], stack, {})
    BY <1>3, <1>5, <1>7, Touch
  <2> QED
    BY <1>8, <2>1
<1>10. LET q == CheckMessageReady(b(found), stack, h.m)
       IN Sound(q.account, q.stack, {}) /\ Room(q.stack)
  BY <1>2, <1>3, <1>9, CheckMessageReadyStep
<1>11. At(a, stack).account = a /\ At(a, stack).stack = stack
  BY DEF At
<1>12. Sound(r(found).account, r(found).stack, {}) /\ Room(r(found).stack)
  BY <1>2, <1>5, <1>10, <1>11
<1> HIDE DEF r
<1> QED
  BY <1>2, <1>12, CallRoomStep

LEMMA DownloadTimerStep ==
  ASSUME QueueInv, NEW d \in account.downloads, DownloadTimer(d)
  PROVE  QueueInv'
<1> DEFINE e == [d EXCEPT !.timer = FALSE]
           a == [account EXCEPT !.downloads = (@ \ {d}) \cup {e}]
           m == d.h.m
           y == [a.msg[m] EXCEPT !.timeout = TRUE]
           b == [a EXCEPT !.msg[m] = y]
           f == [Frame("moveReply") EXCEPT !.h = d.h, !.id = d.id]
           t == <<f>> \o stack
           r == IF Current(a, d.h) /\ IsPending(a, d.h) THEN CheckMessageReady(b, t, m)
                                                        ELSE At(a, stack)
<1>1. Step(r) /\ Room(stack)
  BY CallRoom DEF Call, DownloadTimer
<1>2. /\ Sound(account, stack, {}) /\ AccountFields \subseteq DOMAIN account
      /\ WorkOK(account)
  BY DEF QueueInv, Sound, AccountOK
<1>3. "h" \in DOMAIN d /\ Knows(account, d.h) /\ m \in Messages
  BY <1>2 DEF WorkOK, Work, Knows
<1>4. "h" \in DOMAIN e /\ e.h = d.h
  BY <1>3
<1> HIDE DEF e
<1>5. /\ AccountFields \subseteq DOMAIN a /\ a.msg = account.msg
      /\ a.entries = account.entries /\ a.exists = account.exists /\ a.ready = account.ready
      /\ a.client = account.client /\ HistorySame(account, a)
      /\ a.replies = account.replies /\ DoneKept(account, a)
      /\ a.downloads = (account.downloads \ {d}) \cup {e}
      /\ a.conversions = account.conversions /\ a.dialogs = account.dialogs
  BY <1>2 DEF AccountFields, HistorySame, DoneKept
<1> HIDE DEF a
<1>6. WorkFits(account, a)
  BY <1>2, <1>3, <1>4, <1>5 DEF WorkFits, WorkOK, Work
<1>7. Alike(account, a)
  BY <1>2, <1>5 DEF Alike, SameContent, Sound, AccountOK
<1>8. Sound(a, stack, {})
  BY <1>2, <1>5, <1>6, <1>7, Minor
<1>9. MessageOK(a.msg[m])
  BY <1>3, <1>8 DEF Sound, AccountOK
<1>10. MessageOK(y) /\ SameContent(a.msg[m], y)
  BY <1>9 DEF MessageOK, MessageFields, SameContent
<1>11. Knows(a, d.h)
  BY <1>3, <1>5 DEF Knows
<1> HIDE DEF y, m
<1>12. Sound(b, stack, {}) /\ Advance(a, b)
  BY <1>3, <1>8, <1>10, Touch
<1> HIDE DEF b
<1>13. f.kind = "moveReply" /\ FrameOK(b, f)
  <2>1. Knows(b, d.h)
    BY <1>8, <1>11, <1>12, AdvanceKnows DEF Sound
  <2> QED
    BY <2>1 DEF Frame, FrameOK
<1> HIDE DEF f
<1>14. Sound(b, t, {}) /\ Room(t)
  BY <1>1, <1>12, <1>13, SoundPush, PushRoom DEF Sound
<1> HIDE DEF t
<1>15. LET q == CheckMessageReady(b, t, m)
       IN Sound(q.account, q.stack, {}) /\ Room(q.stack)
  BY <1>3, <1>14, CheckMessageReadyStep
<1>16. At(a, stack).account = a /\ At(a, stack).stack = stack
  BY DEF At
<1>17. Sound(r.account, r.stack, {}) /\ Room(r.stack)
  BY <1>1, <1>8, <1>15, <1>16
<1> HIDE DEF r
<1> QED
  BY <1>1, <1>17, CallRoomStep

LEMMA DownloadDoneStep ==
  ASSUME QueueInv, NEW d \in account.downloads, DownloadDone(d)
  PROVE  QueueInv'
<1> DEFINE a == [account EXCEPT !.downloads = @ \ {d}]
           m == d.h.m
           failed == [a EXCEPT !.msg[m].timeout = TRUE]
           complete == [a EXCEPT !.msg[m].complete = TRUE, !.msg[m].file = d.version]
<1>1. Room(stack)
  BY CallRoom DEF Call, DownloadDone
<1>2. /\ Sound(account, stack, {}) /\ AccountFields \subseteq DOMAIN account
      /\ WorkOK(account)
  BY DEF QueueInv, Sound, AccountOK
<1>3. Knows(account, d.h) /\ m \in Messages
  BY <1>2 DEF WorkOK, Work, Knows
<1>4. Fewer(account, a)
  BY <1>2 DEF Fewer, AccountFields, HistorySame
<1> HIDE DEF a
<1>5. Sound(a, stack, {}) /\ Knows(a, d.h)
  BY <1>2, <1>3, <1>4, FewerStep
<1>6. MessageOK(a.msg[m]) /\ DOMAIN a.msg = Messages /\ AccountFields \subseteq DOMAIN a
  BY <1>3, <1>5 DEF Sound, AccountOK
<1> HIDE DEF m
<1> DEFINE y == [a.msg[m] EXCEPT !.timeout = TRUE]
           z == [[a.msg[m] EXCEPT !.complete = TRUE] EXCEPT !.file = d.version]
<1>7. MessageOK(y) /\ SameContent(a.msg[m], y)
  BY <1>6 DEF MessageOK, MessageFields, SameContent
<1>8. MessageOK(z) /\ SameContent(a.msg[m], z) /\ z.kind = a.msg[m].kind
  BY <1>6 DEF MessageOK, MessageFields, SameContent
<1>9. complete = [a EXCEPT !.msg[m] = z]
  BY <1>3, <1>6 DEF AccountFields
<1> HIDE DEF z, complete
<1>10. Sound(failed, stack, {})
  <2>1. failed = [a EXCEPT !.msg[m] = y]
    OBVIOUS
  <2> HIDE DEF y, failed
  <2>2. Sound([a EXCEPT !.msg[m] = y], stack, {})
    BY <1>3, <1>5, <1>7, Touch
  <2> QED
    BY <2>1, <2>2
<1>11. Sound(complete, stack, {}) /\ Advance(a, complete) /\ complete.msg[m] = z
  <2> DEFINE c == [a EXCEPT !.msg[m] = z]
  <2>1. Sound(c, stack, {}) /\ Advance(a, c)
    BY <1>3, <1>5, <1>8, Touch
  <2>2. c.msg[m] = z
    BY <1>3, <1>6 DEF AccountFields
  <2> QED
    BY <1>9, <2>1, <2>2
<1> HIDE DEF failed
<1>12. CASE Step(At(a, stack))
  <2>1. At(a, stack).account = a /\ At(a, stack).stack = stack
    BY DEF At
  <2> QED
    BY <1>1, <1>5, <1>12, <2>1, CallRoomStep
<1>13. CASE Step(CheckMessageReady(failed, stack, m))
  <2> DEFINE q == CheckMessageReady(failed, stack, m)
  <2>1. Sound(q.account, q.stack, {}) /\ Room(q.stack)
    BY <1>1, <1>3, <1>10, CheckMessageReadyStep
  <2> HIDE DEF q
  <2> QED
    BY <1>13, <2>1, CallRoomStep DEF q
<1>14. CASE Step(CheckMessageReady(complete, stack, m))
  <2> DEFINE q == CheckMessageReady(complete, stack, m)
  <2>1. Sound(q.account, q.stack, {}) /\ Room(q.stack)
    BY <1>1, <1>3, <1>11, CheckMessageReadyStep
  <2> HIDE DEF q
  <2> QED
    BY <1>14, <2>1, CallRoomStep DEF q
<1>15. CASE /\ IsSticker(a.msg[m].kind)
            /\ Step(At(StartConversion(complete, d.h, FALSE, d.version), stack))
  <2> DEFINE c == StartConversion(complete, d.h, FALSE, d.version)
  <2>1. Knows(complete, d.h)
    BY <1>5, <1>11, AdvanceKnows DEF Sound
  <2>2. Sticky(complete, d.h)
    BY <1>8, <1>11, <1>15 DEF Sticky, m
  <2>3. Sound(c, stack, {})
    BY <1>11, <2>1, <2>2, StartConversionStep
  <2> HIDE DEF c
  <2>4. At(c, stack).account = c /\ At(c, stack).stack = stack
    BY DEF At
  <2> QED
    BY <1>1, <1>15, <2>3, <2>4, CallRoomStep DEF c
<1>16. CASE /\ IsSticker(a.msg[m].kind)
            /\ Step(ShowSticker(a, stack, d.h, d.version, TRUE, d.reply))
  <2> DEFINE q == ShowSticker(a, stack, d.h, d.version, TRUE, d.reply)
  <2>1. Sticky(a, d.h)
    BY <1>16 DEF Sticky, m
  <2>2. Sound(q.account, q.stack, {}) /\ Fits(q.stack)
    BY <1>1, <1>5, <2>1, ShowStickerStep
  <2> HIDE DEF q
  <2> QED
    BY <1>16, <2>2, CallStep DEF q
<1>17. CASE Step(Display(a, stack, Event(m, "file", d.version, TRUE, d.reply)))
  <2> DEFINE e == Event(m, "file", d.version, TRUE, d.reply)
             q == Display(a, stack, e)
  <2> HIDE DEF e
  <2>1. Sound(q.account, q.stack, {}) /\ Fits(q.stack)
    BY <1>1, <1>5, DisplayPlain
  <2> HIDE DEF q
  <2> QED
    BY <1>17, <2>1, CallStep DEF q, e
<1> QED
  BY <1>12, <1>13, <1>14, <1>15, <1>16, <1>17
     DEF DownloadDone, Call, a, m, failed, complete

LEMMA ConversionDoneStep ==
  ASSUME QueueInv, NEW c \in account.conversions, ConversionDone(c)
  PROVE  QueueInv'
<1> DEFINE a == [account EXCEPT !.conversions = @ \ {c}]
           m == c.h.m
           error == [Frame("error") EXCEPT !.h = c.h, !.reply = c.reply,
                                           !.version = c.version]
           t == <<error>> \o stack
           e(success) == Event(m, IF success THEN "image" ELSE "error", c.version, TRUE,
                               c.reply)
           converted(success) ==
             [a EXCEPT !.msg[m].converted = TRUE, !.msg[m].success = success,
                       !.msg[m].file = c.version]
<1>1. Room(stack)
  BY CallRoom DEF Call, ConversionDone
<1>2. /\ Sound(account, stack, {}) /\ AccountFields \subseteq DOMAIN account
      /\ WorkOK(account)
  BY DEF QueueInv, Sound, AccountOK
<1>3. Knows(account, c.h) /\ m \in Messages /\ Sticky(account, c.h)
  BY <1>2, SMTT(30) DEF WorkOK, Work, Knows
<1>4. Fewer(account, a)
  BY <1>2, SMTT(30) DEF Fewer, AccountFields, HistorySame
<1>5. PICK success \in BOOLEAN :
        \/ Step(At(a, stack))
        \/ /\ Current(a, c.h)
           /\ Step(CheckMessageReady(converted(success),
                                     IF success THEN stack ELSE t, m))
        \/ Step(Display(a, stack, e(success)))
  BY DEF ConversionDone, Call
<1> HIDE DEF a
<1>6. Sound(a, stack, {}) /\ Knows(a, c.h)
  BY <1>2, <1>3, <1>4, FewerStep
<1>7. Sticky(a, c.h)
  BY <1>3, <1>4 DEF Fewer, Sticky, Current
<1>8. MessageOK(a.msg[m]) /\ DOMAIN a.msg = Messages /\ AccountFields \subseteq DOMAIN a
  BY <1>3, <1>6 DEF Sound, AccountOK
<1> HIDE DEF m, e
<1>9. CASE Step(At(a, stack))
  <2>1. At(a, stack).account = a /\ At(a, stack).stack = stack
    BY DEF At
  <2> QED
    BY <1>1, <1>6, <1>9, <2>1, CallRoomStep
<1>10. CASE Step(Display(a, stack, e(success)))
  <2> DEFINE q == Display(a, stack, e(success))
  <2>1. Sound(q.account, q.stack, {}) /\ Fits(q.stack)
    BY <1>1, <1>6, DisplayPlain
  <2> HIDE DEF q
  <2> QED
    BY <1>10, <2>1, CallStep DEF q
<1>11. CASE /\ Current(a, c.h)
            /\ Step(CheckMessageReady(converted(success), IF success THEN stack ELSE t, m))
  <2> DEFINE x == [[a.msg[m] EXCEPT !.converted = TRUE] EXCEPT !.success = success]
             y == [x EXCEPT !.file = c.version]
             b == [a EXCEPT !.msg[m] = y]
             s == IF success THEN stack ELSE t
             q == CheckMessageReady(b, s, m)
  <2>1. IsSticker(a.msg[m].kind)
    BY <1>7, <1>11 DEF Sticky, m
  <2>2. MessageOK(y) /\ SameContent(a.msg[m], y)
    BY <1>8, <2>1 DEF MessageOK, MessageFields, SameContent
  <2>3. converted(success) = b
    BY <1>3, <1>8 DEF AccountFields
  <2> HIDE DEF x, y, converted
  <2>4. Sound(b, stack, {}) /\ Advance(a, b)
    BY <1>3, <1>6, <2>2, Touch
  <2> HIDE DEF b
  <2>5. error.kind = "error" /\ FrameOK(b, error)
    <3>1. Knows(b, c.h)
      BY <1>6, <2>4, AdvanceKnows DEF Sound
    <3> QED
      BY <3>1 DEF Frame, FrameOK
  <2> HIDE DEF error
  <2>6. Sound(b, t, {}) /\ Room(t)
    BY <1>1, <2>4, <2>5, SoundPush, PushRoom DEF Sound
  <2>7. Sound(b, s, {}) /\ Room(s)
    BY <1>1, <2>4, <2>6
  <2> HIDE DEF s
  <2>8. Sound(q.account, q.stack, {}) /\ Room(q.stack)
    BY <1>3, <2>7, CheckMessageReadyStep
  <2>9. Step(q)
    BY <1>11, <2>3 DEF s
  <2> HIDE DEF q
  <2> QED
    BY <2>8, <2>9, CallRoomStep
<1> QED
  BY <1>5, <1>9, <1>10, <1>11

LEMMA ConversionLostStep ==
  ASSUME QueueInv, NEW c \in account.conversions, ConversionLost(c)
  PROVE  QueueInv'
<1> DEFINE a == [account EXCEPT !.conversions = @ \ {c}]
<1>1. Step(At(a, stack)) /\ Room(stack)
  BY CallRoom DEF Call, ConversionLost
<1>2. Sound(account, stack, {}) /\ AccountFields \subseteq DOMAIN account
  BY DEF QueueInv, Sound, AccountOK
<1>3. Fewer(account, a)
  BY <1>2 DEF Fewer, AccountFields, HistorySame
<1> HIDE DEF a
<1>4. Sound(a, stack, {})
  BY <1>2, <1>3, FewerStep
<1>5. At(a, stack).account = a /\ At(a, stack).stack = stack
  BY DEF At
<1> QED
  BY <1>1, <1>4, <1>5, CallRoomStep

LEMMA AnswerStep ==
  ASSUME QueueInv, NEW g \in account.dialogs, Answer(g)
  PROVE  QueueInv'
<1> DEFINE a == [account EXCEPT !.dialogs = @ \ {g}]
           b == StartDownload(a, g.h, g.reply)
<1>1. Step(At(a, stack)) \/ Step(At(b, stack))
  BY DEF Call, Answer
<1>2. Room(stack)
  BY CallRoom DEF Call, Answer
<1>3. Sound(account, stack, {}) /\ AccountFields \subseteq DOMAIN account
  BY DEF QueueInv, Sound, AccountOK
<1>4. Fewer(account, a)
  BY <1>3 DEF Fewer, AccountFields, HistorySame
<1>5. Knows(account, g.h)
  BY <1>3 DEF Sound, WorkOK, Work
<1> HIDE DEF a
<1>6. Sound(a, stack, {}) /\ Knows(a, g.h)
  BY <1>3, <1>4, <1>5, FewerStep
<1>7. Sound(b, stack, {})
  BY <1>6, StartDownloadStep
<1> HIDE DEF b
<1>8. /\ At(a, stack).account = a /\ At(a, stack).stack = stack
      /\ At(b, stack).account = b /\ At(b, stack).stack = stack
  BY DEF At
<1>9. CASE Step(At(a, stack))
  BY <1>2, <1>6, <1>8, <1>9, CallRoomStep
<1>10. CASE Step(At(b, stack))
  BY <1>2, <1>7, <1>8, <1>10, CallRoomStep
<1> QED
  BY <1>1, <1>9, <1>10

\* The next revision of a message's content.
Revised(a, b, m) ==
  /\ AccountFields \subseteq DOMAIN b /\ DOMAIN b.msg = Messages
  /\ \A k \in Messages : k # m => b.msg[k] = a.msg[k]
  /\ MessageOK(b.msg[m]) /\ b.msg[m].inc = a.msg[m].inc
  /\ b.msg[m].rev = a.msg[m].rev + 1 /\ b.msg[m].disp = a.msg[m].disp
  /\ b.entries = a.entries /\ b.exists = a.exists /\ b.ready = a.ready
  /\ b.client = a.client /\ b.replies = a.replies
  /\ HistorySame(a, b) /\ WorkSame(a, b) /\ DoneKept(a, b)

LEMMA Revise ==
  ASSUME NEW a, NEW s, Sound(a, s, {}), NEW m \in Messages, NEW b, Revised(a, b, m)
  PROVE  Sound(b, s, {m}) /\ (b.msg[m].disp = "queued" => Sound(b, s, {}))
<1>1. /\ AccountFields \subseteq DOMAIN b /\ DOMAIN b.msg = Messages
      /\ \A k \in Messages : k # m => b.msg[k] = a.msg[k]
      /\ MessageOK(b.msg[m]) /\ b.msg[m].inc = a.msg[m].inc
      /\ b.msg[m].rev = a.msg[m].rev + 1 /\ b.msg[m].disp = a.msg[m].disp
      /\ b.entries = a.entries /\ b.exists = a.exists /\ b.ready = a.ready
      /\ b.client = a.client /\ b.replies = a.replies
      /\ HistorySame(a, b) /\ WorkSame(a, b) /\ DoneKept(a, b)
  BY DEF Revised
<1>2. AccountOK(a) /\ QueueOK(a) /\ MessageOK(a.msg[m])
  BY DEF Sound, AccountOK
<1>3. AccountOK(b)
  BY <1>1, <1>2 DEF AccountOK, HistorySame
<1>4. \A k \in Messages : b.msg[k].disp = a.msg[k].disp
  BY <1>1
<1>5. QueueOK(b) /\ NobodyCame(a, b)
  BY <1>1, <1>2, <1>4 DEF QueueOK, NobodyCame
<1>6. Advance(a, b)
  <2>1. Later(a.msg[m], b.msg[m])
    BY <1>1, <1>2 DEF Later, MessageOK
  <2>2. \A k \in Messages : k # m => Later(a.msg[k], b.msg[k])
    BY <1>1 DEF Later
  <2> QED
    BY <2>1, <2>2 DEF Advance
<1>7. WorkFits(a, b)
  BY <1>1, SameWorkFits DEF Sound
<1>8. ASSUME NEW E, m \in E \/ ~Owed(b.msg[m]) PROVE Sound(b, s, E)
  <2>1. \A k \in Messages : k \notin E /\ k \notin b.deleted /\ Owed(b.msg[k]) =>
          k \notin {} /\ SameContent(a.msg[k], b.msg[k])
    BY <1>1, <1>8 DEF SameContent
  <2> QED
    BY <1>1, <1>3, <1>5, <1>6, <1>7, <2>1, Update
<1> QED
  BY <1>8 DEF Owed

LEMMA EditStep ==
  ASSUME QueueInv, NEW m \in Messages, Edit(m)
  PROVE  QueueInv'
<1> DEFINE a == [account EXCEPT !.edits[m] = @ + 1, !.updates = @ + 1]
           x == a.msg[m]
           new(kind) == ReplaceContent(x, kind, a.edits[m])
           queued(kind) == [a EXCEPT !.msg[m] = new(kind)]
           old == [x EXCEPT !.rev = @ + 1]
           stale == [a EXCEPT !.msg[m] = old]
           unwritten == [stale EXCEPT !.overtaken = @ \cup ({m} \ {w.m : w \in a.shown})]
           e == Event(m, "update", a.edits[m], TRUE, FALSE)
<1>1. Room(stack)
  BY CallRoom DEF Call, Edit
<1>2. Sound(account, stack, {}) /\ AccountFields \subseteq DOMAIN account
  BY DEF QueueInv, Sound, AccountOK
<1>3. Fewer(account, a)
  BY <1>2 DEF Fewer, AccountFields, HistorySame
<1>4. \/ /\ a.msg[m].disp = "released"
         /\ \/ Step(Display(stale, stack, e))
            \/ m \in InTopic /\ Step(At(unwritten, stack))
      \/ /\ a.msg[m].disp = "queued"
         /\ \E kind \in Kinds :
              \/ Step(SetMessageReady(queued(kind), stack, m))
              \/ Step(At(FetchContent(queued(kind), m), stack))
  BY DEF Edit, Call
<1> HIDE DEF a
<1>5. Sound(a, stack, {})
  BY <1>2, <1>3, FewerStep
<1>6. MessageOK(x) /\ DOMAIN a.msg = Messages /\ AccountFields \subseteq DOMAIN a
  BY <1>5 DEF Sound, AccountOK
<1> HIDE DEF x
<1>7. /\ MessageOK(old) /\ old.inc = x.inc /\ old.rev = x.rev + 1 /\ old.disp = x.disp
      /\ \A kind : /\ MessageOK(new(kind)) /\ new(kind).inc = x.inc
                   /\ new(kind).rev = x.rev + 1 /\ new(kind).disp = x.disp
  BY <1>6 DEF MessageOK, MessageFields, ReplaceContent
<1> HIDE DEF old, new
<1>8. ASSUME NEW y, MessageOK(y), y.inc = x.inc, y.rev = x.rev + 1, y.disp = x.disp
      PROVE  LET b == [a EXCEPT !.msg[m] = y] IN Revised(a, b, m) /\ b.msg[m] = y
  <2> DEFINE b == [a EXCEPT !.msg[m] = y]
  <2>1. /\ AccountFields \subseteq DOMAIN b /\ DOMAIN b.msg = Messages
        /\ \A k \in Messages : k # m => b.msg[k] = a.msg[k]
        /\ b.msg[m] = y
        /\ b.entries = a.entries /\ b.exists = a.exists /\ b.ready = a.ready
        /\ b.client = a.client /\ b.replies = a.replies
        /\ HistorySame(a, b) /\ WorkSame(a, b) /\ DoneKept(a, b)
    BY <1>6 DEF AccountFields, HistorySame, WorkSame, DoneKept
  <2> HIDE DEF b
  <2>2. Revised(a, b, m) /\ b.msg[m] = y
    BY <1>8, <2>1 DEF Revised, x
  <2> QED
    BY <2>2 DEF b
<1>9. Revised(a, stale, m)
  BY <1>7, <1>8
<1>10. \A kind : Revised(a, queued(kind), m) /\ queued(kind).msg[m] = new(kind)
  BY <1>7, <1>8
<1> HIDE DEF queued
<1>11. CASE Step(At(unwritten, stack))
  <2> DEFINE b == unwritten
  <2> HIDE DEF stale, unwritten
  <2>1. Sound(stale, stack, {m})
    BY <1>5, <1>9, Revise
  <2>2. AccountFields \subseteq DOMAIN stale /\ \A k \in Messages : MessageOK(stale.msg[k])
    BY <2>1 DEF Sound, AccountOK
  <2> USE DEF stale, unwritten
  <2>3. /\ AccountFields \subseteq DOMAIN b /\ b.msg = stale.msg
        /\ b.entries = stale.entries /\ b.exists = stale.exists /\ b.ready = stale.ready
        /\ b.client = stale.client /\ b.replies = stale.replies
        /\ HistorySame(stale, b) /\ WorkSame(stale, b) /\ b.deleted = stale.deleted
        /\ b.shown = a.shown /\ stale.shown = a.shown
        /\ b.overtaken = stale.overtaken \cup ({m} \ {w.m : w \in a.shown})
    BY <1>6, <2>2 DEF AccountFields, HistorySame, WorkSame
  <2> HIDE DEF b, stale, unwritten
  <2>4. DoneKept(stale, b) /\ Shown(b, m)
    BY <2>3 DEF DoneKept, Shown
  <2>5. Alike(stale, b) /\ WorkFits(stale, b)
    BY <2>1, <2>2, <2>3, SameWorkFits DEF Alike, SameContent, Sound, AccountOK
  <2>6. Sound(b, stack, {m})
    BY <2>1, <2>4, <2>5, Minor
  <2>7. Sound(b, stack, {})
    BY <2>4, <2>6 DEF Sound, OwedOK
  <2> QED
    BY <1>1, <1>11, <2>7, AtStep DEF b
<1> HIDE DEF stale
<1>12. CASE a.msg[m].disp = "released" /\ Step(Display(stale, stack, e))
  <2> DEFINE q == Display(stale, stack, e)
  <2>1. Sound(stale, stack, {m})
    BY <1>5, <1>9, Revise
  <2>2. e.m = m
    BY DEF Event
  <2> HIDE DEF e
  <2>3. {m} \subseteq {} \cup {e.m}
    BY <2>2
  <2>4. LET r == Display(stale, stack, e) IN Sound(r.account, r.stack, {}) /\ Fits(r.stack)
    BY <1>1, <2>1, <2>3, DisplayStep
  <2> HIDE DEF q
  <2>5. Sound(q.account, q.stack, {}) /\ Fits(q.stack) /\ Step(q)
    BY <1>12, <2>4 DEF q
  <2> QED
    BY <2>5, CallStep
<1>13. CASE a.msg[m].disp = "queued"
  <2> PICK kind \in Kinds : \/ Step(SetMessageReady(queued(kind), stack, m))
                           \/ Step(At(FetchContent(queued(kind), m), stack))
    BY <1>4, <1>13
  <2> DEFINE b == queued(kind)
  <2>1. Sound(b, stack, {}) /\ b.msg[m].disp # "absent"
    BY <1>5, <1>7, <1>10, <1>13, Revise DEF x
  <2> HIDE DEF b
  <2>2. CASE Step(SetMessageReady(b, stack, m))
    <3> DEFINE r == SetMessageReady(b, stack, m)
    <3>1. Sound(r.account, r.stack, {}) /\ Room(r.stack)
      BY <1>1, <2>1, SetMessageReadyStep
    <3> HIDE DEF r
    <3> QED
      BY <2>2, <3>1, CallRoomStep DEF r
  <2>3. CASE Step(At(FetchContent(b, m), stack))
    <3> DEFINE c == FetchContent(b, m)
    <3>1. Sound(c, stack, {})
      BY <2>1, FetchContentStep
    <3> HIDE DEF c
    <3>2. At(c, stack).account = c /\ At(c, stack).stack = stack
      BY DEF At
    <3> QED
      BY <1>1, <2>3, <3>1, <3>2, CallRoomStep DEF c
  <2> QED
    BY <2>2, <2>3 DEF b
<1> QED
  BY <1>4, <1>11, <1>12, <1>13

LEMMA DeleteStep ==
  ASSUME QueueInv, NEW ms \in SUBSET Messages \ {{}}, Delete(ms)
  PROVE  QueueInv'
<1> DEFINE removed == {m \in ms : account.msg[m].disp = "queued"}
           left == Kept(account.entries, removed)
           b == [account EXCEPT !.msg = Cancel(account, ms), !.deleted = @ \cup ms,
                   !.updates = @ + 1, !.entries = Kept(@, removed)]
           t == <<[Frame("deleted") EXCEPT !.ms = ms]>> \o stack
           r == Extract(b, t)
<1>1. /\ Room(stack) /\ (Step(r) \/ Step(At(b, t)))
      /\ \A m \in ms : m \in Messages /\ account.msg[m].disp \in {"queued", "released"}
  BY CallRoom DEF Call, Delete
<1>2. /\ Sound(account, stack, {}) /\ AccountFields \subseteq DOMAIN account
      /\ AccountOK(account) /\ QueueOK(account) /\ account.entries \in Seq(Messages)
  BY DEF QueueInv, Sound, AccountOK
<1>3. left \in Seq(Messages) /\ ToSet(left) = ToSet(account.entries) \ removed
  BY <1>2, KeptProperties
<1>4. \A m \in Messages :
        Cancel(account, ms)[m] = IF m \in ms THEN [account.msg[m] EXCEPT !.disp = "cancelled"]
                                             ELSE account.msg[m]
  BY DEF Cancel
<1>5. /\ AccountFields \subseteq DOMAIN b /\ b.msg = Cancel(account, ms) /\ b.entries = left
      /\ b.exists = account.exists /\ b.ready = account.ready
      /\ b.client = account.client /\ HistorySame(account, b) /\ WorkSame(account, b)
      /\ b.replies = account.replies /\ DoneKept(account, b)
      /\ b.deleted = account.deleted \cup ms
  BY <1>2 DEF AccountFields, HistorySame, WorkSame, DoneKept
<1>6. DOMAIN b.msg = Messages
  BY <1>5 DEF Cancel
<1> HIDE DEF b, left
<1>7. \A m \in Messages :
        /\ MessageOK(b.msg[m]) /\ b.msg[m].inc = account.msg[m].inc
        /\ b.msg[m].rev = account.msg[m].rev /\ b.msg[m].kind = account.msg[m].kind
        /\ m \in ms => b.msg[m].disp = "cancelled"
        /\ m \notin ms => b.msg[m].disp = account.msg[m].disp
  <2> TAKE m \in Messages
  <2>1. MessageOK(account.msg[m]) /\ "cancelled" \in Dispositions
    BY <1>2 DEF AccountOK, Dispositions
  <2>2. b.msg[m] = IF m \in ms THEN [account.msg[m] EXCEPT !.disp = "cancelled"]
                               ELSE account.msg[m]
    BY <1>4, <1>5
  <2> QED
    BY <2>1, <2>2, Disposed
<1>8. AccountOK(b)
  BY <1>2, <1>3, <1>5, <1>6, <1>7 DEF AccountOK, HistorySame
<1>9. QueueOK(b)
  <2>1. ToSet(b.entries) = {m \in Messages : b.msg[m].disp = "queued"}
    BY <1>2, <1>3, <1>5, <1>7 DEF QueueOK
  <2>2. ASSUME account.entries = <<>> PROVE left = <<>>
    <3>1. ToSet(account.entries) = {}
      BY <2>2 DEF ToSet
    <3>2. ToSet(left) = {}
      BY <1>3, <3>1
    <3>3. DOMAIN left = {} /\ DOMAIN left = 1 .. Len(left) /\ Len(left) \in Nat
      BY <1>3, <3>2, LenProperties DEF ToSet
    <3>4. Len(left) = 0
      BY <3>3
    <3> QED
      BY <1>3, <3>4, EmptySeq
  <2> QED
    BY <1>2, <1>5, <2>1, <2>2 DEF QueueOK
<1>10. Advance(account, b) /\ NobodyCame(account, b)
  BY <1>1, <1>7 DEF Advance, Later, NobodyCame
<1>11. WorkFits(account, b)
  BY <1>2, <1>5, SameWorkFits DEF Sound
<1>12. Sound(b, stack, {})
  <2>1. \A m \in Messages : m \notin {} /\ m \notin b.deleted /\ Owed(b.msg[m]) =>
          m \notin {} /\ SameContent(account.msg[m], b.msg[m])
    BY <1>5, <1>7 DEF SameContent
  <2> QED
    BY <1>2, <1>5, <1>8, <1>9, <1>10, <1>11, <2>1, Update
<1>13. Sound(b, t, {}) /\ Room(t)
  <2> DEFINE f == [Frame("deleted") EXCEPT !.ms = ms]
  <2>1. FrameOK(b, f) /\ f.kind = "deleted"
    BY PlainFrame DEF Frame
  <2> HIDE DEF f
  <2> QED
    BY <1>1, <1>12, <2>1, SoundPush, PushRoom DEF Sound, f
<1> HIDE DEF t
<1>14. CASE Step(r)
  <2>1. Sound(r.account, r.stack, {}) /\ Room(r.stack)
    BY <1>13, ExtractStep
  <2> HIDE DEF r
  <2> QED
    BY <1>14, <2>1, CallRoomStep
<1>15. CASE Step(At(b, t))
  <2>1. At(b, t).account = b /\ At(b, t).stack = t
    BY DEF At
  <2> QED
    BY <1>13, <1>15, <2>1, CallRoomStep
<1> QED
  BY <1>1, <1>14, <1>15

\* flush: what was in the queue is to be displayed, what had left it is cancelled.
LEMMA CloseStep ==
  ASSUME QueueInv, Close
  PROVE  QueueInv'
<1> DEFINE released == {m \in Messages : account.msg[m].disp = "released"}
           Q == {m \in Messages : account.msg[m].disp = "queued"}
           flushed == [m \in Messages |->
             IF account.msg[m].disp = "queued" THEN Flush(account.msg[m])
                                               ELSE Cancel(account, released)[m]]
           b == [account EXCEPT !.client = "closing", !.exists = FALSE, !.ready = TRUE,
                   !.entries = <<>>, !.msg = flushed]
           en == account.entries
           handles == [i \in DOMAIN en |-> ContentHandle(b, en[i])]
           f == Frame("quit")
           t == <<f>> \o stack
           r == ShowMessages(b, t, handles)
<1>1. Room(stack) /\ Step(r) /\ account.client = "open"
  BY CallRoom DEF Call, Close
<1>2. /\ Sound(account, stack, {}) /\ AccountFields \subseteq DOMAIN account
      /\ AccountOK(account) /\ QueueOK(account) /\ en \in Seq(Messages)
  BY DEF QueueInv, Sound, AccountOK
<1>3. /\ AccountFields \subseteq DOMAIN b /\ b.msg = flushed /\ b.entries = <<>>
      /\ b.exists = FALSE /\ b.ready = TRUE
      /\ b.client = "closing" /\ HistorySame(account, b) /\ WorkSame(account, b)
      /\ b.replies = account.replies /\ DoneKept(account, b)
  BY <1>2 DEF AccountFields, HistorySame, WorkSame, DoneKept
<1>4. DOMAIN b.msg = Messages
  BY <1>3
<1>5. \A m \in Messages :
        /\ MessageOK(b.msg[m]) /\ b.msg[m].kind = account.msg[m].kind
        /\ m \in Q =>
             b.msg[m].disp = "released" /\ b.msg[m].inc = 2 /\ account.msg[m].inc = 1
        /\ m \notin Q =>
             /\ b.msg[m].inc = account.msg[m].inc /\ b.msg[m].rev = account.msg[m].rev
             /\ b.msg[m].disp = IF m \in released THEN "cancelled" ELSE account.msg[m].disp
  <2> TAKE m \in Messages
  <2>1. MessageOK(account.msg[m]) /\ account.msg[m].inc = 1
    BY <1>1, <1>2 DEF AccountOK
  <2>2. CASE m \in Q
    <3> DEFINE x == account.msg[m]
    <3>1. b.msg[m] = Flush(x)
      BY <1>3, <2>2
    <3>2. MessageOK(x) /\ x.inc = 1
      BY <2>1
    <3> HIDE DEF x
    <3>3. /\ MessageOK(Flush(x)) /\ Flush(x).kind = x.kind /\ Flush(x).disp = "released"
          /\ Flush(x).inc = 2
      BY <3>2 DEF Flush, MessageOK, MessageFields, Dispositions
    <3> QED
      BY <2>1, <2>2, <3>1, <3>3 DEF x
  <2>3. CASE m \notin Q
    <3>1. b.msg[m] = IF m \in released THEN [account.msg[m] EXCEPT !.disp = "cancelled"]
                                       ELSE account.msg[m]
      BY <1>3, <2>3 DEF Cancel
    <3>2. "cancelled" \in Dispositions
      BY DEF Dispositions
    <3> HIDE DEF b, Q, released
    <3> QED
      BY <2>1, <2>3, <3>1, <3>2, Disposed
  <2> QED
    BY <2>2, <2>3
<1>6. en \in Seq(Messages) /\ ToSet(en) = Q
  BY <1>2 DEF QueueOK
<1>7. \A m \in Messages : m \notin Q => b.msg[m].disp \in {"absent", "cancelled"}
  <2> TAKE m \in Messages
  <2>1. MessageOK(account.msg[m])
    BY <1>2 DEF AccountOK
  <2>2. m \in Q <=> account.msg[m].disp = "queued"
    OBVIOUS
  <2>3. m \in released <=> account.msg[m].disp = "released"
    OBVIOUS
  <2> HIDE DEF Q, released, b
  <2> QED
    BY <1>5, <2>1, <2>2, <2>3 DEF MessageOK, Dispositions
<1>8. \A m \in Messages : account.msg[m].disp = "absent" => b.msg[m].disp = "absent"
  BY <1>5
<1>9. \A m \in Q : account.msg[m].disp # "absent" /\ m \in Messages
  OBVIOUS
<1>10. \A m \in Messages : m \in released => account.msg[m].disp = "released"
  OBVIOUS
<1> HIDE DEF released, Q, flushed, b
<1>11. AccountOK(b)
  <2>1. <<>> \in Seq(Messages)
    OBVIOUS
  <2> QED
    BY <1>2, <1>3, <1>4, <1>5, <2>1 DEF AccountOK, HistorySame
<1>12. QueueOK(b)
  <2>1. \A m \in Messages : b.msg[m].disp # "queued"
    BY <1>5, <1>7
  <2>2. ToSet(<<>>) = {}
    BY DEF ToSet
  <2> QED
    BY <1>3, <2>1, <2>2 DEF QueueOK
<1>13. Advance(account, b) /\ NobodyCame(account, b)
  <2> SUFFICES ASSUME NEW m \in Messages PROVE Later(account.msg[m], b.msg[m])
    BY <1>8 DEF Advance, NobodyCame
  <2>1. CASE m \in Q
    BY <1>5, <2>1 DEF Later
  <2>2. CASE m \notin Q
    BY <1>5, <1>10, <2>2 DEF Later
  <2> QED
    BY <2>1, <2>2
<1>14. WorkFits(account, b)
  BY <1>2, <1>3, SameWorkFits DEF Sound
<1>15. Sound(b, stack, Q)
  <2>1. \A m \in Messages : m \notin Q => ~Owed(b.msg[m])
    BY <1>7 DEF Owed
  <2> QED
    BY <1>2, <1>3, <1>11, <1>12, <1>13, <1>14, <2>1, Update
<1>16. Sound(b, t, Q) /\ Room(t)
  <2>1. f.kind = "quit" /\ FrameOK(b, f)
    BY PlainFrame DEF Frame
  <2> HIDE DEF f
  <2>2. IsStack(stack) /\ FramesOK(b, stack) /\ HistoryOK(b, stack)
    BY <1>15 DEF Sound
  <2>3. /\ IsStack(t) /\ FramesOK(b, t)
        /\ PagesOK(b, stack) => PagesOK(b, t)
        /\ NoPage(stack) => NoPage(t)
        /\ OnePage(stack) => OnePage(t)
    BY <2>1, <2>2, Push
  <2>4. Room(t)
    BY <1>1, <2>1, <2>2, PushRoom
  <2> HIDE DEF t
  <2>5. HistoryOK(b, t)
    BY <2>2, <2>3 DEF HistoryOK
  <2>6. OwedOK(b, t, Q)
    BY <1>7 DEF OwedOK, Owed
  <2> QED
    BY <1>15, <2>3, <2>4, <2>5, <2>6 DEF Sound
<1>17. handles \in Seq({ContentHandle(b, m) : m \in Messages})
  <2>1. Len(en) \in Nat /\ DOMAIN en = 1 .. Len(en) /\ \A i \in 1 .. Len(en) : en[i] \in Messages
    BY <1>6, LenProperties
  <2>2. \A i \in 1 .. Len(en) : ContentHandle(b, en[i]) \in {ContentHandle(b, m) : m \in Messages}
    BY <2>1
  <2>3. handles = [i \in 1 .. Len(en) |-> ContentHandle(b, en[i])]
    BY <2>1
  <2> QED
    BY <2>1, <2>2, <2>3, IsASeq
<1>18. \A j \in DOMAIN handles : en[j] \in Q /\ handles[j] = ContentHandle(b, en[j])
  BY <1>6 DEF ToSet
<1>19. \A m \in Q : Knows(b, ContentHandle(b, m)) /\ Names(b.msg[m], m, ContentHandle(b, m))
  <2> TAKE m \in Q
  <2>1. m \in Messages /\ b.msg[m].disp # "absent"
    BY <1>5, <1>9
  <2> QED
    BY <1>11, <2>1, ContentHandleKnown
<1>20. \A j \in DOMAIN handles : Knows(b, handles[j])
  BY <1>18, <1>19
<1>21. \A m \in Q : Owed(b.msg[m]) => \E j \in DOMAIN handles : Names(b.msg[m], m, handles[j])
  <2> TAKE m \in Q
  <2>1. PICK j \in DOMAIN en : en[j] = m
    BY <1>6 DEF ToSet
  <2>2. j \in DOMAIN handles /\ handles[j] = ContentHandle(b, m)
    BY <1>18, <2>1
  <2> QED
    BY <1>19, <2>2
<1> HIDE DEF handles, t
<1>22. LET q == ShowMessages(b, t, handles)
       IN q.account = b /\ Sound(b, q.stack, {}) /\ Room(q.stack)
  BY <1>16, <1>17, <1>20, <1>21, ShowMessagesStep
<1> HIDE DEF r
<1>23. Sound(r.account, r.stack, {}) /\ Room(r.stack)
  BY <1>22 DEF r
<1> QED
  BY <1>1, <1>23, CallRoomStep

-----------------------------------------------------------------------------
(* What the handlers do when a display returns *)

LEMMA PopStep ==
  ASSUME NEW a, NEW s, Sound(a, s, {}), Fits(s), s # <<>>
  PROVE  /\ Room(Tail(s)) /\ IsStack(Tail(s)) /\ FrameOK(a, Head(s))
         /\ FramesOK(a, Tail(s)) /\ HistoryOK(a, Tail(s))
         /\ Head(s).kind = "page" =>
              PageOK(a, Head(s)) /\ NoPage(Tail(s)) /\ ~a.gap /\ ~a.history
         /\ Head(s).kind \notin {"batch", "quit"} => Sound(a, Tail(s), {})
<1> DEFINE t == Tail(s)
           f == Head(s)
<1>1. IsStack(s) /\ FramesOK(a, s) /\ HistoryOK(a, s) /\ OwedOK(a, s, {})
  BY DEF Sound
<1>2. /\ IsStack(t) /\ FramesOK(a, t) /\ FrameOK(a, f)
      /\ PagesOK(a, s) => PagesOK(a, t) /\ (f.kind = "page" => PageOK(a, f))
      /\ NoPage(s) => NoPage(t) /\ f.kind # "page"
      /\ OnePage(s) => OnePage(t) /\ (f.kind = "page" => NoPage(t))
      /\ \A x, m : Awaits(s, x, m) =>
           f.kind # "quit" /\ (Lists(f, x, m) \/ Awaits(t, x, m))
      /\ DisplaysOf(s) = DisplaysOf(t) + IF f.kind = "display" THEN 1 ELSE 0
  BY <1>1, Pop
<1> HIDE DEF t, f
<1>3. Room(t)
  <2>1. MaxDepth \in Nat /\ DisplaysOf(t) \in Nat /\ DisplaysOf(s) \in Nat
    BY <1>1, <1>2, BoundsAssumption, DisplaysType
  <2> QED
    BY <1>2, <2>1 DEF Room, Fits, f
<1>4. /\ HistoryOK(a, t)
      /\ f.kind = "page" => PageOK(a, f) /\ NoPage(t) /\ ~a.gap /\ ~a.history
  BY <1>1, <1>2 DEF HistoryOK
<1>5. ASSUME f.kind \notin {"batch", "quit"} PROVE Sound(a, t, {})
  <2>1. \A x, m : Awaits(s, x, m) => Awaits(t, x, m)
    BY <1>2, <1>5 DEF Lists
  <2>2. OwedOK(a, t, {})
    BY <1>1, <2>1 DEF OwedOK
  <2> QED
    BY <1>2, <1>4, <2>2 DEF Sound
<1> QED
  BY <1>2, <1>3, <1>4, <1>5 DEF t, f

\* What is at the top of the stack, and below it.
LEMMA TopIs ==
  ASSUME QueueInv, NEW kind, Top(kind)
  PROVE  /\ Head(stack).kind = kind /\ Room(Tail(stack)) /\ IsStack(Tail(stack))
         /\ Sound(account, stack, {}) /\ FrameOK(account, Head(stack))
         /\ FramesOK(account, Tail(stack)) /\ HistoryOK(account, Tail(stack))
         /\ kind = "page" =>
              /\ PageOK(account, Head(stack)) /\ NoPage(Tail(stack))
              /\ ~account.gap /\ ~account.history
         /\ kind \notin {"batch", "quit"} => Sound(account, Tail(stack), {})
<1>1. Sound(account, stack, {}) /\ Fits(stack) /\ stack # <<>> /\ Head(stack).kind = kind
  BY DEF QueueInv, Top
<1> QED
  BY <1>1, PopStep

LEMMA DisplayReturnsStep ==
  ASSUME QueueInv, DisplayReturns
  PROVE  QueueInv'
<1> DEFINE a == [account EXCEPT !.last = NoEvent,
                               !.located = @ \cup (Head(stack).ms \cap InTopic)]
           t == Tail(stack)
<1>1. Step(At(a, t)) /\ Top("display")
  BY DEF DisplayReturns
<1>2. Room(t) /\ Sound(account, t, {})
  BY <1>1, TopIs
<1>3. Fewer(account, a)
  <2>1. AccountFields \subseteq DOMAIN account
    BY <1>2 DEF Sound, AccountOK
  <2> QED
    BY <2>1 DEF Fewer, AccountFields, HistorySame
<1> HIDE DEF a, t
<1>4. Sound(a, t, {})
  BY <1>2, <1>3, FewerStep
<1> QED
  BY <1>1, <1>2, <1>4, AtStep

LEMMA FileStep ==
  ASSUME QueueInv, File
  PROVE  QueueInv'
<1> DEFINE h == Head(stack).h
           t == Tail(stack)
           r == ShowFile(account, t, h)
<1>1. Top("file") /\ (Step(r) \/ Step(At(account, t)))
  BY DEF File
<1>2. Room(t) /\ Sound(account, t, {}) /\ Knows(account, h)
  BY <1>1, TopIs DEF FrameOK
<1> HIDE DEF h, t
<1>3. Sound(r.account, r.stack, {}) /\ Fits(r.stack)
  BY <1>2, ShowFileStep
<1> HIDE DEF r
<1> QED
  BY <1>1, <1>2, <1>3, AtStep, CallStep

LEMMA ConvertStep ==
  ASSUME QueueInv, Convert
  PROVE  QueueInv'
<1> DEFINE f == Head(stack)
           t == Tail(stack)
           b == StartConversion(account, f.h, f.reply, f.version)
<1>1. Top("convert") /\ (Step(At(b, t)) \/ Step(At(account, t)))
  BY DEF Convert
<1>2. Room(t) /\ Sound(account, t, {}) /\ Knows(account, f.h) /\ Sticky(account, f.h)
  BY <1>1, TopIs DEF FrameOK
<1> HIDE DEF f, t
<1>3. Sound(b, t, {})
  BY <1>2, StartConversionStep
<1> HIDE DEF b
<1> QED
  BY <1>1, <1>2, <1>3, AtStep

LEMMA MoveReplyStep ==
  ASSUME QueueInv, MoveReply
  PROVE  QueueInv'
<1> DEFINE f == Head(stack)
           t == Tail(stack)
           move(d) == IF d.id = f.id /\ d.h = f.h
                      THEN [d EXCEPT !.reply = account.msg[f.h.m].reply] ELSE d
           moved == {move(d) : d \in account.downloads}
           b == [account EXCEPT !.downloads = moved]
<1>1. Top("moveReply") /\ (Step(At(b, t)) \/ Step(At(account, t)))
  BY DEF MoveReply
<1>2. Room(t) /\ Sound(account, t, {})
  BY <1>1, TopIs
<1>3. AccountFields \subseteq DOMAIN account /\ WorkOK(account)
  BY <1>2 DEF Sound, AccountOK
<1>4. \A d \in account.downloads : "h" \in DOMAIN move(d) /\ move(d).h = d.h
  BY <1>3 DEF WorkOK
<1> HIDE DEF move, f, t
<1>5. /\ AccountFields \subseteq DOMAIN b /\ b.msg = account.msg
      /\ b.entries = account.entries /\ b.exists = account.exists /\ b.ready = account.ready
      /\ b.client = account.client /\ HistorySame(account, b)
      /\ b.replies = account.replies /\ DoneKept(account, b) /\ b.downloads = moved
      /\ b.conversions = account.conversions /\ b.dialogs = account.dialogs
  BY <1>3 DEF AccountFields, HistorySame, DoneKept
<1> HIDE DEF b
<1>6. WorkFits(account, b)
  BY <1>3, <1>4, <1>5 DEF WorkFits, WorkOK, Work
<1>7. Alike(account, b)
  BY <1>2, <1>5 DEF Alike, SameContent, Sound, AccountOK
<1>8. Sound(b, t, {})
  BY <1>2, <1>5, <1>6, <1>7, Minor, SMTT(30)
<1> QED
  BY <1>1, <1>2, <1>8, AtStep, SMTT(30)

LEMMA ErrorStep ==
  ASSUME QueueInv, Error
  PROVE  QueueInv'
<1> DEFINE f == Head(stack)
           t == Tail(stack)
           r == Display(account, t, Event(f.h.m, "error", f.version, TRUE, f.reply))
<1>1. Top("error") /\ (Step(r) \/ Step(At(account, t)))
  BY DEF Error
<1>2. Room(t) /\ Sound(account, t, {})
  BY <1>1, TopIs
<1> HIDE DEF f, t
<1>3. Sound(r.account, r.stack, {}) /\ Fits(r.stack)
  BY <1>2, DisplayPlain
<1> HIDE DEF r
<1> QED
  BY <1>1, <1>2, <1>3, AtStep, CallStep

LEMMA NoticesStep ==
  ASSUME NEW a, NEW s, Sound(a, s, {}), Room(s), NEW n
  PROVE  Sound(a, Notices(n, s), {}) /\ Room(Notices(n, s))
<1> DEFINE f == [Frame("notices") EXCEPT !.id = n]
<1>1. FrameOK(a, f) /\ f.kind = "notices"
  BY PlainFrame DEF Frame
<1>2. Notices(n, s) = s \/ Notices(n, s) = <<f>> \o s
  BY DEF Notices
<1> HIDE DEF f
<1> QED
  BY <1>1, <1>2, SoundPush, PushRoom DEF Sound

LEMMA DeletedStep ==
  ASSUME QueueInv, Deleted
  PROVE  QueueInv'
<1> DEFINE t == Tail(stack)
<1>1. Top("deleted") /\ \E n : Step(At(account, Notices(n, t)))
  BY DEF Deleted
<1>2. Room(t) /\ Sound(account, t, {})
  BY <1>1, TopIs
<1> HIDE DEF t
<1> QED
  BY <1>1, <1>2, NoticesStep, AtStep

LEMMA NoticeStep ==
  ASSUME QueueInv, Notice
  PROVE  QueueInv'
<1> DEFINE n == Head(stack).id - 1
           t == Tail(stack)
           r == Notify(account, Notices(n, t))
<1>1. Top("notices") /\ Step(r)
  BY DEF Notice
<1>2. Room(t) /\ Sound(account, t, {})
  BY <1>1, TopIs
<1> HIDE DEF n, t
<1>3. Sound(r.account, r.stack, {}) /\ Fits(r.stack)
  BY <1>2, NoticesStep, NotifyStep
<1> HIDE DEF r
<1> QED
  BY <1>1, <1>3, CallStep

LEMMA BatchStep ==
  ASSUME QueueInv, Batch
  PROVE  QueueInv'
<1> DEFINE f == Head(stack)
           t == Tail(stack)
           batch == f.rest
           h == Head(batch)
           g == [f EXCEPT !.rest = Tail(batch)]
           left == (IF Len(batch) = 1 THEN <<>> ELSE <<g>>) \o t
           r == ShowMessage(account, left, h)
<1>1. /\ Top("batch")
      /\ (Current(account, h) /\ Step(r)) \/ (~Current(account, h) /\ Step(At(account, left)))
  BY DEF Batch
<1>2. /\ f.kind = "batch" /\ Room(t) /\ IsStack(t) /\ FrameOK(account, f)
      /\ FramesOK(account, t) /\ HistoryOK(account, t) /\ Sound(account, stack, {})
  BY <1>1, TopIs
<1>3. PICK S : batch \in Seq(S)
  BY <1>2 DEF FrameOK
<1>4. /\ batch # <<>> /\ {"kind", "h", "rest", "more"} \subseteq DOMAIN f
      /\ \A j \in DOMAIN batch : Knows(account, batch[j])
  BY <1>2 DEF FrameOK
<1>5. Len(batch) \in Nat /\ Len(batch) # 0 /\ DOMAIN batch = 1 .. Len(batch) /\ h = batch[1]
  BY <1>3, <1>4, EmptySeq, LenProperties DEF Head
<1>6. /\ Tail(batch) \in Seq(S) /\ Len(Tail(batch)) = Len(batch) - 1
      /\ \A i \in 1 .. Len(batch) - 1 : Tail(batch)[i] = batch[i + 1]
  <2> DEFINE p == batch
  <2>1. p \in Seq(S) /\ p # <<>>
    BY <1>3, <1>4
  <2> HIDE DEF p
  <2>2. /\ Tail(p) \in Seq(S) /\ Len(Tail(p)) = Len(p) - 1
        /\ \A i \in 1 .. Len(Tail(p)) : Tail(p)[i] = p[i + 1]
    BY <2>1, HeadTailProperties
  <2>3. \A i \in 1 .. Len(p) - 1 : Tail(p)[i] = p[i + 1]
    BY <2>2
  <2> QED
    BY <2>2, <2>3 DEF p
<1>7. Knows(account, h)
  BY <1>4, <1>5
<1>8. f.rest = batch
  OBVIOUS
<1>9. stack # <<>> /\ IsStack(stack)
  BY <1>1, <1>2 DEF Top, Sound
<1>10. \A x, m : Awaits(stack, x, m) => Lists(f, x, m) \/ Awaits(t, x, m)
  BY <1>9, Pop
<1> DEFINE Popped == /\ Room(left) /\ IsStack(left) /\ FramesOK(account, left)
                    /\ HistoryOK(account, left)
                    /\ \A x, m : Awaits(stack, x, m) => Names(x, m, h) \/ Awaits(left, x, m)
<1>11. ASSUME Len(batch) = 1 PROVE Popped
  <2>1. left = t
    BY <1>2, <1>11, ConcatEmptySeq DEF IsStack
  <2>2. \A x, m : Lists(f, x, m) => Names(x, m, h)
    BY <1>5, <1>11 DEF Lists
  <2> HIDE DEF left, f, t, h
  <2> QED
    BY <1>2, <1>10, <2>1, <2>2
<1>12. ASSUME Len(batch) # 1 PROVE Popped
  <2>1. left = <<g>> \o t
    BY <1>12
  <2>2. /\ g.kind = "batch" /\ g.rest = Tail(batch)
        /\ {"kind", "h", "rest", "more"} \subseteq DOMAIN g
    BY <1>2, <1>4
  <2>3. g.rest # <<>> /\ DOMAIN g.rest = 1 .. Len(batch) - 1
    <3> DEFINE p == Tail(batch)
               n == Len(batch)
    <3>1. p \in Seq(S) /\ Len(p) = n - 1 /\ n \in Nat /\ n # 0 /\ n # 1 /\ g.rest = p
      BY <1>5, <1>6, <1>12, <2>2
    <3> HIDE DEF p, n
    <3>2. p # <<>> /\ DOMAIN p = 1 .. n - 1
      BY <3>1, LenProperties, EmptySeq
    <3> QED
      BY <3>1, <3>2 DEF n
  <2>4. \A j \in 1 .. Len(batch) - 1 : g.rest[j] = batch[j + 1] /\ j + 1 \in 1 .. Len(batch)
    BY <1>5, <1>6, <2>2
  <2>5. \A x, m : Lists(f, x, m) => Names(x, m, h) \/ Lists(g, x, m)
    <3> SUFFICES ASSUME NEW x, NEW m, Lists(f, x, m), ~Names(x, m, h) PROVE Lists(g, x, m)
      OBVIOUS
    <3>1. PICK j \in 1 .. Len(batch) : Names(x, m, batch[j])
      BY <1>5, <1>8 DEF Lists
    <3>2. j # 1
      BY <1>5, <3>1
    <3>3. j - 1 \in 1 .. Len(batch) - 1 /\ (j - 1) + 1 = j
      BY <1>5, <3>2
    <3>4. Names(x, m, g.rest[j - 1])
      BY <2>4, <3>1, <3>3
    <3> QED
      BY <2>2, <2>3, <3>3, <3>4 DEF Lists
  <2>6. FrameOK(account, g)
    <3>1. \A j \in DOMAIN g.rest : Knows(account, g.rest[j])
      BY <1>4, <1>5, <2>3, <2>4
    <3>2. \E S1 : g.rest \in Seq(S1)
      BY <1>6, <2>2
    <3> QED
      BY <2>2, <2>3, <3>1, <3>2 DEF FrameOK
  <2> HIDE DEF g, left, f, t, h
  <2> DEFINE u == <<g>> \o t
  <2>7. /\ IsStack(u) /\ FramesOK(account, u)
        /\ PagesOK(account, t) => PagesOK(account, u)
        /\ NoPage(t) => NoPage(u)
        /\ OnePage(t) => OnePage(u)
        /\ \A x, m : Awaits(t, x, m) => Awaits(u, x, m)
        /\ \A x, m : Lists(g, x, m) => Awaits(u, x, m)
    BY <1>2, <2>2, <2>6, Push
  <2>8. Room(u)
    BY <1>2, <2>2, PushRoom
  <2> HIDE DEF u
  <2>9. HistoryOK(account, u)
    BY <1>2, <2>7 DEF HistoryOK
  <2> QED
    BY <1>10, <2>1, <2>5, <2>7, <2>8, <2>9 DEF u
<1>13. Popped
  BY <1>11, <1>12
<1> HIDE DEF f, t, batch, h, g, left
<1>14. ASSUME NEW E,
              \A m \in Messages : Owed(account.msg[m]) /\ Names(account.msg[m], m, h) => m \in E
       PROVE  Sound(account, left, E)
  BY <1>2, <1>13, <1>14 DEF Sound, OwedOK
<1>15. CASE Current(account, h) /\ Step(r)
  <2>1. Sound(account, left, {h.m})
    BY <1>14 DEF Names
  <2>2. Sound(r.account, r.stack, {}) /\ Fits(r.stack)
    BY <1>7, <1>13, <2>1, ShowMessageStep
  <2> HIDE DEF r
  <2> QED
    BY <1>15, <2>2, CallStep
<1>16. CASE ~Current(account, h) /\ Step(At(account, left))
  <2>1. Sound(account, left, {})
    BY <1>14, <1>16 DEF Names, Current, Owed
  <2> QED
    BY <1>13, <1>16, <2>1, AtStep
<1> QED
  BY <1>1, <1>15, <1>16

\* No page lies below this one.
LEMMA OnlyPage ==
  ASSUME NEW s, IsStack(s), NoPage(s), NEW f
  PROVE  LET t == <<f>> \o s
         IN \A i \in DOMAIN t : t[i].kind = "page" => t[i] = f
<1> DEFINE t == <<f>> \o s
           n == Len(s)
<1>1. LET u == <<f>> \o s
      IN /\ IsStack(u) /\ u # <<>> /\ Head(u) = f /\ Tail(u) = s
         /\ Len(s) \in Nat /\ DOMAIN s = 1 .. Len(s)
         /\ DOMAIN u = 1 .. Len(s) + 1 /\ u[1] = f
         /\ \A i \in 1 .. Len(s) : u[i + 1] = s[i]
         /\ \A i \in 2 .. Len(s) + 1 : u[i] = s[i - 1]
  BY PushIs, ZenonT(60)
<1>2. /\ n \in Nat /\ DOMAIN s = 1 .. n /\ DOMAIN t = 1 .. n + 1
      /\ t[1] = f /\ \A i \in 2 .. n + 1 : t[i] = s[i - 1]
  BY <1>1, Zenon
<1> HIDE DEF t, n
<1>3. \A i \in 1 .. n + 1 : i # 1 => i \in 2 .. n + 1 /\ i - 1 \in 1 .. n
  BY <1>2
<1>4. \A i \in DOMAIN t : t[i].kind = "page" => t[i] = f
  BY <1>2, <1>3 DEF NoPage
<1> QED
  BY <1>4 DEF t

LEMMA PageMessage ==
  ASSUME NEW a, NEW t, Sound(a, t, {}), Room(t), NoPage(t), ~a.gap, ~a.history,
         NEW f, f.kind = "page", {"kind", "h", "rest", "more"} \subseteq DOMAIN f,
         PageOK(a, f), f.rest # <<>>
  PROVE  LET left == <<[f EXCEPT !.rest = Tail(f.rest)]>> \o t
         IN Sound(a, left, {}) /\ Room(left) /\ Comes(a, left, Head(f.rest))
<1> DEFINE p == f.rest
           q == Tail(p)
           g == [f EXCEPT !.rest = q]
           left == <<g>> \o t
           n == Len(p)
           m == Head(p)
<1>1. p \in Seq(Messages) /\ p # <<>>
  BY DEF PageOK
<1>2. /\ a.older \in Nat /\ a.newer \in Nat
      /\ IsStack(t) /\ FramesOK(a, t) /\ HistoryOK(a, t)
  BY DEF Sound, AccountOK
<1>3. /\ g.kind = "page" /\ g.rest = q
      /\ {"kind", "h", "rest", "more"} \subseteq DOMAIN g
  OBVIOUS
<1>4. /\ a.older + n < FirstLive /\ AbsentFrom(a, a.older + n)
      /\ \A k \in 1 .. n : p[k] = a.older + n + 1 - k
  BY DEF PageOK
<1> HIDE DEF p, g
<1>5. /\ n \in Nat /\ n # 0 /\ DOMAIN p = 1 .. n /\ m = p[1]
  BY <1>1, LenProperties, EmptySeq DEF Head
<1>6. q \in Seq(Messages) /\ Len(q) = n - 1 /\ \A k \in 1 .. n - 1 : q[k] = p[k + 1]
  <2>1. /\ q \in Seq(Messages) /\ Len(q) = Len(p) - 1
        /\ \A k \in 1 .. Len(q) : q[k] = p[k + 1]
    BY <1>1, HeadTailProperties
  <2> HIDE DEF q
  <2> QED
    BY <2>1
<1> HIDE DEF q, n, m
<1>7. m = a.older + n /\ m \in Messages
  BY <1>1, <1>2, <1>4, <1>5
<1>8. FirstLive \in Nat /\ FirstLive <= a.newer
  BY <1>2, BoundsAssumption DEF HistoryOK
<1>9. AbsentFrom(a, a.older + (n - 1))
  <2>1. \A k \in Messages : k <= a.older + (n - 1) => k <= a.older + n
    BY <1>2, <1>5, BoundsAssumption DEF Messages
  <2> QED
    BY <1>4, <2>1 DEF AbsentFrom
<1>10. PageOK(a, g)
  <2>1. \A k \in 1 .. n - 1 : q[k] = a.older + (n - 1) + 1 - k
    <3> TAKE k \in 1 .. n - 1
    <3>1. k + 1 \in 1 .. n /\ k \in Nat
      BY <1>5
    <3>2. q[k] = a.older + n + 1 - (k + 1)
      BY <1>4, <1>6, <3>1
    <3> QED
      BY <1>2, <1>5, <3>1, <3>2
  <2>2. a.older + (n - 1) < FirstLive
    BY <1>2, <1>4, <1>5, <1>8
  <2> QED
    BY <1>3, <1>6, <1>9, <2>1, <2>2 DEF PageOK
<1>11. FrameOK(a, g)
  BY <1>3, PlainFrame
<1> HIDE DEF left
<1>12. /\ IsStack(left) /\ FramesOK(a, left)
       /\ PagesOK(a, left) /\ OnePage(left)
       /\ \A x, k : Awaits(t, x, k) => Awaits(left, x, k)
  <2> DEFINE u == <<g>> \o t
  <2>1. PagesOK(a, t) /\ OnePage(t)
    BY DEF PagesOK, NoPage, OnePage
  <2>2. /\ IsStack(u) /\ FramesOK(a, u) /\ PagesOK(a, u) /\ OnePage(u)
        /\ \A x, k : Awaits(t, x, k) => Awaits(u, x, k)
    BY <1>2, <1>3, <1>10, <1>11, <2>1, Push
  <2> QED
    BY <2>2 DEF left
<1>13. Room(left)
  BY <1>2, <1>3, PushRoom DEF left
<1>14. Sound(a, left, {})
  BY <1>2, <1>12 DEF Sound, HistoryOK, OwedOK
<1>15. \A i \in DOMAIN left : left[i].kind = "page" => a.older + Len(left[i].rest) < m
  <2>1. \A i \in DOMAIN left : left[i].kind = "page" => left[i] = g
    BY <1>2, OnlyPage DEF left
  <2>2. a.older + Len(g.rest) < m
    BY <1>2, <1>3, <1>5, <1>6, <1>7
  <2> QED
    BY <2>1, <2>2
<1>16. a.msg[m].disp = "absent" /\ a.older < m /\ m < a.newer
  <2>1. m <= a.older + n
    BY <1>2, <1>5, <1>7
  <2>2. a.older < m /\ m < a.newer
    BY <1>2, <1>4, <1>5, <1>7, <1>8
  <2> QED
    BY <1>4, <1>7, <2>1, <2>2 DEF AbsentFrom
<1> QED
  BY <1>7, <1>13, <1>14, <1>15, <1>16 DEF Comes, left, g, q, m, p

LEMMA PageHandlerStep ==
  ASSUME QueueInv, Page
  PROVE  QueueInv'
<1> DEFINE f == Head(stack)
           t == Tail(stack)
           page == f.rest
           left == <<[f EXCEPT !.rest = Tail(page)]>> \o t
           more == [account EXCEPT !.history = TRUE]
           ready == [account EXCEPT !.ready = TRUE]
           end == Extract(ready, t)
<1>1. Top("page")
  BY DEF Page
<1>2. \/ /\ page # <<>>
         /\ \E kind \in Kinds, wantsReply \in Replies :
              Step(HandleIncoming(account, left, Head(page), kind, wantsReply, "prepend"))
      \/ Step(At(more, t))
      \/ account.exists /\ Step(end)
      \/ Step(At(account, t))
  BY DEF Page
<1>3. /\ f.kind = "page" /\ Room(t) /\ Sound(account, t, {}) /\ FrameOK(account, f)
      /\ PageOK(account, f) /\ NoPage(t) /\ ~account.gap /\ ~account.history
      /\ IsStack(t) /\ FramesOK(account, t) /\ HistoryOK(account, t)
  BY <1>1, TopIs
<1>4. {"kind", "h", "rest", "more"} \subseteq DOMAIN f
  BY <1>3 DEF FrameOK
<1>5. AccountFields \subseteq DOMAIN account /\ account.older \in Nat /\ account.newer \in Nat
  BY <1>3 DEF Sound, AccountOK
<1> HIDE DEF f, t
<1>6. CASE /\ page # <<>>
           /\ \E kind \in Kinds, wantsReply \in Replies :
                Step(HandleIncoming(account, left, Head(page), kind, wantsReply, "prepend"))
  <2>1. PICK kind \in Kinds, wantsReply \in Replies :
          Step(HandleIncoming(account, left, Head(page), kind, wantsReply, "prepend"))
    BY <1>6
  <2> DEFINE m == Head(page)
             r == HandleIncoming(account, left, m, kind, wantsReply, "prepend")
  <2>2. Sound(account, left, {}) /\ Room(left) /\ Comes(account, left, m)
    BY <1>3, <1>4, <1>6, PageMessage
  <2> HIDE DEF left, m
  <2>3. Sound(r.account, r.stack, {}) /\ Fits(r.stack)
    BY <2>2, HandleIncomingStep
  <2>4. Step(r)
    BY <2>1 DEF m
  <2> HIDE DEF r
  <2> QED
    BY <2>3, <2>4, CallStep
<1>7. CASE Step(At(more, t))
  <2>1. /\ AccountFields \subseteq DOMAIN more /\ more.msg = account.msg
        /\ more.entries = account.entries /\ more.exists = account.exists
        /\ more.ready = account.ready /\ more.client = account.client
        /\ more.replies = account.replies /\ WorkSame(account, more)
        /\ more.deleted = account.deleted /\ more.shown = account.shown
        /\ more.overtaken = account.overtaken
        /\ more.older = account.older /\ more.newer = account.newer
        /\ more.gap = account.gap
    BY <1>5 DEF AccountFields, WorkSame
  <2> HIDE DEF more
  <2>2. HistoryOK(more, t)
    BY <1>3, <2>1 DEF HistoryOK, PagesOK, NoPage, AbsentFrom
  <2>3. Sound(more, t, {})
    BY <1>3, <1>5, <2>1, <2>2, HistoryStep
  <2> QED
    BY <1>3, <1>7, <2>3, AtStep
<1>8. CASE account.exists /\ Step(end)
  <2>1. /\ AccountFields \subseteq DOMAIN ready /\ ready.msg = account.msg
        /\ ready.entries = account.entries /\ ready.exists = account.exists
        /\ ready.client = account.client
        /\ ready.replies = account.replies /\ WorkSame(account, ready)
        /\ ready.deleted = account.deleted /\ ready.shown = account.shown
        /\ ready.overtaken = account.overtaken
        /\ ready.older = account.older /\ ready.newer = account.newer
        /\ ready.gap = account.gap /\ ready.history = account.history
    BY <1>5 DEF AccountFields, WorkSame
  <2> HIDE DEF ready
  <2>2. HistoryOK(ready, t)
    BY <1>3, <2>1 DEF HistoryOK, PagesOK, NoPage, AbsentFrom
  <2>3. Sound(ready, t, {})
    BY <1>3, <1>5, <1>8, <2>1, <2>2, HistoryStep
  <2>4. Sound(end.account, end.stack, {}) /\ Room(end.stack)
    BY <1>3, <2>3, ExtractStep
  <2> HIDE DEF end
  <2> QED
    BY <1>8, <2>4, CallRoomStep
<1>9. CASE Step(At(account, t))
  BY <1>3, <1>9, AtStep
<1> HIDE DEF page, left, more, ready, end
<1> QED
  BY <1>2, <1>6, <1>7, <1>8, <1>9

\* What the quit leaves undone is what lies under it; no batch that waits does.
LEMMA QuitStep ==
  ASSUME QueueInv, Quit
  PROVE  QueueInv'
<1> DEFINE b == [account EXCEPT !.client = "gone", !.history = FALSE, !.replies = {},
                   !.downloads = {}, !.conversions = {}, !.dialogs = {}]
<1>1. Top("quit") /\ Step(At(b, <<>>))
  BY DEF Quit
<1>2. /\ Sound(account, stack, {}) /\ stack # <<>> /\ Head(stack).kind = "quit"
      /\ IsStack(stack) /\ AccountOK(account) /\ QueueOK(account)
      /\ AccountFields \subseteq DOMAIN account
      /\ HistoryOK(account, stack) /\ OwedOK(account, stack, {})
  BY <1>1 DEF QueueInv, Sound, AccountOK, Top
<1>3. \A x, m : ~Awaits(stack, x, m)
  BY <1>2, Pop
<1>4. /\ AccountFields \subseteq DOMAIN b /\ b.msg = account.msg
      /\ b.entries = account.entries /\ b.exists = account.exists /\ b.ready = account.ready
      /\ b.client = "gone" /\ b.replies = {} /\ b.downloads = {} /\ b.conversions = {}
      /\ b.dialogs = {} /\ b.deleted = account.deleted /\ b.shown = account.shown
      /\ b.overtaken = account.overtaken
      /\ b.older = account.older /\ b.newer = account.newer /\ b.gap = account.gap
      /\ ~b.history
  BY <1>2 DEF AccountFields
<1> HIDE DEF b
<1>5. AccountOK(b) /\ QueueOK(b)
  BY <1>2, <1>4 DEF AccountOK, QueueOK
<1>6. WorkOK(b)
  BY <1>4 DEF WorkOK, Work
<1>7. /\ IsStack(<<>>) /\ FramesOK(b, <<>>) /\ NoPage(<<>>) /\ OnePage(<<>>)
      /\ PagesOK(b, <<>>)
  BY DEF IsStack, FramesOK, NoPage, OnePage, PagesOK
<1>8. HistoryOK(b, <<>>)
  BY <1>2, <1>4, <1>7 DEF HistoryOK, AbsentFrom
<1>9. OwedOK(b, <<>>, {})
  BY <1>2, <1>3, <1>4 DEF OwedOK, Shown
<1>10. Room(<<>>)
  <2>1. {i \in DOMAIN <<>> : <<>>[i].kind = "display"} = {}
    OBVIOUS
  <2>2. DisplaysOf(<<>>) = 0
    BY <2>1, FS_EmptySet DEF DisplaysOf
  <2> QED
    BY <2>2, BoundsAssumption DEF Room
<1>11. Sound(b, <<>>, {})
  BY <1>5, <1>6, <1>7, <1>8, <1>9 DEF Sound
<1> QED
  BY <1>1, <1>10, <1>11, AtStep

-----------------------------------------------------------------------------
(* The theorem *)

LEMMA QueueInit == Init => QueueInv
<1> SUFFICES ASSUME Init PROVE QueueInv
  OBVIOUS
<1> DEFINE a == account
<1>1. stack = <<>> /\ AccountFields \subseteq DOMAIN a
  BY DEF Init, AccountFields
<1>2. /\ DOMAIN a.msg = Messages /\ \A m \in Messages : a.msg[m] = Absent
      /\ ~a.exists /\ a.ready /\ a.entries = <<>> /\ a.gap = (FirstLive > 1) /\ ~a.history
      /\ a.older = FirstLive - 1 /\ a.newer = FirstLive
      /\ a.replies = {} /\ a.downloads = {} /\ a.conversions = {} /\ a.dialogs = {}
      /\ a.client = "open" /\ a.deleted = {} /\ a.shown = {}
  BY DEF Init
<1> HIDE DEF a
<1>3. \A m \in Messages :
        MessageOK(a.msg[m]) /\ a.msg[m].disp = "absent" /\ a.msg[m].inc = 1
  BY <1>2 DEF Absent, MessageOK, MessageFields, Dispositions
<1>4. FirstLive \in Nat /\ FirstLive >= 1 /\ <<>> \in Seq(Messages) /\ ToSet(<<>>) = {}
  BY BoundsAssumption DEF ToSet
<1>5. AccountOK(a)
  BY <1>1, <1>2, <1>3, <1>4 DEF AccountOK
<1>6. QueueOK(a)
  BY <1>2, <1>3, <1>4 DEF QueueOK
<1>7. WorkOK(a)
  BY <1>2 DEF WorkOK, Work
<1>8. /\ IsStack(<<>>) /\ FramesOK(a, <<>>) /\ NoPage(<<>>) /\ OnePage(<<>>)
      /\ PagesOK(a, <<>>)
  BY DEF IsStack, FramesOK, NoPage, OnePage, PagesOK
<1>9. HistoryOK(a, <<>>)
  BY <1>2, <1>3, <1>4, <1>8 DEF HistoryOK, AbsentFrom
<1>10. OwedOK(a, <<>>, {})
  BY <1>3 DEF OwedOK, Owed
<1>11. Fits(<<>>)
  <2>1. {i \in DOMAIN <<>> : <<>>[i].kind = "display"} = {}
    OBVIOUS
  <2>2. DisplaysOf(<<>>) = 0
    BY <2>1, FS_EmptySet DEF DisplaysOf
  <2> QED
    BY <2>2, BoundsAssumption DEF Fits
<1> QED
  BY <1>1, <1>5, <1>6, <1>7, <1>8, <1>9, <1>10, <1>11 DEF QueueInv, Sound, a

LEMMA QueueNext == QueueInv /\ [Next]_vars => QueueInv'
<1> SUFFICES ASSUME QueueInv, [Next]_vars PROVE QueueInv'
  OBVIOUS
<1>1. CASE NewMessage
  BY <1>1, NewMessageStep
<1>2. CASE HistoryPage
  BY <1>2, HistoryPageStep
<1>3. CASE HistoryFails
  BY <1>3, HistoryFailsStep
<1>4. CASE \E h \in account.replies : ReplyArrives(h)
  BY <1>4, ReplyArrivesStep
<1>5. CASE \E d \in account.downloads : DownloadTimer(d) \/ DownloadDone(d)
  BY <1>5, DownloadTimerStep, DownloadDoneStep
<1>6. CASE \E c \in account.conversions : ConversionDone(c) \/ ConversionLost(c)
  BY <1>6, ConversionDoneStep, ConversionLostStep
<1>7. CASE \E g \in account.dialogs : Answer(g)
  BY <1>7, AnswerStep
<1>8. CASE \E m \in Messages : Edit(m)
  BY <1>8, EditStep
<1>9. CASE \E ms \in SUBSET Messages \ {{}} : Delete(ms)
  BY <1>9, DeleteStep
<1>10. CASE Close
  BY <1>10, CloseStep
<1>11. CASE Continue
  <2>1. CASE DisplayReturns
    BY <2>1, DisplayReturnsStep
  <2>2. CASE Batch
    BY <2>2, BatchStep
  <2>3. CASE File
    BY <2>3, FileStep
  <2>4. CASE Convert
    BY <2>4, ConvertStep
  <2>5. CASE MoveReply
    BY <2>5, MoveReplyStep
  <2>6. CASE Error
    BY <2>6, ErrorStep
  <2>7. CASE Deleted
    BY <2>7, DeletedStep
  <2>8. CASE Notice
    BY <2>8, NoticeStep
  <2>9. CASE Page
    BY <2>9, PageHandlerStep
  <2>10. CASE Quit
    BY <2>10, QuitStep
  <2> QED
    BY <1>11, <2>1, <2>2, <2>3, <2>4, <2>5, <2>6, <2>7, <2>8, <2>9, <2>10 DEF Continue
<1>12. CASE UNCHANGED vars
  BY <1>12 DEF vars, QueueInv
<1> QED
  BY <1>1, <1>2, <1>3, <1>4, <1>5, <1>6, <1>7, <1>8, <1>9, <1>10, <1>11, <1>12 DEF Next

LEMMA QueueImplies == QueueInv => NothingLost
<1> SUFFICES ASSUME QueueInv PROVE NothingLost
  OBVIOUS
<1>1. /\ AccountOK(account) /\ QueueOK(account) /\ WorkOK(account)
      /\ OwedOK(account, stack, {}) /\ Fits(stack)
  BY DEF QueueInv, Sound
<1>2. TypeOK
  <2>1. \A d \in account.downloads : d.h.m \in Messages
    BY <1>1 DEF WorkOK, Work, Knows
  <2>2. \A m \in Messages : account.msg[m].inc \in 1 .. 2 /\ account.msg[m].disp \in
          {"absent", "queued", "released", "cancelled"}
    BY <1>1 DEF AccountOK, MessageOK, Dispositions
  <2>3. Displays <= MaxDepth
    BY <1>1 DEF Displays, DisplaysOf, Fits
  <2> QED
    BY <1>1, <2>1, <2>2, <2>3 DEF TypeOK, QueueOK, AccountOK
<1>3. ASSUME stack = <<>>, NEW m \in Messages \ (account.deleted \cup account.overtaken),
             account.msg[m].disp = "released", ~IsSticker(account.msg[m].kind)
      PROVE  \E e \in account.shown : e.m = m
  <2>1. ~Awaits(stack, account.msg[m], m)
    BY <1>3 DEF Awaits
  <2> QED
    BY <1>1, <1>3, <2>1 DEF OwedOK, Owed, Shown
<1> QED
  BY <1>2, <1>3 DEF NothingLost

\* A message that left the queue is displayed once every display has returned, in
\* whatever order replies, files, edits and deletions came, whatever ran inside a
\* display (showMessages looks at each message of a batch again, and flush gives what
\* it releases a fresh incarnation so that this second look does not drop it).  Only what
\* was deleted, or cancelled by a flush as already released, is not owed to the user, and
\* a topic's message that was edited after its release and before its first display.
THEOREM QueueLosesNothing == Spec => []NothingLost
<1>1. QueueInv /\ [Next]_vars => QueueInv'
  BY QueueNext
<1> QED
  BY QueueInit, QueueImplies, <1>1, PTL DEF Spec

=============================================================================
