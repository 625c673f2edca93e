-------------------------- MODULE Purple3SessionProofs --------------------------
(***************************************************************************)
(* What the connections of an account may rely on, for any number of them: *)
(* a connected account has a session that works, a sign-out is recovered   *)
(* from once, a connect is answered, and no error hides another.           *)
(*                                                                         *)
(* The inductive invariant is a predicate of the world, because a step     *)
(* passes several worlds. A step is about one connection: Outer says what  *)
(* it leaves alone, so that only that connection is looked at.             *)
(***************************************************************************)
EXTENDS Purple3Session, TLAPS

Live == Open \cup {"Closing"}

Tasks == [ours : BOOLEAN, preserve : BOOLEAN]
Completions == [of : {"connect", "disconnect"}, conn : Ids, ours : BOOLEAN, ok : BOOLEAN]

Connection ==
  [connect : {"none", "pending", "returned", "connected", "failed"},
   tasks : Seq(Tasks), result : Results \cup {"none"}, cancelled : BOOLEAN,
   recovery : BOOLEAN, wait : BOOLEAN, source : BOOLEAN,
   phase : {"none", "Connecting", "Ready", "Closing", "Settled", "freed"},
   login : {"none", "ready", "failed", "cancelled", "over"},
   notified : SUBSET Lifecycle, watching : BOOLEAN,
   deferred : BOOLEAN, chosen : BOOLEAN, failed : BOOLEAN, signOut : BOOLEAN,
   timer : BOOLEAN, explicit : BOOLEAN, closed : Results \cup {"none"}]

Account ==
  [enabled : BOOLEAN, state : {"disconnected", "connecting", "connected", "disconnecting"},
   conn : 0 .. MaxConnections, last : 0 .. MaxConnections, probe : BOOLEAN,
   error : {"none", "runtime", "restart", "cleanup"} \X (0 .. MaxConnections),
   recoveries : Nat, byHand : BOOLEAN]

Worlds == [account : Account, connection : [Ids -> Connection],
           pending : Seq(Completions), sync : BOOLEAN]

\* What waits to complete for the connection i.
Waits(w, i, of) == {k \in DOMAIN w.pending : w.pending[k].of = of /\ w.pending[k].conn = i}

-----------------------------------------------------------------------------
(* The inductive invariant *)

\* While the session is open or closes, its connect is open or the outcome chosen.
ConnectOK(c) ==
  /\ c.phase \in Live => /\ c.result = "none" /\ c.connect # "none"
                         /\ c.chosen <=> c.connect # "pending"
  /\ c.phase = "Connecting" => c.connect = "pending"
  /\ c.phase = "Ready" => c.connect # "pending"
  /\ c.phase = "Closing" /\ c.connect = "pending" => c.signOut \/ c.explicit
  /\ c.phase = "Settled" /\ ~c.source /\ c.connect = "pending" => c.result # "none"

\* No cancellation meets a session that is ready.
CancellationOK(c) ==
  /\ c.phase = "Ready" => ~c.watching /\ ~c.deferred
  /\ c.phase \in Open /\ c.deferred => c.cancelled

\* A sign-out is over when the end of the session is awaited for another reason.
SignOutOK(c) ==
  /\ c.timer => c.signOut /\ c.phase \in Open
  /\ c.signOut => c.phase \in Live /\ ~c.explicit /\ ~c.failed
  /\ c.explicit \/ c.failed => c.phase \notin Open
  /\ c.tasks # <<>> => c.phase = "Closing" /\ c.explicit
  /\ c.source => c.phase = "Settled" /\ c.connect # "none"
  /\ (c.closed # "none") <=> c.phase = "Settled"

Local(c) == ConnectOK(c) /\ CancellationOK(c) /\ SignOutOK(c)

\* A connected account is served, if by this connection.
Served(w, i) ==
  w.account.state = "connected" /\ w.account.conn = i =>
    /\ w.connection[i].connect = "connected"
    /\ w.connection[i].phase = "Ready" \/ w.connection[i].signOut

\* After a failure the account is not active, and all that still ends keeps its error.
ErrorKept(w, i) ==
  w.account.error = <<"runtime", i>> =>
    /\ ~Active(w.account) /\ w.account.conn \in {0, i}
    /\ w.connection[i].phase \notin Open
    /\ \A k \in DOMAIN w.connection[i].tasks :
         w.connection[i].tasks[k].ours => w.connection[i].tasks[k].preserve
    /\ \A k \in Waits(w, i, "disconnect") : w.pending[k].ours => w.pending[k].ok

\* Completions belong to sessions that are over, and to connects that failed.
CompletionsOK(w, i) ==
  /\ Waits(w, i, "disconnect") # {} => w.connection[i].phase \notin Live
  /\ Waits(w, i, "connect") # {} => w.connection[i].connect \in {"returned", "failed"}
  /\ w.connection[i].connect = "returned" => Waits(w, i, "connect") # {}

\* Connections are made one after another, and that of the account is not freed.
MadeOK(w, i) ==
  /\ i > w.account.last =>
       w.connection[i] = NewConnection /\ \A k \in DOMAIN w.pending : w.pending[k].conn # i
  /\ w.account.conn = i => w.connection[i].phase # "freed"

At(w, i) ==
  /\ Local(w.connection[i]) /\ Served(w, i) /\ ErrorKept(w, i)
  /\ CompletionsOK(w, i) /\ MadeOK(w, i)

\* The lock of the storage.
OneSession(w) ==
  \A i, j \in Ids : w.connection[i].phase \in Live /\ w.connection[j].phase \in Live => i = j

\* Between a restart and the login that it leads to there is no other session, and the
\* probe is not lost before that session has ended.
OneRestart(w) ==
  w.account.byHand \/
    /\ w.account.recoveries <= 1
    /\ Active(w.account) /\ w.account.recoveries # 0 =>
         /\ \A j \in Ids : w.connection[j].phase \in Live => j = w.account.conn
         /\ w.account.probe \/ (w.account.conn # 0
                                /\ w.connection[w.account.conn].phase \notin Live)
    /\ \A i, j \in Ids :
         w.connection[i].source =>
           /\ ~Active(w.account) /\ w.connection[j].phase \notin Live
           /\ w.connection[j].source => i = j

\* A connection is restarted once at most.
RestartsCounted(w) ==
  /\ w.account.recoveries <= w.account.last
  /\ \A i \in Ids : w.connection[i].phase \in Live => w.account.recoveries < i

AccountOK(w) ==
  /\ w.account.conn \in {0, w.account.last}
  /\ w.account.state = "connected" => w.account.conn # 0 /\ ~w.account.probe

Global(w) == AccountOK(w) /\ OneSession(w) /\ OneRestart(w) /\ RestartsCounted(w)

Inv(w) == w \in Worlds /\ Global(w) /\ \A i \in Ids : At(w, i)

\* onAuthorizationReady in progress
ReadyingOK ==
  /\ readying \in [conn : {0} \cup Ids, at : {"rest", "unwatch", "outcome"}]
  /\ readying.at = "rest" => readying = Idle
  /\ readying.at # "rest" => /\ readying.conn \in Ids
                             /\ connections[readying.conn].phase = "Connecting"
  /\ readying.at = "outcome" => ~connections[readying.conn].watching

IInv == Inv(World(FALSE)) /\ ReadyingOK

-----------------------------------------------------------------------------
(* A step about one connection *)

\* What may become of the account, at most: it is disconnected.
Less(a, b, i) ==
  /\ b.last = a.last /\ b.recoveries = a.recoveries
  /\ b.byHand <=> a.byHand
  /\ b.conn = a.conn \/ (b.conn = 0 /\ ~Active(b))
  /\ b.state = a.state \/ b.state \in {"disconnecting", "disconnected"}
  /\ b.probe => a.probe
  /\ \A j \in Ids \ {i} : b.error = <<"runtime", j>> => a.error = <<"runtime", j>>

\* ... and of what waits: completions for the connection are added.
Extends(p, q, i) ==
  /\ DOMAIN p \subseteq DOMAIN q
  /\ \A k \in DOMAIN p : q[k] = p[k]
  /\ \A k \in DOMAIN q \ DOMAIN p : q[k].conn = i

Outer(w, v, i) ==
  /\ v \in Worlds
  /\ \A j \in Ids \ {i} : v.connection[j] = w.connection[j]
  /\ Less(w.account, v.account, i)
  /\ Extends(w.pending, v.pending, i)

\* The session makes no progress but towards its end, and a probe that matters is kept.
Kept(w, v, i) ==
  /\ v.connection[i].phase \in Live => w.connection[i].phase \in Live
  /\ v.connection[i].source => w.connection[i].source
  /\ \/ (v.account.probe <=> w.account.probe) \/ ~Active(v.account)
     \/ w.account.byHand \/ w.account.recoveries = 0
     \/ v.account.conn = i /\ v.connection[i].phase \notin Live

\* What holds of the other connections still does.
LEMMA OthersKept ==
  ASSUME NEW w \in Worlds, NEW v, NEW i \in Ids, NEW j \in Ids \ {i},
         Outer(w, v, i), At(w, j)
  PROVE  At(v, j)
<1> USE DEF Outer, Less, Extends
<1>1. v.connection[j] = w.connection[j]
  OBVIOUS
<1>2. Local(v.connection[j])
  BY <1>1 DEF At
<1>3. \A of : Waits(v, j, of) = Waits(w, j, of)
  BY DEF Waits
<1>4. Served(v, j)
  BY <1>1 DEF At, Served, Active
<1>5. ErrorKept(v, j)
  <2> SUFFICES ASSUME v.account.error = <<"runtime", j>> PROVE ErrorKept(v, j)!2
    BY DEF ErrorKept
  <2>1. w.account.error = <<"runtime", j>>
    OBVIOUS
  <2>2. ErrorKept(w, j)!2
    BY <2>1 DEF At, ErrorKept
  <2>3. ~Active(v.account) /\ v.account.conn \in {0, j}
    BY <2>2 DEF Active
  <2>4. \A k \in Waits(v, j, "disconnect") : v.pending[k] = w.pending[k]
    BY <1>3 DEF Waits
  <2> QED BY <1>1, <1>3, <2>2, <2>3, <2>4
<1>6. CompletionsOK(v, j)
  BY <1>1, <1>3 DEF At, CompletionsOK
<1>7. MadeOK(v, j)
  <2>1. v.account.conn = j => w.account.conn = j
    BY DEF Ids
  <2> QED BY <1>1, <2>1 DEF At, MadeOK
<1> QED BY <1>2, <1>4, <1>5, <1>6, <1>7 DEF At

\* A step about one connection keeps the invariant if it keeps what it says of that one.
LEMMA StepKeeps ==
  ASSUME NEW w, NEW v, NEW i \in Ids, Inv(w), Outer(w, v, i), Kept(w, v, i), At(v, i)
  PROVE  Inv(v)
<1>1. w \in Worlds /\ v \in Worlds /\ Global(w)
  BY DEF Inv, Outer
<1>2. \A j \in Ids : At(v, j)
  <2> SUFFICES ASSUME NEW j \in Ids, j # i PROVE At(v, j)
    OBVIOUS
  <2>1. At(w, j)
    BY DEF Inv
  <2> QED BY <1>1, <2>1, OthersKept
<1>3. \A j \in Ids : /\ v.connection[j].phase \in Live => w.connection[j].phase \in Live
                     /\ v.connection[j].source => w.connection[j].source
  BY DEF Outer, Less, Kept
<1>4. Active(v.account) => Active(w.account) /\ v.account.conn = w.account.conn
  BY DEF Outer, Less, Active
<1>5. AccountOK(v)
  BY <1>1 DEF Global, AccountOK, Outer, Less, Active
<1>6. OneSession(v)
  BY <1>1, <1>3 DEF Global, OneSession
<1>7. RestartsCounted(v)
  BY <1>1, <1>3 DEF Global, RestartsCounted, Outer, Less
<1>8. OneRestart(v)
  <2> SUFFICES ASSUME ~v.account.byHand PROVE OneRestart(v)
    BY DEF OneRestart
  <2>1. ~w.account.byHand /\ v.account.recoveries = w.account.recoveries
    BY DEF Outer, Less
  <2>2. v.account.recoveries <= 1
    BY <1>1, <2>1 DEF Global, OneRestart
  <2>3. ASSUME Active(v.account), v.account.recoveries # 0
        PROVE  /\ \A j \in Ids : v.connection[j].phase \in Live => j = v.account.conn
               /\ v.account.probe \/ (v.account.conn # 0
                                      /\ v.connection[v.account.conn].phase \notin Live)
    <3>1. /\ \A j \in Ids : w.connection[j].phase \in Live => j = w.account.conn
          /\ w.account.probe \/ (w.account.conn # 0
                                 /\ w.connection[w.account.conn].phase \notin Live)
      BY <1>1, <1>4, <2>1, <2>3 DEF Global, OneRestart
    <3>2. CASE w.account.conn # 0 /\ w.connection[w.account.conn].phase \notin Live
      <4>1. w.account.conn \in Ids
        BY <1>1, <3>2 DEF Worlds, Account, Ids
      <4> QED BY <1>3, <1>4, <2>3, <3>1, <3>2, <4>1
    <3>3. CASE w.account.probe
      <4>1. (v.account.probe <=> w.account.probe)
            \/ (v.account.conn = i /\ v.connection[i].phase \notin Live)
        BY <2>1, <2>3 DEF Kept
      <4>2. i # 0
        BY DEF Ids
      <4> QED BY <1>3, <1>4, <2>3, <3>1, <3>3, <4>1, <4>2
    <3> QED BY <3>1, <3>2, <3>3
  <2>4. ASSUME NEW k \in Ids, NEW j \in Ids, v.connection[k].source
        PROVE  /\ ~Active(v.account) /\ v.connection[j].phase \notin Live
               /\ v.connection[j].source => k = j
    BY <1>1, <1>3, <1>4, <2>1, <2>4 DEF Global, OneRestart
  <2> QED BY <2>2, <2>3, <2>4 DEF OneRestart
<1> QED BY <1>1, <1>2, <1>5, <1>6, <1>7, <1>8 DEF Inv, Global

\* The choice of when tasks complete is not part of the state.
LEMMA SyncIsFree ==
  ASSUME NEW w, NEW v \in Worlds, Inv(w), v.account = w.account,
         v.connection = w.connection, v.pending = w.pending
  PROVE  Inv(v)
<1>1. Global(v)
  BY DEF Inv, Global, AccountOK, OneSession, OneRestart, RestartsCounted
<1>2. \A i \in Ids : At(v, i)
  BY DEF Inv, At, Served, ErrorKept, CompletionsOK, MadeOK, Waits
<1> QED BY <1>1, <1>2 DEF Inv

-----------------------------------------------------------------------------
(* Operators *)

\* A world with another account, another connection i and other completions
Makes(w, i, a, c, p, s) ==
  [account |-> a, connection |-> [w.connection EXCEPT ![i] = c], pending |-> p, sync |-> s]

LEMMA MakesWorld ==
  ASSUME NEW w \in Worlds, NEW i \in Ids, NEW a \in Account, NEW c \in Connection,
         NEW p \in Seq(Completions), NEW s \in BOOLEAN
  PROVE  LET v == Makes(w, i, a, c, p, s)
         IN /\ v \in Worlds
            /\ v.account = a /\ v.pending = p /\ v.sync = s /\ v.connection[i] = c
            /\ \A j \in Ids \ {i} : v.connection[j] = w.connection[j]
  BY DEF Makes, Worlds

LEMMA WorldParts ==
  ASSUME NEW w \in Worlds, NEW i \in Ids
  PROVE  /\ w.account \in Account /\ w.connection[i] \in Connection
         /\ w.pending \in Seq(Completions) /\ w.sync \in BOOLEAN
  BY DEF Worlds

LEMMA AccountTyped ==
  ASSUME NEW a \in Account, NEW st \in {"disconnected", "disconnecting"},
         NEW p \in BOOLEAN, NEW k \in 0 .. MaxConnections
  PROVE  [a EXCEPT !.state = st, !.probe = p, !.conn = k] \in Account
  BY DEF Account

LEMMA AccountWithError ==
  ASSUME NEW a \in Account, NEW st \in {"disconnected", "disconnecting"},
         NEW k \in 0 .. MaxConnections,
         NEW e \in {"none", "runtime", "restart", "cleanup"} \X (0 .. MaxConnections)
  PROVE  [a EXCEPT !.state = st, !.conn = k, !.error = e] \in Account
  BY DEF Account

LEMMA NothingLess ==
  ASSUME NEW a \in Account, NEW i
  PROVE  Less(a, a, i)
  BY DEF Less

LEMMA NothingAdded ==
  ASSUME NEW p, NEW i
  PROVE  Extends(p, p, i)
  BY DEF Extends

LEMMA OneAdded ==
  ASSUME NEW p \in Seq(Completions), NEW i, NEW x \in Completions, x.conn = i
  PROVE  /\ Extends(p, Append(p, x), i)
         /\ Append(p, x) \in Seq(Completions)
         /\ DOMAIN Append(p, x) = DOMAIN p \cup {Len(p) + 1}
         /\ Append(p, x)[Len(p) + 1] = x
<1> DEFINE q == Append(p, x)
<1>1. /\ q \in Seq(Completions) /\ DOMAIN q = DOMAIN p \cup {Len(p) + 1}
      /\ \A k \in DOMAIN p : q[k] = p[k]
      /\ q[Len(p) + 1] = x
  OBVIOUS
<1> QED BY <1>1 DEF Extends

\* The steps of several operators are about that connection if each is.
LEMMA OuterComposes ==
  ASSUME NEW u \in Worlds, NEW w, NEW v, NEW i \in Ids, Outer(u, w, i), Outer(w, v, i)
  PROVE  Outer(u, v, i)
<1>1. Less(u.account, v.account, i)
  BY DEF Outer, Less, Active
<1>2. Extends(u.pending, v.pending, i)
  BY DEF Outer, Extends
<1> QED BY <1>1, <1>2 DEF Outer

\* A connect has failed, and the account has seen it or will. Besides, the connection
\* has become c.
Refused(w, v, i, c) ==
  /\ Outer(w, v, i)
  /\ v.sync = w.sync
  /\ v.account = w.account
     \/ (~Active(v.account) /\ v.account.conn # i /\ v.account.error = w.account.error)
  /\ \A k \in DOMAIN v.pending \ DOMAIN w.pending : v.pending[k].of = "connect"
  /\ \E x \in {"returned", "failed"} :
       /\ v.connection[i] = [c EXCEPT !.connect = x]
       /\ x = "returned" => Waits(v, i, "connect") # {}

LEMMA ConnectFails ==
  ASSUME NEW w \in Worlds, NEW i \in Ids, w.connection[i].connect = "pending"
  PROVE  Refused(w, CompleteConnect(w, i, FALSE), i, w.connection[i])
<1> DEFINE v == CompleteConnect(w, i, FALSE)
           c(x) == [w.connection[i] EXCEPT !.connect = x]
<1>1. /\ w.account \in Account /\ w.connection[i] \in Connection
      /\ w.pending \in Seq(Completions) /\ w.sync \in BOOLEAN
  BY WorldParts
<1>2. \A x \in {"returned", "failed"} : c(x) \in Connection
  BY <1>1 DEF Connection
<1>3. CASE w.sync
  <2> DEFINE probe == w.account.probe /\ w.connection[i].recovery
             conn == IF w.account.conn = i THEN 0 ELSE w.account.conn
             a == [w.account EXCEPT !.state = "disconnected", !.probe = probe, !.conn = conn]
  <2>1. v = ConnectFailedSeen(w, i)
    BY <1>3 DEF CompleteConnect
  <2>2. v = Makes(w, i, a, c("failed"), w.pending, w.sync)
    BY <2>1 DEF ConnectFailedSeen, Makes, Worlds
  <2>3. /\ probe \in BOOLEAN /\ (probe => w.account.probe)
        /\ conn \in 0 .. MaxConnections /\ conn \in {0, w.account.conn} /\ conn # i
    BY <1>1, ConnectionsAssumption DEF Account, Connection, Ids
  <2> HIDE DEF probe, conn
  <2>4. a \in Account
    BY <1>1, <2>3, AccountTyped
  <2>5. /\ a.state = "disconnected" /\ a.conn # i /\ a.error = w.account.error
        /\ Less(w.account, a, i)
    BY <1>1, <2>3 DEF Account, Less, Active
  <2> HIDE DEF v, a, c
  <2>6. /\ v \in Worlds /\ v.account = a /\ v.pending = w.pending /\ v.sync = w.sync
        /\ v.connection[i] = c("failed")
        /\ \A j \in Ids \ {i} : v.connection[j] = w.connection[j]
    BY <1>1, <1>2, <2>2, <2>4, MakesWorld
  <2>7. Outer(w, v, i)
    BY <2>5, <2>6, NothingAdded DEF Outer
  <2> QED BY <2>5, <2>6, <2>7 DEF Refused, Active, v, c
<1>4. CASE ~w.sync
  <2> DEFINE done == [of |-> "connect", conn |-> i, ours |-> TRUE, ok |-> FALSE]
             p == Append(w.pending, done)
  <2>1. v = [w EXCEPT !.connection[i].connect = "returned", !.pending = Append(@, done)]
    BY <1>4 DEF CompleteConnect
  <2>2. v = Makes(w, i, w.account, c("returned"), p, w.sync)
    BY <2>1 DEF Makes, Worlds
  <2>3. done \in Completions /\ done.conn = i /\ done.of = "connect"
    BY DEF Completions
  <2> HIDE DEF done
  <2>4. /\ Extends(w.pending, p, i) /\ p \in Seq(Completions)
        /\ DOMAIN p = DOMAIN w.pending \cup {Len(w.pending) + 1}
        /\ p[Len(w.pending) + 1] = done
    BY <1>1, <2>3, OneAdded
  <2> HIDE DEF v, c, p
  <2>5. /\ v \in Worlds /\ v.account = w.account /\ v.pending = p /\ v.sync = w.sync
        /\ v.connection[i] = c("returned")
        /\ \A j \in Ids \ {i} : v.connection[j] = w.connection[j]
    BY <1>1, <1>2, <2>2, <2>4, MakesWorld
  <2>6. Outer(w, v, i)
    BY <1>1, <2>4, <2>5, NothingLess DEF Outer
  <2>7. Waits(v, i, "connect") # {}
    BY <2>3, <2>4, <2>5 DEF Waits
  <2>8. v.connection[i] = [w.connection[i] EXCEPT !.connect = "returned"]
    BY <2>5 DEF c
  <2>9. \A k \in DOMAIN v.pending \ DOMAIN w.pending : v.pending[k].of = "connect"
    BY <2>3, <2>4, <2>5
  <2> QED BY <2>5, <2>6, <2>7, <2>8, <2>9 DEF Refused, v
<1> QED BY <1>1, <1>3, <1>4

\* Only the connection is changed.
LEMMA MakesLocal ==
  ASSUME NEW w \in Worlds, NEW i \in Ids, NEW c \in Connection, NEW v,
         v = Makes(w, i, w.account, c, w.pending, w.sync)
  PROVE  /\ Outer(w, v, i) /\ v \in Worlds
         /\ v.account = w.account /\ v.pending = w.pending /\ v.sync = w.sync
         /\ v.connection[i] = c
<1>1. /\ w.account \in Account /\ w.pending \in Seq(Completions) /\ w.sync \in BOOLEAN
  BY WorldParts
<1>2. /\ v \in Worlds
      /\ v.account = w.account /\ v.pending = w.pending /\ v.sync = w.sync
      /\ v.connection[i] = c
      /\ \A j \in Ids \ {i} : v.connection[j] = w.connection[j]
  BY <1>1, MakesWorld
<1> QED BY <1>1, <1>2, NothingLess, NothingAdded DEF Outer

ClosingFrom(c) ==
  [c EXCEPT !.phase = "Closing", !.timer = FALSE, !.login = "over", !.notified = {},
            !.cancelled = FALSE, !.watching = FALSE]

LEMMA CloseBegins ==
  ASSUME NEW w \in Worlds, NEW i \in Ids, w.connection[i].phase \in Open
  PROVE  LET v == BeginClose(w, i)
         IN /\ Outer(w, v, i) /\ v \in Worlds
            /\ v.account = w.account /\ v.pending = w.pending /\ v.sync = w.sync
            /\ v.connection[i] = ClosingFrom(w.connection[i])
<1> DEFINE c == w.connection[i]
<1> DEFINE v == BeginClose(w, i)
<1>1. v = [w EXCEPT !.connection[i].phase = "Closing", !.connection[i].timer = FALSE,
                    !.connection[i].login = "over", !.connection[i].notified = {},
                    !.connection[i].cancelled = FALSE, !.connection[i].watching = FALSE]
  BY DEF BeginClose
<1> HIDE DEF v
<1>2. v = Makes(w, i, w.account, ClosingFrom(c), w.pending, w.sync)
  BY <1>1, ZenonT(30) DEF Makes, ClosingFrom, Worlds
<1>3. c \in Connection
  BY WorldParts
<1> HIDE DEF c
<1>4. ClosingFrom(c) \in Connection
  BY <1>3 DEF ClosingFrom, Connection
<1> QED BY <1>2, <1>4, MakesLocal DEF c, v

LEMMA ConnectFailureTold ==
  ASSUME NEW w \in Worlds, NEW i \in Ids, w.connection[i].connect = "pending",
         ~w.connection[i].chosen
  PROVE  Refused(w, NotifyConnectFailure(w, i), i, [w.connection[i] EXCEPT !.chosen = TRUE])
<1> DEFINE d == [w.connection[i] EXCEPT !.chosen = TRUE]
           u == [w EXCEPT !.connection[i].chosen = TRUE]
           v == CompleteConnect(u, i, FALSE)
<1>1. NotifyConnectFailure(w, i) = v
  BY DEF NotifyConnectFailure
<1>2. u = [w EXCEPT !.connection[i].chosen = TRUE]
  OBVIOUS
<1>3. w.connection[i] \in Connection
  BY WorldParts
<1>4. d \in Connection /\ d.connect = "pending"
  BY <1>3 DEF Connection
<1> HIDE DEF u
<1>5. u = Makes(w, i, w.account, d, w.pending, w.sync)
  BY <1>2, Zenon DEF Makes, Worlds
<1> HIDE DEF d
<1>6. /\ Outer(w, u, i) /\ u \in Worlds /\ u.connection[i] = d
      /\ u.account = w.account /\ u.pending = w.pending /\ u.sync = w.sync
  BY <1>4, <1>5, MakesLocal
<1>7. Refused(u, v, i, d)
  BY <1>4, <1>6, ConnectFails
<1> HIDE DEF v
<1>8. Outer(w, v, i)
  BY <1>6, <1>7, OuterComposes DEF Refused
<1>9. Refused(w, v, i, d)
  BY <1>6, <1>7, <1>8 DEF Refused
<1> QED BY <1>1, <1>9 DEF d

\* The session of the connection c closes. told: the failure of its connect waits to be
\* seen.
Closes(c, d, told) ==
  /\ d.phase = "Closing" /\ ~d.timer /\ (d.signOut => c.signOut)
  /\ d.result = c.result /\ d.closed = c.closed /\ d.source = c.source
  /\ d.failed /\ ~c.failed => ~d.signOut
  /\ \/ d.connect = c.connect /\ d.chosen = c.chosen
     \/ /\ c.connect = "pending" /\ d.chosen /\ d.connect \in {"returned", "failed"}
        /\ d.connect = "returned" => told
  /\ c.phase = "Connecting" => d.chosen

Shut(w, v, i) ==
  LET c == w.connection[i]
      d == v.connection[i]
  IN /\ Outer(w, v, i)
     /\ v.account = w.account
        \/ (~Active(v.account) /\ v.account.conn # i /\ v.account.error = w.account.error)
     /\ \A k \in DOMAIN v.pending \ DOMAIN w.pending : v.pending[k].of = "connect"
     /\ d.tasks = c.tasks /\ Closes(c, d, Waits(v, i, "connect") # {})
     /\ d.connect = c.connect => v.pending = w.pending /\ v.account = w.account

LEMMA GivesUp ==
  ASSUME NEW w \in Worlds, NEW i \in Ids, w.connection[i].phase = "Connecting",
         w.connection[i].connect = "pending", ~w.connection[i].chosen
  PROVE  /\ Shut(w, GiveUp(w, i), i)
         /\ GiveUp(w, i).connection[i].explicit = w.connection[i].explicit
<1> DEFINE c == w.connection[i]
           e == [c EXCEPT !.chosen = TRUE]
           y == NotifyConnectFailure(w, i)
           v == BeginClose(y, i)
<1>1. GiveUp(w, i) = v
  BY DEF GiveUp
<1>2. Refused(w, y, i, e)
  BY ConnectFailureTold
<1>3. c \in Connection
  BY WorldParts
<1>4. w.connection[i] = c
  OBVIOUS
<1> HIDE DEF y, c
<1>5. PICK x \in {"returned", "failed"} :
        /\ y.connection[i] = [e EXCEPT !.connect = x]
        /\ x = "returned" => Waits(y, i, "connect") # {}
  BY <1>2 DEF Refused
<1> DEFINE f == [e EXCEPT !.connect = x]
           g == ClosingFrom(f)
<1>6. /\ f.phase = "Connecting" /\ f.connect = x /\ f.chosen /\ f.signOut = c.signOut
      /\ f.tasks = c.tasks /\ f.result = c.result /\ f.failed = c.failed
      /\ f.closed = c.closed /\ f.source = c.source /\ f.explicit = c.explicit
      /\ f \in Connection
  <2>1. /\ e \in Connection /\ e.phase = "Connecting" /\ e.chosen /\ e.signOut = c.signOut
        /\ e.tasks = c.tasks /\ e.result = c.result /\ e.failed = c.failed
        /\ e.closed = c.closed /\ e.source = c.source /\ e.explicit = c.explicit
    BY <1>3, <1>4 DEF Connection
  <2> HIDE DEF e
  <2> QED BY <2>1 DEF Connection
<1> HIDE DEF e, f
<1>7. y \in Worlds /\ y.connection[i] = f
  BY <1>2, <1>5 DEF Refused, Outer, f
<1>8. /\ Outer(y, v, i)
      /\ v.account = y.account /\ v.pending = y.pending
      /\ v.connection[i] = g
  BY <1>6, <1>7, CloseBegins DEF Open
<1> HIDE DEF v
<1>9. Outer(w, v, i)
  BY <1>2, <1>8, OuterComposes DEF Refused, Outer
<1>10. /\ g.phase = "Closing" /\ ~g.timer /\ g.signOut = c.signOut
       /\ g.connect = x /\ g.chosen /\ g.failed = c.failed
       /\ g.tasks = c.tasks /\ g.result = c.result
       /\ g.closed = c.closed /\ g.source = c.source /\ g.explicit = c.explicit
  BY <1>6 DEF ClosingFrom, Connection
<1>11. Waits(v, i, "connect") = Waits(y, i, "connect")
  BY <1>8 DEF Waits
<1>12. /\ v.account = w.account
          \/ (~Active(v.account) /\ v.account.conn # i /\ v.account.error = w.account.error)
       /\ \A k \in DOMAIN v.pending \ DOMAIN w.pending : v.pending[k].of = "connect"
  BY <1>2, <1>8 DEF Refused
<1> HIDE DEF g
<1>13. Closes(c, g, Waits(v, i, "connect") # {}) /\ g.connect # c.connect
  BY <1>4, <1>5, <1>10, <1>11 DEF Closes
<1>14. Shut(w, v, i)
  BY <1>4, <1>8, <1>9, <1>10, <1>12, <1>13 DEF Shut
<1> QED BY <1>1, <1>4, <1>8, <1>10, <1>14 DEF v

LEMMA LoginCancelled ==
  ASSUME NEW w \in Worlds, NEW i \in Ids, w.connection[i].phase \in Open,
         ConnectOK(w.connection[i])
  PROVE  LET v == CancelLogin(w, i)
         IN /\ Shut(w, v, i) /\ ~v.connection[i].signOut
            /\ v.connection[i].explicit = w.connection[i].explicit
<1> DEFINE c == w.connection[i]
           d == [c EXCEPT !.signOut = FALSE, !.timer = FALSE,
                          !.login = IF @ = "none" THEN "cancelled" ELSE @]
           u == [ForgetSignOut(w, i) EXCEPT
                   !.connection[i].login = IF @ = "none" THEN "cancelled" ELSE @]
           v == CancelLogin(w, i)
<1>1. v = BeginClose(IF c.phase = "Connecting" THEN NotifyConnectFailure(u, i) ELSE u, i)
  BY DEF CancelLogin
<1>2. u = [w EXCEPT !.connection[i].signOut = FALSE, !.connection[i].timer = FALSE,
                    !.connection[i].login = IF @ = "none" THEN "cancelled" ELSE @]
  BY Zenon DEF ForgetSignOut
<1> HIDE DEF u, v
<1>3. u = Makes(w, i, w.account, d, w.pending, w.sync)
  BY <1>2, Zenon DEF Makes, Worlds
<1>4. c \in Connection
  BY WorldParts
<1>5. w.connection[i] = c
  OBVIOUS
<1> HIDE DEF c
<1>6. /\ d \in Connection /\ d.phase = c.phase /\ d.connect = c.connect
      /\ d.chosen = c.chosen /\ ~d.signOut /\ d.tasks = c.tasks /\ d.result = c.result
      /\ d.closed = c.closed /\ d.source = c.source /\ d.explicit = c.explicit
      /\ d.failed = c.failed
  <2> DEFINE login == IF c.login = "none" THEN "cancelled" ELSE c.login
  <2>1. d = [c EXCEPT !.signOut = FALSE, !.timer = FALSE, !.login = login]
    OBVIOUS
  <2>2. login \in {"none", "ready", "failed", "cancelled", "over"}
    BY <1>4 DEF Connection
  <2> HIDE DEF d, login
  <2>3. d \in Connection
    BY <1>4, <2>1, <2>2 DEF Connection
  <2> QED BY <1>4, <2>1, <2>3 DEF Connection
<1> HIDE DEF d
<1>7. /\ Outer(w, u, i) /\ u \in Worlds /\ u.connection[i] = d
      /\ u.account = w.account /\ u.pending = w.pending
  BY <1>3, <1>6, MakesLocal
<1>8. CASE c.phase = "Connecting"
  <2>1. v = GiveUp(u, i)
    BY <1>1, <1>8 DEF GiveUp
  <2>2. d.phase = "Connecting" /\ d.connect = "pending" /\ ~d.chosen
    BY <1>5, <1>6, <1>8 DEF ConnectOK, Live, Open
  <2>3. Shut(u, v, i) /\ v.connection[i].explicit = d.explicit
    BY <1>7, <2>1, <2>2, GivesUp
  <2>4. Outer(w, v, i)
    BY <1>7, <2>3, OuterComposes DEF Shut
  <2> QED BY <1>5, <1>6, <1>7, <2>3, <2>4 DEF Shut, Closes, v
<1>9. CASE c.phase = "Ready"
  <2>1. v = BeginClose(u, i)
    BY <1>1, <1>9
  <2>2. /\ Outer(u, v, i)
        /\ v.account = u.account /\ v.pending = u.pending
        /\ v.connection[i] = ClosingFrom(d)
    BY <1>6, <1>7, <1>9, <2>1, CloseBegins DEF Open
  <2>3. Outer(w, v, i)
    BY <1>7, <2>2, OuterComposes
  <2>4. LET g == ClosingFrom(d)
        IN /\ g.phase = "Closing" /\ ~g.timer /\ ~g.signOut /\ g.connect = c.connect
           /\ g.tasks = c.tasks /\ g.result = c.result /\ g.chosen = c.chosen
           /\ g.closed = c.closed /\ g.source = c.source /\ g.explicit = c.explicit
           /\ g.failed = c.failed
    BY <1>6 DEF ClosingFrom, Connection
  <2> QED BY <1>5, <1>7, <1>9, <2>2, <2>3, <2>4 DEF Shut, Closes, v
<1> QED BY <1>5, <1>8, <1>9 DEF Open

LEMMA SessionCloses ==
  ASSUME NEW w \in Worlds, NEW i \in Ids, w.connection[i].phase \in Live,
         ConnectOK(w.connection[i])
  PROVE  LET v == Close(w, i)
         IN Shut(w, v, i) /\ v.connection[i].explicit /\ ~v.connection[i].signOut
<1> DEFINE c == w.connection[i]
           d == [c EXCEPT !.explicit = TRUE, !.signOut = FALSE, !.timer = FALSE]
           u == ForgetSignOut([w EXCEPT !.connection[i].explicit = TRUE], i)
           v == Close(w, i)
<1>1. u = [[w EXCEPT !.connection[i].explicit = TRUE] EXCEPT
             !.connection[i].signOut = FALSE, !.connection[i].timer = FALSE]
  BY DEF ForgetSignOut
<1>2. v = IF c.phase \in Open THEN CancelLogin(u, i) ELSE u
  BY DEF Close
<1> HIDE DEF u, v
<1>3. u = Makes(w, i, w.account, d, w.pending, w.sync)
  BY <1>1, Zenon DEF Makes, Worlds
<1>4. c \in Connection
  BY WorldParts
<1>5. w.connection[i] = c
  OBVIOUS
<1> HIDE DEF c
<1>6. /\ d \in Connection /\ d.phase = c.phase /\ d.connect = c.connect
      /\ d.chosen = c.chosen /\ ~d.signOut /\ ~d.timer /\ d.tasks = c.tasks
      /\ d.result = c.result /\ d.closed = c.closed /\ d.source = c.source /\ d.explicit
      /\ d.failed = c.failed
  BY <1>4 DEF Connection
<1> HIDE DEF d
<1>7. /\ Outer(w, u, i) /\ u \in Worlds /\ u.connection[i] = d
      /\ u.account = w.account /\ u.pending = w.pending /\ u.sync = w.sync
  BY <1>3, <1>6, MakesLocal
<1>8. CASE c.phase \in Open
  <2>1. ConnectOK(d)
    BY <1>5, <1>6, <1>8 DEF ConnectOK, Live, Open
  <2>2. Shut(u, v, i) /\ v.connection[i].explicit = d.explicit
    BY <1>2, <1>6, <1>7, <1>8, <2>1, LoginCancelled
  <2>3. Outer(w, v, i)
    BY <1>7, <2>2, OuterComposes DEF Shut
  <2> QED BY <1>5, <1>6, <1>7, <2>2, <2>3 DEF Shut, Closes, v
<1>9. CASE c.phase = "Closing"
  <2>1. v = u
    BY <1>2, <1>9 DEF Open
  <2> QED BY <1>5, <1>6, <1>7, <1>9, <2>1 DEF Shut, Closes, v
<1> QED BY <1>5, <1>8, <1>9 DEF Live

-----------------------------------------------------------------------------
(* Tasks *)

\* The connection whose disconnects have been answered
Emptied(c, result) == [c EXCEPT !.tasks = <<>>, !.result = result]

\* The tasks of the connection have been answered, and the account has seen its own or
\* will. If the account's own wants its error kept, it is.
Answered(w, v, i) ==
  LET tasks == w.connection[i].tasks
      added == DOMAIN v.pending \ DOMAIN w.pending
  IN /\ Outer(w, v, i) /\ v.sync = w.sync
     /\ v.account = w.account \/ (~Active(v.account) /\ v.account.conn = 0)
     /\ ~w.sync => v.account = w.account
     /\ v.account.error = <<"runtime", i>> => w.account.error = <<"runtime", i>>
     /\ \A k \in added : v.pending[k].of = "disconnect"
     /\ (\A k \in DOMAIN tasks : tasks[k].ours => tasks[k].preserve)
          => /\ v.account.error = w.account.error
             /\ \A k \in added : v.pending[k].ours => v.pending[k].ok

LEMMA TasksAnswered ==
  ASSUME NEW w \in Worlds, NEW i \in Ids, NEW result \in Results, NEW v,
         v = CompleteDisconnects(w, i, result)
  PROVE  /\ Answered(w, v, i)
         /\ v.connection[i] = Emptied(w.connection[i], result)
<1> DEFINE c == w.connection[i]
           tasks == c.tasks
           d == [c EXCEPT !.tasks = <<>>, !.result = result]
           done == [k \in DOMAIN tasks |->
                      [of |-> "disconnect", conn |-> i, ours |-> tasks[k].ours,
                       ok |-> TaskSucceeds(tasks[k], result)]]
           u == [w EXCEPT !.connection[i].tasks = <<>>, !.connection[i].result = result]
           kept == \A k \in DOMAIN tasks : tasks[k].ours => tasks[k].preserve
<1>1. v = IF w.sync THEN DisconnectsSeen(u, i, ToSet(done))
          ELSE [u EXCEPT !.pending = @ \o done]
  BY DEF CompleteDisconnects
<1>2. /\ w.account \in Account /\ c \in Connection
      /\ w.pending \in Seq(Completions) /\ w.sync \in BOOLEAN
  BY WorldParts
<1>3. u = [w EXCEPT !.connection[i].tasks = <<>>, !.connection[i].result = result]
  OBVIOUS
<1> HIDE DEF u
<1>4. u = Makes(w, i, w.account, d, w.pending, w.sync)
  BY <1>3, Zenon DEF Makes, Worlds
<1>5. tasks \in Seq(Tasks)
  BY <1>2 DEF Connection
<1>6. w.connection[i] = c
  OBVIOUS
<1> HIDE DEF c
<1>7. <<>> \in Seq(Tasks) /\ result \in Results \cup {"none"}
  OBVIOUS
<1>8. d \in Connection
  BY <1>2, <1>7, Zenon DEF Connection
<1>9. done \in Seq(Completions) /\ DOMAIN done = DOMAIN tasks
  <2>1. \A k \in DOMAIN tasks : done[k] \in Completions
    <3> SUFFICES ASSUME NEW k \in DOMAIN tasks PROVE done[k] \in Completions
      OBVIOUS
    <3>1. tasks[k] \in Tasks
      BY <1>5
    <3>2. tasks[k].ours \in BOOLEAN /\ TaskSucceeds(tasks[k], result) \in BOOLEAN
      BY <3>1 DEF Tasks, TaskSucceeds
    <3>3. [of |-> "disconnect", conn |-> i, ours |-> tasks[k].ours,
           ok |-> TaskSucceeds(tasks[k], result)] \in Completions
      BY <3>2 DEF Completions
    <3> QED BY <3>3
  <2>2. done = [k \in DOMAIN tasks |-> done[k]]
    OBVIOUS
  <2>3. DOMAIN tasks = 1 .. Len(tasks) /\ Len(tasks) \in Nat
    BY <1>5
  <2> HIDE DEF done
  <2> QED BY <2>1, <2>2, <2>3
<1>10. \A k \in DOMAIN done : /\ done[k].of = "disconnect" /\ done[k].conn = i
                              /\ kept /\ done[k].ours => done[k].ok
  BY DEF TaskSucceeds
<1> HIDE DEF d, done
<1>11. /\ Outer(w, u, i) /\ u \in Worlds /\ u.connection[i] = d
       /\ u.account = w.account /\ u.pending = w.pending /\ u.sync = w.sync
  BY <1>4, <1>8, MakesLocal
<1>12. CASE ~w.sync
  <2> DEFINE p == w.pending \o done
  <2>1. v = [u EXCEPT !.pending = p]
    BY <1>1, <1>11, <1>12
  <2>2. /\ p \in Seq(Completions) /\ DOMAIN w.pending \subseteq DOMAIN p
        /\ \A k \in DOMAIN w.pending : p[k] = w.pending[k]
        /\ \A k \in DOMAIN p \ DOMAIN w.pending : \E l \in DOMAIN done : p[k] = done[l]
    <3>1. /\ p \in Seq(Completions) /\ Len(p) = Len(w.pending) + Len(done)
          /\ \A k \in 1 .. Len(p) : p[k] = IF k <= Len(w.pending) THEN w.pending[k]
                                           ELSE done[k - Len(w.pending)]
      BY <1>2, <1>9
    <3>2. /\ DOMAIN p = 1 .. Len(p) /\ DOMAIN w.pending = 1 .. Len(w.pending)
          /\ DOMAIN done = 1 .. Len(done) /\ Len(done) \in Nat /\ Len(w.pending) \in Nat
      BY <1>2, <1>9, <3>1
    <3> HIDE DEF p
    <3>3. ASSUME NEW k \in DOMAIN p \ DOMAIN w.pending
          PROVE  \E l \in DOMAIN done : p[k] = done[l]
      <4>1. k - Len(w.pending) \in DOMAIN done /\ p[k] = done[k - Len(w.pending)]
        BY <3>1, <3>2
      <4> QED BY <4>1
    <3> QED BY <3>1, <3>2, <3>3
  <2> HIDE DEF p
  <2>3. v = Makes(w, i, w.account, d, p, w.sync)
    BY <1>4, <2>1 DEF Makes
  <2>4. /\ v \in Worlds /\ v.account = w.account /\ v.pending = p /\ v.sync = w.sync
        /\ v.connection[i] = d /\ \A j \in Ids \ {i} : v.connection[j] = w.connection[j]
    BY <1>2, <1>8, <2>2, <2>3, MakesWorld
  <2>5. Extends(w.pending, p, i)
    BY <1>10, <2>2 DEF Extends
  <2>6. Outer(w, v, i)
    BY <1>2, <2>4, <2>5, NothingLess DEF Outer
  <2> QED BY <1>6, <1>10, <2>2, <2>4, <2>6 DEF Answered, Emptied, d
<1>13. CASE w.sync
  <2> DEFINE ours == {task \in ToSet(done) : task.ours}
  <2>1. v = IF ours = {} THEN u
            ELSE [u EXCEPT !.account.state = "disconnected", !.account.conn = 0,
                           !.account.error = IF \A task \in ours : task.ok THEN @
                                             ELSE <<"cleanup", i>>]
    BY <1>1, <1>13 DEF DisconnectsSeen
  <2>2. CASE ours = {}
    <3>1. v = u
      BY <2>1, <2>2
    <3> QED BY <1>6, <1>11, <1>13, <3>1 DEF Answered, Emptied, d
  <2>3. CASE ours # {}
    <3> DEFINE error == IF \A task \in ours : task.ok THEN w.account.error
                        ELSE <<"cleanup", i>>
               a == [w.account EXCEPT !.state = "disconnected", !.conn = 0, !.error = error]
    <3>1. kept => error = w.account.error
      BY <1>10 DEF ToSet
    <3>2. /\ error \in {"none", "runtime", "restart", "cleanup"} \X (0 .. MaxConnections)
          /\ \A j \in Ids : error = <<"runtime", j>> => w.account.error = <<"runtime", j>>
      BY <1>2 DEF Account, Ids
    <3>3. v = [u EXCEPT !.account.state = "disconnected", !.account.conn = 0,
                        !.account.error = error]
      BY <1>11, <2>1, <2>3
    <3> HIDE DEF error, ours
    <3>4. v = Makes(w, i, a, d, w.pending, w.sync)
      BY <1>4, <3>3 DEF Makes
    <3>5. a \in Account
      <4>1. 0 \in 0 .. MaxConnections
        BY ConnectionsAssumption
      <4> QED BY <1>2, <3>2, <4>1, AccountWithError
    <3>6. /\ a.state = "disconnected" /\ a.conn = 0 /\ a.error = error
          /\ Less(w.account, a, i)
      BY <1>2, <3>2 DEF Account, Less, Active
    <3> HIDE DEF a
    <3>7. /\ v \in Worlds /\ v.account = a /\ v.pending = w.pending /\ v.sync = w.sync
          /\ v.connection[i] = d /\ \A j \in Ids \ {i} : v.connection[j] = w.connection[j]
      BY <1>2, <1>8, <3>4, <3>5, MakesWorld
    <3>8. Outer(w, v, i)
      BY <3>6, <3>7, NothingAdded DEF Outer
    <3>9. v.account.error = <<"runtime", i>> => w.account.error = <<"runtime", i>>
      BY <3>2, <3>6, <3>7
    <3> QED BY <1>6, <1>13, <3>1, <3>6, <3>7, <3>8, <3>9 DEF Answered, Emptied, Active, d
  <2> QED BY <2>2, <2>3
<1> QED BY <1>2, <1>12, <1>13

LEMMA AccountProbe ==
  ASSUME NEW a \in Account, NEW p \in BOOLEAN, p => a.probe, NEW i
  PROVE  LET b == [a EXCEPT !.probe = p]
         IN /\ b \in Account /\ Less(a, b, i) /\ b.error = a.error /\ b.conn = a.conn
            /\ b.state = a.state /\ (Active(b) <=> Active(a))
  BY DEF Account, Less, Active

\* The disconnect of a connection that has no session, or none any more, is answered;
\* spare: so that the account keeps its error.
Gone(w, v, i, spare) ==
  /\ Outer(w, v, i)
  /\ v.account.error = w.account.error
  /\ \E r \in Results :
       v.connection[i] = [w.connection[i] EXCEPT !.tasks = <<>>, !.result = r]
  /\ \A k \in DOMAIN v.pending \ DOMAIN w.pending :
       /\ v.pending[k].of = "disconnect"
       /\ spare /\ v.pending[k].ours => v.pending[k].ok

\* ... of one whose session is there: the session closes.
Left(w, v, i, task) ==
  LET c == w.connection[i]
      d == v.connection[i]
  IN /\ Outer(w, v, i)
     /\ v.account.error = w.account.error
     /\ \A k \in DOMAIN v.pending \ DOMAIN w.pending : v.pending[k].of = "connect"
     /\ d.tasks = Append(c.tasks, task)
     /\ d.explicit /\ ~d.signOut /\ Closes(c, d, Waits(v, i, "connect") # {})
     /\ d.connect = c.connect => v.pending = w.pending

LEMMA DisconnectOfEnded ==
  ASSUME NEW w \in Worlds, NEW i \in Ids, NEW ours \in BOOLEAN, NEW preserve \in BOOLEAN,
         w.connection[i].tasks = <<>>,
         \/ w.connection[i].phase = "none"
         \/ w.connection[i].result # "none" \/ w.connection[i].closed # "none"
  PROVE  LET v == DisconnectAsync(w, i, ours, preserve)
         IN Gone(w, v, i, ours => preserve) /\ v.account.state = w.account.state
<1> DEFINE c == w.connection[i]
           task == [ours |-> ours, preserve |-> preserve]
           probe == w.account.probe /\ c.recovery
           a == [w.account EXCEPT !.probe = probe]
           d == [c EXCEPT !.tasks = <<task>>]
           sync == FALSE
           u == [w EXCEPT !.account.probe = probe, !.connection[i].tasks = Append(@, task),
                          !.sync = FALSE]
           v == DisconnectAsync(w, i, ours, preserve)
<1>1. c \in Connection /\ w.account \in Account /\ w.pending \in Seq(Completions)
  BY WorldParts
<1>2. u = [w EXCEPT !.account.probe = probe, !.connection[i].tasks = Append(@, task),
                    !.sync = FALSE]
  OBVIOUS
<1>3. \E r \in Results : v = CompleteDisconnects(u, i, r)
  <2>1. c.result \in Results \cup {"none"} /\ c.closed \in Results \cup {"none"}
    BY <1>1 DEF Connection
  <2>2. CASE c.phase = "none"
    <3>1. v = CompleteDisconnects(u, i, "Closed")
      BY <2>2 DEF DisconnectAsync
    <3> QED BY <3>1 DEF Results
  <2>3. CASE c.phase # "none" /\ c.result # "none"
    <3>1. v = CompleteDisconnects(u, i, c.result)
      BY <2>3 DEF DisconnectAsync
    <3> QED BY <2>1, <2>3, <3>1
  <2>4. CASE c.phase # "none" /\ c.result = "none"
    <3>1. v = CompleteDisconnects(u, i, c.closed)
      BY <2>4 DEF DisconnectAsync
    <3> QED BY <2>1, <2>4, <3>1
  <2> QED BY <2>2, <2>3, <2>4
<1>4. PICK r \in Results : v = CompleteDisconnects(u, i, r)
  BY <1>3
<1> HIDE DEF u, v
<1>5. probe \in BOOLEAN /\ (probe => w.account.probe)
  BY <1>1 DEF Account, Connection
<1>6. Append(c.tasks, task) = <<task>>
  OBVIOUS
<1>7. w.connection[i] = c
  OBVIOUS
<1> HIDE DEF probe, c
<1>8. u = [w EXCEPT !.account = a, !.connection[i].tasks = <<task>>, !.sync = FALSE]
  BY <1>2, <1>6, <1>7, Zenon DEF Worlds
<1>9. u = Makes(w, i, a, d, w.pending, sync)
  BY <1>7, <1>8, Zenon DEF Makes, Worlds
<1>10. task \in Tasks /\ task.ours = ours /\ task.preserve = preserve
  BY DEF Tasks
<1> HIDE DEF task
<1>11. <<task>> \in Seq(Tasks)
  BY <1>10
<1>12. d \in Connection /\ d.tasks = <<task>>
  BY <1>1, <1>11, Zenon DEF Connection
<1>13. /\ a \in Account /\ Less(w.account, a, i) /\ a.error = w.account.error
       /\ a.conn = w.account.conn /\ a.state = w.account.state
  BY <1>1, <1>5, AccountProbe
<1>14. \A s : [d EXCEPT !.tasks = <<>>, !.result = s] = [c EXCEPT !.tasks = <<>>, !.result = s]
  BY <1>1 DEF Connection
<1>15. sync \in BOOLEAN /\ ~sync
  OBVIOUS
<1> HIDE DEF a, d, sync
<1>16. /\ u \in Worlds /\ u.account = a /\ u.pending = w.pending /\ u.sync = sync
       /\ u.connection[i] = d /\ \A j \in Ids \ {i} : u.connection[j] = w.connection[j]
  BY <1>1, <1>9, <1>12, <1>13, <1>15, MakesWorld
<1>17. Outer(w, u, i)
  BY <1>13, <1>16, NothingAdded DEF Outer
<1>18. Answered(u, v, i) /\ v.connection[i] = [d EXCEPT !.tasks = <<>>, !.result = r]
  <2>1. u \in Worlds
    BY <1>16
  <2>2. /\ Answered(u, v, i)
        /\ v.connection[i] = Emptied(u.connection[i], r)
    BY <1>4, <2>1, TasksAnswered
  <2> QED BY <1>16, <2>2 DEF Emptied
<1>19. Outer(w, v, i)
  BY <1>17, <1>18, OuterComposes DEF Answered
<1>20. v.account = a
  BY <1>16, <1>18, <1>15 DEF Answered
<1>21. \A k \in DOMAIN <<task>> : <<task>>[k] = task
  OBVIOUS
<1>22. \A k \in DOMAIN v.pending \ DOMAIN w.pending :
         /\ v.pending[k].of = "disconnect"
         /\ (ours => preserve) /\ v.pending[k].ours => v.pending[k].ok
  BY <1>10, <1>12, <1>16, <1>18, <1>21 DEF Answered
<1>23. v.connection[i] = [c EXCEPT !.tasks = <<>>, !.result = r]
  BY <1>14, <1>18
<1> QED BY <1>7, <1>13, <1>19, <1>20, <1>22, <1>23 DEF Gone, v

LEMMA SyncChanged ==
  ASSUME NEW w \in Worlds, NEW y, NEW i \in Ids, Outer(w, y, i)
  PROVE  LET v == [y EXCEPT !.sync = FALSE]
         IN /\ Outer(w, v, i) /\ v.account = y.account /\ v.connection = y.connection
            /\ v.pending = y.pending
  BY DEF Outer, Worlds

LEMMA DisconnectOfLive ==
  ASSUME NEW w \in Worlds, NEW i \in Ids, NEW ours \in BOOLEAN, NEW preserve \in BOOLEAN,
         w.connection[i].phase \in Live, w.connection[i].closed = "none",
         ConnectOK(w.connection[i])
  PROVE  LET v == DisconnectAsync(w, i, ours, preserve)
         IN /\ Left(w, v, i, [ours |-> ours, preserve |-> preserve])
            /\ v.account.state = w.account.state \/ ~Active(v.account)
<1> DEFINE c == w.connection[i]
           task == [ours |-> ours, preserve |-> preserve]
           tasks == Append(c.tasks, task)
           probe == w.account.probe /\ c.recovery
           a == [w.account EXCEPT !.probe = probe]
           d == [c EXCEPT !.tasks = tasks]
           u == [[w EXCEPT !.account.probe = probe, !.connection[i].tasks = Append(@, task),
                           !.sync = FALSE] EXCEPT !.sync = w.sync]
           y == Close(u, i)
           v == DisconnectAsync(w, i, ours, preserve)
<1>1. /\ c \in Connection /\ w.account \in Account /\ w.pending \in Seq(Completions)
      /\ w.sync \in BOOLEAN
  BY WorldParts
<1>2. u = [[w EXCEPT !.account.probe = probe, !.connection[i].tasks = Append(@, task),
                     !.sync = FALSE] EXCEPT !.sync = w.sync]
  OBVIOUS
<1>3. v = [y EXCEPT !.sync = FALSE]
  <2>1. c.phase # "none" /\ c.result = "none" /\ c.closed = "none"
    BY DEF ConnectOK, Live, Open
  <2> QED BY <2>1 DEF DisconnectAsync
<1> HIDE DEF u, v, y
<1>4. probe \in BOOLEAN /\ (probe => w.account.probe)
  BY <1>1 DEF Account, Connection
<1>5. w.connection[i] = c /\ tasks = Append(c.tasks, task)
  OBVIOUS
<1>6. task \in Tasks
  BY DEF Tasks
<1> HIDE DEF probe, c
<1>7. tasks \in Seq(Tasks)
  <2>1. c.tasks \in Seq(Tasks)
    BY <1>1 DEF Connection
  <2> QED BY <1>6, <2>1
<1> HIDE DEF task, tasks
<1>8. u = [w EXCEPT !.account = a, !.connection[i].tasks = tasks]
  BY <1>2, <1>5, Zenon DEF Worlds
<1>9. u = Makes(w, i, a, d, w.pending, w.sync)
  BY <1>5, <1>8, Zenon DEF Makes, Worlds
<1>10. /\ d \in Connection /\ d.tasks = tasks /\ d.phase = c.phase /\ d.connect = c.connect
       /\ d.chosen = c.chosen /\ d.result = c.result /\ d.closed = c.closed
       /\ d.source = c.source /\ d.signOut = c.signOut /\ d.explicit = c.explicit
       /\ d.failed = c.failed
  BY <1>1, <1>7, Zenon DEF Connection
<1>11. /\ a \in Account /\ Less(w.account, a, i) /\ a.error = w.account.error
       /\ a.conn = w.account.conn /\ a.state = w.account.state
  BY <1>1, <1>4, AccountProbe
<1> HIDE DEF a, d
<1>12. /\ u \in Worlds /\ u.account = a /\ u.pending = w.pending /\ u.sync = w.sync
       /\ u.connection[i] = d /\ \A j \in Ids \ {i} : u.connection[j] = w.connection[j]
  BY <1>1, <1>9, <1>10, <1>11, MakesWorld
<1>13. Outer(w, u, i)
  BY <1>11, <1>12, NothingAdded DEF Outer
<1>14. ConnectOK(d)
  BY <1>5, <1>10 DEF ConnectOK
<1>15. Shut(u, y, i) /\ y.connection[i].explicit /\ ~y.connection[i].signOut
  BY <1>5, <1>10, <1>12, <1>14, SessionCloses DEF y
<1>16. Outer(w, y, i)
  BY <1>13, <1>15, OuterComposes DEF Shut
<1>17. /\ Outer(w, v, i) /\ v.account = y.account /\ v.connection = y.connection
       /\ v.pending = y.pending
  BY <1>3, <1>16, SyncChanged
<1>18. Waits(v, i, "connect") = Waits(y, i, "connect")
  BY <1>17 DEF Waits
<1>19. /\ v.account.error = w.account.error
       /\ v.account.state = w.account.state \/ ~Active(v.account)
       /\ \A k \in DOMAIN v.pending \ DOMAIN w.pending : v.pending[k].of = "connect"
  BY <1>11, <1>12, <1>15, <1>17 DEF Shut
<1>20. /\ v.connection[i].tasks = tasks
       /\ v.connection[i].explicit /\ ~v.connection[i].signOut
       /\ Closes(c, v.connection[i], Waits(v, i, "connect") # {})
       /\ v.connection[i].connect = c.connect => v.pending = w.pending
  BY <1>10, <1>12, <1>15, <1>17, <1>18 DEF Shut, Closes
<1> QED BY <1>5, <1>17, <1>19, <1>20 DEF Left, v, task

\* The account disconnects: then it is not active.
LEMMA AccountDisconnecting ==
  ASSUME NEW w \in Worlds, NEW i \in Ids
  PROVE  LET u == [w EXCEPT !.account.state = "disconnecting"]
         IN /\ u \in Worlds /\ Outer(w, u, i) /\ u.connection = w.connection
            /\ u.pending = w.pending /\ ~Active(u.account)
            /\ u.account.state = "disconnecting"
            /\ u.account.error = w.account.error /\ u.account.conn = w.account.conn
<1> DEFINE a == [w.account EXCEPT !.state = "disconnecting"]
           u == [w EXCEPT !.account.state = "disconnecting"]
<1>1. /\ w.account \in Account /\ w.connection[i] \in Connection
      /\ w.pending \in Seq(Completions) /\ w.sync \in BOOLEAN
  BY WorldParts
<1>2. u = [w EXCEPT !.account = a]
  OBVIOUS
<1>3. /\ a \in Account /\ a.state = "disconnecting" /\ a.error = w.account.error
      /\ a.conn = w.account.conn /\ Less(w.account, a, i)
  BY <1>1 DEF Account, Less
<1> HIDE DEF a, u
<1>4. /\ u \in Worlds /\ u.account = a /\ u.connection = w.connection
      /\ u.pending = w.pending
  BY <1>2, <1>3 DEF Worlds
<1> QED BY <1>3, <1>4, NothingAdded DEF Outer, Active, u

LEMMA PurpleDisconnectOfEnded ==
  ASSUME NEW w \in Worlds, NEW i \in Ids, NEW preserve \in BOOLEAN,
         Active(w.account), w.account.conn = i,
         w.connection[i].tasks = <<>>,
         \/ w.connection[i].phase = "none"
         \/ w.connection[i].result # "none" \/ w.connection[i].closed # "none"
  PROVE  LET v == PurpleDisconnect(w, preserve)
         IN Gone(w, v, i, preserve) /\ ~Active(v.account)
<1> DEFINE u == [w EXCEPT !.account.state = "disconnecting"]
           ours == TRUE
           spare == ours => preserve
           v == DisconnectAsync(u, i, ours, preserve)
<1>1. PurpleDisconnect(w, preserve) = v
  BY DEF PurpleDisconnect
<1>2. /\ u \in Worlds /\ Outer(w, u, i) /\ u.connection = w.connection
      /\ u.pending = w.pending /\ u.account.state = "disconnecting"
      /\ u.account.error = w.account.error /\ u.account.conn = w.account.conn
  BY AccountDisconnecting
<1>3. ours \in BOOLEAN /\ (spare <=> preserve)
  OBVIOUS
<1> HIDE DEF u, ours
<1>4. /\ u.connection[i].tasks = <<>>
      /\ \/ u.connection[i].phase = "none"
         \/ u.connection[i].result # "none" \/ u.connection[i].closed # "none"
  BY <1>2
<1>5. Gone(u, v, i, spare) /\ v.account.state = u.account.state
  BY <1>2, <1>3, <1>4, DisconnectOfEnded
<1> HIDE DEF v, spare
<1>6. Outer(w, v, i)
  BY <1>2, <1>5, OuterComposes DEF Gone
<1>7. Gone(w, v, i, preserve)
  <2>1. u.connection[i] = w.connection[i]
    BY <1>2
  <2>2. \E r \in Results :
          v.connection[i] = [w.connection[i] EXCEPT !.tasks = <<>>, !.result = r]
    BY <1>5, <2>1, Zenon DEF Gone
  <2>3. /\ v.account.error = w.account.error
        /\ \A k \in DOMAIN v.pending \ DOMAIN w.pending :
             /\ v.pending[k].of = "disconnect"
             /\ preserve /\ v.pending[k].ours => v.pending[k].ok
    BY <1>2, <1>3, <1>5 DEF Gone
  <2> QED BY <1>6, <2>2, <2>3, Zenon DEF Gone
<1>8. ~Active(v.account)
  BY <1>2, <1>5 DEF Active
<1> QED BY <1>1, <1>7, <1>8 DEF v, ours

LEMMA PurpleDisconnectOfLive ==
  ASSUME NEW w \in Worlds, NEW i \in Ids, NEW preserve \in BOOLEAN,
         Active(w.account), w.account.conn = i,
         w.connection[i].phase \in Live, w.connection[i].closed = "none",
         ConnectOK(w.connection[i])
  PROVE  LET v == PurpleDisconnect(w, preserve)
         IN /\ Left(w, v, i, [ours |-> TRUE, preserve |-> preserve])
            /\ ~Active(v.account)
<1> DEFINE u == [w EXCEPT !.account.state = "disconnecting"]
           ours == TRUE
           task == [ours |-> ours, preserve |-> preserve]
           v == DisconnectAsync(u, i, ours, preserve)
<1>1. PurpleDisconnect(w, preserve) = v
  BY DEF PurpleDisconnect
<1>2. /\ u \in Worlds /\ Outer(w, u, i) /\ u.connection = w.connection
      /\ u.pending = w.pending /\ u.account.state = "disconnecting"
      /\ u.account.error = w.account.error /\ u.account.conn = w.account.conn
  BY AccountDisconnecting
<1>3. ours \in BOOLEAN
  OBVIOUS
<1> HIDE DEF u, ours
<1>4. /\ u.connection[i].phase \in Live /\ u.connection[i].closed = "none"
      /\ ConnectOK(u.connection[i])
  BY <1>2
<1>5. Left(u, v, i, task) /\ (v.account.state = u.account.state \/ ~Active(v.account))
  BY <1>2, <1>3, <1>4, DisconnectOfLive
<1> HIDE DEF v, task
<1>6. Outer(w, v, i)
  BY <1>2, <1>5, OuterComposes DEF Left
<1>7. Left(w, v, i, task)
  BY <1>2, <1>5, <1>6 DEF Left
<1>8. ~Active(v.account)
  BY <1>2, <1>5 DEF Active
<1> QED BY <1>1, <1>7, <1>8 DEF v, ours, task

-----------------------------------------------------------------------------
(* The invariant after a step *)

\* The account has no error about a connection that it is active with.
LEMMA MadeBefore ==
  ASSUME NEW w, NEW i \in Ids, Inv(w),
         w.account.conn = i \/ w.connection[i].phase \in Live \/ w.connection[i].source
  PROVE  i <= w.account.last
<1>1. w \in Worlds /\ At(w, i) /\ AccountOK(w)
  BY DEF Inv, Global
<1>2. CASE w.account.conn = i
  BY <1>1, <1>2 DEF AccountOK, Ids
<1>3. CASE w.connection[i].phase \in Live \/ w.connection[i].source
  <2>1. w.connection[i] # NewConnection
    BY <1>3 DEF NewConnection, Live, Open
  <2>2. w.account.last \in Int
    BY <1>1 DEF Worlds, Account
  <2> QED BY <1>1, <2>1, <2>2 DEF At, MadeOK, Ids
<1> QED BY <1>2, <1>3

LEMMA AfterShut ==
  ASSUME NEW w, NEW v, NEW i \in Ids, Inv(w), Shut(w, v, i),
         v.connection[i].explicit = w.connection[i].explicit,
         w.connection[i].phase \in Open,
         w.connection[i].phase = "Connecting" \/ ~Active(w.account) \/ w.account.conn # i
  PROVE  Inv(v)
<1> DEFINE c == w.connection[i]
           d == v.connection[i]
<1>1. w \in Worlds /\ At(w, i) /\ Local(c)
  BY DEF Inv, At
<1>2. c.phase \in Live /\ i <= w.account.last
  BY MadeBefore DEF Live
<1>3. /\ Outer(w, v, i) /\ Closes(c, d, Waits(v, i, "connect") # {})
      /\ d.tasks = c.tasks
  BY DEF Shut
<1>4. Local(d)
  <2>1. ConnectOK(d)
    BY <1>1, <1>2, <1>3 DEF Local, ConnectOK, Closes, Live, Open
  <2>2. CancellationOK(d)
    BY <1>3 DEF CancellationOK, Closes, Open
  <2>3. SignOutOK(d)
    BY <1>1, <1>2, <1>3 DEF Local, SignOutOK, Closes, Live, Open
  <2> QED BY <2>1, <2>2, <2>3 DEF Local
<1>5. Served(v, i)
  BY <1>1 DEF Shut, Served, At, Active, Local, ConnectOK
<1>6. ErrorKept(v, i)
  BY <1>1 DEF Shut, ErrorKept, At
<1>7. CompletionsOK(v, i)
  <2>1. Waits(v, i, "disconnect") = Waits(w, i, "disconnect")
    BY DEF Shut, Outer, Extends, Waits
  <2>2. Waits(w, i, "disconnect") = {}
    BY <1>1, <1>2 DEF At, CompletionsOK
  <2>3. CASE d.connect = c.connect
    <3>1. Waits(v, i, "connect") = Waits(w, i, "connect")
      BY <2>3 DEF Shut, Waits
    <3> QED BY <1>1, <2>1, <2>2, <2>3, <3>1 DEF At, CompletionsOK
  <2>4. CASE d.connect # c.connect
    BY <1>3, <2>1, <2>2, <2>4 DEF Closes, CompletionsOK
  <2> QED BY <2>3, <2>4
<1>8. MadeOK(v, i)
  <2>1. w.account.last \in Int /\ v.account.last = w.account.last
    BY <1>1, <1>3 DEF Worlds, Account, Outer, Less
  <2> QED BY <1>2, <1>3, <2>1 DEF MadeOK, Closes, Ids
<1>9. Kept(w, v, i)
  BY <1>2, <1>3 DEF Shut, Kept, Closes, Live
<1> QED BY <1>3, <1>4, <1>5, <1>6, <1>7, <1>8, <1>9, StepKeeps DEF At

LEMMA AfterGone ==
  ASSUME NEW w, NEW v, NEW i \in Ids, NEW spare \in BOOLEAN, Inv(w), Gone(w, v, i, spare),
         w.connection[i].phase \notin Live, w.account.conn = i, ~Active(v.account),
         spare \/ Active(w.account)
  PROVE  Inv(v)
<1> DEFINE c == w.connection[i]
           d == v.connection[i]
<1>1. /\ w \in Worlds /\ At(w, i) /\ Local(c)
      /\ i <= w.account.last
  BY MadeBefore DEF Inv, At
<1>2. PICK r \in Results : d = [c EXCEPT !.tasks = <<>>, !.result = r]
  BY Zenon DEF Gone
<1>3. c \in Connection /\ w.connection[i] = c /\ v.connection[i] = d
  BY <1>1, WorldParts
<1> HIDE DEF c, d
<1>4. /\ d.phase = c.phase /\ d.connect = c.connect /\ d.source = c.source
      /\ d.signOut = c.signOut /\ d.timer = c.timer /\ d.explicit = c.explicit
      /\ d.failed = c.failed /\ d.closed = c.closed /\ d.tasks = <<>> /\ d.result # "none"
  BY <1>2, <1>3 DEF Connection, Results
<1>5. Local(d)
  <2>1. ConnectOK(d)
    BY <1>1, <1>3, <1>4 DEF Local, ConnectOK, Live, Open
  <2>2. CancellationOK(d)
    BY <1>3, <1>4 DEF CancellationOK, Live, Open
  <2>3. SignOutOK(d)
    BY <1>1, <1>4 DEF Local, SignOutOK
  <2> QED BY <2>1, <2>2, <2>3 DEF Local
<1>6. Served(v, i)
  BY DEF Served, Active
<1>7. Outer(w, v, i) /\ v.account.error = w.account.error
  BY DEF Gone
<1>8. ErrorKept(v, i)
  <2> SUFFICES ASSUME v.account.error = <<"runtime", i>> PROVE ErrorKept(v, i)!2
    BY DEF ErrorKept
  <2>1. ErrorKept(w, i)!2
    BY <1>1, <1>7 DEF At, ErrorKept
  <2>2. v.account.conn \in {0, i} /\ d.phase \notin Open
    BY <1>3, <1>4, <1>7 DEF Outer, Less, Live
  <2>3. \A k \in Waits(v, i, "disconnect") : v.pending[k].ours => v.pending[k].ok
    <3> SUFFICES ASSUME NEW k \in Waits(v, i, "disconnect"), v.pending[k].ours
                 PROVE  v.pending[k].ok
      OBVIOUS
    <3>1. CASE k \in DOMAIN w.pending
      BY <1>7, <2>1, <3>1 DEF Outer, Extends, Waits
    <3>2. CASE k \notin DOMAIN w.pending
      BY <2>1, <3>2 DEF Gone, Waits
    <3> QED BY <3>1, <3>2
  <2> QED BY <1>3, <1>4, <2>2, <2>3
<1>9. CompletionsOK(v, i)
  <2>1. Waits(v, i, "connect") = Waits(w, i, "connect")
    BY <1>7 DEF Gone, Outer, Extends, Waits
  <2> QED BY <1>1, <1>3, <1>4, <2>1 DEF At, CompletionsOK
<1>10. MadeOK(v, i)
  <2>1. w.account.last \in Int /\ v.account.last = w.account.last
    BY <1>1, <1>7 DEF Worlds, Account, Outer, Less
  <2> QED BY <1>1, <1>3, <1>4, <2>1 DEF At, MadeOK, Ids
<1>11. Kept(w, v, i)
  BY <1>3, <1>4 DEF Kept
<1> QED BY <1>3, <1>5, <1>6, <1>7, <1>8, <1>9, <1>10, <1>11, StepKeeps DEF At

LEMMA AfterLeft ==
  ASSUME NEW w, NEW v, NEW i \in Ids, NEW task \in Tasks, Inv(w), Left(w, v, i, task),
         w.connection[i].phase \in Live, ~Active(v.account),
         (task.ours => task.preserve) \/ Active(w.account)
  PROVE  Inv(v)
<1> DEFINE c == w.connection[i]
           d == v.connection[i]
<1>1. w \in Worlds /\ At(w, i) /\ Local(c) /\ i <= w.account.last
  BY MadeBefore DEF Inv, At
<1>2. c.tasks \in Seq(Tasks)
  <2>1. c \in Connection
    BY <1>1, WorldParts
  <2> HIDE DEF c
  <2> QED BY <2>1 DEF Connection
<1>3. /\ Outer(w, v, i) /\ Closes(c, d, Waits(v, i, "connect") # {})
      /\ d.tasks = Append(c.tasks, task) /\ d.explicit /\ ~d.signOut
      /\ v.account.error = w.account.error
  BY DEF Left
<1>4. Local(d)
  <2>1. ConnectOK(d)
    BY <1>1, <1>3 DEF Local, ConnectOK, Closes, Live, Open
  <2>2. CancellationOK(d)
    BY <1>3 DEF CancellationOK, Closes, Open
  <2>3. SignOutOK(d)
    BY <1>1, <1>3 DEF Local, SignOutOK, Closes, Live, Open
  <2> QED BY <2>1, <2>2, <2>3 DEF Local
<1>5. Served(v, i)
  BY DEF Served, Active
<1>6. Waits(v, i, "disconnect") = Waits(w, i, "disconnect")
  BY DEF Left, Outer, Extends, Waits
<1>7. Waits(w, i, "disconnect") = {}
  BY <1>1 DEF At, CompletionsOK
<1>8. ErrorKept(v, i)
  <2> SUFFICES ASSUME v.account.error = <<"runtime", i>> PROVE ErrorKept(v, i)!2
    BY DEF ErrorKept
  <2>1. ErrorKept(w, i)!2
    BY <1>1, <1>3 DEF At, ErrorKept
  <2>2. v.account.conn \in {0, i} /\ d.phase \notin Open
    BY <1>3, <2>1 DEF Outer, Less, Closes, Open
  <2>3. \A k \in DOMAIN d.tasks : d.tasks[k].ours => d.tasks[k].preserve
    BY <1>2, <1>3, <2>1
  <2> QED BY <1>6, <1>7, <2>2, <2>3
<1>9. CompletionsOK(v, i)
  <2>1. CASE d.connect = c.connect
    <3>1. Waits(v, i, "connect") = Waits(w, i, "connect")
      BY <2>1 DEF Left, Waits
    <3> QED BY <1>1, <1>6, <1>7, <2>1, <3>1 DEF At, CompletionsOK
  <2>2. CASE d.connect # c.connect
    BY <1>3, <1>6, <1>7, <2>2 DEF Closes, CompletionsOK
  <2> QED BY <2>1, <2>2
<1>10. MadeOK(v, i)
  <2>1. w.account.last \in Int /\ v.account.last = w.account.last
    BY <1>1, <1>3 DEF Worlds, Account, Outer, Less
  <2> QED BY <1>1, <1>3, <2>1 DEF MadeOK, Closes, Ids
<1>11. Kept(w, v, i)
  BY <1>3 DEF Kept, Closes
<1> QED BY <1>3, <1>4, <1>5, <1>8, <1>9, <1>10, <1>11, StepKeeps DEF At

\* A disconnect of the account's connection, by the account or by somebody else
LEMMA AccountDisconnects ==
  ASSUME NEW w, NEW i \in Ids, NEW preserve \in BOOLEAN, Inv(w),
         Active(w.account), w.account.conn = i
  PROVE  Inv(PurpleDisconnect(w, preserve)) /\ ~Active(PurpleDisconnect(w, preserve).account)
<1> DEFINE c == w.connection[i]
           v == PurpleDisconnect(w, preserve)
           task == [ours |-> TRUE, preserve |-> preserve]
<1>1. w \in Worlds /\ Local(c) /\ c.phase # "freed" /\ c \in Connection
  BY WorldParts DEF Inv, At, MadeOK
<1>2. CASE c.phase \in Live
  <2>1. ConnectOK(c) /\ c.closed = "none"
    BY <1>1, <1>2 DEF Local, SignOutOK, Live, Open
  <2>2. Left(w, v, i, task) /\ ~Active(v.account)
    BY <1>1, <1>2, <2>1, PurpleDisconnectOfLive
  <2>3. task \in Tasks
    BY DEF Tasks
  <2> HIDE DEF v, task
  <2> QED BY <1>2, <2>2, <2>3, AfterLeft DEF v
<1>3. CASE c.phase \notin Live
  <2>1. c.phase \in {"none", "Settled"}
    <3> HIDE DEF c
    <3> QED BY <1>1, <1>3 DEF Connection, Live, Open
  <2>2. c.tasks = <<>> /\ (c.phase = "none" \/ c.closed # "none")
    BY <1>1, <2>1 DEF Local, SignOutOK
  <2>3. Gone(w, v, i, preserve) /\ ~Active(v.account)
    BY <1>1, <2>2, PurpleDisconnectOfEnded
  <2> HIDE DEF v
  <2> QED BY <1>3, <2>3, AfterGone DEF v
<1> QED BY <1>2, <1>3

LEMMA OthersDisconnectKeeps ==
  ASSUME NEW w, NEW i \in Ids, Inv(w), w.account.conn = i, w.account.state = "disconnecting"
  PROVE  Inv(DisconnectAsync(w, i, FALSE, FALSE))
<1> DEFINE c == w.connection[i]
           no == FALSE
           v == DisconnectAsync(w, i, no, no)
           task == [ours |-> no, preserve |-> no]
           spare == no => no
<1>1. w \in Worlds /\ Local(c) /\ c.phase # "freed" /\ c \in Connection
  BY WorldParts DEF Inv, At, MadeOK
<1>2. no \in BOOLEAN /\ ~no
  OBVIOUS
<1>3. task \in Tasks /\ (task.ours => task.preserve) /\ spare /\ spare \in BOOLEAN
  BY DEF Tasks
<1> HIDE DEF no, spare
<1>4. CASE c.phase \in Live
  <2>1. ConnectOK(c) /\ c.closed = "none"
    BY <1>1, <1>4 DEF Local, SignOutOK, Live, Open
  <2>2. Left(w, v, i, task) /\ (v.account.state = w.account.state \/ ~Active(v.account))
    BY <1>1, <1>2, <1>4, <2>1, DisconnectOfLive
  <2>3. ~Active(v.account)
    BY <2>2 DEF Active
  <2> HIDE DEF v, task
  <2>4. Inv(v)
    BY <1>3, <1>4, <2>2, <2>3, AfterLeft
  <2> QED BY <2>4 DEF v, no
<1>5. CASE c.phase \notin Live
  <2>1. c.phase \in {"none", "Settled"}
    <3> HIDE DEF c
    <3> QED BY <1>1, <1>5 DEF Connection, Live, Open
  <2>2. c.tasks = <<>> /\ (c.phase = "none" \/ c.closed # "none")
    BY <1>1, <2>1 DEF Local, SignOutOK
  <2>3. Gone(w, v, i, spare) /\ v.account.state = w.account.state
    BY <1>1, <1>2, <2>2, DisconnectOfEnded DEF spare
  <2>4. ~Active(v.account)
    BY <2>3 DEF Active
  <2> HIDE DEF v
  <2>5. Inv(v)
    BY <1>3, <1>5, <2>3, <2>4, AfterGone
  <2> QED BY <2>5 DEF v, no
<1> QED BY <1>4, <1>5

\* Only the connection changes, and its connect and tasks do not.
Turns(w, v, i) ==
  LET c == w.connection[i]
      d == v.connection[i]
  IN /\ Outer(w, v, i) /\ v.account = w.account /\ v.pending = w.pending
     /\ Local(d) /\ d.connect = c.connect /\ d.tasks = c.tasks
     /\ d.phase \in Live => c.phase \in Live
     /\ d.phase \in Open => c.phase \in Open
     /\ d.phase = "freed" => c.phase = "freed"
     /\ d.source => c.source
     /\ w.account.conn = i /\ w.account.state = "connected" =>
          d.phase = "Ready" \/ d.signOut

LEMMA AfterTurn ==
  ASSUME NEW w, NEW v, NEW i \in Ids, Inv(w), Turns(w, v, i), i <= w.account.last
  PROVE  Inv(v)
<1> DEFINE c == w.connection[i]
           d == v.connection[i]
<1>1. w \in Worlds /\ At(w, i)
  BY DEF Inv
<1>2. /\ Outer(w, v, i) /\ v.account = w.account /\ v.pending = w.pending
      /\ Local(d) /\ d.connect = c.connect /\ d.tasks = c.tasks
      /\ d.phase \in Live => c.phase \in Live
      /\ d.phase \in Open => c.phase \in Open
      /\ d.phase = "freed" => c.phase = "freed"
      /\ d.source => c.source
      /\ w.account.conn = i /\ w.account.state = "connected" =>
           d.phase = "Ready" \/ d.signOut
  BY DEF Turns
<1> HIDE DEF c, d
<1>3. \A of : Waits(v, i, of) = Waits(w, i, of)
  BY <1>2 DEF Waits
<1>4. Served(v, i)
  BY <1>1, <1>2 DEF At, Served, c, d
<1>5. ErrorKept(v, i)
  BY <1>1, <1>2, <1>3 DEF At, ErrorKept, c, d
<1>6. CompletionsOK(v, i)
  BY <1>1, <1>2, <1>3 DEF At, CompletionsOK, c, d
<1>7. MadeOK(v, i)
  <2>1. w.account.last \in Int
    BY <1>1 DEF Worlds, Account
  <2> QED BY <1>1, <1>2, <2>1 DEF At, MadeOK, Ids, c, d
<1>8. Kept(w, v, i)
  BY <1>2 DEF Kept, c, d
<1> QED BY <1>2, <1>4, <1>5, <1>6, <1>7, <1>8, StepKeeps DEF At, d

\* An open session of the account
LEMMA OpenSession ==
  ASSUME NEW w, NEW i \in Ids, Inv(w), w.connection[i].phase \in Open
  PROVE  LET c == w.connection[i]
         IN /\ w \in Worlds /\ c \in Connection /\ i <= w.account.last
            /\ c.phase \in Live /\ Local(c) /\ ConnectOK(c) /\ CancellationOK(c)
            /\ ~c.explicit /\ ~c.failed /\ ~c.source /\ c.tasks = <<>>
            /\ c.result = "none" /\ c.closed = "none"
            /\ c.phase = "Connecting" => c.connect = "pending" /\ ~c.chosen
            /\ c.phase = "Ready" => c.connect # "pending" /\ c.chosen
            /\ w.account.error # <<"runtime", i>>
            /\ Waits(w, i, "disconnect") = {}
            /\ w.account.conn = i /\ w.account.state = "connected" => c.phase = "Ready"
<1> DEFINE c == w.connection[i]
<1>1. w \in Worlds /\ At(w, i) /\ c \in Connection /\ i <= w.account.last /\ c.phase \in Live
  BY MadeBefore, WorldParts DEF Inv, Live
<1>2. Local(c) /\ ConnectOK(c) /\ CancellationOK(c) /\ SignOutOK(c)
  BY <1>1 DEF At, Local
<1>3. /\ w.account.error # <<"runtime", i>>
      /\ Waits(w, i, "disconnect") = {}
  BY <1>1 DEF At, ErrorKept, CompletionsOK
<1>4. w.account.conn = i /\ w.account.state = "connected" => c.connect = "connected"
  BY <1>1 DEF At, Served
<1> HIDE DEF c
<1>5. /\ ~c.explicit /\ ~c.failed /\ ~c.source /\ c.tasks = <<>> /\ c.closed = "none"
  BY <1>1, <1>2 DEF SignOutOK, Live, Open, c
<1>6. /\ c.result = "none"
      /\ c.phase = "Connecting" => c.connect = "pending" /\ ~c.chosen
      /\ c.phase = "Ready" => c.connect # "pending" /\ c.chosen
  BY <1>1, <1>2 DEF ConnectOK
<1>7. c.phase \in {"Connecting", "Ready"}
  BY DEF c, Open
<1> QED BY <1>1, <1>2, <1>3, <1>4, <1>5, <1>6, <1>7 DEF c

\* ... of which what is only read by the login and the cancellation is changed
LEMMA OpenTurns ==
  ASSUME NEW w, NEW v, NEW i \in Ids, NEW d \in Connection, Inv(w),
         w.connection[i].phase \in Open,
         v = Makes(w, i, w.account, d, w.pending, w.sync),
         d.phase = w.connection[i].phase, d.connect = w.connection[i].connect,
         d.tasks = w.connection[i].tasks, d.chosen = w.connection[i].chosen,
         d.result = w.connection[i].result, d.closed = w.connection[i].closed,
         ~d.explicit, ~d.failed, ~d.source, d.timer => d.signOut,
         CancellationOK(d)
  PROVE  /\ Inv(v) /\ v \in Worlds /\ v.account = w.account /\ v.connection[i] = d
         /\ v.pending = w.pending
<1>1. /\ w \in Worlds /\ i <= w.account.last
      /\ Local(w.connection[i]) /\ w.connection[i].phase \in Live
      /\ w.account.conn = i /\ w.account.state = "connected" => w.connection[i].phase = "Ready"
      /\ w.connection[i].closed = "none"
  BY OpenSession
<1>2. /\ Outer(w, v, i) /\ v \in Worlds /\ v.account = w.account /\ v.pending = w.pending
      /\ v.connection[i] = d
  BY <1>1, MakesLocal
<1>3. Local(d)
  <2>1. ConnectOK(d)
    BY <1>1 DEF Local, ConnectOK, Open
  <2>2. SignOutOK(d)
    BY <1>1 DEF Local, SignOutOK, Live, Open
  <2> QED BY <2>1, <2>2 DEF Local
<1>4. Turns(w, v, i)
  BY <1>1, <1>2, <1>3 DEF Turns, Open
<1> QED BY <1>1, <1>2, <1>4, AfterTurn

-----------------------------------------------------------------------------
(* An open session ends *)

LEMMA LoginGivenUp ==
  ASSUME NEW w, NEW i \in Ids, Inv(w), w.connection[i].phase = "Connecting"
  PROVE  Inv(GiveUp(w, i))
<1> DEFINE v == GiveUp(w, i)
<1>1. /\ w \in Worlds /\ w.connection[i].phase \in Open
      /\ w.connection[i].connect = "pending" /\ ~w.connection[i].chosen
  BY OpenSession DEF Open
<1>2. Shut(w, v, i) /\ v.connection[i].explicit = w.connection[i].explicit
  BY <1>1, GivesUp
<1> HIDE DEF v
<1> QED BY <1>1, <1>2, AfterShut DEF v

LEMMA CancelKeeps ==
  ASSUME NEW w, NEW i \in Ids, Inv(w), w.connection[i].phase # "Ready"
  PROVE  Inv(Cancel(w, i))
<1> DEFINE v == CancelLogin(w, i)
<1>1. CASE w.connection[i].phase \notin Open
  BY <1>1 DEF Cancel
<1>2. CASE w.connection[i].phase \in Open
  <2>1. w \in Worlds /\ w.connection[i].phase = "Connecting" /\ ConnectOK(w.connection[i])
    BY <1>2, OpenSession DEF Open
  <2>2. Shut(w, v, i) /\ v.connection[i].explicit = w.connection[i].explicit
    BY <1>2, <2>1, LoginCancelled
  <2> HIDE DEF v
  <2>3. Inv(v)
    BY <1>2, <2>1, <2>2, AfterShut
  <2> QED BY <1>2, <2>3 DEF Cancel, v
<1> QED BY <1>1, <1>2

LEMMA SignOutForgotten ==
  ASSUME NEW w, NEW i \in Ids, Inv(w), w.connection[i].phase \in Open
  PROVE  LET v == ForgetSignOut(w, i)
         IN /\ Inv(v) /\ v \in Worlds /\ v.account = w.account
            /\ v.connection[i].phase = w.connection[i].phase
            /\ ~v.connection[i].signOut
<1> DEFINE c == w.connection[i]
           d == [c EXCEPT !.signOut = FALSE, !.timer = FALSE]
           v == ForgetSignOut(w, i)
<1>1. /\ w \in Worlds /\ c \in Connection /\ CancellationOK(c)
      /\ ~c.explicit /\ ~c.failed /\ ~c.source
  BY OpenSession
<1>2. v = [w EXCEPT !.connection[i].signOut = FALSE, !.connection[i].timer = FALSE]
  BY DEF ForgetSignOut
<1>3. w.connection[i] = c
  OBVIOUS
<1> HIDE DEF v
<1>4. v = Makes(w, i, w.account, d, w.pending, w.sync)
  BY <1>1, <1>2, Zenon DEF Makes, Worlds
<1> HIDE DEF c
<1>5. /\ d \in Connection /\ d.phase = c.phase /\ d.connect = c.connect
      /\ d.tasks = c.tasks /\ d.chosen = c.chosen /\ d.result = c.result
      /\ d.closed = c.closed /\ d.explicit = c.explicit /\ d.failed = c.failed
      /\ d.source = c.source /\ ~d.signOut /\ ~d.timer
      /\ d.watching = c.watching /\ d.deferred = c.deferred /\ d.cancelled = c.cancelled
  BY <1>1 DEF Connection
<1> HIDE DEF d
<1>6. CancellationOK(d)
  BY <1>1, <1>5 DEF CancellationOK
<1>7. /\ Inv(v) /\ v \in Worlds /\ v.account = w.account /\ v.connection[i] = d
  BY <1>1, <1>3, <1>4, <1>5, <1>6, OpenTurns
<1> QED BY <1>3, <1>5, <1>7 DEF v

\* The account is given the error of a failure, when it is disconnected.
LEMMA ErrorGiven ==
  ASSUME NEW w, NEW i \in Ids, Inv(w), ~Active(w.account), w.account.conn \in {0, i},
         w.connection[i].phase \notin Open,
         \A k \in DOMAIN w.connection[i].tasks :
           w.connection[i].tasks[k].ours => w.connection[i].tasks[k].preserve,
         \A k \in Waits(w, i, "disconnect") : w.pending[k].ours => w.pending[k].ok
  PROVE  Inv([w EXCEPT !.account.error = <<"runtime", i>>])
<1> DEFINE error == <<"runtime", i>>
           a == [w.account EXCEPT !.error = error]
           v == [w EXCEPT !.account.error = error]
<1>1. /\ w \in Worlds /\ At(w, i) /\ w.account \in Account
      /\ w.connection[i] \in Connection /\ w.pending \in Seq(Completions)
      /\ w.sync \in BOOLEAN
  BY WorldParts DEF Inv
<1>2. v = [w EXCEPT !.account = a]
  OBVIOUS
<1>3. /\ error \in {"none", "runtime", "restart", "cleanup"} \X (0 .. MaxConnections)
      /\ \A j \in Ids \ {i} : error # <<"runtime", j>>
  BY DEF Ids
<1> HIDE DEF error
<1>4. /\ a \in Account /\ a.state = w.account.state /\ a.conn = w.account.conn
      /\ a.probe = w.account.probe /\ a.last = w.account.last
      /\ Less(w.account, a, i)
  BY <1>1, <1>3 DEF Account, Less
<1> HIDE DEF a, v
<1>5. /\ v \in Worlds /\ v.account = a /\ v.connection = w.connection
      /\ v.pending = w.pending
  BY <1>1, <1>2, <1>4 DEF Worlds
<1>6. Outer(w, v, i)
  BY <1>4, <1>5, NothingAdded DEF Outer
<1>7. Kept(w, v, i)
  BY <1>4, <1>5 DEF Kept
<1>8. At(v, i)
  <2>1. \A of : Waits(v, i, of) = Waits(w, i, of)
    BY <1>5 DEF Waits
  <2> QED BY <1>1, <1>4, <1>5, <2>1
           DEF At, Served, ErrorKept, CompletionsOK, MadeOK, Active
<1> QED BY <1>6, <1>7, <1>8, StepKeeps DEF v, error

\* The failure of a session that is ready
LEMMA RuntimeFailureCloses ==
  ASSUME NEW w, NEW i \in Ids, Inv(w), w.connection[i].phase = "Ready",
         ~w.connection[i].signOut
  PROVE  Inv(BeginClose(NotifyRuntimeFailure(w, i), i))
<1> DEFINE c == w.connection[i]
           d == [c EXCEPT !.failed = TRUE]
           u == [w EXCEPT !.connection[i].failed = TRUE]
           y == RuntimeFailed(u, i)
           v == BeginClose(y, i)
<1>1. /\ w \in Worlds /\ c \in Connection /\ c.phase \in Open /\ c.phase \in Live
      /\ ConnectOK(c) /\ c.closed = "none" /\ c.tasks = <<>> /\ ~c.failed
      /\ Waits(w, i, "disconnect") = {} /\ ~c.signOut
  BY OpenSession DEF Open
<1>2. NotifyRuntimeFailure(w, i) = y
  BY <1>1 DEF NotifyRuntimeFailure
<1>3. u = [w EXCEPT !.connection[i].failed = TRUE]
  OBVIOUS
<1>4. w.connection[i] = c
  OBVIOUS
<1> HIDE DEF u, v
<1>5. u = Makes(w, i, w.account, d, w.pending, w.sync)
  BY <1>1, <1>3, Zenon DEF Makes, Worlds
<1> HIDE DEF c
<1>6. /\ d \in Connection /\ d.phase = c.phase /\ d.connect = c.connect
      /\ d.tasks = c.tasks /\ d.chosen = c.chosen /\ d.result = c.result
      /\ d.closed = c.closed /\ d.explicit = c.explicit /\ d.source = c.source
      /\ d.signOut = c.signOut
  BY <1>1 DEF Connection
<1> HIDE DEF d
<1>7. /\ Outer(w, u, i) /\ u \in Worlds /\ u.connection[i] = d
      /\ u.account = w.account /\ u.pending = w.pending
  BY <1>1, <1>5, <1>6, MakesLocal
<1>8. CASE w.account.conn # i \/ ~Active(w.account)
  <2>1. v = BeginClose(u, i)
    BY <1>7, <1>8 DEF RuntimeFailed, v
  <2>2. /\ Outer(u, v, i) /\ v.account = u.account /\ v.pending = u.pending
        /\ v.connection[i] = ClosingFrom(d)
    BY <1>1, <1>6, <1>7, <2>1, CloseBegins
  <2>3. LET g == ClosingFrom(d)
        IN /\ g.phase = "Closing" /\ ~g.timer /\ ~g.signOut /\ g.connect = c.connect
           /\ g.tasks = c.tasks /\ g.result = c.result /\ g.chosen = c.chosen
           /\ g.closed = c.closed /\ g.source = c.source /\ g.explicit = c.explicit
    BY <1>1, <1>6 DEF ClosingFrom, Connection
  <2>4. Outer(w, v, i)
    BY <1>1, <1>7, <2>2, OuterComposes
  <2>5. Shut(w, v, i)
    BY <1>4, <1>7, <2>2, <2>3, <2>4 DEF Shut, Closes
  <2>6. v.connection[i].explicit = w.connection[i].explicit
    BY <1>4, <2>2, <2>3
  <2>7. Inv(v)
    BY <1>1, <1>4, <1>8, <2>5, <2>6, AfterShut
  <2> QED BY <1>2, <2>7 DEF v
<1>9. CASE w.account.conn = i /\ Active(w.account)
  <2> DEFINE yes == TRUE
             task == [ours |-> yes, preserve |-> yes]
             z == PurpleDisconnect(u, yes)
  <2>1. y = [z EXCEPT !.account.error = <<"runtime", i>>]
    BY <1>7, <1>9 DEF RuntimeFailed
  <2>2. ConnectOK(d)
    BY <1>1, <1>6 DEF ConnectOK
  <2>3. yes \in BOOLEAN /\ task \in Tasks /\ (task.ours => task.preserve)
    BY DEF Tasks
  <2>4. /\ Active(u.account) /\ u.account.conn = i
        /\ u.connection[i].phase \in Live /\ u.connection[i].closed = "none"
        /\ ConnectOK(u.connection[i])
    BY <1>1, <1>6, <1>7, <1>9, <2>2
  <2> HIDE DEF yes
  <2>5. Left(u, z, i, [ours |-> TRUE, preserve |-> yes]) /\ ~Active(z.account)
    BY <1>7, <2>3, <2>4, PurpleDisconnectOfLive
  <2>6. Left(u, z, i, task)
    BY <2>5 DEF yes
  <2> HIDE DEF z, task
  <2>7. Outer(w, z, i)
    BY <1>1, <1>7, <2>6, OuterComposes DEF Left
  <2>8. Left(w, z, i, task)
    BY <1>4, <1>6, <1>7, <2>6, <2>7 DEF Left, Closes
  <2>9. Inv(z)
    BY <1>1, <1>4, <2>3, <2>5, <2>8, AfterLeft
  <2>10. z.account.conn \in {0, i} /\ z.connection[i].phase \notin Open
    BY <1>9, <2>8 DEF Left, Closes, Outer, Less, Open
  <2>11. \A k \in DOMAIN z.connection[i].tasks :
           z.connection[i].tasks[k].ours => z.connection[i].tasks[k].preserve
    <3>1. z.connection[i].tasks = Append(<<>>, task)
      BY <1>1, <1>4, <2>8 DEF Left
    <3> QED BY <2>3, <3>1
  <2>12. Waits(z, i, "disconnect") = {}
    <3>1. Waits(z, i, "disconnect") = Waits(w, i, "disconnect")
      BY <2>8 DEF Left, Outer, Extends, Waits
    <3> QED BY <1>1, <3>1
  <2>13. Inv([z EXCEPT !.account.error = <<"runtime", i>>])
    BY <2>5, <2>9, <2>10, <2>11, <2>12, ErrorGiven
  <2>14. y.connection = z.connection
    <3>1. z \in Worlds
      BY <2>9 DEF Inv
    <3> QED BY <2>1, <3>1 DEF Worlds
  <2>15. v = y
    BY <2>10, <2>14 DEF BeginClose, v
  <2> QED BY <1>2, <2>1, <2>13, <2>15 DEF v
<1> QED BY <1>8, <1>9

LEMMA AuthorizationFailedKeeps ==
  ASSUME NEW w, NEW i \in Ids, Inv(w), w.connection[i].phase \in Open
  PROVE  Inv(AuthorizationFailed(w, i))
<1> DEFINE u == ForgetSignOut(w, i)
<1>1. Inv(u) /\ u.connection[i].phase = w.connection[i].phase /\ ~u.connection[i].signOut
  BY SignOutForgotten
<1>2. CASE w.connection[i].phase = "Connecting"
  <2>1. AuthorizationFailed(w, i) = GiveUp(u, i)
    BY <1>2 DEF AuthorizationFailed, GiveUp
  <2> HIDE DEF u
  <2> QED BY <1>1, <1>2, <2>1, LoginGivenUp
<1>3. CASE w.connection[i].phase = "Ready"
  <2>1. AuthorizationFailed(w, i) = BeginClose(NotifyRuntimeFailure(u, i), i)
    BY <1>3 DEF AuthorizationFailed
  <2> HIDE DEF u
  <2> QED BY <1>1, <1>3, <2>1, RuntimeFailureCloses
<1> QED BY <1>2, <1>3 DEF Open

\* A session that TDLib has signed out closes.
LEMMA SignOutCloses ==
  ASSUME NEW w, NEW i \in Ids, Inv(w), w.connection[i].signOut
  PROVE  Inv(BeginClose(w, i))
<1> DEFINE c == w.connection[i]
           d == ClosingFrom(c)
           v == BeginClose(w, i)
<1>1. CASE c.phase \notin Open
  BY <1>1 DEF BeginClose
<1>2. CASE c.phase \in Open
  <2>1. /\ w \in Worlds /\ c \in Connection /\ i <= w.account.last
        /\ c.phase \in Live /\ ConnectOK(c) /\ c.tasks = <<>> /\ ~c.explicit /\ ~c.failed
        /\ ~c.source /\ c.closed = "none"
    BY <1>2, OpenSession
  <2>2. /\ Outer(w, v, i) /\ v \in Worlds
        /\ v.account = w.account /\ v.pending = w.pending /\ v.connection[i] = d
    BY <1>2, <2>1, CloseBegins
  <2>3. w.connection[i] = c /\ c.signOut
    OBVIOUS
  <2> HIDE DEF c, v
  <2>4. /\ d.phase = "Closing" /\ ~d.timer /\ d.signOut /\ d.connect = c.connect
        /\ d.tasks = c.tasks /\ d.result = c.result /\ d.chosen = c.chosen
        /\ d.closed = c.closed /\ d.source = c.source /\ d.explicit = c.explicit
        /\ d.failed = c.failed
    BY <2>1, <2>3 DEF ClosingFrom, Connection
  <2> HIDE DEF d
  <2>5. Local(d)
    <3>1. ConnectOK(d)
      BY <2>1, <2>4 DEF ConnectOK, Live
    <3>2. CancellationOK(d) /\ SignOutOK(d)
      BY <2>1, <2>4 DEF CancellationOK, SignOutOK, Live, Open
    <3> QED BY <3>1, <3>2 DEF Local
  <2>6. Turns(w, v, i)
    BY <1>2, <2>1, <2>2, <2>3, <2>4, <2>5 DEF Turns, Open
  <2> QED BY <2>1, <2>6, AfterTurn DEF v
<1> QED BY <1>1, <1>2

LEMMA RequestReauthorizationKeeps ==
  ASSUME NEW w, NEW i \in Ids, NEW timed \in BOOLEAN, Inv(w)
  PROVE  Inv(RequestReauthorization(w, i, timed))
<1> DEFINE c == w.connection[i]
           d == [c EXCEPT !.signOut = TRUE, !.timer = TRUE]
           v == RequestReauthorization(w, i, timed)
           refused == c.signOut \/ c.explicit \/ c.phase \notin Open
<1>1. CASE refused
  <2>1. v = w
    BY <1>1 DEF RequestReauthorization
  <2> QED BY <2>1
<1>2. CASE ~refused /\ timed
  <2>1. /\ w \in Worlds /\ c \in Connection /\ CancellationOK(c) /\ c.phase \in Open
        /\ ~c.explicit /\ ~c.failed /\ ~c.source
    BY <1>2, OpenSession
  <2>2. v = [w EXCEPT !.connection[i].signOut = TRUE, !.connection[i].timer = TRUE]
    BY <1>2 DEF RequestReauthorization
  <2>3. w.connection[i] = c
    OBVIOUS
  <2> HIDE DEF v
  <2>4. v = Makes(w, i, w.account, d, w.pending, w.sync)
    BY <2>1, <2>2, Zenon DEF Makes, Worlds
  <2> HIDE DEF c
  <2>5. /\ d \in Connection /\ d.phase = c.phase /\ d.connect = c.connect
        /\ d.tasks = c.tasks /\ d.chosen = c.chosen /\ d.result = c.result
        /\ d.closed = c.closed /\ d.explicit = c.explicit /\ d.failed = c.failed
        /\ d.source = c.source /\ d.signOut
        /\ d.watching = c.watching /\ d.deferred = c.deferred /\ d.cancelled = c.cancelled
    BY <2>1 DEF Connection
  <2> HIDE DEF d
  <2>6. CancellationOK(d)
    BY <2>1, <2>5 DEF CancellationOK
  <2>7. Inv(v)
    BY <2>1, <2>3, <2>4, <2>5, <2>6, OpenTurns
  <2> QED BY <2>7 DEF v
<1>3. CASE ~refused /\ ~timed
  <2>1. v = AuthorizationFailed(w, i)
    BY <1>3 DEF RequestReauthorization
  <2> HIDE DEF v
  <2> QED BY <1>3, <2>1, AuthorizationFailedKeeps DEF v
<1> QED BY <1>1, <1>2, <1>3

LEMMA ToldKeeps ==
  ASSUME NEW w, NEW i \in Ids, NEW state \in Lifecycle, NEW timed \in BOOLEAN, Inv(w),
         w.connection[i].phase \in Open
  PROVE  Inv(Told(w, i, state, timed))
<1> DEFINE c == w.connection[i]
           login == IF c.login = "none" THEN "failed" ELSE c.login
           notified == c.notified \cup {state}
           d == [c EXCEPT !.notified = notified, !.login = login]
           u == [w EXCEPT !.connection[i].notified = @ \cup {state},
                          !.connection[i].login = IF @ = "none" THEN "failed" ELSE @]
           v == Told(w, i, state, timed)
<1>1. /\ w \in Worlds /\ c \in Connection /\ CancellationOK(c) /\ c.phase \in Open
      /\ ~c.explicit /\ ~c.failed /\ ~c.source /\ Local(c)
  BY OpenSession
<1>2. u = [w EXCEPT !.connection[i].notified = @ \cup {state},
                    !.connection[i].login = IF @ = "none" THEN "failed" ELSE @]
  OBVIOUS
<1>3. v \in {u, RequestReauthorization(u, i, timed), AuthorizationFailed(u, i)}
  BY DEF Told
<1>4. w.connection[i] = c
  OBVIOUS
<1> HIDE DEF u, v
<1>5. u = Makes(w, i, w.account, d, w.pending, w.sync)
  BY <1>1, <1>2, Zenon DEF Makes, Worlds
<1> HIDE DEF c
<1>6. /\ login \in {"none", "ready", "failed", "cancelled", "over"}
      /\ notified \in SUBSET Lifecycle
  BY <1>1 DEF Connection
<1> HIDE DEF login, notified
<1>7. /\ d \in Connection /\ d.phase = c.phase /\ d.connect = c.connect
      /\ d.tasks = c.tasks /\ d.chosen = c.chosen /\ d.result = c.result
      /\ d.closed = c.closed /\ d.explicit = c.explicit /\ d.failed = c.failed
      /\ d.source = c.source /\ d.signOut = c.signOut /\ d.timer = c.timer
      /\ d.watching = c.watching /\ d.deferred = c.deferred /\ d.cancelled = c.cancelled
  BY <1>1, <1>6, Zenon DEF Connection
<1> HIDE DEF d
<1>8. CancellationOK(d) /\ (d.timer => d.signOut)
  BY <1>1, <1>7 DEF CancellationOK, Local, SignOutOK
<1>9. Inv(u) /\ u.connection[i] = d
  BY <1>1, <1>4, <1>5, <1>7, <1>8, OpenTurns
<1>10. Inv(RequestReauthorization(u, i, timed))
  BY <1>9, RequestReauthorizationKeeps
<1>11. Inv(AuthorizationFailed(u, i))
  BY <1>1, <1>7, <1>9, AuthorizationFailedKeeps
<1> QED BY <1>3, <1>9, <1>10, <1>11 DEF v

LEMMA ProcessUpdateKeeps ==
  ASSUME NEW w, NEW i \in Ids, NEW state \in Lifecycle, NEW timed \in BOOLEAN, Inv(w),
         w.connection[i].phase \in Open
  PROVE  Inv(ProcessUpdate(w, i, state, timed))
<1> DEFINE v == Told(w, i, state, timed)
<1>1. Inv(v)
  BY ToldKeeps
<1>2. ProcessUpdate(w, i, state, timed) \in {v}
      \/ (v.connection[i].signOut /\ ProcessUpdate(w, i, state, timed) = BeginClose(v, i))
  BY DEF ProcessUpdate
<1> HIDE DEF v
<1> QED BY <1>1, <1>2, SignOutCloses

\* A login that succeeds for the connection of the account
LEMMA LoginSucceeds ==
  ASSUME NEW w, NEW v, NEW i \in Ids, NEW a \in Account, NEW d \in Connection, Inv(w),
         w.connection[i].phase = "Connecting", w.account.conn = i,
         v = Makes(w, i, a, d, w.pending, w.sync),
         a.state = "connected", ~a.probe, a.recoveries = 0, a.conn = i,
         a.last = w.account.last, a.error = w.account.error, a.byHand <=> w.account.byHand,
         d.phase = "Ready", d.connect = "connected", Local(d)
  PROVE  Inv(v)
<1>1. /\ w \in Worlds /\ i <= w.account.last /\ Global(w) /\ At(w, i)
      /\ w.connection[i].connect = "pending" /\ w.account.error # <<"runtime", i>>
      /\ Waits(w, i, "disconnect") = {} /\ w.connection[i].phase \in Live
  BY OpenSession DEF Inv, Open
<1>2. /\ w.pending \in Seq(Completions) /\ w.sync \in BOOLEAN /\ w.account \in Account
  BY <1>1, WorldParts
<1>3. /\ v \in Worlds /\ v.account = a /\ v.pending = w.pending /\ v.connection[i] = d
      /\ \A j \in Ids \ {i} : v.connection[j] = w.connection[j]
  BY <1>1, <1>2, MakesWorld
<1>4. a.last \in Int /\ i # 0
  BY <1>1, <1>2 DEF Account, Ids
<1>5. \A j \in Ids : \A of : Waits(v, j, of) = Waits(w, j, of)
  BY <1>3 DEF Waits
<1>6. At(v, i)
  <2>1. Waits(v, i, "connect") = {} /\ Waits(v, i, "disconnect") = {}
    BY <1>1, <1>5 DEF At, CompletionsOK
  <2>2. Served(v, i) /\ ErrorKept(v, i)
    BY <1>1, <1>3, <1>4 DEF Served, ErrorKept
  <2>3. CompletionsOK(v, i)
    BY <1>3, <2>1 DEF CompletionsOK
  <2>4. MadeOK(v, i)
    BY <1>1, <1>3, <1>4 DEF MadeOK, Ids
  <2> QED BY <1>3, <2>2, <2>3, <2>4 DEF At
<1>7. ASSUME NEW j \in Ids \ {i} PROVE At(v, j)
  <2>1. At(w, j) /\ v.connection[j] = w.connection[j]
    BY <1>3 DEF Inv
  <2>2. w.account.error # <<"runtime", j>>
    BY <1>4, <2>1 DEF At, ErrorKept
  <2>3. Served(v, j) /\ ErrorKept(v, j)
    BY <1>3, <1>4, <2>2 DEF Served, ErrorKept
  <2>4. CompletionsOK(v, j) /\ MadeOK(v, j)
    BY <1>3, <1>4, <1>5, <2>1 DEF At, CompletionsOK, MadeOK
  <2> QED BY <2>1, <2>3, <2>4 DEF At
<1>8. \A j \in Ids : /\ v.connection[j].phase \in Live => w.connection[j].phase \in Live
                     /\ v.connection[j].source => w.connection[j].source
  <2>1. ~d.source
    BY DEF Local, SignOutOK
  <2> QED BY <1>1, <1>3, <2>1
<1>9. AccountOK(v) /\ OneSession(v) /\ RestartsCounted(v)
  BY <1>1, <1>3, <1>4, <1>8 DEF Global, AccountOK, OneSession, RestartsCounted, Ids
<1>10. OneRestart(v)
  <2> SUFFICES ASSUME ~w.account.byHand PROVE \A j \in Ids : ~v.connection[j].source
    BY <1>3, <1>4 DEF OneRestart
  <2> QED BY <1>1, <1>8 DEF Global, OneRestart
<1> QED BY <1>3, <1>6, <1>7, <1>9, <1>10 DEF Inv, Global

\* ... and for one that the account has let go
LEMMA LoginUnwanted ==
  ASSUME NEW w, NEW u, NEW v, NEW i \in Ids, NEW e \in Connection, Inv(w),
         w.connection[i].phase = "Connecting", w.account.conn # i,
         u = Makes(w, i, w.account, e, w.pending, w.sync),
         Refused(u, v, i, e), e.phase = "Ready", e.chosen, e.tasks = <<>>,
         \A x \in {"returned", "failed"} : Local([e EXCEPT !.connect = x])
  PROVE  Inv(v)
<1>1. /\ w \in Worlds /\ i <= w.account.last /\ w.connection[i].phase \in Live
      /\ w.account.error # <<"runtime", i>> /\ Waits(w, i, "disconnect") = {}
  BY OpenSession DEF Open
<1>2. /\ Outer(w, u, i) /\ u \in Worlds /\ u.account = w.account /\ u.pending = w.pending
  BY <1>1, MakesLocal
<1>3. PICK x \in {"returned", "failed"} :
        /\ v.connection[i] = [e EXCEPT !.connect = x]
        /\ x = "returned" => Waits(v, i, "connect") # {}
  BY DEF Refused
<1> DEFINE d == [e EXCEPT !.connect = x]
<1>4. d.phase = "Ready" /\ d.connect = x /\ ~d.source
  <2>1. d.phase = "Ready" /\ d.connect = x
    BY DEF Connection
  <2>2. Local(d)
    OBVIOUS
  <2> HIDE DEF d
  <2> QED BY <2>1, <2>2 DEF Local, SignOutOK
<1>5. v.connection[i] = d /\ Local(d)
  BY <1>3
<1> HIDE DEF d
<1>6. Outer(w, v, i)
  BY <1>1, <1>2, OuterComposes DEF Refused
<1>7. /\ v.account = w.account
         \/ (~Active(v.account) /\ v.account.conn # i /\ v.account.error = w.account.error)
      /\ \A k \in DOMAIN v.pending \ DOMAIN w.pending : v.pending[k].of = "connect"
  BY <1>2 DEF Refused
<1>8. Kept(w, v, i)
  BY <1>1, <1>4, <1>5, <1>7 DEF Kept
<1>9. At(v, i)
  <2>1. Waits(v, i, "disconnect") = {}
    BY <1>1, <1>6, <1>7 DEF Outer, Extends, Waits
  <2>2. Served(v, i) /\ ErrorKept(v, i)
    BY <1>1, <1>7 DEF Served, ErrorKept
  <2>3. CompletionsOK(v, i)
    BY <1>3, <1>4, <1>5, <2>1 DEF CompletionsOK
  <2>4. MadeOK(v, i)
    <3>1. w.account.last \in Int /\ v.account.last = w.account.last
      BY <1>1, <1>6 DEF Worlds, Account, Outer, Less
    <3> QED BY <1>1, <1>4, <1>5, <3>1 DEF MadeOK, Ids
  <2> QED BY <1>5, <2>2, <2>3, <2>4 DEF At
<1> QED BY <1>6, <1>8, <1>9, StepKeeps

LEMMA SelectReadyKeeps ==
  ASSUME NEW w, NEW i \in Ids, Inv(w), w.connection[i].phase = "Connecting",
         ~w.connection[i].watching, ~w.connection[i].cancelled
  PROVE  Inv(SelectReady(w, i))
<1> DEFINE c == w.connection[i]
           e == [c EXCEPT !.phase = "Ready", !.chosen = TRUE]
           u == [w EXCEPT !.connection[i].phase = "Ready"]
           y == [u EXCEPT !.connection[i].chosen = TRUE]
           v == SelectReady(w, i)
<1>1. /\ w \in Worlds /\ c \in Connection /\ c.connect = "pending" /\ ~c.chosen
      /\ ConnectOK(c) /\ CancellationOK(c) /\ Local(c) /\ c.tasks = <<>>
      /\ w.account \in Account
  BY OpenSession, WorldParts DEF Open
<1>2. /\ u.account = w.account
      /\ ~u.connection[i].chosen /\ u.connection[i].connect = "pending"
  BY <1>1 DEF Worlds, Connection
<1>3. v = NotifyReady(u, i)
  BY DEF SelectReady
<1> HIDE DEF u, v
<1>4. v = IF w.account.conn # i THEN CompleteConnect(y, i, FALSE)
          ELSE CompleteConnect([y EXCEPT !.account.probe = FALSE,
                                         !.account.state = "connected",
                                         !.account.recoveries = 0], i, TRUE)
  BY <1>2, <1>3 DEF NotifyReady
<1>5. y = [[w EXCEPT !.connection[i].phase = "Ready"] EXCEPT !.connection[i].chosen = TRUE]
  BY DEF u
<1>6. w.connection[i] = c
  OBVIOUS
<1> HIDE DEF y
<1>7. y = Makes(w, i, w.account, e, w.pending, w.sync)
  BY <1>1, <1>5, Zenon DEF Makes, Worlds
<1>8. /\ c.phase = "Connecting" /\ ~c.watching /\ ~c.cancelled
      /\ \A x \in {"returned", "failed", "connected"} :
           LET d == [e EXCEPT !.connect = x]
           IN d \in Connection /\ d.phase = "Ready" /\ d.connect = x /\ Local(d)
  <2> SUFFICES ASSUME NEW x \in {"returned", "failed", "connected"}
               PROVE  LET d == [e EXCEPT !.connect = x]
                      IN d \in Connection /\ d.phase = "Ready" /\ d.connect = x /\ Local(d)
    OBVIOUS
  <2> DEFINE d == [e EXCEPT !.connect = x]
  <2>1. c.phase = "Connecting" /\ ~c.watching /\ ~c.cancelled
    OBVIOUS
  <2> HIDE DEF c
  <2>2. /\ d \in Connection /\ d.phase = "Ready" /\ d.chosen /\ d.connect = x
        /\ d.tasks = c.tasks /\ d.result = c.result /\ d.closed = c.closed
        /\ d.explicit = c.explicit /\ d.failed = c.failed /\ d.source = c.source
        /\ d.signOut = c.signOut /\ d.timer = c.timer /\ d.watching = c.watching
        /\ d.deferred = c.deferred /\ d.cancelled = c.cancelled
    BY <1>1 DEF Connection
  <2> HIDE DEF d
  <2>3. CancellationOK(d)
    BY <1>1, <2>1, <2>2 DEF CancellationOK, Open
  <2>4. ConnectOK(d)
    BY <1>1, <2>1, <2>2 DEF ConnectOK, Live, Open
  <2>5. SignOutOK(d)
    BY <1>1, <2>1, <2>2 DEF Local, SignOutOK, Live, Open
  <2> QED BY <2>2, <2>3, <2>4, <2>5 DEF Local, d
<1> HIDE DEF c
<1>9. /\ e \in Connection /\ e.phase = "Ready"
      /\ e.chosen /\ e.connect = "pending" /\ e.tasks = <<>>
  BY <1>1 DEF Connection
<1>10. CASE w.account.conn # i
  <2>1. y \in Worlds /\ y.connection[i] = e
    BY <1>1, <1>7, <1>9, MakesLocal
  <2>2. v = CompleteConnect(y, i, FALSE)
    BY <1>4, <1>10
  <2>3. Refused(y, v, i, e)
    BY <1>9, <2>1, <2>2, ConnectFails
  <2>4. \A x \in {"returned", "failed"} : Local([e EXCEPT !.connect = x])
    BY <1>8
  <2> HIDE DEF e
  <2>5. Inv(v)
    BY <1>6, <1>7, <1>8, <1>9, <1>10, <2>3, <2>4, LoginUnwanted
  <2> QED BY <2>5 DEF v
<1>11. CASE w.account.conn = i
  <2> DEFINE a == [w.account EXCEPT !.probe = FALSE, !.state = "connected", !.recoveries = 0]
             d == [e EXCEPT !.connect = "connected"]
             z == [y EXCEPT !.account.probe = FALSE, !.account.state = "connected",
                            !.account.recoveries = 0]
  <2>1. /\ a \in Account /\ a.state = "connected" /\ ~a.probe /\ a.recoveries = 0
        /\ a.conn = i /\ a.last = w.account.last /\ a.error = w.account.error
        /\ (a.byHand <=> w.account.byHand)
    BY <1>1, <1>11 DEF Account
  <2>2. d \in Connection /\ d.phase = "Ready" /\ d.connect = "connected" /\ Local(d)
    BY <1>8
  <2>3. v = CompleteConnect(z, i, TRUE)
    BY <1>4, <1>11
  <2>4. z = [y EXCEPT !.account.probe = FALSE, !.account.state = "connected",
                      !.account.recoveries = 0]
    OBVIOUS
  <2> HIDE DEF e, z, a
  <2>5. z = Makes(w, i, a, e, w.pending, w.sync)
    BY <1>1, <1>7, <2>4, Zenon DEF Makes, Worlds, a
  <2>6. z.connection[i] = e
    BY <1>1, <2>5 DEF Makes, Worlds
  <2>7. v = [z EXCEPT !.connection[i].connect = "connected"]
    BY <1>9, <2>3, <2>6 DEF CompleteConnect
  <2>8. v = Makes(w, i, a, d, w.pending, w.sync)
    BY <1>1, <2>5, <2>7, Zenon DEF Makes, Worlds
  <2> HIDE DEF d
  <2>9. Inv(v)
    BY <1>6, <1>8, <1>11, <2>1, <2>2, <2>8, LoginSucceeds
  <2> QED BY <2>9 DEF v
<1> QED BY <1>10, <1>11

-----------------------------------------------------------------------------
(* The login and its cancellation *)

\* What the login and the cancellation only tell each other is changed.
Informs(c, d) ==
  /\ d \in Connection /\ CancellationOK(d)
  /\ d.phase = c.phase /\ d.connect = c.connect /\ d.tasks = c.tasks
  /\ d.result = c.result /\ d.chosen = c.chosen /\ d.failed = c.failed
  /\ d.signOut = c.signOut /\ d.timer = c.timer /\ d.explicit = c.explicit
  /\ d.source = c.source /\ d.closed = c.closed

LEMMA AfterInforming ==
  ASSUME NEW w, NEW v, NEW i \in Ids, NEW d, Inv(w), i <= w.account.last,
         Informs(w.connection[i], d), v = Makes(w, i, w.account, d, w.pending, w.sync)
  PROVE  Inv(v) /\ v.connection[i] = d
<1>1. w \in Worlds /\ At(w, i)
  BY DEF Inv
<1>2. /\ Outer(w, v, i) /\ v.account = w.account /\ v.pending = w.pending
      /\ v.connection[i] = d
  BY <1>1, MakesLocal DEF Informs
<1>3. Local(d)
  BY <1>1 DEF Informs, At, Local, ConnectOK, SignOutOK
<1>4. Turns(w, v, i)
  BY <1>1, <1>2, <1>3 DEF Turns, Informs, At, Served
<1> QED BY <1>2, <1>4, AfterTurn

\* The cancellation, the end of the login and the end of its watch
LEMMA Informed ==
  ASSUME NEW c \in Connection, CancellationOK(c)
  PROVE  /\ Informs(c, [c EXCEPT !.cancelled = TRUE])
         /\ \A x \in BOOLEAN : (x => c.watching)
              => Informs(c, [c EXCEPT !.cancelled = TRUE, !.deferred = x])
         /\ Informs(c, [c EXCEPT !.deferred = FALSE])
         /\ Informs(c, [c EXCEPT !.watching = FALSE])
         /\ \A login \in {"ready", "failed"} : Informs(c, [c EXCEPT !.login = login])
<1> DEFINE k == [c EXCEPT !.cancelled = TRUE]
<1>1. Informs(c, k)
  <2>1. k \in Connection
    BY DEF Connection
  <2> QED BY <2>1 DEF Informs, CancellationOK, Connection
<1>2. ASSUME NEW x \in BOOLEAN, x => c.watching
      PROVE  Informs(c, [c EXCEPT !.cancelled = TRUE, !.deferred = x])
  <2> DEFINE d == [k EXCEPT !.deferred = x]
  <2>1. d = [c EXCEPT !.cancelled = TRUE, !.deferred = x]
    OBVIOUS
  <2>2. /\ Informs(c, k) /\ k.cancelled /\ k.watching = c.watching
    BY <1>1 DEF Connection
  <2> HIDE DEF k
  <2>3. d \in Connection
    BY <2>2 DEF Informs, Connection
  <2>4. Informs(c, d)
    BY <1>2, <2>2, <2>3 DEF Informs, CancellationOK, Connection
  <2> QED BY <2>1, <2>4
<1>3. Informs(c, [c EXCEPT !.deferred = FALSE])
  <2>1. [c EXCEPT !.deferred = FALSE] \in Connection
    BY DEF Connection
  <2> QED BY <2>1 DEF Informs, CancellationOK, Connection
<1>4. Informs(c, [c EXCEPT !.watching = FALSE])
  <2>1. [c EXCEPT !.watching = FALSE] \in Connection
    BY DEF Connection
  <2> QED BY <2>1 DEF Informs, CancellationOK, Connection
<1>5. ASSUME NEW login \in {"ready", "failed"} PROVE Informs(c, [c EXCEPT !.login = login])
  <2>1. [c EXCEPT !.login = login] \in Connection
    BY DEF Connection
  <2> QED BY <2>1 DEF Informs, CancellationOK, Connection
<1> QED BY <1>1, <1>2, <1>3, <1>4, <1>5

-----------------------------------------------------------------------------
(* Steps *)

LEMMA WorldNow ==
  ASSUME IInv, NEW sync \in BOOLEAN
  PROVE  LET w == World(sync)
         IN /\ Inv(w) /\ w \in Worlds /\ w.account = account /\ w.connection = connections
            /\ w.pending = pending /\ w.sync = sync
<1> DEFINE u == World(FALSE)
           w == World(sync)
<1>1. /\ w.account = account /\ w.connection = connections /\ w.pending = pending
      /\ w.sync = sync /\ w = [u EXCEPT !.sync = sync]
      /\ u.account = account /\ u.connection = connections /\ u.pending = pending
  BY DEF World
<1>2. Inv(u) /\ u \in Worlds
  BY DEF IInv, Inv
<1> HIDE DEF u, w
<1>3. w \in Worlds
  BY <1>1, <1>2 DEF Worlds
<1>4. Inv(w)
  BY <1>1, <1>2, <1>3, SyncIsFree
<1> QED BY <1>1, <1>3, <1>4 DEF w

LEMMA WorldNext ==
  ASSUME NEW v, Inv(v), Become(v)
  PROVE  Inv(World(FALSE))'
<1> DEFINE u == [account |-> account', connection |-> connections', pending |-> pending',
                 sync |-> FALSE]
<1>1. v \in Worlds
  BY DEF Inv
<1>2. u.account = v.account /\ u.connection = v.connection /\ u.pending = v.pending
  BY DEF Become
<1>3. u \in Worlds
  BY <1>1 DEF Become, Worlds
<1> HIDE DEF u
<1>4. Inv(u)
  BY <1>1, <1>2, <1>3, SyncIsFree
<1> QED BY <1>4 DEF u, World

LEMMA StepMade ==
  ASSUME NEW v, Inv(v), Step(v)
  PROVE  IInv'
<1>1. Inv(World(FALSE))'
  BY WorldNext DEF Step
<1>2. ReadyingOK'
  BY DEF Step, AtRest, ReadyingOK, Idle
<1> QED BY <1>1, <1>2 DEF IInv

\* Of a connection, the state and the world of a step
LEMMA ConnectionNow ==
  ASSUME IInv, NEW sync \in BOOLEAN, NEW i \in Ids
  PROVE  LET c == connections[i]
         IN /\ c \in Connection /\ CancellationOK(c)
            /\ World(sync).connection[i] = c
            /\ c.phase \in Live \/ c.source \/ c.deferred => i <= account.last
<1> DEFINE w == World(sync)
           c == w.connection[i]
<1>1. /\ Inv(w) /\ w \in Worlds /\ w.account = account /\ w.connection = connections
  BY WorldNow
<1> HIDE DEF w
<1>2. c \in Connection /\ CancellationOK(c)
  BY <1>1, WorldParts DEF Inv, At, Local
<1>3. ASSUME c.phase \in Live \/ c.source PROVE i <= account.last
  BY <1>1, <1>3, MadeBefore
<1>4. ASSUME c.deferred PROVE i <= account.last
  <2>1. c # NewConnection
    BY <1>4 DEF NewConnection
  <2>2. MadeOK(w, i) /\ w.account.last \in Int
    BY <1>1 DEF Inv, At, Worlds, Account
  <2> QED BY <1>1, <2>1, <2>2 DEF MadeOK, Ids
<1>5. c = connections[i]
  BY <1>1
<1> QED BY <1>1, <1>2, <1>3, <1>4, <1>5 DEF w

LEMMA ForeignCancelKeeps ==
  ASSUME IInv, NEW i \in Ids, ForeignCancel(i)
  PROVE  IInv'
<1> DEFINE no == FALSE
           w == World(no)
           c == connections[i]
           d == [c EXCEPT !.cancelled = TRUE, !.deferred = c.watching]
           v == Makes(w, i, w.account, d, w.pending, w.sync)
<1>1. no \in BOOLEAN
  OBVIOUS
<1> HIDE DEF no
<1>2. /\ Inv(w) /\ w \in Worlds /\ w.account = account /\ w.connection = connections
      /\ w.pending = pending /\ w.connection[i] = c
  BY <1>1, WorldNow
<1>3. c \in Connection /\ CancellationOK(c) /\ i <= account.last
  BY <1>1, ConnectionNow DEF ForeignCancel, Live
<1> HIDE DEF w
<1>4. c.watching \in BOOLEAN
  BY <1>3 DEF Connection
<1>5. Informs(c, d)
  BY <1>3, <1>4, Informed
<1>6. connections' = [connections EXCEPT ![i] = d] /\ account' = account /\ pending' = pending
  BY DEF ForeignCancel
<1>7. d.phase = c.phase /\ d.watching = c.watching
  BY <1>3 DEF Connection
<1> HIDE DEF d
<1>8. Inv(v)
  BY <1>2, <1>3, <1>5, AfterInforming
<1>9. Become(v)
  BY <1>2, <1>6 DEF Become, Makes
<1>10. Inv(World(FALSE))'
  <2> HIDE DEF v
  <2> QED BY <1>8, <1>9, WorldNext
<1>11. ReadyingOK'
  <2>1. connections \in [Ids -> Connection]
    BY <1>2 DEF Worlds
  <2>2. readying' = readying
    BY DEF ForeignCancel
  <2>3. \A j \in Ids : /\ connections'[j].phase = connections[j].phase
                       /\ connections'[j].watching = connections[j].watching
    BY <1>6, <1>7, <2>1
  <2> QED BY <2>2, <2>3 DEF IInv, ReadyingOK
<1> QED BY <1>10, <1>11 DEF IInv

LEMMA OwnerCancelKeeps ==
  ASSUME IInv, NEW i \in Ids, OwnerCancel(i)
  PROVE  IInv'
<1> DEFINE c == connections[i]
           d == [c EXCEPT !.cancelled = TRUE]
<1>1. PICK sync \in BOOLEAN :
        LET w == [World(sync) EXCEPT !.connection[i].cancelled = TRUE]
        IN Step(IF c.watching THEN Cancel(w, i) ELSE w)
  BY DEF OwnerCancel
<1> DEFINE w == World(sync)
           u == [w EXCEPT !.connection[i].cancelled = TRUE]
           v == IF c.watching THEN Cancel(u, i) ELSE u
<1>2. Step(v)
  BY <1>1
<1>3. /\ Inv(w) /\ w \in Worlds /\ w.account = account /\ w.connection[i] = c
  BY WorldNow
<1>4. c \in Connection /\ CancellationOK(c) /\ i <= account.last
  BY ConnectionNow DEF OwnerCancel, Live
<1> HIDE DEF w
<1>5. u = [w EXCEPT !.connection[i].cancelled = TRUE]
  OBVIOUS
<1> HIDE DEF u
<1>6. u = Makes(w, i, w.account, d, w.pending, w.sync)
  BY <1>3, <1>5, Zenon DEF Makes, Worlds
<1>7. Informs(c, d)
  BY <1>4, Informed
<1> HIDE DEF c, d
<1>8. Inv(u) /\ u.connection[i] = d
  BY <1>3, <1>4, <1>6, <1>7, AfterInforming
<1>9. CASE c.watching
  <2>1. u.connection[i].phase # "Ready"
    BY <1>4, <1>7, <1>8, <1>9 DEF Informs, CancellationOK
  <2>2. Inv(Cancel(u, i))
    BY <1>8, <2>1, CancelKeeps
  <2> QED BY <1>2, <1>9, <2>2, StepMade
<1>10. CASE ~c.watching
  BY <1>2, <1>8, <1>10, StepMade
<1> QED BY <1>9, <1>10

LEMMA DeferredCancelKeeps ==
  ASSUME IInv, NEW i \in Ids, DeferredCancel(i)
  PROVE  IInv'
<1> DEFINE c == connections[i]
           d == [c EXCEPT !.deferred = FALSE]
<1>1. PICK sync \in BOOLEAN :
        Step(Cancel([World(sync) EXCEPT !.connection[i].deferred = FALSE], i))
  BY DEF DeferredCancel
<1> DEFINE w == World(sync)
           u == [w EXCEPT !.connection[i].deferred = FALSE]
<1>2. Step(Cancel(u, i))
  BY <1>1
<1>3. /\ Inv(w) /\ w \in Worlds /\ w.account = account /\ w.connection[i] = c
  BY WorldNow
<1>4. c \in Connection /\ CancellationOK(c) /\ i <= account.last /\ c.deferred
  BY ConnectionNow DEF DeferredCancel
<1> HIDE DEF w
<1>5. u = [w EXCEPT !.connection[i].deferred = FALSE]
  OBVIOUS
<1> HIDE DEF u
<1>6. u = Makes(w, i, w.account, d, w.pending, w.sync)
  BY <1>3, <1>5, Zenon DEF Makes, Worlds
<1>7. Informs(c, d)
  BY <1>4, Informed
<1> HIDE DEF c, d
<1>8. Inv(u) /\ u.connection[i] = d
  BY <1>3, <1>4, <1>6, <1>7, AfterInforming
<1>9. u.connection[i].phase # "Ready"
  BY <1>4, <1>7, <1>8 DEF Informs, CancellationOK
<1>10. Inv(Cancel(u, i))
  BY <1>8, <1>9, CancelKeeps
<1> QED BY <1>2, <1>10, StepMade

LEMMA PrepareUnloadKeeps ==
  ASSUME IInv, NEW i \in Ids, PrepareUnload(i)
  PROVE  IInv'
<1>1. PICK sync \in BOOLEAN : Step(Cancel(World(sync), i))
  BY DEF PrepareUnload
<1> DEFINE w == World(sync)
<1>2. Inv(w) /\ w.connection = connections
  BY WorldNow
<1>3. w.connection[i].phase # "Ready" /\ Step(Cancel(w, i))
  BY <1>1, <1>2 DEF PrepareUnload
<1> HIDE DEF w
<1>4. Inv(Cancel(w, i))
  BY <1>2, <1>3, CancelKeeps
<1> QED BY <1>3, <1>4, StepMade

\* The login of the connection has ended as said.
LEMMA LoginNow ==
  ASSUME IInv, NEW i \in Ids, NEW sync \in BOOLEAN, NEW login \in {"ready", "failed"},
         connections[i].phase = "Connecting"
  PROVE  LET u == [World(sync) EXCEPT !.connection[i].login = login]
         IN /\ Inv(u) /\ u.connection[i].phase = "Connecting"
            /\ u.connection[i].cancelled = connections[i].cancelled
<1> DEFINE c == connections[i]
           d == [c EXCEPT !.login = login]
           w == World(sync)
           u == [w EXCEPT !.connection[i].login = login]
<1>1. /\ Inv(w) /\ w \in Worlds /\ w.account = account /\ w.connection[i] = c
  BY WorldNow
<1>2. c \in Connection /\ CancellationOK(c) /\ i <= account.last
  BY ConnectionNow DEF Live, Open
<1> HIDE DEF w
<1>3. u = [w EXCEPT !.connection[i].login = login]
  OBVIOUS
<1> HIDE DEF u
<1>4. u = Makes(w, i, w.account, d, w.pending, w.sync)
  BY <1>1, <1>3, Zenon DEF Makes, Worlds
<1>5. Informs(c, d)
  BY <1>2, Informed
<1>6. d.cancelled = c.cancelled /\ d.phase = "Connecting"
  BY <1>2 DEF Connection
<1> HIDE DEF d
<1>7. Inv(u) /\ u.connection[i] = d
  BY <1>1, <1>2, <1>4, <1>5, AfterInforming
<1> QED BY <1>6, <1>7 DEF u, w

LEMMA LoginEndsKeeps ==
  ASSUME IInv, NEW i \in Ids, LoginEnds(i)
  PROVE  IInv'
<1>1. PICK sync \in BOOLEAN :
        \/ Step(CancelLogin(World(sync), i))
        \/ Step(AuthorizationFailed([World(sync) EXCEPT !.connection[i].login = "failed"], i))
  BY DEF LoginEnds
<1> DEFINE w == World(sync)
           u == [w EXCEPT !.connection[i].login = "failed"]
<1>2. Inv(w) /\ w.connection[i].phase = "Connecting"
  BY WorldNow DEF LoginEnds
<1>3. Inv(u) /\ u.connection[i].phase = "Connecting"
  BY LoginNow DEF LoginEnds
<1>4. Step(CancelLogin(w, i)) \/ Step(AuthorizationFailed(u, i))
  BY <1>1
<1> HIDE DEF w, u
<1>5. Inv(CancelLogin(w, i))
  <2>1. CancelLogin(w, i) = Cancel(w, i)
    BY <1>2 DEF Cancel, Open
  <2> QED BY <1>2, <2>1, CancelKeeps
<1>6. Inv(AuthorizationFailed(u, i))
  BY <1>3, AuthorizationFailedKeeps DEF Open
<1> QED BY <1>4, <1>5, <1>6, StepMade

LEMMA LoginReadyKeeps ==
  ASSUME IInv, NEW i \in Ids, LoginReady(i)
  PROVE  IInv'
<1>1. PICK sync \in BOOLEAN :
        LET w == [World(sync) EXCEPT !.connection[i].login = "ready"]
        IN IF connections[i].cancelled
           THEN Step(GiveUp(w, i))
           ELSE Become(w) /\ readying' = [conn |-> i, at |-> "unwatch"]
  BY DEF LoginReady
<1> DEFINE u == [World(sync) EXCEPT !.connection[i].login = "ready"]
<1>2. Inv(u) /\ u.connection[i].phase = "Connecting"
  BY LoginNow DEF LoginReady
<1>3. IF connections[i].cancelled THEN Step(GiveUp(u, i))
      ELSE Become(u) /\ readying' = [conn |-> i, at |-> "unwatch"]
  BY <1>1
<1> HIDE DEF u
<1>4. CASE connections[i].cancelled
  <2>1. Inv(GiveUp(u, i))
    BY <1>2, LoginGivenUp
  <2> QED BY <1>3, <1>4, <2>1, StepMade
<1>5. CASE ~connections[i].cancelled
  <2>1. Inv(World(FALSE))'
    BY <1>2, <1>3, <1>5, WorldNext
  <2>2. ReadyingOK'
    BY <1>2, <1>3, <1>5 DEF ReadyingOK, Become
  <2> QED BY <2>1, <2>2 DEF IInv
<1> QED BY <1>4, <1>5

LEMMA UnwatchKeeps ==
  ASSUME IInv, Unwatch
  PROVE  IInv'
<1> DEFINE i == readying.conn
           c == connections[i]
           d == [c EXCEPT !.watching = FALSE]
           no == FALSE
           w == World(no)
           v == Makes(w, i, w.account, d, w.pending, w.sync)
<1>1. no \in BOOLEAN /\ i \in Ids /\ c.phase = "Connecting"
  BY DEF IInv, ReadyingOK, Unwatch
<1> HIDE DEF no
<1>2. /\ Inv(w) /\ w \in Worlds /\ w.account = account /\ w.connection = connections
      /\ w.pending = pending /\ w.connection[i] = c
  BY <1>1, WorldNow
<1>3. c \in Connection /\ CancellationOK(c) /\ i <= account.last
  BY <1>1, ConnectionNow DEF Live, Open
<1>4. readying' = [readying EXCEPT !.at = "outcome"]
      /\ readying \in [conn : {0} \cup Ids, at : {"rest", "unwatch", "outcome"}]
  BY DEF Unwatch, IInv, ReadyingOK
<1> HIDE DEF w
<1>5. Informs(c, d)
  BY <1>3, Informed
<1>6. connections' = [connections EXCEPT ![i] = d] /\ account' = account /\ pending' = pending
  BY DEF Unwatch
<1>7. d.phase = "Connecting" /\ ~d.watching
  BY <1>1, <1>3 DEF Connection
<1> HIDE DEF d
<1>8. Inv(v)
  BY <1>1, <1>2, <1>3, <1>5, AfterInforming
<1>9. Become(v)
  BY <1>2, <1>6 DEF Become, Makes
<1>10. Inv(World(FALSE))'
  <2> HIDE DEF v
  <2> QED BY <1>8, <1>9, WorldNext
<1>11. ReadyingOK'
  <2>1. readying'.conn = i /\ readying'.at = "outcome" /\ connections'[i] = d
        /\ readying' \in [conn : {0} \cup Ids, at : {"rest", "unwatch", "outcome"}]
    BY <1>1, <1>2, <1>4, <1>6 DEF Worlds
  <2> HIDE DEF i
  <2> QED BY <1>1, <1>7, <2>1 DEF ReadyingOK
<1> QED BY <1>10, <1>11 DEF IInv

LEMMA SelectOutcomeKeeps ==
  ASSUME IInv, SelectOutcome
  PROVE  IInv'
<1> DEFINE i == readying.conn
<1>1. PICK sync \in BOOLEAN :
        LET w == World(sync)
        IN Become(IF connections[i].cancelled THEN GiveUp(w, i) ELSE SelectReady(w, i))
  BY DEF SelectOutcome
<1> DEFINE w == World(sync)
<1>2. Become(IF connections[i].cancelled THEN GiveUp(w, i) ELSE SelectReady(w, i))
  BY <1>1
<1>3. Inv(w) /\ w.connection = connections
  BY WorldNow
<1>4. /\ i \in Ids /\ connections[i].phase = "Connecting" /\ ~connections[i].watching
  BY DEF IInv, ReadyingOK, SelectOutcome
<1> HIDE DEF w, i
<1>5. CASE connections[i].cancelled
  <2>1. Inv(GiveUp(w, i))
    BY <1>3, <1>4, LoginGivenUp
  <2> QED BY <1>2, <1>5, <2>1, WorldNext DEF IInv, ReadyingOK, SelectOutcome, Idle
<1>6. CASE ~connections[i].cancelled
  <2>1. Inv(SelectReady(w, i))
    BY <1>3, <1>4, <1>6, SelectReadyKeeps
  <2> QED BY <1>2, <1>6, <2>1, WorldNext DEF IInv, ReadyingOK, SelectOutcome, Idle
<1> QED BY <1>5, <1>6

LEMMA UpdateKeeps ==
  ASSUME IInv, NEW i \in Ids, NEW state \in Lifecycle, Update(i, state)
  PROVE  IInv'
<1>1. PICK sync \in BOOLEAN, timed \in BOOLEAN :
        Step(ProcessUpdate(World(sync), i, state, timed))
  BY DEF Update
<1> DEFINE w == World(sync)
<1>2. Inv(w) /\ w.connection = connections
  BY WorldNow
<1>3. Step(ProcessUpdate(w, i, state, timed)) /\ w.connection[i].phase \in Open
  BY <1>1, <1>2 DEF Update
<1> HIDE DEF w
<1>4. Inv(ProcessUpdate(w, i, state, timed))
  BY <1>2, <1>3, ProcessUpdateKeeps
<1> QED BY <1>3, <1>4, StepMade

LEMMA FailureKeeps ==
  ASSUME IInv, NEW i \in Ids, SignOutTimesOut(i) \/ BackendFails(i)
  PROVE  IInv'
<1>1. connections[i].phase \in Open
  <2>1. connections[i].timer => connections[i].phase \in Open
    BY WorldNow DEF Inv, At, Local, SignOutOK
  <2> QED BY <2>1 DEF SignOutTimesOut, BackendFails
<1>2. PICK sync \in BOOLEAN : Step(AuthorizationFailed(World(sync), i))
  <2>1. PICK sync \in BOOLEAN : Step(AuthorizationFailed(World(sync), i))
                                \/ Step(BackendFailed(World(sync), i))
    BY DEF SignOutTimesOut, BackendFails
  <2>2. World(sync).connection = connections
    BY WorldNow
  <2> QED BY <1>1, <2>1, <2>2 DEF BackendFailed
<1> DEFINE w == World(sync)
<1>3. Inv(w) /\ w.connection = connections
  BY WorldNow
<1>4. Step(AuthorizationFailed(w, i)) /\ w.connection[i].phase \in Open
  BY <1>1, <1>2, <1>3
<1> HIDE DEF w
<1>5. Inv(AuthorizationFailed(w, i))
  BY <1>3, <1>4, AuthorizationFailedKeeps
<1> QED BY <1>4, <1>5, StepMade

-----------------------------------------------------------------------------
(* The session is over *)

\* In the step from the world w the session has ended, and its tasks are answered.
Over(w, v, i) ==
  LET d == v.connection[i]
  IN /\ Outer(w, v, i)
     /\ d.phase = "Settled" /\ d.closed # "none" /\ d.tasks = <<>> /\ d.connect # "none"
     /\ d.signOut \/ d.timer => w.connection[i].phase # "Settled"
     /\ ErrorKept(v, i) /\ CompletionsOK(v, i)

LEMMA OverTurns ==
  ASSUME NEW w \in Worlds, NEW u, NEW v, NEW i \in Ids, NEW a \in Account,
         NEW d \in Connection, Over(w, u, i),
         v = Makes(u, i, a, d, u.pending, u.sync),
         Less(u.account, a, i), a.conn = u.account.conn,
         a.error = <<"runtime", i>> => u.account.error = <<"runtime", i>>,
         d.phase = "Settled", d.closed # "none", d.tasks = <<>>,
         d.connect = u.connection[i].connect,
         d.signOut \/ d.timer => w.connection[i].phase # "Settled"
  PROVE  /\ Over(w, v, i) /\ v.account = a /\ v.connection[i] = d
         /\ v.pending = u.pending /\ v.sync = u.sync
<1>1. u \in Worlds
  BY DEF Over, Outer
<1>2. u.account \in Account /\ u.pending \in Seq(Completions) /\ u.sync \in BOOLEAN
  BY <1>1, WorldParts
<1>3. /\ v \in Worlds /\ v.account = a /\ v.pending = u.pending /\ v.sync = u.sync
      /\ v.connection[i] = d
      /\ \A j \in Ids \ {i} : v.connection[j] = u.connection[j]
  BY <1>1, <1>2, MakesWorld
<1>4. Outer(u, v, i)
  BY <1>3, NothingAdded DEF Outer
<1>5. Outer(w, v, i)
  BY <1>4, OuterComposes DEF Over
<1>6. \A of : Waits(v, i, of) = Waits(u, i, of)
  BY <1>3 DEF Waits
<1>7. ErrorKept(v, i)
  <2>1. Active(a) => Active(u.account)
    BY DEF Less, Active
  <2> QED BY <1>3, <1>6, <2>1 DEF Over, ErrorKept, Open
<1>8. CompletionsOK(v, i)
  BY <1>3, <1>6 DEF Over, CompletionsOK
<1> QED BY <1>3, <1>5, <1>7, <1>8 DEF Over

LEMMA OverTurnsConnection ==
  ASSUME NEW w \in Worlds, NEW u, NEW v, NEW i \in Ids, NEW d \in Connection, Over(w, u, i),
         v = Makes(u, i, u.account, d, u.pending, u.sync),
         d.phase = "Settled", d.closed # "none", d.tasks = <<>>,
         d.connect = u.connection[i].connect,
         d.signOut \/ d.timer => w.connection[i].phase # "Settled"
  PROVE  /\ Over(w, v, i) /\ v.account = u.account /\ v.connection[i] = d
         /\ v.pending = u.pending /\ \A of : Waits(v, i, of) = Waits(u, i, of)
<1> DEFINE a == u.account
<1>1. a \in Account /\ Less(u.account, a, i) /\ a.conn = u.account.conn
      /\ a.error = u.account.error /\ v = Makes(u, i, a, d, u.pending, u.sync)
  BY NothingLess, WorldParts DEF Over, Outer
<1> HIDE DEF a
<1>2. /\ Over(w, v, i) /\ v.account = a /\ v.connection[i] = d
      /\ v.pending = u.pending /\ v.sync = u.sync
  BY <1>1, OverTurns
<1> QED BY <1>2 DEF a, Waits

\* Its connect is refused.
LEMMA OverRefused ==
  ASSUME NEW w \in Worlds, NEW u, NEW i \in Ids, Over(w, u, i),
         u.connection[i].connect = "pending"
  PROVE  LET v == CompleteConnect(u, i, FALSE)
         IN /\ Over(w, v, i) /\ v.connection[i].connect # "pending"
            /\ v.connection[i].source = u.connection[i].source
            /\ v.account = u.account \/ (~Active(v.account) /\ v.account.conn # i)
<1> DEFINE c == u.connection[i]
           v == CompleteConnect(u, i, FALSE)
<1>1. u \in Worlds /\ Outer(w, u, i)
  BY DEF Over, Outer
<1>2. Refused(u, v, i, c)
  BY <1>1, ConnectFails
<1>3. c \in Connection /\ u.connection[i] = c
  BY <1>1, WorldParts
<1> HIDE DEF c, v
<1>4. PICK x \in {"returned", "failed"} :
        /\ v.connection[i] = [c EXCEPT !.connect = x]
        /\ x = "returned" => Waits(v, i, "connect") # {}
  BY <1>2 DEF Refused
<1> DEFINE d == [c EXCEPT !.connect = x]
<1>5. /\ d.phase = c.phase /\ d.closed = c.closed /\ d.tasks = c.tasks
      /\ d.source = c.source /\ d.connect = x /\ d.signOut = c.signOut /\ d.timer = c.timer
  BY <1>3 DEF Connection
<1> HIDE DEF d
<1>6. v.connection[i] = d
  BY <1>4 DEF d
<1>7. Outer(u, v, i) /\ Outer(w, v, i)
  BY <1>2, OuterComposes DEF Refused, Over
<1>8. /\ v.account = u.account
         \/ (~Active(v.account) /\ v.account.conn # i /\ v.account.error = u.account.error)
      /\ \A k \in DOMAIN v.pending \ DOMAIN u.pending : v.pending[k].of = "connect"
  BY <1>2 DEF Refused
<1>9. /\ Waits(v, i, "disconnect") = Waits(u, i, "disconnect")
      /\ \A k \in Waits(v, i, "disconnect") : v.pending[k] = u.pending[k]
  BY <1>7, <1>8 DEF Outer, Extends, Waits
<1>10. ErrorKept(v, i)
  <2> SUFFICES ASSUME v.account.error = <<"runtime", i>> PROVE ErrorKept(v, i)!2
    BY DEF ErrorKept
  <2>1. ErrorKept(u, i)!2
    BY <1>8 DEF Over, ErrorKept
  <2>2. ~Active(v.account) /\ v.account.conn \in {0, i}
    BY <1>7, <1>8, <2>1 DEF Outer, Less
  <2> QED BY <1>3, <1>5, <1>6, <1>9, <2>1, <2>2
<1>11. CompletionsOK(v, i)
  BY <1>3, <1>4, <1>5, <1>6, <1>9 DEF Over, CompletionsOK, Live, Open
<1>12. /\ d.phase = "Settled" /\ d.closed # "none" /\ d.tasks = <<>>
       /\ d.signOut \/ d.timer => w.connection[i].phase # "Settled"
  BY <1>3, <1>5 DEF Over
<1> QED BY <1>3, <1>4, <1>5, <1>6, <1>7, <1>8, <1>10, <1>11, <1>12 DEF Over, v

Spared(w, i) ==
  \A k \in Waits(w, i, "disconnect") : w.pending[k].ours => w.pending[k].ok

\* Its account is disconnected.
LEMMA OverDisconnected ==
  ASSUME NEW w \in Worlds, NEW u, NEW i \in Ids, NEW preserve \in BOOLEAN, Over(w, u, i),
         u.account.conn = i, Active(u.account)
  PROVE  LET v == PurpleDisconnect(u, preserve)
         IN /\ Over(w, v, i) /\ ~Active(v.account)
            /\ v.connection[i].result # "none" /\ v.connection[i] \in Connection
            /\ v.connection[i].connect = u.connection[i].connect
            /\ v.connection[i].source = u.connection[i].source
            /\ preserve /\ Waits(u, i, "disconnect") = {} => Spared(v, i)
<1> DEFINE c == u.connection[i]
           v == PurpleDisconnect(u, preserve)
<1>1. u \in Worlds /\ Outer(w, u, i)
  BY DEF Over, Outer
<1>2. Gone(u, v, i, preserve) /\ ~Active(v.account)
  BY <1>1, PurpleDisconnectOfEnded DEF Over
<1>3. c \in Connection /\ u.connection[i] = c
  BY <1>1, WorldParts
<1> HIDE DEF c, v
<1>4. PICK r \in Results : v.connection[i] = [c EXCEPT !.tasks = <<>>, !.result = r]
  BY <1>2, <1>3, Zenon DEF Gone
<1> DEFINE d == [c EXCEPT !.tasks = <<>>, !.result = r]
<1>5. /\ d.phase = c.phase /\ d.closed = c.closed /\ d.tasks = <<>>
      /\ d.source = c.source /\ d.connect = c.connect /\ d.result # "none"
      /\ d.signOut = c.signOut /\ d.timer = c.timer
  BY <1>3 DEF Connection, Results
<1> HIDE DEF d
<1>6. v.connection[i] = d
  BY <1>4 DEF d
<1>7. /\ Outer(u, v, i) /\ Outer(w, v, i) /\ v.account.error = u.account.error
      /\ v \in Worlds
  BY <1>2, OuterComposes DEF Gone, Over, Outer
<1>8. v.account.error # <<"runtime", i>>
  BY <1>7 DEF Over, ErrorKept
<1>9. Waits(v, i, "connect") = Waits(u, i, "connect")
  BY <1>2, <1>7 DEF Gone, Outer, Extends, Waits
<1>10. CompletionsOK(v, i)
  BY <1>3, <1>5, <1>6, <1>9 DEF Over, CompletionsOK, Live, Open
<1>11. preserve /\ Waits(u, i, "disconnect") = {} => Spared(v, i)
  BY <1>2, <1>7 DEF Gone, Outer, Extends, Waits, Spared
<1>12. /\ d.phase = "Settled" /\ d.closed # "none" /\ d.connect # "none"
       /\ d.signOut \/ d.timer => w.connection[i].phase # "Settled"
       /\ d \in Connection
  BY <1>3, <1>5, <1>6, <1>7, WorldParts DEF Over
<1> QED BY <1>2, <1>3, <1>5, <1>6, <1>7, <1>8, <1>10, <1>11, <1>12
        DEF Over, ErrorKept, v

\* Its failure is told.
LEMMA OverFailed ==
  ASSUME NEW w \in Worlds, NEW u, NEW i \in Ids, Over(w, u, i),
         Waits(u, i, "disconnect") = {}
  PROVE  LET v == RuntimeFailed(u, i)
         IN /\ Over(w, v, i) /\ (v.account.conn = i => ~Active(v.account))
            /\ v.connection[i].connect = u.connection[i].connect
            /\ v.connection[i].source = u.connection[i].source
<1> DEFINE v == RuntimeFailed(u, i)
<1>1. CASE u.account.conn # i \/ ~Active(u.account)
  BY <1>1 DEF RuntimeFailed
<1>2. CASE u.account.conn = i /\ Active(u.account)
  <2> DEFINE yes == TRUE
             z == PurpleDisconnect(u, yes)
             error == <<"runtime", i>>
             a == [z.account EXCEPT !.error = error]
  <2>1. v = [z EXCEPT !.account.error = error]
    BY <1>2 DEF RuntimeFailed
  <2>2. yes \in BOOLEAN /\ yes
    OBVIOUS
  <2> HIDE DEF yes, v
  <2>3. /\ Over(w, z, i) /\ ~Active(z.account) /\ z.connection[i] \in Connection
        /\ z.connection[i].connect = u.connection[i].connect
        /\ z.connection[i].source = u.connection[i].source /\ Spared(z, i)
    BY <1>2, <2>2, OverDisconnected, ZenonT(30)
  <2>4. z.account.conn \in {0, i}
    <3>1. u \in Worlds /\ Active(u.account)
      BY <1>2 DEF Over, Outer
    <3>2. Outer(u, z, i)
      BY <1>2, <2>2, <3>1, PurpleDisconnectOfEnded DEF Over, Gone
    <3> QED BY <1>2, <3>2 DEF Outer, Less
  <2> HIDE DEF z
  <2>5. z \in Worlds /\ z.account \in Account
    BY <2>3, WorldParts DEF Over, Outer
  <2>6. /\ error \in {"none", "runtime", "restart", "cleanup"} \X (0 .. MaxConnections)
        /\ \A j \in Ids \ {i} : error # <<"runtime", j>>
    BY DEF Ids
  <2> HIDE DEF error
  <2>7. /\ a \in Account /\ Less(z.account, a, i) /\ a.conn = z.account.conn
        /\ (Active(a) <=> Active(z.account))
    BY <2>5, <2>6 DEF Account, Less, Active
  <2>8. v = [z EXCEPT !.account = a]
    BY <2>1
  <2> HIDE DEF a
  <2>9. /\ v \in Worlds /\ v.account = a /\ v.connection = z.connection
        /\ v.pending = z.pending
    BY <2>5, <2>7, <2>8 DEF Worlds
  <2>10. Outer(z, v, i)
    BY <2>7, <2>9, NothingAdded DEF Outer
  <2>11. Outer(w, v, i)
    BY <2>3, <2>10, OuterComposes DEF Over
  <2>12. \A of : Waits(v, i, of) = Waits(z, i, of)
    BY <2>9 DEF Waits
  <2>13. CompletionsOK(v, i)
    BY <2>3, <2>9, <2>12 DEF Over, CompletionsOK
  <2>14. ErrorKept(v, i)
    BY <2>3, <2>4, <2>7, <2>9, <2>12 DEF Over, ErrorKept, Spared, Open
  <2> QED BY <2>3, <2>7, <2>9, <2>11, <2>13, <2>14 DEF Over, v
<1> QED BY <1>1, <1>2

\* A sign-out is given up.
LEMMA OverAborted ==
  ASSUME NEW w \in Worlds, NEW u, NEW i \in Ids, NEW report \in BOOLEAN, Over(w, u, i)
  PROVE  LET v == AbortReauthorization(u, i, report)
         IN /\ Over(w, v, i) /\ (v.account.conn = i => ~Active(v.account))
            /\ v.connection[i].connect # "pending" /\ ~v.connection[i].source
<1> DEFINE c == u.connection[i]
           a == [u.account EXCEPT !.probe = FALSE]
           d == [c EXCEPT !.source = FALSE]
           y == [u EXCEPT !.account.probe = FALSE, !.connection[i].source = FALSE]
           error == <<"restart", i>>
           z == IF c.connect = "pending" THEN CompleteConnect(y, i, FALSE)
                ELSE IF report THEN [y EXCEPT !.account.error = error] ELSE y
           v == AbortReauthorization(u, i, report)
<1>1. v = IF z.account.conn = i THEN PurpleDisconnect(z, FALSE) ELSE z
  BY DEF AbortReauthorization
<1> HIDE DEF v
<1>2. u \in Worlds /\ u.account \in Account /\ c \in Connection /\ u.connection[i] = c
  BY WorldParts DEF Over, Outer
<1>3. y = [u EXCEPT !.account.probe = FALSE, !.connection[i].source = FALSE]
  OBVIOUS
<1> HIDE DEF y
<1>4. y = Makes(u, i, a, d, u.pending, u.sync)
  BY <1>2, <1>3, Zenon DEF Makes, Worlds
<1>5. /\ a \in Account /\ Less(u.account, a, i) /\ a.conn = u.account.conn
      /\ a.error = u.account.error
  BY <1>2 DEF Account, Less, Active
<1> HIDE DEF c
<1>6. /\ d \in Connection /\ d.phase = c.phase /\ d.closed = c.closed /\ d.tasks = c.tasks
      /\ d.connect = c.connect /\ ~d.source /\ d.signOut = c.signOut /\ d.timer = c.timer
  BY <1>2 DEF Connection
<1> HIDE DEF a, d
<1>7. /\ Over(w, y, i) /\ y.account = a /\ y.connection[i] = d
      /\ y.pending = u.pending /\ y.sync = u.sync
  <2>1. d.phase = "Settled" /\ d.closed # "none" /\ d.tasks = <<>>
        /\ d.connect = u.connection[i].connect
        /\ (d.signOut \/ d.timer => w.connection[i].phase # "Settled")
    BY <1>2, <1>6 DEF Over
  <2> QED BY <1>4, <1>5, <1>6, <2>1, OverTurns
<1>8. Over(w, z, i) /\ z.connection[i].connect # "pending" /\ ~z.connection[i].source
  <2>1. CASE d.connect = "pending"
    <3>1. z = CompleteConnect(y, i, FALSE)
      BY <1>6, <2>1
    <3> HIDE DEF z
    <3>2. /\ Over(w, z, i) /\ z.connection[i].connect # "pending"
          /\ z.connection[i].source = y.connection[i].source
      BY <1>7, <2>1, <3>1, OverRefused
    <3> QED BY <1>6, <1>7, <3>2
  <2>2. CASE d.connect # "pending" /\ ~report
    <3>1. z = y
      BY <1>6, <2>2
    <3> QED BY <1>6, <1>7, <2>2, <3>1
  <2>3. CASE d.connect # "pending" /\ report
    <3> DEFINE b == [a EXCEPT !.error = error]
    <3>1. /\ error \in {"none", "runtime", "restart", "cleanup"} \X (0 .. MaxConnections)
          /\ \A j \in Ids : error # <<"runtime", j>>
      BY DEF Ids
    <3> HIDE DEF error
    <3>2. z = [y EXCEPT !.account.error = error]
      BY <1>6, <2>3
    <3> HIDE DEF z
    <3>3. y \in Worlds /\ y.account = a /\ y.connection[i] = d
      BY <1>7 DEF Over, Outer
    <3>4. z = [y EXCEPT !.account = b]
      BY <3>2, <3>3
    <3>5. z = Makes(y, i, b, d, y.pending, y.sync)
      BY <3>3, <3>4 DEF Makes, Worlds
    <3>6. b \in Account /\ Less(a, b, i) /\ b.conn = a.conn /\ b.error = error
      BY <1>5, <3>1 DEF Account, Less
    <3> HIDE DEF b
    <3>7. /\ d.phase = "Settled" /\ d.closed # "none" /\ d.tasks = <<>>
          /\ d.signOut \/ d.timer => w.connection[i].phase # "Settled"
      BY <3>3, <1>7 DEF Over
    <3>8. Over(w, z, i) /\ z.connection[i] = d
      BY <1>6, <1>7, <3>1, <3>3, <3>5, <3>6, <3>7, OverTurns
    <3> QED BY <1>6, <2>3, <3>8
  <2> QED BY <2>1, <2>2, <2>3
<1> HIDE DEF z
<1>9. CASE z.account.conn # i \/ ~Active(z.account)
  <2>1. v = z
    BY <1>1, <1>9 DEF PurpleDisconnect
  <2> QED BY <1>8, <1>9, <2>1 DEF v
<1>10. CASE z.account.conn = i /\ Active(z.account)
  <2> DEFINE no == FALSE
  <2>1. v = PurpleDisconnect(z, no) /\ no \in BOOLEAN
    BY <1>1, <1>10
  <2> HIDE DEF no
  <2>2. /\ Over(w, v, i) /\ ~Active(v.account)
        /\ v.connection[i].connect = z.connection[i].connect
        /\ v.connection[i].source = z.connection[i].source
    BY <1>8, <1>10, <2>1, OverDisconnected
  <2> QED BY <1>8, <2>2 DEF v
<1> QED BY <1>9, <1>10

\* What is read of an ended session
LEMMA NewTyped == NewConnection \in Connection
<1>1. <<>> \in Seq(Tasks) /\ {} \in SUBSET Lifecycle
  OBVIOUS
<1> QED BY <1>1 DEF NewConnection, Connection

LEMMA EndedTyped ==
  ASSUME NEW c \in Connection
  PROVE  LET d == Ended(c)
         IN /\ d \in Connection /\ d.phase = "Settled" /\ d.closed = c.closed
            /\ d.result = c.result /\ d.connect = c.connect /\ d.tasks = c.tasks
            /\ d.source = c.source /\ ~d.watching /\ ~d.timer /\ ~d.signOut /\ ~d.explicit
            /\ ~d.failed
<1> DEFINE n == NewConnection
           k == [n EXCEPT !.phase = "Settled", !.closed = c.closed]
           e == [k EXCEPT !.result = c.result, !.connect = c.connect]
           f == [e EXCEPT !.tasks = c.tasks]
           g == [f EXCEPT !.deferred = c.deferred, !.recovery = c.recovery]
           d == [g EXCEPT !.wait = c.wait, !.source = c.source, !.login = "over"]
<1>1. c.tasks \in Seq(Tasks)
  BY DEF Connection
<1>2. /\ n \in Connection /\ ~n.watching /\ ~n.timer /\ ~n.signOut /\ ~n.explicit
      /\ ~n.failed
  BY NewTyped DEF NewConnection
<1>3. Ended(c) = d
  <2> HIDE DEF n
  <2> QED BY DEF Ended, n
<1> HIDE DEF n
<1>4. k \in Connection
  <2>1. /\ "Settled" \in {"none", "Connecting", "Ready", "Closing", "Settled", "freed"}
        /\ c.closed \in Results \cup {"none"}
    BY DEF Connection
  <2> QED BY <1>2, <2>1, ZenonT(30) DEF Connection
<1>5. /\ k.phase = "Settled" /\ k.closed = c.closed /\ ~k.watching /\ ~k.timer
      /\ ~k.signOut /\ ~k.explicit /\ ~k.failed
  BY <1>2 DEF Connection
<1> HIDE DEF k
<1>6. e \in Connection
  <2>1. /\ c.result \in Results \cup {"none"}
        /\ c.connect \in {"none", "pending", "returned", "connected", "failed"}
    BY DEF Connection
  <2> QED BY <1>4, <2>1, ZenonT(30) DEF Connection
<1>7. /\ e.phase = "Settled" /\ e.closed = c.closed
      /\ e.result = c.result /\ e.connect = c.connect /\ ~e.watching /\ ~e.timer
      /\ ~e.signOut /\ ~e.explicit /\ ~e.failed
  BY <1>4, <1>5 DEF Connection
<1> HIDE DEF e
<1>8. f \in Connection
  BY <1>1, <1>6, ZenonT(30) DEF Connection
<1>9. /\ f.phase = "Settled" /\ f.closed = c.closed /\ f.tasks = c.tasks
      /\ f.result = c.result /\ f.connect = c.connect /\ ~f.watching /\ ~f.timer
      /\ ~f.signOut /\ ~f.explicit /\ ~f.failed
  BY <1>7, <1>6 DEF Connection
<1> HIDE DEF f
<1>10. g \in Connection
  <2>1. c.deferred \in BOOLEAN /\ c.recovery \in BOOLEAN
    BY DEF Connection
  <2> QED BY <1>8, <2>1, ZenonT(30) DEF Connection
<1>11. /\ g.phase = "Settled" /\ g.closed = c.closed /\ g.tasks = c.tasks
       /\ g.result = c.result /\ g.connect = c.connect /\ ~g.watching /\ ~g.timer
       /\ ~g.signOut /\ ~g.explicit /\ ~g.failed
  BY <1>8, <1>9 DEF Connection
<1> HIDE DEF g
<1>12. d \in Connection
  <2>1. /\ c.wait \in BOOLEAN /\ c.source \in BOOLEAN
        /\ "over" \in {"none", "ready", "failed", "cancelled", "over"}
    BY DEF Connection
  <2> QED BY <1>10, <2>1, ZenonT(30) DEF Connection
<1>13. /\ d.phase = "Settled" /\ d.closed = c.closed
       /\ d.result = c.result /\ d.connect = c.connect /\ d.tasks = c.tasks
       /\ d.source = c.source /\ ~d.watching /\ ~d.timer /\ ~d.signOut /\ ~d.explicit
       /\ ~d.failed
  BY <1>10, <1>11 DEF Connection
<1> QED BY <1>3, <1>12, <1>13

\* The world in which the session has settled, and the one in which it has ended
SettledIn(w, i, result) ==
  [w EXCEPT !.connection[i].phase = "Settled", !.connection[i].closed = result]

EndedIn(w, i) == [w EXCEPT !.connection[i] = Ended(@)]

LEMMA Ends ==
  ASSUME NEW w \in Worlds, NEW v, NEW i \in Ids, Over(w, v, i), i <= w.account.last,
         v.account.state = "connected" => v.account.conn # i,
         v.connection[i].connect = "pending" /\ ~v.connection[i].source
           => v.connection[i].result # "none"
  PROVE  LET u == EndedIn(v, i)
         IN /\ Outer(w, u, i) /\ At(u, i) /\ u.account = v.account
            /\ u.connection[i].phase = "Settled"
            /\ u.connection[i].source = v.connection[i].source
<1> DEFINE c == v.connection[i]
           d == Ended(c)
           u == EndedIn(v, i)
<1>1. /\ v \in Worlds /\ v.account \in Account /\ c \in Connection
  BY WorldParts DEF Over, Outer
<1>2. u = [v EXCEPT !.connection[i] = Ended(@)]
  BY DEF EndedIn
<1>3. v.connection[i] = c
  OBVIOUS
<1> HIDE DEF u
<1>4. u = Makes(v, i, v.account, d, v.pending, v.sync)
  BY <1>1, <1>2, Zenon DEF Makes, Worlds
<1> HIDE DEF c
<1>5. /\ d \in Connection /\ d.phase = "Settled" /\ d.closed = c.closed
      /\ d.result = c.result /\ d.connect = c.connect /\ d.tasks = c.tasks
      /\ d.source = c.source /\ ~d.watching /\ ~d.timer /\ ~d.signOut /\ ~d.explicit
      /\ ~d.failed
  BY <1>1, EndedTyped
<1> HIDE DEF d
<1>6. /\ Outer(v, u, i) /\ u.account = v.account /\ u.pending = v.pending
      /\ u.connection[i] = d
  BY <1>1, <1>4, <1>5, MakesLocal
<1>7. Outer(w, u, i)
  BY <1>6, OuterComposes DEF Over
<1>8. Local(d)
  BY <1>3, <1>5 DEF Over, Local, ConnectOK, CancellationOK, SignOutOK, Live, Open
<1>9. \A of : Waits(u, i, of) = Waits(v, i, of)
  BY <1>6 DEF Waits
<1>10. ErrorKept(u, i) /\ CompletionsOK(u, i)
  BY <1>3, <1>5, <1>6, <1>9 DEF Over, ErrorKept, CompletionsOK, Live, Open
<1>11. MadeOK(u, i)
  <2>1. w.account.last \in Int /\ u.account.last = w.account.last
    BY <1>7 DEF Worlds, Account, Outer, Less
  <2> QED BY <1>5, <1>6, <2>1 DEF MadeOK, Ids
<1>12. Served(u, i)
  BY <1>6 DEF Served
<1> QED BY <1>3, <1>5, <1>6, <1>7, <1>8, <1>10, <1>11, <1>12 DEF At, u

LEMMA EndKeeps ==
  ASSUME NEW w, NEW v, NEW i \in Ids, Inv(w), w.connection[i].phase \in Live,
         Over(w, v, i), ~v.connection[i].source,
         v.account.state = "connected" => v.account.conn # i,
         v.connection[i].connect = "pending" => v.connection[i].result # "none"
  PROVE  Inv(EndedIn(v, i))
<1> DEFINE u == EndedIn(v, i)
<1>1. w \in Worlds /\ i <= w.account.last /\ Global(w)
  BY MadeBefore DEF Inv
<1>2. /\ Outer(w, u, i) /\ At(u, i) /\ u.account = v.account
      /\ u.connection[i].phase = "Settled"
      /\ u.connection[i].source = v.connection[i].source
  BY <1>1, Ends
<1> HIDE DEF u
<1>3. Kept(w, u, i)
  <2>1. ASSUME Active(u.account), ~w.account.byHand, w.account.recoveries # 0
        PROVE  u.account.conn = i
    <3>1. Active(w.account) /\ u.account.conn = w.account.conn
      BY <1>2, <2>1 DEF Outer, Less, Active
    <3> QED BY <1>1, <2>1, <3>1 DEF Global, OneRestart
  <2> QED BY <1>2, <2>1 DEF Kept, Live, Open
<1> QED BY <1>2, <1>3, StepKeeps DEF u

\* The session has settled, and nothing is done about it yet.
LEMMA Settles ==
  ASSUME NEW w, NEW i \in Ids, NEW result \in Results, Inv(w),
         w.connection[i].phase = "Closing"
  PROVE  LET u == SettledIn(w, i, result)
             c == w.connection[i]
             d == u.connection[i]
         IN /\ Outer(w, u, i) /\ u \in Worlds
            /\ u.account = w.account /\ u.pending = w.pending /\ u.sync = w.sync
            /\ d \in Connection /\ d.phase = "Settled" /\ d.closed = result
            /\ d.tasks = c.tasks /\ d.connect = c.connect /\ d.result = c.result
            /\ d.chosen = c.chosen /\ d.failed = c.failed /\ ~d.source
            /\ Waits(u, i, "disconnect") = {}
            /\ c.tasks = <<>> => Over(w, u, i)
<1> DEFINE c == w.connection[i]
           d == [c EXCEPT !.phase = "Settled", !.closed = result]
           u == SettledIn(w, i, result)
<1>1. w \in Worlds /\ c \in Connection /\ At(w, i)
  BY WorldParts DEF Inv
<1>2. u = [w EXCEPT !.connection[i].phase = "Settled", !.connection[i].closed = result]
  BY DEF SettledIn
<1>3. w.connection[i] = c /\ c.phase = "Closing"
  OBVIOUS
<1> HIDE DEF u
<1>4. u = Makes(w, i, w.account, d, w.pending, w.sync)
  BY <1>1, <1>2, Zenon DEF Makes, Worlds
<1> HIDE DEF c
<1>5. /\ d \in Connection /\ d.phase = "Settled" /\ d.closed = result
      /\ d.tasks = c.tasks /\ d.connect = c.connect /\ d.result = c.result
      /\ d.chosen = c.chosen /\ d.failed = c.failed /\ d.source = c.source
  BY <1>1 DEF Connection
<1> HIDE DEF d
<1>6. /\ Outer(w, u, i) /\ u \in Worlds
      /\ u.account = w.account /\ u.pending = w.pending /\ u.sync = w.sync
      /\ u.connection[i] = d
  BY <1>1, <1>4, <1>5, MakesLocal
<1>7. \A of : Waits(u, i, of) = Waits(w, i, of)
  BY <1>6 DEF Waits
<1>8. ~c.source /\ c.connect # "none" /\ c.result = "none"
  BY <1>1, <1>3 DEF At, Local, ConnectOK, SignOutOK, Live
<1>9. Waits(w, i, "disconnect") = {}
  BY <1>1, <1>3 DEF At, CompletionsOK, Live
<1>10. result # "none"
  BY DEF Results
<1>11. ErrorKept(u, i) /\ CompletionsOK(u, i)
  BY <1>1, <1>3, <1>5, <1>6, <1>7, <1>9 DEF At, ErrorKept, CompletionsOK, Open
<1>12. c.tasks = <<>> => Over(w, u, i)
  BY <1>5, <1>6, <1>8, <1>10, <1>11 DEF Over
<1> QED BY <1>3, <1>5, <1>6, <1>7, <1>8, <1>9, <1>12 DEF u

\* The session ends, and nothing else.
LEMMA QuietEnd ==
  ASSUME NEW w, NEW i \in Ids, NEW result \in Results, Inv(w),
         w.connection[i].phase = "Closing", ~w.connection[i].signOut,
         ~w.connection[i].explicit
  PROVE  Inv(BackendClosed(w, i, result))
<1> DEFINE c == w.connection[i]
           u == SettledIn(w, i, result)
<1>1. At(w, i) /\ c.tasks = <<>> /\ c.connect # "pending" /\ c.phase \in Live
  BY DEF Inv, At, Local, ConnectOK, SignOutOK, Live
<1>2. /\ Over(w, u, i) /\ u.account = w.account /\ ~u.connection[i].source
      /\ u.connection[i].connect = c.connect
  BY <1>1, Settles
<1>3. BackendClosed(w, i, result) = EndedIn(u, i)
  BY DEF BackendClosed, SettledIn, EndedIn
<1>4. u.account.state = "connected" => u.account.conn # i
  BY <1>1, <1>2 DEF At, Served
<1> HIDE DEF u
<1> QED BY <1>1, <1>2, <1>3, <1>4, EndKeeps

\* The tasks that wait for the end are answered.
LEMMA AwaitedEnd ==
  ASSUME NEW w, NEW i \in Ids, NEW result \in Results, Inv(w),
         w.connection[i].phase = "Closing", w.connection[i].explicit
  PROVE  Inv(BackendClosed(w, i, result))
<1> DEFINE c == w.connection[i]
           u == SettledIn(w, i, result)
           d == u.connection[i]
           v == CompleteDisconnects(u, i, result)
<1>1. w \in Worlds /\ At(w, i) /\ ~c.signOut /\ c.phase \in Live /\ c.connect # "none"
  BY DEF Inv, At, Local, ConnectOK, SignOutOK, Live
<1>2. /\ Outer(w, u, i) /\ u \in Worlds /\ u.account = w.account /\ u.pending = w.pending
      /\ d \in Connection /\ d.phase = "Settled" /\ d.closed = result
      /\ d.tasks = c.tasks /\ d.connect = c.connect /\ ~d.source
      /\ Waits(u, i, "disconnect") = {}
  BY <1>1, Settles
<1>3. BackendClosed(w, i, result) = EndedIn(v, i)
  BY <1>1, Zenon DEF BackendClosed, SettledIn, EndedIn
<1>4. /\ w.connection[i] = c /\ u.connection[i] = d
      /\ v = CompleteDisconnects(u, i, result)
  OBVIOUS
<1> HIDE DEF u, v, c, d
<1>5. /\ Answered(u, v, i)
      /\ v.connection[i] = [d EXCEPT !.tasks = <<>>, !.result = result]
  <2>1. /\ Answered(u, v, i) /\ v.connection[i] = Emptied(u.connection[i], result)
    BY <1>2, <1>4, TasksAnswered
  <2> QED BY <1>4, <2>1 DEF Emptied
<1> DEFINE e == [d EXCEPT !.tasks = <<>>, !.result = result]
<1>6. /\ e.phase = "Settled" /\ e.closed # "none" /\ e.tasks = <<>> /\ e.connect = c.connect
      /\ ~e.source /\ e.result # "none"
  BY <1>2 DEF Connection, Results
<1>7. v.connection[i] = e
  BY <1>5
<1> HIDE DEF e, v
<1>8. Outer(w, v, i) /\ Outer(u, v, i)
  BY <1>1, <1>2, <1>5, OuterComposes DEF Answered
<1>9. Waits(v, i, "connect") = Waits(w, i, "connect")
  BY <1>2, <1>5 DEF Answered, Outer, Extends, Waits
<1>10. ErrorKept(v, i)
  <2> SUFFICES ASSUME v.account.error = <<"runtime", i>> PROVE ErrorKept(v, i)!2
    BY DEF ErrorKept
  <2>1. w.account.error = <<"runtime", i>>
    BY <1>2, <1>5 DEF Answered
  <2>2. ErrorKept(w, i)!2
    BY <1>1, <2>1 DEF At, ErrorKept
  <2>3. ~Active(v.account) /\ v.account.conn \in {0, i}
    BY <1>8, <2>2 DEF Outer, Less, Active
  <2>4. \A k \in Waits(v, i, "disconnect") : v.pending[k].ours => v.pending[k].ok
    <3> SUFFICES ASSUME NEW k \in Waits(v, i, "disconnect") 
                 PROVE  v.pending[k].ours => v.pending[k].ok
      OBVIOUS
    <3>1. k \notin DOMAIN u.pending
      BY <1>2, <1>8 DEF Outer, Extends, Waits
    <3>2. k \in DOMAIN v.pending \ DOMAIN u.pending
      BY <3>1 DEF Waits
    <3>3. \A l \in DOMAIN d.tasks : d.tasks[l].ours => d.tasks[l].preserve
      BY <1>2, <1>4, <2>2
    <3> QED BY <1>4, <1>5, <3>2, <3>3 DEF Answered
  <2> QED BY <1>6, <1>7, <2>3, <2>4 DEF Open
<1>11. CompletionsOK(v, i)
  BY <1>1, <1>4, <1>6, <1>7, <1>9 DEF At, CompletionsOK, Live, Open
<1>12. Over(w, v, i)
  BY <1>1, <1>6, <1>7, <1>8, <1>10, <1>11 DEF Over
<1>13. v.account.state = "connected" => v.account.conn # i
  <2>1. w.account.conn = i => w.account.state # "connected"
    BY <1>1, <1>4 DEF At, Served, Live
  <2> QED BY <1>2, <1>5, <2>1 DEF Answered, Ids
<1> QED BY <1>1, <1>3, <1>4, <1>6, <1>7, <1>12, <1>13, EndKeeps

\* A sign-out ends in a failure: the account is told, and left alone.
TellsEnd(w, v, i) ==
  /\ Over(w, v, i) /\ ~v.connection[i].source /\ v.connection[i].connect # "pending"
  /\ v.account.state = "connected" => v.account.conn # i

LEMMA UncleanSignOut ==
  ASSUME NEW w, NEW i \in Ids, NEW result \in Results, Inv(w),
         w.connection[i].phase = "Closing", w.connection[i].signOut
  PROVE  LET u == SettledIn(w, i, result)
         IN /\ w.connection[i].chosen => TellsEnd(w, NotifyRuntimeFailure(u, i), i)
            /\ ~w.connection[i].chosen => TellsEnd(w, NotifyConnectFailure(u, i), i)
<1> DEFINE c == w.connection[i]
           u == SettledIn(w, i, result)
           d == u.connection[i]
           e == [d EXCEPT !.failed = TRUE]
           f == [d EXCEPT !.chosen = TRUE]
           x == [u EXCEPT !.connection[i].failed = TRUE]
           y == [u EXCEPT !.connection[i].chosen = TRUE]
<1>1. /\ w \in Worlds /\ At(w, i) /\ c.phase \in Live /\ c.tasks = <<>> /\ ~c.failed
      /\ (c.chosen <=> c.connect # "pending")
  BY DEF Inv, At, Local, ConnectOK, SignOutOK, Live
<1>2. /\ u \in Worlds /\ u.account = w.account
      /\ d \in Connection /\ d.tasks = c.tasks /\ d.connect = c.connect
      /\ d.chosen = c.chosen /\ d.failed = c.failed /\ ~d.source
      /\ Waits(u, i, "disconnect") = {} /\ Over(w, u, i)
  BY <1>1, Settles
<1>3. /\ x = [u EXCEPT !.connection[i].failed = TRUE]
      /\ y = [u EXCEPT !.connection[i].chosen = TRUE]
  OBVIOUS
<1>4. w.connection[i] = c /\ u.connection[i] = d
  OBVIOUS
<1>5. /\ ~c.failed => NotifyRuntimeFailure(u, i) = RuntimeFailed(x, i)
      /\ ~c.chosen => NotifyConnectFailure(u, i) = CompleteConnect(y, i, FALSE)
  BY <1>2 DEF NotifyRuntimeFailure, NotifyConnectFailure
<1> HIDE DEF u, x, y
<1>6. /\ x = Makes(u, i, u.account, e, u.pending, u.sync)
      /\ y = Makes(u, i, u.account, f, u.pending, u.sync)
  BY <1>2, <1>3, <1>4, Zenon DEF Makes, Worlds
<1> HIDE DEF c, d
<1>7. d.phase = "Settled" /\ d.closed # "none" /\ d.tasks = <<>>
  BY <1>2, <1>4 DEF Over
<1>8. /\ e \in Connection /\ e.phase = "Settled" /\ e.closed # "none" /\ e.tasks = <<>>
      /\ e.connect = d.connect /\ ~e.source
  BY <1>2, <1>7 DEF Connection
<1>9. /\ f \in Connection /\ f.phase = "Settled" /\ f.closed # "none" /\ f.tasks = <<>>
      /\ f.connect = d.connect /\ ~f.source
  BY <1>2, <1>7 DEF Connection
<1> HIDE DEF e, f
<1>10. ASSUME c.chosen PROVE TellsEnd(w, NotifyRuntimeFailure(u, i), i)
  <2>1. Over(w, x, i) /\ x.connection[i] = e /\ Waits(x, i, "disconnect") = {}
    BY <1>1, <1>2, <1>4, <1>6, <1>8, OverTurnsConnection
  <2> DEFINE v == RuntimeFailed(x, i)
  <2>2. /\ Over(w, v, i) /\ (v.account.conn = i => ~Active(v.account))
        /\ v.connection[i].connect = x.connection[i].connect
        /\ v.connection[i].source = x.connection[i].source
    BY <1>1, <2>1, OverFailed
  <2>3. v = NotifyRuntimeFailure(u, i)
    BY <1>1, <1>5
  <2> HIDE DEF v
  <2>4. v.connection[i].connect # "pending" /\ ~v.connection[i].source
    BY <1>1, <1>2, <1>4, <1>8, <1>10, <2>1, <2>2
  <2>5. TellsEnd(w, v, i)
    BY <2>2, <2>4 DEF TellsEnd, Active
  <2> QED BY <2>3, <2>5
<1>11. ASSUME ~c.chosen PROVE TellsEnd(w, NotifyConnectFailure(u, i), i)
  <2>1. Over(w, y, i) /\ y.connection[i] = f /\ y.account = u.account
    BY <1>1, <1>2, <1>4, <1>6, <1>9, OverTurnsConnection
  <2>2. y.connection[i].connect = "pending"
    BY <1>1, <1>2, <1>4, <1>9, <1>11, <2>1
  <2> DEFINE v == CompleteConnect(y, i, FALSE)
  <2>3. /\ Over(w, v, i) /\ v.connection[i].connect # "pending"
        /\ v.connection[i].source = y.connection[i].source
        /\ v.account = y.account \/ (~Active(v.account) /\ v.account.conn # i)
    BY <1>1, <2>1, <2>2, OverRefused
  <2>4. v = NotifyConnectFailure(u, i)
    BY <1>5, <1>11
  <2> HIDE DEF v
  <2>5. w.account.conn = i => w.account.state # "connected"
    BY <1>1, <1>4, <1>11 DEF At, Served
  <2> QED BY <1>2, <1>9, <2>1, <2>3, <2>4, <2>5 DEF TellsEnd
<1> QED BY <1>4, <1>10, <1>11 DEF u

LEMMA SignOutNotRecovered ==
  ASSUME NEW w, NEW i \in Ids, NEW result \in Results, Inv(w),
         w.connection[i].phase = "Closing", w.connection[i].signOut,
         ~MayRecover(SettledIn(w, i, result), i) \/ w.account.probe
  PROVE  TellsEnd(w, ReauthorizationRequired(SettledIn(w, i, result), i), i)
<1> DEFINE c == w.connection[i]
           u == SettledIn(w, i, result)
           d == u.connection[i]
           no == FALSE
           a == [u.account EXCEPT !.probe = no]
           y == [u EXCEPT !.account.probe = no]
           v == ReauthorizationRequired(u, i)
<1>1. /\ w \in Worlds /\ At(w, i) /\ c.tasks = <<>>
  BY DEF Inv, At, Local, SignOutOK
<1>2. /\ u \in Worlds /\ u.account = w.account
      /\ d \in Connection /\ d.connect = c.connect
      /\ Waits(u, i, "disconnect") = {} /\ Over(w, u, i)
      /\ ~d.source
  BY <1>1, Settles
<1>3. y = [u EXCEPT !.account.probe = no] /\ no \in BOOLEAN /\ ~no
  OBVIOUS
<1>4. w.connection[i] = c /\ u.connection[i] = d
  OBVIOUS
<1>5. /\ ~MayRecover(u, i) => v = AbortReauthorization(u, i, no)
      /\ MayRecover(u, i) /\ d.connect = "pending" => v = CompleteConnect(y, i, FALSE)
      /\ MayRecover(u, i) /\ d.connect # "pending" => v = RuntimeFailed(y, i)
  BY <1>2 DEF ReauthorizationRequired
<1> HIDE DEF u, y, v, d
<1>6. y = Makes(u, i, a, d, u.pending, u.sync)
  BY <1>2, <1>3, <1>4, Zenon DEF Makes, Worlds
<1>7. u.account \in Account
  BY <1>2, WorldParts
<1>8. /\ a \in Account /\ Less(u.account, a, i) /\ a.conn = u.account.conn
      /\ a.error = u.account.error /\ a.state = u.account.state
  BY <1>3, <1>7 DEF Account, Less, Active
<1> HIDE DEF a, no
<1>9. d.phase = "Settled" /\ d.closed # "none" /\ d.tasks = <<>>
  BY <1>2, <1>4 DEF Over
<1>10. /\ Over(w, y, i) /\ y.account = a /\ y.connection[i] = d /\ y.pending = u.pending
  BY <1>1, <1>2, <1>4, <1>6, <1>8, <1>9, OverTurns
<1>11. CASE ~MayRecover(u, i)
  <2>1. /\ Over(w, v, i) /\ (v.account.conn = i => ~Active(v.account))
        /\ v.connection[i].connect # "pending" /\ ~v.connection[i].source
    BY <1>1, <1>2, <1>3, <1>5, <1>11, OverAborted
  <2> QED BY <2>1 DEF TellsEnd, Active, u, v
<1>12. CASE MayRecover(u, i) /\ d.connect = "pending"
  <2> DEFINE z == CompleteConnect(y, i, FALSE)
  <2>1. y.connection[i].connect = "pending" /\ v = z
    BY <1>5, <1>10, <1>12
  <2>2. /\ Over(w, z, i) /\ z.connection[i].connect # "pending"
        /\ z.connection[i].source = y.connection[i].source
        /\ z.account = y.account \/ (~Active(z.account) /\ z.account.conn # i)
    BY <1>1, <1>10, <2>1, OverRefused
  <2> HIDE DEF z
  <2>3. /\ Over(w, v, i) /\ v.connection[i].connect # "pending"
        /\ v.connection[i].source = y.connection[i].source
        /\ v.account = y.account \/ (~Active(v.account) /\ v.account.conn # i)
    BY <2>1, <2>2
  <2>4. y.account.conn = i => y.account.state # "connected"
    BY <1>1, <1>2, <1>4, <1>8, <1>10, <1>12 DEF At, Served
  <2>5. ~v.connection[i].source
    BY <1>2, <1>10, <2>3
  <2> QED BY <2>3, <2>4, <2>5 DEF TellsEnd, u, v
<1>13. CASE MayRecover(u, i) /\ d.connect # "pending"
  <2>1. Waits(y, i, "disconnect") = {}
    BY <1>2, <1>10 DEF Waits
  <2>2. v = RuntimeFailed(y, i)
    BY <1>5, <1>13
  <2>3. /\ Over(w, v, i) /\ (v.account.conn = i => ~Active(v.account))
        /\ v.connection[i].connect = y.connection[i].connect
        /\ v.connection[i].source = y.connection[i].source
    BY <1>1, <1>10, <2>1, <2>2, OverFailed
  <2>4. ~v.connection[i].source /\ v.connection[i].connect # "pending"
    BY <1>2, <1>10, <1>13, <2>3
  <2> QED BY <2>3, <2>4 DEF TellsEnd, Active, u, v
<1> QED BY <1>11, <1>12, <1>13

\* After a sign-out the account is disconnected, to be connected again.
LEMMA SignOutRecovered ==
  ASSUME NEW w, NEW i \in Ids, NEW result \in Results, Inv(w),
         w.connection[i].phase = "Closing", w.connection[i].signOut,
         MayRecover(SettledIn(w, i, result), i), ~w.account.probe
  PROVE  Inv(EndedIn(Recovering(SettledIn(w, i, result), i), i))
<1> DEFINE c == w.connection[i]
           u == SettledIn(w, i, result)
           d == u.connection[i]
           yes == TRUE
           no == FALSE
           count == w.account.recoveries + 1
           a == [w.account EXCEPT !.probe = yes, !.recoveries = count]
           e == [d EXCEPT !.recovery = TRUE, !.wait = FALSE, !.source = TRUE]
           x == [w EXCEPT !.account = a]
           s == [u EXCEPT !.account.probe = yes, !.account.recoveries = @ + 1,
                          !.connection[i].recovery = TRUE, !.connection[i].wait = FALSE,
                          !.connection[i].source = TRUE]
           z == PurpleDisconnect(s, no)
           v == EndedIn(z, i)
<1>1. /\ w \in Worlds /\ At(w, i) /\ c.tasks = <<>> /\ c.phase \in Live
      /\ i <= w.account.last /\ Global(w) /\ w.account \in Account
  BY MadeBefore, WorldParts DEF Inv, At, Local, SignOutOK, Live
<1>2. /\ u \in Worlds /\ u.account = w.account /\ u.pending = w.pending /\ u.sync = w.sync
      /\ d \in Connection /\ d.connect = c.connect
      /\ Waits(u, i, "disconnect") = {} /\ Over(w, u, i)
  BY <1>1, Settles
<1>3. Active(w.account) /\ w.account.conn = i /\ c.phase = "Closing"
  BY <1>2 DEF MayRecover
<1>4. w.connection[i] = c /\ u.connection[i] = d
  OBVIOUS
<1>5. Recovering(u, i) = z
  BY <1>2 DEF Recovering
<1>6. s = [u EXCEPT !.account.probe = yes, !.account.recoveries = @ + 1,
                    !.connection[i].recovery = TRUE, !.connection[i].wait = FALSE,
                    !.connection[i].source = TRUE]
  OBVIOUS
<1>7. yes \in BOOLEAN /\ yes /\ no \in BOOLEAN /\ count \in Nat
      /\ count = w.account.recoveries + 1
  BY <1>1 DEF Account
<1> HIDE DEF u, s, c, d, yes, no
<1>8. s = Makes(u, i, a, e, u.pending, u.sync)
  BY <1>2, <1>4, <1>6, Zenon DEF Makes, Worlds
<1> HIDE DEF count
<1>9. /\ a \in Account /\ a.state = w.account.state /\ a.conn = i
      /\ a.last = w.account.last /\ a.probe /\ a.recoveries = count
      /\ a.error = w.account.error /\ (a.byHand <=> w.account.byHand)
      /\ (Active(a) <=> Active(w.account))
  BY <1>1, <1>3, <1>7 DEF Account, Active
<1> HIDE DEF a
<1>10. x \in Worlds /\ x.account = a /\ x.connection = w.connection /\ x.pending = w.pending
  BY <1>1, <1>9 DEF Worlds
<1> HIDE DEF x
<1>11. d.phase = "Settled" /\ d.closed # "none" /\ d.tasks = <<>> /\ d.connect # "none"
  BY <1>2, <1>4 DEF Over
<1>12. /\ e \in Connection /\ e.phase = "Settled" /\ e.closed # "none" /\ e.tasks = <<>>
       /\ e.connect = d.connect /\ e.connect # "none" /\ e.source
  BY <1>2, <1>11 DEF Connection
<1> HIDE DEF e
<1>13. /\ s \in Worlds /\ s.account = a /\ s.pending = w.pending /\ s.connection[i] = e
       /\ \A j \in Ids \ {i} : s.connection[j] = w.connection[j]
  <2>1. /\ u.pending \in Seq(Completions) /\ u.sync \in BOOLEAN
        /\ \A j \in Ids \ {i} : u.connection[j] = w.connection[j]
    BY <1>2, WorldParts DEF Over, Outer
  <2>2. /\ s \in Worlds /\ s.account = a /\ s.pending = u.pending /\ s.connection[i] = e
        /\ \A j \in Ids \ {i} : s.connection[j] = u.connection[j]
    BY <1>2, <1>8, <1>9, <1>12, <2>1, MakesWorld
  <2> QED BY <1>2, <2>1, <2>2
<1>14. Outer(x, s, i)
  <2>1. Less(a, a, i) /\ Extends(w.pending, w.pending, i)
    BY <1>9, NothingLess, NothingAdded
  <2> QED BY <1>10, <1>13, <2>1 DEF Outer
<1>15. \A j \in Ids : At(x, j)
  <2> SUFFICES ASSUME NEW j \in Ids PROVE At(x, j)
    OBVIOUS
  <2>1. At(w, j)
    BY DEF Inv
  <2>2. \A of : Waits(x, j, of) = Waits(w, j, of)
    BY <1>10 DEF Waits
  <2> QED BY <1>3, <1>9, <1>10, <2>1, <2>2
           DEF At, Served, ErrorKept, CompletionsOK, MadeOK, Active
<1>16. Over(x, s, i)
  <2>1. \A of : Waits(s, i, of) = Waits(w, i, of)
    BY <1>13 DEF Waits
  <2>2. w.account.error # <<"runtime", i>>
    BY <1>1, <1>3 DEF At, ErrorKept
  <2>3. ErrorKept(s, i)
    BY <1>9, <1>13, <2>2 DEF ErrorKept
  <2>4. CompletionsOK(s, i)
    BY <1>1, <1>2, <1>4, <1>12, <1>13, <2>1 DEF At, CompletionsOK, Live, Open
  <2>5. x.connection[i].phase # "Settled"
    BY <1>3, <1>4, <1>10
  <2> QED BY <1>12, <1>13, <1>14, <2>3, <2>4, <2>5 DEF Over
<1>17. /\ Over(x, z, i) /\ ~Active(z.account)
       /\ z.connection[i].connect = s.connection[i].connect
       /\ z.connection[i].source = s.connection[i].source
  BY <1>3, <1>7, <1>9, <1>10, <1>13, <1>16, OverDisconnected
<1> HIDE DEF z
<1>18. /\ Outer(x, v, i) /\ At(v, i) /\ v.account = z.account
       /\ v.connection[i].phase = "Settled"
  <2>1. i <= x.account.last
    BY <1>1, <1>9, <1>10
  <2>2. z.account.state # "connected" /\ z.connection[i].source
    BY <1>12, <1>13, <1>17 DEF Active
  <2> QED BY <1>10, <1>17, <2>1, <2>2, Ends
<1> HIDE DEF v
<1>19. \A j \in Ids : At(v, j)
  <2> SUFFICES ASSUME NEW j \in Ids, j # i PROVE At(v, j)
    BY <1>18
  <2> QED BY <1>10, <1>15, <1>18, OthersKept
<1>20. /\ \A j \in Ids \ {i} : v.connection[j] = w.connection[j]
       /\ ~Active(v.account) /\ v.account.last = w.account.last
       /\ v.account.recoveries = count /\ (v.account.byHand <=> w.account.byHand)
       /\ v.account.conn \in {0, i} /\ v \in Worlds
  BY <1>9, <1>10, <1>17, <1>18 DEF Outer, Less
<1>21. \A j \in Ids : v.connection[j].phase \notin Live
  BY <1>1, <1>4, <1>18, <1>20 DEF Global, OneSession, Live, Open
<1>22. OneRestart(v)
  <2> SUFFICES ASSUME ~w.account.byHand PROVE OneRestart(v)
    BY <1>20 DEF OneRestart
  <2>1. w.account.recoveries = 0
    <3>1. i # 0
      BY DEF Ids
    <3> QED BY <1>1, <1>3, <1>4, <3>1 DEF Global, OneRestart
  <2>2. \A j \in Ids : ~w.connection[j].source
    BY <1>1, <1>3 DEF Global, OneRestart
  <2> QED BY <1>7, <1>20, <1>21, <2>1, <2>2 DEF OneRestart
<1>23. AccountOK(v) /\ OneSession(v) /\ RestartsCounted(v)
  <2>1. count <= i
    BY <1>1, <1>4, <1>7 DEF Global, RestartsCounted, Ids, Account
  <2>2. count <= v.account.last
    BY <1>1, <1>7, <1>20, <2>1 DEF Ids, Account
  <2>3. v.account.conn \in {0, v.account.last}
    BY <1>1, <1>3, <1>20 DEF Global, AccountOK, Ids
  <2> QED BY <1>20, <1>21, <2>2, <2>3
           DEF AccountOK, OneSession, RestartsCounted, Active
<1> QED BY <1>5, <1>19, <1>20, <1>22, <1>23 DEF Inv, Global, v, u

LEMMA BackendClosedKeeps ==
  ASSUME NEW w, NEW i \in Ids, NEW result \in Results, Inv(w),
         w.connection[i].phase = "Closing"
  PROVE  Inv(BackendClosed(w, i, result))
<1> DEFINE c == w.connection[i]
           u == SettledIn(w, i, result)
           v == BackendClosed(w, i, result)
<1>1. CASE ~c.signOut /\ ~c.explicit
  BY <1>1, QuietEnd
<1>2. CASE c.explicit
  BY <1>2, AwaitedEnd
<1>3. CASE c.signOut
  <2>1. ~c.explicit /\ c.phase \in Live
    BY <1>3 DEF Inv, At, Local, SignOutOK, Live
  <2>2. v = EndedIn(CASE result = "Closed" -> ReauthorizationRequired(u, i)
                      [] result # "Closed" /\ c.chosen -> NotifyRuntimeFailure(u, i)
                      [] OTHER -> NotifyConnectFailure(u, i), i)
    BY <1>3, <2>1 DEF BackendClosed, SettledIn, EndedIn
  <2> HIDE DEF v
  <2>3. ASSUME NEW y, TellsEnd(w, y, i), v = EndedIn(y, i) PROVE Inv(v)
    BY <2>1, <2>3, EndKeeps DEF TellsEnd
  <2>4. CASE result # "Closed"
    <3>1. /\ c.chosen => TellsEnd(w, NotifyRuntimeFailure(u, i), i)
          /\ ~c.chosen => TellsEnd(w, NotifyConnectFailure(u, i), i)
      BY <1>3, UncleanSignOut
    <3>2. \/ c.chosen /\ v = EndedIn(NotifyRuntimeFailure(u, i), i)
          \/ ~c.chosen /\ v = EndedIn(NotifyConnectFailure(u, i), i)
      BY <2>2, <2>4
    <3> QED BY <2>3, <3>1, <3>2 DEF v
  <2>5. CASE result = "Closed"
    <3>1. v = EndedIn(ReauthorizationRequired(u, i), i)
      BY <2>2, <2>5
    <3>2. CASE ~MayRecover(u, i) \/ w.account.probe
      <4>1. TellsEnd(w, ReauthorizationRequired(u, i), i)
        BY <1>3, <3>2, SignOutNotRecovered
      <4> QED BY <2>3, <3>1, <4>1 DEF v
    <3>3. CASE MayRecover(u, i) /\ ~w.account.probe
      <4>1. u.account = w.account
        BY Settles
      <4>2. ReauthorizationRequired(u, i) = Recovering(u, i)
        BY <3>3, <4>1 DEF ReauthorizationRequired
      <4>3. Inv(EndedIn(Recovering(u, i), i))
        BY <1>3, <3>3, SignOutRecovered
      <4> QED BY <3>1, <4>2, <4>3 DEF v
    <3> QED BY <3>2, <3>3
  <2> QED BY <2>4, <2>5
<1> QED BY <1>1, <1>2, <1>3

LEMMA BackendClosesKeeps ==
  ASSUME IInv, NEW i \in Ids, BackendCloses(i)
  PROVE  IInv'
<1>1. PICK sync \in BOOLEAN, result \in Results : Step(BackendClosed(World(sync), i, result))
  BY DEF BackendCloses
<1> DEFINE w == World(sync)
<1>2. Inv(w) /\ w.connection = connections
  BY WorldNow
<1>3. Step(BackendClosed(w, i, result)) /\ w.connection[i].phase = "Closing"
  BY <1>1, <1>2 DEF BackendCloses
<1> HIDE DEF w
<1>4. Inv(BackendClosed(w, i, result))
  BY <1>2, <1>3, BackendClosedKeeps
<1> QED BY <1>3, <1>4, StepMade

-----------------------------------------------------------------------------
(* The restart *)

\* A restart that waits, of a session that is over
LEMMA RestartWaits ==
  ASSUME NEW w, NEW i \in Ids, Inv(w), w.connection[i].source
  PROVE  LET c == w.connection[i]
         IN /\ w \in Worlds /\ i <= w.account.last /\ Over(w, w, i) /\ c \in Connection
            /\ c.phase = "Settled" /\ ~c.signOut /\ ~c.timer
            /\ c.tasks = <<>> /\ c.connect # "none" /\ c.closed # "none"
<1> DEFINE c == w.connection[i]
<1>1. /\ w \in Worlds /\ At(w, i) /\ c \in Connection /\ i <= w.account.last
  BY MadeBefore, WorldParts DEF Inv
<1>2. /\ c.phase = "Settled" /\ ~c.signOut /\ ~c.timer
      /\ c.tasks = <<>> /\ c.connect # "none" /\ c.closed # "none"
  BY <1>1 DEF At, Local, SignOutOK, Live, Open
<1>3. Outer(w, w, i)
  <2>1. w.account \in Account
    BY <1>1, WorldParts
  <2>2. Less(w.account, w.account, i) /\ Extends(w.pending, w.pending, i)
    BY <2>1, NothingLess, NothingAdded
  <2> QED BY <1>1, <2>2 DEF Outer
<1> QED BY <1>1, <1>2, <1>3 DEF Over, At

LEMMA AfterRestart ==
  ASSUME NEW w, NEW v, NEW i \in Ids, Inv(w), w.connection[i].source, Over(w, v, i),
         v.connection[i].source \/ v.connection[i].connect # "pending",
         v.account.state = "connected" => v.account.conn # i
  PROVE  Inv(v)
<1> DEFINE d == v.connection[i]
<1>1. /\ w \in Worlds /\ w.connection[i].phase = "Settled" /\ i <= w.account.last /\ Global(w)
  BY RestartWaits DEF Inv
<1>2. /\ Outer(w, v, i) /\ d.phase = "Settled" /\ d.closed # "none" /\ d.tasks = <<>>
      /\ d.connect # "none" /\ ~d.signOut /\ ~d.timer
  BY <1>1 DEF Over
<1>3. Local(d)
  BY <1>2 DEF Local, ConnectOK, CancellationOK, SignOutOK, Live, Open
<1>4. MadeOK(v, i)
  <2>1. w.account.last \in Int /\ v.account.last = w.account.last
    BY <1>1, <1>2 DEF Worlds, Account, Outer, Less
  <2> QED BY <1>1, <1>2, <2>1 DEF MadeOK, Ids
<1>5. At(v, i)
  BY <1>3, <1>4 DEF At, Served, Over
<1>6. Kept(w, v, i)
  <2>1. ~w.account.byHand => ~Active(v.account)
    BY <1>1, <1>2 DEF Global, OneRestart, Outer, Less, Active
  <2> QED BY <1>2, <2>1 DEF Kept, Live, Open
<1> QED BY <1>2, <1>5, <1>6, StepKeeps

LEMMA AbortKeeps ==
  ASSUME NEW w, NEW i \in Ids, NEW report \in BOOLEAN, Inv(w), w.connection[i].source
  PROVE  Inv(AbortReauthorization(w, i, report))
<1> DEFINE v == AbortReauthorization(w, i, report)
<1>1. w \in Worlds /\ Over(w, w, i)
  BY RestartWaits
<1>2. /\ Over(w, v, i) /\ (v.account.conn = i => ~Active(v.account))
      /\ v.connection[i].connect # "pending"
  BY <1>1, OverAborted
<1> HIDE DEF v
<1> QED BY <1>2, AfterRestart DEF Active, v

\* The connect is answered, and the answer waited for.
WaitSet(w, i, wait) == [w EXCEPT !.connection[i].wait = wait]

LEMMA WaitKeeps ==
  ASSUME NEW w, NEW u, NEW i \in Ids, NEW wait \in BOOLEAN, Inv(w), w.connection[i].source,
         Over(w, u, i), u.connection[i].source,
         u.account.state = "connected" => u.account.conn # i
  PROVE  Inv(WaitSet(u, i, wait))
<1> DEFINE c == u.connection[i]
           d == [c EXCEPT !.wait = wait]
           v == WaitSet(u, i, wait)
<1>1. /\ w \in Worlds /\ u \in Worlds /\ c \in Connection /\ c.phase = "Settled"
      /\ c.closed # "none" /\ c.tasks = <<>>
      /\ (c.signOut \/ c.timer => w.connection[i].phase # "Settled")
  BY RestartWaits, WorldParts DEF Over, Outer
<1>2. v = [u EXCEPT !.connection[i].wait = wait]
  BY DEF WaitSet
<1>3. u.connection[i] = c
  OBVIOUS
<1> HIDE DEF v
<1>4. v = Makes(u, i, u.account, d, u.pending, u.sync)
  BY <1>1, <1>2, Zenon DEF Makes, Worlds
<1> HIDE DEF c
<1>5. /\ d \in Connection /\ d.phase = "Settled" /\ d.closed # "none" /\ d.tasks = <<>>
      /\ d.connect = c.connect /\ d.signOut = c.signOut /\ d.timer = c.timer
      /\ d.source = c.source
  BY <1>1 DEF Connection
<1> HIDE DEF d
<1>6. Over(w, v, i) /\ v.connection[i] = d /\ v.account = u.account
  BY <1>1, <1>3, <1>4, <1>5, OverTurnsConnection
<1>7. Inv(v)
  BY <1>3, <1>5, <1>6, AfterRestart
<1> QED BY <1>7 DEF v

LEMMA AnswerKeeps ==
  ASSUME NEW w, NEW i \in Ids, Inv(w), w.connection[i].source,
         w.connection[i].connect = "pending", w.account.state = "disconnected"
  PROVE  Inv(AnswerAndWait(w, i))
<1> DEFINE yes == TRUE
           v == CompleteConnect(w, i, FALSE)
<1>1. w \in Worlds /\ Over(w, w, i)
  BY RestartWaits
<1>2. /\ Over(w, v, i) /\ v.connection[i].source = w.connection[i].source
      /\ v.account = w.account \/ (~Active(v.account) /\ v.account.conn # i)
  BY <1>1, OverRefused
<1>3. AnswerAndWait(w, i) = WaitSet(v, i, yes) /\ yes \in BOOLEAN
  BY DEF AnswerAndWait, WaitSet
<1> HIDE DEF v, yes
<1>4. Inv(WaitSet(v, i, yes))
  BY <1>2, <1>3, WaitKeeps
<1> QED BY <1>3, <1>4

\* The account connects: there is no session yet.
LEMMA AccountTries ==
  ASSUME NEW w, NEW v, NEW i \in Ids, NEW a \in Account, NEW d \in Connection, Inv(w),
         v = Makes(w, i, a, d, w.pending, w.sync),
         w.account.state = "disconnected", a.state = "connecting", a.error = NoError,
         a.conn = w.account.conn, a.last = w.account.last,
         a.recoveries \in {0, w.account.recoveries},
         d = w.connection[i]
         \/ (/\ w.connection[i].source /\ w.connection[i].connect # "pending" /\ ~d.source
             /\ d.phase = "Settled" /\ d.connect = w.connection[i].connect /\ Local(d)),
         OneRestart(v)
  PROVE  Inv(v)
<1>1. w \in Worlds /\ Global(w) /\ At(w, i)
  BY DEF Inv
<1>2. /\ w.pending \in Seq(Completions) /\ w.sync \in BOOLEAN /\ w.account \in Account
  BY <1>1, WorldParts
<1>3. /\ v \in Worlds /\ v.account = a /\ v.pending = w.pending /\ v.connection[i] = d
      /\ \A j \in Ids \ {i} : v.connection[j] = w.connection[j]
  BY <1>1, <1>2, MakesWorld
<1>4. /\ \A j \in Ids : /\ v.connection[j].phase = w.connection[j].phase
                        /\ v.connection[j].connect = w.connection[j].connect
                        /\ Local(v.connection[j])
                        /\ j > a.last => v.connection[j] = w.connection[j]
  <2> SUFFICES ASSUME NEW j \in Ids
               PROVE  /\ v.connection[j].phase = w.connection[j].phase
                      /\ v.connection[j].connect = w.connection[j].connect
                      /\ Local(v.connection[j])
                      /\ j > a.last => v.connection[j] = w.connection[j]
    OBVIOUS
  <2>1. Local(w.connection[j])
    BY DEF Inv, At
  <2>2. CASE v.connection[j] = w.connection[j]
    BY <2>1, <2>2
  <2>3. CASE v.connection[j] # w.connection[j]
    <3>1. j = i /\ w.connection[i].source
      BY <1>3, <2>3
    <3>2. w.connection[i].phase = "Settled" /\ i <= w.account.last
      BY <3>1, RestartWaits
    <3>3. a.last \in Int
      BY DEF Account
    <3> QED BY <1>3, <2>3, <3>1, <3>2, <3>3 DEF Ids
  <2> QED BY <2>2, <2>3
<1>5. ASSUME NEW j \in Ids PROVE At(v, j)
  <2>1. At(w, j)
    BY DEF Inv
  <2>2. \A of : Waits(v, j, of) = Waits(w, j, of)
    BY <1>3 DEF Waits
  <2>3. Served(v, j) /\ ErrorKept(v, j)
    BY <1>3 DEF Served, ErrorKept, NoError
  <2>4. CompletionsOK(v, j) /\ MadeOK(v, j)
    BY <1>3, <1>4, <2>1, <2>2 DEF At, CompletionsOK, MadeOK
  <2> QED BY <1>4, <2>3, <2>4 DEF At
<1>6. AccountOK(v) /\ OneSession(v) /\ RestartsCounted(v)
  <2>1. w.account.last \in Nat
    BY <1>2 DEF Account
  <2> QED BY <1>1, <1>3, <1>4, <2>1
          DEF Global, AccountOK, OneSession, RestartsCounted, Ids
<1> QED BY <1>3, <1>5, <1>6 DEF Inv, Global

LEMMA RestartConnects ==
  ASSUME NEW w, NEW i \in Ids, Inv(w), w.connection[i].source,
         w.connection[i].connect # "pending", w.account.probe,
         w.account.state = "disconnected"
  PROVE  Inv(Connecting([w EXCEPT !.connection[i].source = FALSE]))
<1> DEFINE c == w.connection[i]
           d == [c EXCEPT !.source = FALSE]
           a == [w.account EXCEPT !.state = "connecting", !.error = NoError]
           v == Connecting([w EXCEPT !.connection[i].source = FALSE])
<1>1. /\ w \in Worlds /\ c \in Connection /\ Global(w) /\ w.account \in Account
      /\ c.phase = "Settled" /\ ~c.signOut /\ ~c.timer
      /\ c.tasks = <<>> /\ c.connect # "none" /\ c.closed # "none"
  BY RestartWaits, WorldParts DEF Inv
<1>2. v = [w EXCEPT !.account.state = "connecting", !.account.error = NoError,
                    !.connection[i].source = FALSE]
  BY <1>1 DEF Connecting
<1>3. w.connection[i] = c
  OBVIOUS
<1> HIDE DEF v
<1>4. v = Makes(w, i, a, d, w.pending, w.sync)
  BY <1>1, <1>2, Zenon DEF Makes, Worlds
<1> HIDE DEF c
<1>5. /\ d \in Connection /\ d.phase = "Settled" /\ ~d.signOut /\ ~d.timer /\ ~d.source
      /\ d.tasks = <<>> /\ d.connect = c.connect /\ d.closed # "none"
  BY <1>1 DEF Connection
<1>6. NoError \in {"none", "runtime", "restart", "cleanup"} \X (0 .. MaxConnections)
  BY ConnectionsAssumption DEF NoError
<1>7. /\ a \in Account /\ a.state = "connecting" /\ a.error = NoError
      /\ a.conn = w.account.conn /\ a.last = w.account.last /\ a.probe
      /\ a.recoveries = w.account.recoveries /\ (a.byHand <=> w.account.byHand)
  BY <1>1, <1>6 DEF Account
<1> HIDE DEF a, d
<1>8. Local(d)
  BY <1>1, <1>3, <1>5 DEF Local, ConnectOK, CancellationOK, SignOutOK, Live, Open
<1>9. OneRestart(v)
  <2> SUFFICES ASSUME ~w.account.byHand PROVE OneRestart(v)
    <3>1. v.account = a
      BY <1>4 DEF Makes
    <3> QED BY <1>7, <3>1 DEF OneRestart
  <2>1. /\ v.account = a /\ v.connection[i] = d
        /\ \A j \in Ids \ {i} : v.connection[j] = w.connection[j]
    BY <1>1, <1>4 DEF Makes, Worlds
  <2>2. /\ w.account.recoveries <= 1
        /\ \A j \in Ids : w.connection[j].phase \notin Live
        /\ \A j \in Ids \ {i} : ~w.connection[j].source
    BY <1>1 DEF Global, OneRestart
  <2>3. \A j \in Ids : v.connection[j].phase \notin Live /\ ~v.connection[j].source
    BY <1>5, <2>1, <2>2 DEF Live, Open
  <2> QED BY <1>7, <2>1, <2>2, <2>3 DEF OneRestart
<1>10. Inv(v)
  <2>1. /\ w.connection[i].source /\ w.connection[i].connect # "pending" /\ ~d.source
        /\ d.phase = "Settled" /\ d.connect = w.connection[i].connect
    BY <1>3, <1>5
  <2>2. a.recoveries \in {0, w.account.recoveries}
    BY <1>7
  <2> QED BY <1>4, <1>5, <1>7, <1>8, <1>9, <2>1, <2>2, AccountTries
<1> QED BY <1>10 DEF v

LEMMA RecoverKeeps ==
  ASSUME NEW w, NEW i \in Ids, NEW late \in BOOLEAN, Inv(w), w.connection[i].source
  PROVE  Inv(Recover(w, i, late))
<1> DEFINE yes == TRUE
           no == FALSE
           c == w.connection[i]
           ready == w.account.state = "disconnected" /\ w.account.conn = 0
<1>1. /\ w \in Worlds /\ Over(w, w, i) /\ w.account \in Account
  BY RestartWaits, WorldParts
<1>2. \/ Recover(w, i, late) = AbortReauthorization(w, i, no)
      \/ Recover(w, i, late) = AbortReauthorization(w, i, yes)
      \/ Recover(w, i, late) = w
      \/ Recover(w, i, late) = AnswerAndWait(w, i) /\ ready /\ c.connect = "pending"
      \/ Recover(w, i, late) = WaitSet(w, i, no) /\ ready
      \/ /\ Recover(w, i, late) = Connecting([w EXCEPT !.connection[i].source = FALSE])
         /\ ready /\ c.connect # "pending" /\ w.account.probe
  BY <1>1 DEF Recover, WaitSet, Account
<1>3. yes \in BOOLEAN /\ no \in BOOLEAN
  OBVIOUS
<1> HIDE DEF yes, no
<1>4. Inv(AbortReauthorization(w, i, no)) /\ Inv(AbortReauthorization(w, i, yes))
  BY <1>3, AbortKeeps
<1>5. ready => Inv(WaitSet(w, i, no))
  BY <1>1, <1>3, WaitKeeps
<1>6. ready /\ c.connect = "pending" => Inv(AnswerAndWait(w, i))
  BY AnswerKeeps
<1>7. ready /\ c.connect # "pending" /\ w.account.probe
      => Inv(Connecting([w EXCEPT !.connection[i].source = FALSE]))
  BY RestartConnects
<1> HIDE DEF ready
<1> QED BY <1>2, <1>4, <1>5, <1>6, <1>7

LEMMA RecoveryTimerKeeps ==
  ASSUME IInv, NEW i \in Ids, NEW late \in BOOLEAN, RecoveryTimer(i, late)
  PROVE  IInv'
<1>1. PICK sync \in BOOLEAN : Step(Recover(World(sync), i, late))
  BY DEF RecoveryTimer
<1> DEFINE w == World(sync)
<1>2. Inv(w) /\ w.connection = connections
  BY WorldNow
<1>3. Step(Recover(w, i, late)) /\ w.connection[i].source
  BY <1>1, <1>2 DEF RecoveryTimer
<1> HIDE DEF w
<1>4. Inv(Recover(w, i, late))
  BY <1>2, <1>3, RecoverKeeps
<1> QED BY <1>3, <1>4, StepMade

-----------------------------------------------------------------------------
(* Steps of the account *)

LEMMA AccountConnectsKeeps ==
  ASSUME IInv, AccountConnects
  PROVE  IInv'
<1> DEFINE w == World(FALSE)
           byHand == account.byHand \/ \E i \in Ids : connections[i].source
           a == [w.account EXCEPT !.recoveries = 0, !.byHand = byHand,
                                  !.state = "connecting", !.error = NoError]
           i == 1
           c == w.connection[i]
           u == [w EXCEPT !.account.recoveries = 0,
                          !.account.byHand = @ \/ \E j \in Ids : connections[j].source]
           v == Connecting(u)
<1>1. /\ Inv(w) /\ w \in Worlds /\ w.account = account /\ w.connection = connections
  BY WorldNow
<1>2. Step(v) /\ w.account.state = "disconnected"
  BY <1>1 DEF AccountConnects
<1>3. i \in Ids
  BY ConnectionsAssumption DEF Ids
<1>4. v = [w EXCEPT !.account.recoveries = 0, !.account.byHand = byHand,
                    !.account.state = "connecting", !.account.error = NoError]
  BY <1>1 DEF Connecting
<1>5. /\ byHand \in BOOLEAN
      /\ ~byHand => ~w.account.byHand /\ \A j \in Ids : ~w.connection[j].source
  BY <1>1
<1> HIDE DEF w, v, byHand, i
<1>6. w.account \in Account /\ c \in Connection
  BY <1>1, <1>3, WorldParts
<1>7. w.connection[i] = c
  OBVIOUS
<1> HIDE DEF c
<1>8. v = Makes(w, i, a, c, w.pending, w.sync)
  BY <1>1, <1>4, <1>7, Zenon DEF Makes, Worlds
<1>9. NoError \in {"none", "runtime", "restart", "cleanup"} \X (0 .. MaxConnections)
  BY ConnectionsAssumption DEF NoError
<1>10. /\ a \in Account /\ a.state = "connecting" /\ a.error = NoError
       /\ a.conn = w.account.conn /\ a.last = w.account.last
       /\ a.recoveries = 0 /\ (a.byHand <=> byHand)
  BY <1>5, <1>6, <1>9 DEF Account
<1> HIDE DEF a
<1>11. OneRestart(v)
  <2>1. v.account = a /\ \A j \in Ids : v.connection[j] = w.connection[j]
    BY <1>1, <1>7, <1>8 DEF Makes, Worlds
  <2> QED BY <1>5, <1>10, <2>1 DEF OneRestart
<1>12. Inv(v)
  BY <1>1, <1>2, <1>3, <1>6, <1>7, <1>8, <1>10, <1>11, AccountTries
<1> QED BY <1>2, <1>12, StepMade

LEMMA UserDisconnectsKeeps ==
  ASSUME IInv, UserDisconnects
  PROVE  IInv'
<1>1. PICK sync \in BOOLEAN : Step(PurpleDisconnect(World(sync), FALSE))
  BY DEF UserDisconnects
<1> DEFINE w == World(sync)
           i == w.account.conn
           no == FALSE
<1>2. /\ Inv(w) /\ w \in Worlds /\ w.account = account
  BY WorldNow
<1>3. /\ Step(PurpleDisconnect(w, no)) /\ Active(w.account)
      /\ w.account.conn # 0 /\ no \in BOOLEAN
  BY <1>1, <1>2 DEF UserDisconnects
<1> HIDE DEF w, no
<1>4. i \in Ids
  BY <1>2, <1>3 DEF Worlds, Account, Ids
<1>5. Inv(PurpleDisconnect(w, no))
  BY <1>2, <1>3, <1>4, AccountDisconnects
<1> QED BY <1>3, <1>5, StepMade

\* Whether the account is enabled matters to no part of the invariant.
LEMMA EnabledIsFree ==
  ASSUME NEW w, NEW e \in BOOLEAN, Inv(w)
  PROVE  Inv([w EXCEPT !.account.enabled = e])
<1> DEFINE v == [w EXCEPT !.account.enabled = e]
           a == [w.account EXCEPT !.enabled = e]
<1>1. w \in Worlds /\ w.account \in Account
  BY DEF Inv, Worlds
<1>2. /\ v.account = a /\ v.connection = w.connection /\ v.pending = w.pending
      /\ v.sync = w.sync /\ v = [w EXCEPT !.account = a]
  BY <1>1 DEF Worlds
<1> HIDE DEF v
<1>3. /\ a \in Account /\ a.state = w.account.state /\ a.conn = w.account.conn
      /\ a.last = w.account.last /\ a.probe = w.account.probe /\ a.error = w.account.error
      /\ a.recoveries = w.account.recoveries /\ a.byHand = w.account.byHand
  BY <1>1 DEF Account
<1> HIDE DEF a
<1>4. v \in Worlds
  BY <1>1, <1>2, <1>3 DEF Worlds
<1>5. Global(v)
  BY <1>2, <1>3 DEF Inv, Global, AccountOK, OneSession, OneRestart, RestartsCounted, Active
<1>6. \A i \in Ids : At(v, i)
  BY <1>2, <1>3 DEF Inv, At, Served, ErrorKept, CompletionsOK, MadeOK, Waits, Active
<1> QED BY <1>4, <1>5, <1>6 DEF Inv, v

LEMMA UserDisablesKeeps ==
  ASSUME IInv, UserDisables
  PROVE  IInv'
<1>1. PICK sync \in BOOLEAN :
        LET w == [World(sync) EXCEPT !.account.enabled = FALSE]
        IN Step(IF account.conn = 0 THEN w ELSE PurpleDisconnect(w, FALSE))
  BY DEF UserDisables
<1> DEFINE u == World(sync)
           no == FALSE
           w == [u EXCEPT !.account.enabled = no]
           v == PurpleDisconnect(w, no)
           i == w.account.conn
<1>2. Inv(u) /\ u \in Worlds /\ u.account = account /\ no \in BOOLEAN
  BY WorldNow
<1>3. Step(IF account.conn = 0 THEN w ELSE v)
  BY <1>1
<1>4. w.account.conn = account.conn
  BY <1>2 DEF Worlds, Account
<1> HIDE DEF u, no
<1>5. Inv(w) /\ w \in Worlds
  BY <1>2, EnabledIsFree DEF Inv
<1> HIDE DEF w
<1>6. CASE account.conn = 0 \/ ~Active(w.account)
  <2>1. Step(w)
    BY <1>3, <1>6 DEF PurpleDisconnect
  <2> QED BY <1>5, <2>1, StepMade
<1>7. CASE account.conn # 0 /\ Active(w.account)
  <2>1. i \in Ids
    BY <1>4, <1>5, <1>7 DEF Worlds, Account, Ids
  <2>2. Inv(v)
    BY <1>2, <1>5, <1>7, <2>1, AccountDisconnects
  <2> HIDE DEF v
  <2>3. Step(v)
    BY <1>3, <1>7
  <2> QED BY <2>2, <2>3, StepMade
<1> QED BY <1>6, <1>7

LEMMA UserEnablesKeeps ==
  ASSUME IInv, UserEnables
  PROVE  IInv'
<1> DEFINE w == World(FALSE)
           yes == TRUE
           v == [w EXCEPT !.account.enabled = yes]
<1>1. Inv(w) /\ yes \in BOOLEAN
  BY WorldNow
<1>2. Step(v)
  BY DEF UserEnables
<1> HIDE DEF w, yes
<1>3. Inv(v)
  BY <1>1, EnabledIsFree
<1> HIDE DEF v
<1> QED BY <1>2, <1>3, StepMade

LEMMA OthersJoin ==
  ASSUME IInv, NEW i \in Ids, OthersDisconnect(i)
  PROVE  IInv'
<1>1. PICK sync \in BOOLEAN : Step(DisconnectAsync(World(sync), i, FALSE, FALSE))
  BY DEF OthersDisconnect
<1> DEFINE w == World(sync)
<1>2. Inv(w) /\ w.account = account
  BY WorldNow
<1>3. /\ Step(DisconnectAsync(w, i, FALSE, FALSE)) /\ w.account.conn = i
      /\ w.account.state = "disconnecting"
  BY <1>1, <1>2 DEF OthersDisconnect
<1> HIDE DEF w
<1>4. Inv(DisconnectAsync(w, i, FALSE, FALSE))
  BY <1>2, <1>3, OthersDisconnectKeeps
<1> QED BY <1>3, <1>4, StepMade

\* A connection is made, with a session or without one.
LEMMA ConnectionMade ==
  ASSUME NEW w, NEW v, NEW i \in Ids, NEW a \in Account, NEW d \in Connection,
         NEW q \in Seq(Completions), Inv(w), i = w.account.last + 1,
         w.account.state = "connecting", w.account.conn = 0,
         v = Makes(w, i, a, d, q, w.sync),
         a.state = "connecting", a.conn = i, a.last = i, a.probe = w.account.probe,
         a.error = w.account.error, a.recoveries = w.account.recoveries,
         a.byHand <=> w.account.byHand,
         Extends(w.pending, q, i), Local(d), CompletionsOK(v, i), ~d.source,
         \/ d.phase = "none"
         \/ d.phase = "Connecting" /\ \A j \in Ids \ {i} : w.connection[j].phase \notin Live
  PROVE  Inv(v)
<1>1. /\ w \in Worlds /\ Global(w) /\ w.account \in Account /\ w.sync \in BOOLEAN
  BY WorldParts DEF Inv
<1>2. /\ v \in Worlds /\ v.account = a /\ v.pending = q /\ v.connection[i] = d
      /\ \A j \in Ids \ {i} : v.connection[j] = w.connection[j]
  BY <1>1, MakesWorld
<1>3. Active(w.account) /\ Active(a)
  BY DEF Active
<1>4. w.account.last \in Nat /\ i \in Nat
  <2>1. w.account.last \in Nat
    BY <1>1, SMTT(20) DEF Account
  <2> QED BY <2>1 DEF Ids
<1>5. ASSUME NEW j \in Ids PROVE ErrorKept(v, j) /\ Served(v, j)
  <2>1. ErrorKept(w, j)
    BY DEF Inv, At
  <2> QED BY <1>2, <1>3, <2>1 DEF ErrorKept, Served
<1>6. At(v, i)
  BY <1>2, <1>4, <1>5 DEF At, MadeOK
<1>7. ASSUME NEW j \in Ids, j # i PROVE At(v, j)
  <2>1. At(w, j)
    BY DEF Inv
  <2>2. \A of : Waits(v, j, of) = Waits(w, j, of)
    BY <1>2, <1>7 DEF Waits, Extends
  <2>3. CompletionsOK(v, j) /\ Local(v.connection[j])
    BY <1>2, <1>7, <2>1, <2>2 DEF At, CompletionsOK
  <2>4. MadeOK(v, j)
    <3>1. j > v.account.last => j > w.account.last
      BY <1>2, <1>4 DEF Ids
    <3> QED BY <1>2, <1>7, <2>1, <3>1 DEF At, MadeOK, Extends
  <2> QED BY <1>5, <2>3, <2>4 DEF At
<1>8. OneSession(v)
  BY <1>1, <1>2 DEF Global, OneSession, Live, Open
<1>9. OneRestart(v)
  <2> SUFFICES ASSUME ~w.account.byHand PROVE OneRestart(v)
    BY <1>2 DEF OneRestart
  <2>1. w.account.recoveries <= 1 /\ \A j \in Ids : ~w.connection[j].source
    BY <1>1, <1>3 DEF Global, OneRestart
  <2>2. w.account.recoveries # 0
          => w.account.probe /\ \A j \in Ids : w.connection[j].phase \notin Live
    BY <1>1, <1>3 DEF Global, OneRestart, Ids
  <2>3. \A j \in Ids : ~v.connection[j].source
    BY <1>2, <2>1
  <2>4. w.account.recoveries # 0 => \A j \in Ids : v.connection[j].phase \in Live => j = i
    BY <1>2, <2>2
  <2> QED BY <1>2, <2>1, <2>2, <2>3, <2>4, SMTT(20) DEF OneRestart
<1>10. RestartsCounted(v)
  <2>1. w.account.recoveries <= w.account.last /\ w.account.recoveries \in Nat
    BY <1>1 DEF Global, RestartsCounted, Account
  <2>2. \A j \in Ids : v.connection[j].phase \in Live => w.account.recoveries < j
    BY <1>1, <1>2, <1>4, <2>1 DEF Global, RestartsCounted
  <2> QED BY <1>2, <1>4, <2>1, <2>2 DEF RestartsCounted
<1>11. AccountOK(v)
  BY <1>2 DEF AccountOK
<1> QED BY <1>2, <1>6, <1>7, <1>8, <1>9, <1>10, <1>11 DEF Inv, Global

LEMMA ConnectAsyncKeeps ==
  ASSUME IInv, ConnectAsync
  PROVE  IInv'
<1> DEFINE w == World(FALSE)
           i == account.last + 1
           a == [w.account EXCEPT !.conn = i, !.last = i]
           u == [w EXCEPT !.account.conn = i, !.account.last = i,
                          !.connection[i].connect = "pending"]
           n == NewConnection
           refused == [n EXCEPT !.connect = "returned"]
           begun == [n EXCEPT !.connect = "pending", !.phase = "Connecting", !.watching = TRUE]
           done == [of |-> "connect", conn |-> i, ours |-> TRUE, ok |-> FALSE]
           q == Append(w.pending, done)
           r == CompleteConnect(u, i, FALSE)
           b == [u EXCEPT !.connection[i].phase = "Connecting",
                          !.connection[i].watching = TRUE]
<1>1. /\ Inv(w) /\ w \in Worlds /\ w.account = account /\ w.connection = connections
      /\ ~w.sync /\ w.sync \in BOOLEAN
  BY WorldNow
<1>2. /\ w.account.state = "connecting" /\ w.account.conn = 0 /\ account.last < MaxConnections
      /\ Step(r) \/ (StorageFree(i) /\ Step(b))
  BY <1>1 DEF ConnectAsync
<1> HIDE DEF w
<1>3. w.account \in Account /\ w.pending \in Seq(Completions) /\ w.sync \in BOOLEAN
  BY <1>1 DEF Worlds
<1>4. i \in Ids /\ i = w.account.last + 1 /\ i \in 0 .. MaxConnections /\ i > w.account.last
  <2>1. account.last \in Nat /\ MaxConnections \in Nat
    BY <1>1, <1>3, ConnectionsAssumption DEF Account
  <2> QED BY <1>1, <1>2, <2>1 DEF Ids
<1>5. /\ w.connection[i] = n
      /\ \A k \in DOMAIN w.pending : w.pending[k].conn # i
  <2>1. MadeOK(w, i)
    BY <1>1, <1>4 DEF Inv, At
  <2> QED BY <1>4, <2>1 DEF MadeOK
<1>6. /\ n \in Connection /\ n.connect = "none" /\ n.phase = "none" /\ n.tasks = <<>>
      /\ n.result = "none" /\ ~n.source /\ ~n.deferred /\ ~n.chosen /\ ~n.timer
      /\ ~n.signOut /\ ~n.explicit /\ ~n.failed /\ n.closed = "none" /\ ~n.watching
  BY NewTyped DEF NewConnection
<1>7. u = [w EXCEPT !.account = a, !.connection[i].connect = "pending"]
  BY <1>1, <1>4 DEF Worlds
<1>8. /\ r = [u EXCEPT !.connection[i].connect = "returned", !.pending = q]
      /\ b = [u EXCEPT !.connection[i].phase = "Connecting", !.connection[i].watching = TRUE]
  <2>1. u.connection[i].connect = "pending" /\ ~u.sync /\ u.pending = w.pending
    BY <1>1, <1>4, <1>5, <1>6, <1>7 DEF Worlds, Connection
  <2> HIDE DEF u, w
  <2> QED BY <2>1 DEF CompleteConnect
<1> HIDE DEF u, r, b, i
<1>9. /\ a \in Account /\ a.state = "connecting" /\ a.conn = i /\ a.last = i
      /\ a.probe = w.account.probe /\ a.error = w.account.error
      /\ a.recoveries = w.account.recoveries /\ (a.byHand <=> w.account.byHand)
  BY <1>2, <1>3, <1>4 DEF Account
<1> HIDE DEF a, n, q
<1>10. /\ r = Makes(w, i, a, refused, q, w.sync)
       /\ b = Makes(w, i, a, begun, w.pending, w.sync)
  BY <1>1, <1>5, <1>7, <1>8, Zenon DEF Makes, Worlds
<1>11. CASE Step(r)
  <2>1. done \in Completions /\ done.conn = i /\ done.of = "connect"
    BY <1>4 DEF Completions
  <2> HIDE DEF done
  <2>2. /\ Extends(w.pending, q, i) /\ q \in Seq(Completions)
        /\ DOMAIN q = DOMAIN w.pending \cup {Len(w.pending) + 1}
        /\ q[Len(w.pending) + 1] = done /\ \A k \in DOMAIN w.pending : q[k] = w.pending[k]
    BY <1>3, <2>1, OneAdded DEF q, Extends
  <2>3. /\ refused \in Connection /\ refused.connect = "returned" /\ refused.phase = "none"
        /\ refused.tasks = <<>> /\ ~refused.source /\ ~refused.timer /\ ~refused.signOut
        /\ refused.closed = "none"
    BY <1>6 DEF Connection
  <2> HIDE DEF refused
  <2>4. Local(refused)
    BY <2>3 DEF Local, ConnectOK, CancellationOK, SignOutOK, Live, Open
  <2>5. r.pending = q /\ r.connection[i] = refused
    BY <1>1, <1>3, <1>4, <1>9, <1>10, <2>2, <2>3, MakesWorld
  <2>6. CompletionsOK(r, i)
    BY <1>5, <2>1, <2>2, <2>3, <2>5 DEF CompletionsOK, Waits, Live, Open
  <2>7. Inv(r)
    BY <1>1, <1>2, <1>4, <1>9, <1>10, <2>2, <2>3, <2>4, <2>6, ConnectionMade
  <2> QED BY <1>11, <2>7, StepMade
<1>12. CASE StorageFree(i) /\ Step(b)
  <2>1. /\ begun \in Connection /\ begun.connect = "pending" /\ begun.phase = "Connecting"
        /\ begun.tasks = <<>> /\ begun.result = "none" /\ ~begun.source /\ ~begun.deferred
        /\ ~begun.chosen /\ ~begun.timer /\ ~begun.signOut /\ ~begun.explicit
        /\ ~begun.failed /\ begun.closed = "none"
    BY <1>6 DEF Connection
  <2> HIDE DEF begun
  <2>2. Local(begun)
    BY <2>1 DEF Local, ConnectOK, CancellationOK, SignOutOK, Live, Open
  <2>3. b.pending = w.pending /\ b.connection[i] = begun
    BY <1>1, <1>3, <1>4, <1>9, <1>10, <2>1, MakesWorld
  <2>4. CompletionsOK(b, i)
    BY <1>5, <2>1, <2>3 DEF CompletionsOK, Waits
  <2>5. \A j \in Ids \ {i} : w.connection[j].phase \notin Live
    BY <1>1, <1>12 DEF StorageFree, Live
  <2>6. Extends(w.pending, w.pending, i)
    BY NothingAdded
  <2>7. Inv(b)
    BY <1>1, <1>2, <1>3, <1>4, <1>9, <1>10, <2>1, <2>2, <2>4, <2>5, <2>6, ConnectionMade
  <2> QED BY <1>12, <2>7, StepMade
<1> QED BY <1>2, <1>11, <1>12

\* The oldest completion is seen: it waits no longer.
LEMMA OldestSeen ==
  ASSUME NEW p \in Seq(Completions), p # <<>>
  PROVE  /\ 1 \in DOMAIN p /\ Head(p) = p[1] /\ p[1] \in Completions
         /\ Tail(p) \in Seq(Completions)
         /\ \A k \in DOMAIN Tail(p) : k + 1 \in DOMAIN p /\ Tail(p)[k] = p[k + 1]
         /\ \A k \in DOMAIN p : k # 1 => k - 1 \in DOMAIN Tail(p) /\ Tail(p)[k - 1] = p[k]
  OBVIOUS

LEMMA CompletionSeen ==
  ASSUME NEW w, NEW v, NEW i \in Ids, NEW a \in Account, NEW d \in Connection, Inv(w),
         w.pending # <<>>, Head(w.pending).conn = i,
         v = Makes(w, i, a, d, Tail(w.pending), w.sync), Less(w.account, a, i),
         a.error = <<"runtime", i>> => w.account.error = <<"runtime", i>>,
         (a.probe <=> w.account.probe) \/ ~Active(a),
         \/ Head(w.pending).of = "disconnect" /\ d = w.connection[i]
         \/ Head(w.pending).of = "connect" /\ d = [w.connection[i] EXCEPT !.connect = "failed"]
  PROVE  Inv(v)
<1> DEFINE p == w.pending
           c == w.connection[i]
           q == Tail(p)
<1>1. /\ w \in Worlds /\ Global(w) /\ w.account \in Account /\ p \in Seq(Completions)
      /\ w.sync \in BOOLEAN /\ c \in Connection /\ At(w, i)
  BY WorldParts DEF Inv
<1>2. /\ 1 \in DOMAIN p /\ Head(p) = p[1] /\ q \in Seq(Completions)
      /\ \A k \in DOMAIN q : k + 1 \in DOMAIN p /\ q[k] = p[k + 1]
      /\ \A k \in DOMAIN p : k # 1 => k - 1 \in DOMAIN q /\ q[k - 1] = p[k]
  BY <1>1, OldestSeen
<1>3. w.connection[i] = c /\ w.pending = p /\ v = Makes(w, i, a, d, q, w.sync)
  OBVIOUS
<1>4. i <= w.account.last
  <2>1. w.account.last \in Nat
    BY <1>1 DEF Account
  <2> QED BY <1>1, <1>2, <2>1 DEF At, MadeOK, Ids
<1> HIDE DEF q, p
<1>5. /\ v \in Worlds /\ v.account = a /\ v.pending = q /\ v.connection[i] = d
      /\ \A j \in Ids \ {i} : v.connection[j] = w.connection[j]
  BY <1>1, <1>2, <1>3, MakesWorld
<1>6. p[1].of = "connect" => c.connect \in {"returned", "failed"}
  BY <1>1, <1>2, <1>3 DEF At, CompletionsOK, Waits
<1> HIDE DEF c
<1>7. /\ d.phase = c.phase /\ d.source = c.source /\ d.tasks = c.tasks /\ d.signOut = c.signOut
      /\ \/ d.connect = c.connect
         \/ d.connect = "failed" /\ c.connect \in {"returned", "failed"}
      /\ d.connect = "returned" => p[1].of # "connect"
      /\ Local(d)
  <2>1. Local(c)
    BY <1>1, <1>3 DEF At
  <2>2. CASE d = c /\ p[1].of = "disconnect"
    BY <2>1, <2>2
  <2>3. CASE p[1].of = "connect" /\ d = [c EXCEPT !.connect = "failed"]
    <3>1. /\ d.phase = c.phase /\ d.source = c.source /\ d.tasks = c.tasks
          /\ d.signOut = c.signOut /\ d.connect = "failed" /\ d.chosen = c.chosen
          /\ d.result = c.result /\ d.watching = c.watching /\ d.deferred = c.deferred
          /\ d.cancelled = c.cancelled
      BY <1>1, <2>3 DEF Connection
    <3>2. /\ d.timer = c.timer /\ d.explicit = c.explicit /\ d.failed = c.failed
          /\ d.closed = c.closed
      BY <1>1, <2>3 DEF Connection
    <3>3. ConnectOK(d)
      BY <1>6, <2>1, <2>3, <3>1, <3>2 DEF Local, ConnectOK
    <3>4. CancellationOK(d) /\ SignOutOK(d)
      BY <2>1, <3>1, <3>2 DEF Local, CancellationOK, SignOutOK
    <3> QED BY <1>6, <2>3, <3>1, <3>3, <3>4 DEF Local
  <2> QED BY <1>2, <1>3, <2>2, <2>3 DEF p
<1>8. ASSUME NEW j \in Ids PROVE At(v, j)
  <2> DEFINE e == v.connection[j]
             f == w.connection[j]
  <2>1. /\ e.phase = f.phase /\ e.tasks = f.tasks /\ e.signOut = f.signOut /\ Local(e)
        /\ \/ e.connect = f.connect
           \/ e.connect = "failed" /\ f.connect \in {"returned", "failed"}
        /\ e.connect = "returned" => p[1].of # "connect" \/ j # i
        /\ j # i => e = f
    <3>1. At(w, j)
      BY DEF Inv
    <3> QED BY <1>3, <1>5, <1>7, <3>1 DEF At
  <2>2. At(w, j)
    BY DEF Inv
  <2>3. \A of : \A k \in Waits(v, j, of) :
          k + 1 \in Waits(w, j, of) /\ v.pending[k] = w.pending[k + 1]
    BY <1>2, <1>3, <1>5 DEF Waits
  <2>4. Waits(w, j, "connect") # {} /\ e.connect = "returned" => Waits(v, j, "connect") # {}
    BY <1>2, <1>3, <1>5, <2>1 DEF Waits, p
  <2> HIDE DEF e, f
  <2>5. Local(v.connection[j]) /\ v.account = a
    BY <1>5, <2>1 DEF e
  <2>6. Served(v, j)
    BY <1>5, <2>1, <2>2 DEF At, Served, Less, Active, e, f, Ids
  <2>7. ErrorKept(v, j)
    <3> SUFFICES ASSUME a.error = <<"runtime", j>> PROVE ErrorKept(v, j)!2
      BY <1>5 DEF ErrorKept
    <3>1. w.account.error = <<"runtime", j>>
      BY DEF Less
    <3>2. ErrorKept(w, j)!2
      BY <2>2, <3>1 DEF At, ErrorKept
    <3>3. ~Active(a) /\ a.conn \in {0, j}
      BY <3>2 DEF Less, Active
    <3>4. /\ e.phase \notin Open
          /\ \A k \in DOMAIN e.tasks : e.tasks[k].ours => e.tasks[k].preserve
      BY <2>1, <3>2 DEF f
    <3>5. \A k \in Waits(v, j, "disconnect") : v.pending[k].ours => v.pending[k].ok
      BY <2>3, <3>2
    <3> QED BY <1>5, <3>3, <3>4, <3>5, SMTT(20) DEF e
  <2>8. CompletionsOK(v, j)
    BY <2>1, <2>2, <2>3, <2>4 DEF At, CompletionsOK, e, f
  <2>9. MadeOK(v, j)
    <3>1. j > w.account.last => j # i /\ \A k \in DOMAIN p : p[k].conn # j
      <4>1. w.account.last \in Nat
        BY <1>1 DEF Account
      <4> QED BY <1>3, <1>4, <2>2, <4>1 DEF At, MadeOK, Ids
    <3>2. a.last = w.account.last /\ (a.conn = j => w.account.conn = j)
      BY DEF Less, Ids
    <3> QED BY <1>2, <1>5, <2>1, <2>2, <3>1, <3>2 DEF At, MadeOK, e, f
  <2> QED BY <2>5, <2>6, <2>7, <2>8, <2>9 DEF At
<1>9. /\ \A j \in Ids : v.connection[j].phase = w.connection[j].phase
      /\ \A j \in Ids : v.connection[j].source = w.connection[j].source
      /\ Active(a) => Active(w.account) /\ a.conn = w.account.conn
                      /\ (a.probe <=> w.account.probe)
  BY <1>3, <1>5, <1>7 DEF Less, Active
<1>10. AccountOK(v)
  BY <1>1, <1>5 DEF Global, AccountOK, Less, Active
<1>11. OneSession(v) /\ RestartsCounted(v)
  BY <1>1, <1>5, <1>9 DEF Global, OneSession, RestartsCounted, Less
<1>12. OneRestart(v)
  <2> SUFFICES ASSUME ~a.byHand PROVE OneRestart(v)
    BY <1>5 DEF OneRestart
  <2>1. ~w.account.byHand /\ a.recoveries = w.account.recoveries
    BY DEF Less
  <2>2. a.conn # 0 => a.conn \in Ids
    BY DEF Account, Ids
  <2> QED BY <1>1, <1>5, <1>9, <2>1, <2>2 DEF Global, OneRestart
<1> QED BY <1>5, <1>8, <1>10, <1>11, <1>12 DEF Inv, Global

LEMMA TaskCompletesKeeps ==
  ASSUME IInv, TaskCompletes
  PROVE  IInv'
<1> DEFINE w == World(FALSE)
           task == Head(w.pending)
           i == task.conn
           u == [w EXCEPT !.pending = Tail(@)]
           c == w.connection[i]
           q == Tail(w.pending)
<1>1. /\ Inv(w) /\ w \in Worlds /\ w.pending = pending
  BY WorldNow
<1>2. /\ w.pending # <<>>
      /\ Step(IF task.of = "connect" THEN ConnectFailedSeen(u, i)
              ELSE DisconnectsSeen(u, i, {task}))
  BY <1>1 DEF TaskCompletes
<1> HIDE DEF w
<1>3. w.account \in Account /\ w.pending \in Seq(Completions) /\ w.sync \in BOOLEAN
  BY <1>1 DEF Worlds
<1>4. task \in Completions
  BY <1>2, <1>3, OldestSeen
<1>5. i \in Ids /\ task.of \in {"connect", "disconnect"}
  BY <1>4 DEF Completions
<1>6. c \in Connection /\ w.connection[i] = c /\ Head(w.pending) = task
  BY <1>1, <1>5, WorldParts
<1>7. u = [w EXCEPT !.pending = q] /\ u.account = w.account /\ u.connection = w.connection
  BY <1>1 DEF Worlds
<1> HIDE DEF task, u
<1>8. ASSUME NEW v, Step(v), v = Makes(w, i, w.account, c, q, w.sync), task.of = "disconnect"
      PROVE  IInv'
  <2> DEFINE a == w.account
  <2>1. Less(w.account, a, i) /\ a \in Account /\ v = Makes(w, i, a, c, q, w.sync)
    BY <1>3, <1>8, NothingLess
  <2>2. Inv(v)
    BY <1>1, <1>2, <1>5, <1>6, <1>8, <2>1, CompletionSeen
  <2> QED BY <1>8, <2>2, StepMade
<1>9. CASE task.of = "connect"
  <2> DEFINE v == ConnectFailedSeen(u, i)
             d == [c EXCEPT !.connect = "failed"]
             probe == w.account.probe /\ c.recovery
             conn == IF w.account.conn = i THEN 0 ELSE w.account.conn
             a == [w.account EXCEPT !.state = "disconnected", !.probe = probe, !.conn = conn]
  <2>1. v = [[w EXCEPT !.pending = q] EXCEPT !.account = a, !.connection[i].connect = "failed"]
    BY <1>1, <1>5, <1>6, <1>7 DEF ConnectFailedSeen, Worlds
  <2>2. Step(v)
    BY <1>2, <1>9
  <2>3. /\ probe \in BOOLEAN /\ (probe => w.account.probe)
        /\ conn \in 0 .. MaxConnections /\ conn \in {0, w.account.conn}
    BY <1>3, <1>6, ConnectionsAssumption DEF Account, Connection
  <2> HIDE DEF v, probe, conn, c, i, q
  <2>4. v = Makes(w, i, a, d, q, w.sync)
    BY <1>1, <1>6, <2>1, Zenon DEF Makes, Worlds
  <2>5. d \in Connection
    BY <1>6 DEF Connection
  <2>6. a \in Account
    BY <1>3, <2>3, AccountTyped
  <2>7. /\ Less(w.account, a, i) /\ a.error = w.account.error /\ ~Active(a)
    BY <1>3, <2>3 DEF Account, Less, Active
  <2>8. d = [w.connection[i] EXCEPT !.connect = "failed"]
    BY <1>6
  <2> HIDE DEF a, d
  <2>9. Inv(v)
    BY <1>1, <1>2, <1>5, <1>6, <1>9, <2>4, <2>5, <2>6, <2>7, <2>8, CompletionSeen DEF i, q
  <2> QED BY <2>2, <2>9, StepMade
<1>10. CASE task.of = "disconnect" /\ ~task.ours
  <2>1. DisconnectsSeen(u, i, {task}) = u
    BY <1>10 DEF DisconnectsSeen
  <2>2. Step(u)
    BY <1>2, <1>10, <2>1
  <2> HIDE DEF q
  <2>3. u = Makes(w, i, w.account, c, q, w.sync)
    BY <1>1, <1>5, <1>6, <1>7, Zenon DEF Makes, Worlds
  <2> QED BY <1>8, <1>10, <2>2, <2>3
<1>11. CASE task.of = "disconnect" /\ task.ours
  <2> DEFINE v == DisconnectsSeen(u, i, {task})
             error == IF task.ok THEN w.account.error ELSE <<"cleanup", i>>
             a == [w.account EXCEPT !.state = "disconnected", !.conn = 0, !.error = error]
  <2>1. v = [[w EXCEPT !.pending = q] EXCEPT !.account = a]
    <3>1. /\ {x \in {task} : x.ours} = {task}
          /\ (\A x \in {task} : x.ok) <=> task.ok
      BY <1>11
    <3>2. v = [u EXCEPT !.account.state = "disconnected", !.account.conn = 0,
                        !.account.error = IF task.ok THEN @ ELSE <<"cleanup", i>>]
      BY <3>1 DEF DisconnectsSeen
    <3> HIDE DEF i, q, v
    <3> QED BY <1>1, <1>7, <3>2 DEF Worlds
  <2>2. Step(v)
    BY <1>2, <1>11
  <2>3. /\ error \in {"none", "runtime", "restart", "cleanup"} \X (0 .. MaxConnections)
        /\ error = w.account.error \/ error = <<"cleanup", i>>
    BY <1>3, <1>5, ConnectionsAssumption DEF Account, Ids
  <2> HIDE DEF v, error, c, i, q
  <2>4. v = Makes(w, i, a, c, q, w.sync)
    BY <1>1, <1>5, <1>6, <2>1, Zenon DEF Makes, Worlds
  <2>5. 0 \in 0 .. MaxConnections
    BY ConnectionsAssumption
  <2>6. a \in Account
    BY <1>3, <2>3, <2>5, AccountWithError
  <2>7. a.error = error /\ ~Active(a) /\ a.conn = 0 /\ a.state = "disconnected"
        /\ a.last = w.account.last /\ a.recoveries = w.account.recoveries
        /\ a.probe = w.account.probe /\ a.byHand = w.account.byHand
    BY <1>3 DEF Account, Active
  <2>8. /\ Less(w.account, a, i)
        /\ a.error = <<"runtime", i>> => w.account.error = <<"runtime", i>>
    BY <2>3, <2>7 DEF Less
  <2> HIDE DEF a
  <2>9. /\ w.pending # <<>> /\ Head(w.pending).conn = i
        /\ Head(w.pending).of = "disconnect" /\ c = w.connection[i] /\ c \in Connection
        /\ v = Makes(w, i, a, c, Tail(w.pending), w.sync)
    BY <1>2, <1>6, <1>11, <2>4 DEF i, q
  <2>10. /\ (a.probe <=> w.account.probe) \/ ~Active(a)
         /\ \/ Head(w.pending).of = "disconnect" /\ c = w.connection[i]
            \/ Head(w.pending).of = "connect"
               /\ c = [w.connection[i] EXCEPT !.connect = "failed"]
    BY <2>7, <2>9
  <2>11. Inv(v)
    BY <1>1, <1>5, <2>6, <2>8, <2>9, <2>10, CompletionSeen
  <2> QED BY <2>2, <2>11, StepMade
<1> QED BY <1>4, <1>5, <1>9, <1>10, <1>11

-----------------------------------------------------------------------------
(* The theorems *)

LEMMA DisposeKeeps ==
  ASSUME IInv, NEW i \in Ids, Dispose(i)
  PROVE  IInv'
<1> DEFINE w == World(FALSE)
           n == NewConnection
           d == [n EXCEPT !.phase = "freed"]
           v == [w EXCEPT !.connection[i] = d]
<1>1. /\ Inv(w) /\ w \in Worlds /\ w.account = account /\ w.connection = connections
      /\ w.pending = pending
  BY WorldNow
<1>2. Step(v) /\ v = [w EXCEPT !.connection[i] = d]
  BY DEF Dispose
<1>3. /\ i <= w.account.last /\ w.account.conn # i /\ ~w.connection[i].source
      /\ \A k \in DOMAIN w.pending : w.pending[k].conn # i
  BY <1>1 DEF Dispose
<1>4. /\ n \in Connection /\ n.connect = "none" /\ n.tasks = <<>>
      /\ ~n.source /\ ~n.deferred /\ ~n.timer
      /\ ~n.signOut /\ n.closed = "none"
  BY NewTyped DEF NewConnection
<1> HIDE DEF w, v, n
<1>5. w.account \in Account
  BY <1>1 DEF Worlds
<1>6. v = Makes(w, i, w.account, d, w.pending, w.sync)
  BY <1>1, <1>2, Zenon DEF Makes, Worlds
<1>7. /\ d \in Connection /\ d.phase = "freed" /\ d.connect = "none" /\ d.tasks = <<>>
      /\ ~d.source /\ ~d.deferred /\ ~d.timer /\ ~d.signOut /\ d.closed = "none"
  BY <1>4 DEF Connection
<1> HIDE DEF d
<1>8. /\ Outer(w, v, i) /\ v.account = w.account /\ v.pending = w.pending
      /\ v.connection[i] = d
  BY <1>1, <1>6, <1>7, MakesLocal
<1>9. Local(d)
  BY <1>7 DEF Local, ConnectOK, CancellationOK, SignOutOK, Live, Open
<1>10. At(w, i)
  BY <1>1 DEF Inv
<1>11. \A of : Waits(v, i, of) = {}
  BY <1>3, <1>8 DEF Waits
<1>12. ErrorKept(v, i)
  BY <1>7, <1>8, <1>10, <1>11 DEF At, ErrorKept, Open
<1>13. MadeOK(v, i)
  <2>1. w.account.last \in Nat
    BY <1>5 DEF Account
  <2> QED BY <1>3, <1>8, <2>1 DEF MadeOK, Ids
<1>14. At(v, i)
  BY <1>3, <1>7, <1>8, <1>9, <1>11, <1>12, <1>13 DEF At, Served, CompletionsOK
<1>15. Kept(w, v, i)
  BY <1>7, <1>8 DEF Kept, Live, Open
<1>16. Inv(v)
  BY <1>1, <1>8, <1>14, <1>15, StepKeeps
<1> QED BY <1>2, <1>16, StepMade

LEMMA InitOK == Init => IInv
<1> SUFFICES ASSUME Init PROVE IInv
  OBVIOUS
<1> DEFINE w == World(FALSE)
           n == NewConnection
           no == NoError
<1>1. /\ w.account = account /\ w.connection = connections /\ w.pending = <<>>
      /\ w = [account |-> account, connection |-> connections,
              pending |-> <<>>, sync |-> FALSE]
  BY DEF World, Init
<1>2. /\ account = [enabled |-> TRUE, state |-> "disconnected", conn |-> 0,
                    last |-> 0, probe |-> FALSE, error |-> no,
                    recoveries |-> 0, byHand |-> FALSE]
      /\ connections = [i \in Ids |-> n]
  BY DEF Init
<1>3. /\ n \in Connection /\ n.connect = "none" /\ n.tasks = <<>> /\ n.phase = "none"
      /\ ~n.source /\ ~n.deferred /\ ~n.timer /\ ~n.signOut /\ n.closed = "none"
      /\ ~n.explicit /\ ~n.failed
  BY NewTyped DEF NewConnection
<1>4. no \in {"none", "runtime", "restart", "cleanup"} \X (0 .. MaxConnections)
      /\ \A i : no # <<"runtime", i>>
  BY ConnectionsAssumption DEF NoError
<1>5. NewConnection = n
  OBVIOUS
<1> HIDE DEF w, n, no
<1>6. account \in Account
  BY <1>2, <1>4, ConnectionsAssumption DEF Account
<1>7. <<>> \in Seq(Completions) /\ DOMAIN <<>> = {}
  OBVIOUS
<1>8. w \in Worlds /\ \A i \in Ids : w.connection[i] = n
  BY <1>1, <1>2, <1>3, <1>6, <1>7 DEF Worlds
<1>9. /\ account.state = "disconnected" /\ account.conn = 0 /\ account.last = 0
      /\ account.error = no /\ account.recoveries = 0
  BY <1>2
<1>10. Local(n)
  BY <1>3 DEF Local, ConnectOK, CancellationOK, SignOutOK, Live, Open
<1>11. \A i \in Ids : At(w, i)
  BY <1>1, <1>3, <1>4, <1>5, <1>7, <1>8, <1>9, <1>10
     DEF At, Served, ErrorKept, CompletionsOK, MadeOK, Waits, Live, Open, Ids
<1>12. Global(w)
  BY <1>1, <1>3, <1>8, <1>9
     DEF Global, AccountOK, OneSession, OneRestart, RestartsCounted, Active, Live, Open
<1>13. ReadyingOK
  BY DEF ReadyingOK, Init, Idle
<1> QED BY <1>8, <1>11, <1>12, <1>13 DEF IInv, Inv, w

LEMMA NextKeeps == IInv /\ [Next]_vars => IInv'
<1> SUFFICES ASSUME IInv, [Next]_vars PROVE IInv'
  OBVIOUS
<1>1. CASE AccountConnects
  BY <1>1, AccountConnectsKeeps
<1>2. CASE ConnectAsync
  BY <1>2, ConnectAsyncKeeps
<1>3. CASE TaskCompletes
  BY <1>3, TaskCompletesKeeps
<1>4. CASE UserDisconnects \/ UserDisables \/ UserEnables
  BY <1>4, UserDisconnectsKeeps, UserDisablesKeeps, UserEnablesKeeps
<1>5. CASE Unwatch \/ SelectOutcome
  BY <1>5, UnwatchKeeps, SelectOutcomeKeeps
<1>6. ASSUME NEW i \in Ids, PrepareUnload(i) \/ OthersDisconnect(i) \/ ForeignCancel(i)
                            \/ OwnerCancel(i) \/ DeferredCancel(i)
      PROVE  IInv'
  BY <1>6, PrepareUnloadKeeps, OthersJoin, ForeignCancelKeeps, OwnerCancelKeeps,
     DeferredCancelKeeps
<1>7. ASSUME NEW i \in Ids, LoginEnds(i) \/ LoginReady(i)
                            \/ \E state \in Lifecycle : Update(i, state)
      PROVE  IInv'
  BY <1>7, LoginEndsKeeps, LoginReadyKeeps, UpdateKeeps
<1>8. ASSUME NEW i \in Ids, SignOutTimesOut(i) \/ BackendFails(i) \/ BackendCloses(i)
      PROVE  IInv'
  BY <1>8, FailureKeeps, BackendClosesKeeps
<1>9. ASSUME NEW i \in Ids, (\E late \in BOOLEAN : RecoveryTimer(i, late)) \/ Dispose(i)
      PROVE  IInv'
  BY <1>9, RecoveryTimerKeeps, DisposeKeeps
<1>10. CASE UNCHANGED vars
  <2>1. World(FALSE)' = World(FALSE)
    BY <1>10 DEF vars, World
  <2>2. Inv(World(FALSE))'
    BY <1>10, <2>1 DEF IInv, vars, World
  <2>3. ReadyingOK'
    BY <1>10 DEF IInv, ReadyingOK, vars
  <2> QED BY <2>2, <2>3 DEF IInv
<1> QED BY <1>1, <1>2, <1>3, <1>4, <1>5, <1>6, <1>7, <1>8, <1>9, <1>10 DEF Next

\* What is promised of the account and its connections follows.
LEMMA InvariantServes == IInv => ConnectedIsServed /\ RecoveryTriedOnce /\ ConnectIsAnswered
<1> SUFFICES ASSUME IInv PROVE ConnectedIsServed /\ RecoveryTriedOnce /\ ConnectIsAnswered
  OBVIOUS
<1> DEFINE w == World(FALSE)
<1>1. /\ Inv(w) /\ w \in Worlds /\ w.account = account /\ w.connection = connections
  BY WorldNow
<1> HIDE DEF w
<1>2. account \in Account /\ Global(w) /\ \A i \in Ids : connections[i] \in Connection
  BY <1>1 DEF Inv, Worlds
<1>3. \A i \in Ids : Local(connections[i]) /\ Served(w, i)
  BY <1>1 DEF Inv, At
<1>4. TypeOK
  <2>1. account.recoveries \in 0 .. MaxConnections
    BY <1>1, <1>2, ConnectionsAssumption DEF Global, RestartsCounted, Account
  <2>2. account \in [enabled : BOOLEAN, conn : 0 .. MaxConnections,
                     state : {"disconnected", "connecting", "connected", "disconnecting"},
                     last : 0 .. MaxConnections, probe : BOOLEAN,
                     error : {"none", "runtime", "restart", "cleanup"} \X (0 .. MaxConnections),
                     recoveries : 0 .. MaxConnections, byHand : BOOLEAN]
    BY <1>2, <2>1 DEF Account
  <2>3. \A i \in Ids :
          LET c == connections[i]
          IN /\ c.connect \in {"none", "pending", "returned", "connected", "failed"}
             /\ c.phase \in {"none", "Connecting", "Ready", "Closing", "Settled", "freed"}
             /\ (c.closed # "none") = (c.phase = "Settled")
             /\ c.timer => c.signOut /\ c.phase \in Open
    BY <1>2, <1>3 DEF Local, SignOutOK, Connection
  <2> QED BY <2>2, <2>3 DEF TypeOK, IInv, ReadyingOK
<1>5. ConnectedIsServed
  <2>1. account.conn # 0 => account.conn \in Ids
    BY <1>2 DEF Account, Ids
  <2> QED BY <1>1, <1>2, <1>3, <1>4, <2>1 DEF ConnectedIsServed, Served, Global, AccountOK
<1>6. RecoveryTriedOnce
  BY <1>1, <1>2 DEF RecoveryTriedOnce, Global, OneRestart, AccountOK
<1>7. ConnectIsAnswered
  BY <1>3 DEF ConnectIsAnswered, Local, ConnectOK
<1> QED BY <1>5, <1>6, <1>7

LEMMA AlwaysIInv == Spec => []IInv
  BY InitOK, NextKeeps, PTL DEF Spec

\* A connected account has a session that works, or one whose sign-out is being handled.
THEOREM AccountIsServed == Spec => []ConnectedIsServed
  BY AlwaysIInv, InvariantServes, PTL

\* After a sign-out there is one new login, not one after another, unless the user has
\* connected the account while a restart waited.
THEOREM RestartIsNotRepeated == Spec => []RecoveryTriedOnce
  BY AlwaysIInv, InvariantServes, PTL

\* The connect is answered when the session has ended, or else by the restart that waits.
THEOREM EndAnswersConnect == Spec => []ConnectIsAnswered
  BY AlwaysIInv, InvariantServes, PTL

-----------------------------------------------------------------------------
(* The account is not misled *)

\* The worlds of a step, as records with what is read of the account
Shaped(w) == /\ {"account", "sync"} \subseteq DOMAIN w
             /\ {"state", "error"} \subseteq DOMAIN w.account

\* No account begins to connect, and one that is not active keeps its error.
Still(w, v) ==
  /\ Shaped(v)
  /\ v.account.state = "connecting" => w.account.state = "connecting"
  /\ ~Active(w.account) => ~Active(v.account) /\ v.account.error = w.account.error

LEMMA StillComposes ==
  ASSUME NEW u, NEW w, NEW v, Still(u, w), Still(w, v)
  PROVE  Still(u, v)
  BY DEF Still

LEMMA StillItself ==
  ASSUME NEW w, Shaped(w)
  PROVE  Still(w, w)
  BY DEF Still

\* Only the connections change.
LEMMA StillWith ==
  ASSUME NEW w, NEW v, Shaped(w), DOMAIN v = DOMAIN w, v.account = w.account
  PROVE  Still(w, v)
  BY DEF Still, Shaped

LEMMA ConnectStill ==
  ASSUME NEW w, NEW i, Shaped(w)
  PROVE  Still(w, CompleteConnect(w, i, FALSE))
  BY DEF Still, Shaped, CompleteConnect, ConnectFailedSeen, Active

LEMMA CloseStill ==
  ASSUME NEW w, NEW i, Shaped(w)
  PROVE  /\ Still(w, BeginClose(w, i)) /\ Still(w, NotifyConnectFailure(w, i))
         /\ Still(w, ForgetSignOut(w, i)) /\ Still(w, CancelLogin(w, i))
         /\ Still(w, Close(w, i)) /\ Still(w, GiveUp(w, i))
<1>1. ASSUME NEW u, Shaped(u) PROVE Still(u, NotifyConnectFailure(u, i))
  <2> DEFINE v == [u EXCEPT !.connection[i].chosen = TRUE]
             y == CompleteConnect(v, i, FALSE)
  <2>1. Still(u, v)
    BY <1>1, StillWith DEF Shaped
  <2>2. NotifyConnectFailure(u, i) \in {u, y}
    BY DEF NotifyConnectFailure
  <2> HIDE DEF v
  <2>3. Still(v, y)
    BY <2>1, ConnectStill DEF Still
  <2>4. Still(u, y)
    BY <2>1, <2>3, StillComposes
  <2> QED BY <1>1, <2>2, <2>4, StillItself
<1>2. ASSUME NEW u, Shaped(u) PROVE Still(u, BeginClose(u, i)) /\ Still(u, ForgetSignOut(u, i))
  BY <1>2, StillWith, ZenonT(30) DEF Shaped, BeginClose, ForgetSignOut
<1>3. ASSUME NEW u, Shaped(u) PROVE Still(u, GiveUp(u, i))
  <2> DEFINE v == NotifyConnectFailure(u, i)
  <2>1. Still(u, v)
    BY <1>1, <1>3
  <2>2. GiveUp(u, i) = BeginClose(v, i)
    BY DEF GiveUp
  <2> HIDE DEF v
  <2>3. Still(v, BeginClose(v, i))
    BY <1>2, <2>1 DEF Still
  <2> QED BY <2>1, <2>2, <2>3, StillComposes
<1>4. ASSUME NEW u, Shaped(u) PROVE Still(u, CancelLogin(u, i))
  <2> DEFINE x == ForgetSignOut(u, i)
             y == [x EXCEPT !.connection[i].login = IF @ = "none" THEN "cancelled" ELSE @]
  <2>1. CancelLogin(u, i) \in {GiveUp(y, i), BeginClose(y, i)}
    BY DEF CancelLogin, GiveUp
  <2>2. Still(u, x)
    BY <1>2, <1>4
  <2>3. y = [x EXCEPT !.connection[i].login = IF @ = "none" THEN "cancelled" ELSE @]
    OBVIOUS
  <2> HIDE DEF x, y
  <2>4. Still(x, y)
    BY <2>2, <2>3, StillWith DEF Still, Shaped
  <2>5. Shaped(y)
    BY <2>4 DEF Still
  <2>6. Still(y, GiveUp(y, i)) /\ Still(y, BeginClose(y, i))
    BY <1>2, <1>3, <2>5
  <2> QED BY <2>1, <2>2, <2>4, <2>6, StillComposes
<1>5. ASSUME NEW u, Shaped(u) PROVE Still(u, Close(u, i))
  <2> DEFINE x == [u EXCEPT !.connection[i].explicit = TRUE]
             y == ForgetSignOut(x, i)
  <2>1. Close(u, i) \in {CancelLogin(y, i), y}
    BY DEF Close
  <2>2. Still(u, x)
    BY <1>5, StillWith DEF Shaped
  <2> HIDE DEF x
  <2>3. Still(x, y)
    BY <1>2, <2>2 DEF Still
  <2> HIDE DEF y
  <2>4. Shaped(y)
    BY <2>3 DEF Still
  <2>5. Still(y, CancelLogin(y, i))
    BY <1>4, <2>4
  <2> QED BY <2>1, <2>2, <2>3, <2>5, StillComposes
<1> QED BY <1>1, <1>2, <1>3, <1>4, <1>5

LEMMA DisconnectStill ==
  ASSUME NEW w, NEW i, NEW ours, NEW preserve, Shaped(w)
  PROVE  Still(w, DisconnectAsync(w, i, ours, preserve))
<1> DEFINE c == w.connection[i]
           no == FALSE
           v == [w EXCEPT !.account.probe = @ /\ c.recovery,
                          !.connection[i].tasks =
                             Append(@, [ours |-> ours, preserve |-> preserve]),
                          !.sync = no]
           x == [v EXCEPT !.sync = w.sync]
           y == Close(x, i)
           z == [y EXCEPT !.sync = no]
<1>1. \/ \E r : DisconnectAsync(w, i, ours, preserve) = CompleteDisconnects(v, i, r)
      \/ DisconnectAsync(w, i, ours, preserve) = z
  BY DEF DisconnectAsync
<1>2. /\ DOMAIN v = DOMAIN w /\ v.sync = no /\ ~no
      /\ v.account.state = w.account.state /\ v.account.error = w.account.error
      /\ DOMAIN v.account = DOMAIN w.account
  BY DEF Shaped
<1>3. z = [y EXCEPT !.sync = no] /\ x = [v EXCEPT !.sync = w.sync]
  OBVIOUS
<1> HIDE DEF v, x, y, z, no
<1>4. Still(w, v)
  BY <1>2 DEF Still, Shaped, Active
<1>5. \A r : Still(v, CompleteDisconnects(v, i, r))
  <2> SUFFICES ASSUME NEW r PROVE Still(v, CompleteDisconnects(v, i, r))
    BY Zenon
  <2>1. \E done : CompleteDisconnects(v, i, r)
          = [[v EXCEPT !.connection[i].tasks = <<>>, !.connection[i].result = r]
               EXCEPT !.pending = @ \o done]
    BY <1>2, Zenon DEF CompleteDisconnects
  <2> QED BY <1>4, <2>1, StillWith DEF Still, Shaped
<1>6. Still(v, x)
  BY <1>3, <1>4, StillWith DEF Still, Shaped
<1>7. Still(x, y)
  BY <1>6, CloseStill DEF y, Still
<1>8. Still(y, z)
  BY <1>3, <1>7, StillWith DEF Still, Shaped
<1> QED BY <1>1, <1>4, <1>5, <1>6, <1>7, <1>8, StillComposes

LEMMA PurpleDisconnectStill ==
  ASSUME NEW w, NEW preserve, Shaped(w)
  PROVE  Still(w, PurpleDisconnect(w, preserve))
<1> DEFINE x == [w EXCEPT !.account.state = "disconnecting"]
           v == DisconnectAsync(x, w.account.conn, TRUE, preserve)
<1>1. CASE ~Active(w.account)
  BY <1>1, StillItself DEF PurpleDisconnect
<1>2. CASE Active(w.account)
  <2>1. PurpleDisconnect(w, preserve) = v
    BY <1>2 DEF PurpleDisconnect
  <2>2. Shaped(x) /\ x.account.state = "disconnecting"
    BY DEF Shaped
  <2> HIDE DEF x
  <2>3. Still(x, v)
    BY <2>2, DisconnectStill
  <2> HIDE DEF v
  <2> QED BY <1>2, <2>1, <2>2, <2>3 DEF Still, Active
<1> QED BY <1>1, <1>2

LEMMA FailureStill ==
  ASSUME NEW w, NEW i, Shaped(w)
  PROVE  /\ Still(w, RuntimeFailed(w, i)) /\ Still(w, NotifyRuntimeFailure(w, i))
         /\ Still(w, AuthorizationFailed(w, i))
<1>1. ASSUME NEW u, Shaped(u) PROVE Still(u, RuntimeFailed(u, i))
  <2> DEFINE v == PurpleDisconnect(u, TRUE)
             y == [v EXCEPT !.account.error = <<"runtime", i>>]
  <2>1. RuntimeFailed(u, i) \in {u, y} /\ (~Active(u.account) => RuntimeFailed(u, i) = u)
    BY DEF RuntimeFailed
  <2>2. Still(u, v)
    BY <1>1, PurpleDisconnectStill
  <2> HIDE DEF v
  <2>3. Shaped(y) /\ y.account.state = v.account.state
    BY <2>2 DEF Still, Shaped
  <2> HIDE DEF y
  <2> QED BY <1>1, <2>1, <2>2, <2>3 DEF Still
<1>2. ASSUME NEW u, Shaped(u) PROVE Still(u, NotifyRuntimeFailure(u, i))
  <2> DEFINE v == [u EXCEPT !.connection[i].failed = TRUE]
  <2>1. NotifyRuntimeFailure(u, i) \in {u, RuntimeFailed(v, i)}
    BY DEF NotifyRuntimeFailure
  <2>2. Still(u, v)
    BY <1>2, StillWith DEF Shaped
  <2> HIDE DEF v
  <2>3. Shaped(v)
    BY <2>2 DEF Still
  <2>4. Still(v, RuntimeFailed(v, i))
    BY <1>1, <2>3
  <2> QED BY <1>2, <2>1, <2>2, <2>4, StillComposes, StillItself
<1>3. Still(w, AuthorizationFailed(w, i))
  <2> DEFINE v == ForgetSignOut(w, i)
             x == NotifyConnectFailure(v, i)
             y == NotifyRuntimeFailure(v, i)
  <2>1. AuthorizationFailed(w, i) \in {v, BeginClose(x, i), BeginClose(y, i)}
    BY DEF AuthorizationFailed
  <2>2. Still(w, v) /\ Shaped(v)
    BY CloseStill DEF Still
  <2> HIDE DEF v
  <2>3. Still(v, x) /\ Still(v, y)
    BY <1>2, <2>2, CloseStill
  <2> HIDE DEF x, y
  <2>4. Shaped(x) /\ Shaped(y)
    BY <2>3 DEF Still
  <2>5. Still(x, BeginClose(x, i)) /\ Still(y, BeginClose(y, i))
    BY <2>4, CloseStill
  <2> QED BY <2>1, <2>2, <2>3, <2>5, StillComposes
<1> QED BY <1>1, <1>2, <1>3

LEMMA UpdateStill ==
  ASSUME NEW w, NEW i, NEW state, NEW timed, Shaped(w)
  PROVE  Still(w, ProcessUpdate(w, i, state, timed))
<1> DEFINE v == [w EXCEPT !.connection[i].notified = @ \cup {state},
                          !.connection[i].login = IF @ = "none" THEN "failed" ELSE @]
           x == RequestReauthorization(v, i, timed)
           y == AuthorizationFailed(v, i)
           z == Told(w, i, state, timed)
<1>1. z \in {v, x, y}
  BY DEF Told
<1>2. Still(w, v)
  BY StillWith DEF Shaped
<1> HIDE DEF v
<1>3. Still(v, y) /\ Still(v, v)
  BY <1>2, FailureStill, StillItself DEF Still
<1>4. Still(v, x)
  <2> DEFINE u == [v EXCEPT !.connection[i].signOut = TRUE, !.connection[i].timer = TRUE]
  <2>1. x \in {v, u, y}
    BY DEF RequestReauthorization
  <2>2. Still(v, u)
    BY <1>2, StillWith DEF Still, Shaped
  <2> QED BY <1>3, <2>1, <2>2
<1>5. ProcessUpdate(w, i, state, timed) \in {z, BeginClose(z, i)}
  BY DEF ProcessUpdate
<1> HIDE DEF x, y, z
<1>6. Still(w, z)
  BY <1>1, <1>2, <1>3, <1>4, StillComposes
<1>7. Still(z, BeginClose(z, i))
  BY <1>6, CloseStill DEF Still
<1> QED BY <1>5, <1>6, <1>7, StillComposes

LEMMA AbortStill ==
  ASSUME NEW w, NEW i, NEW report \in BOOLEAN, Shaped(w)
  PROVE  LET u == AbortReauthorization(w, i, report)
         IN /\ ~report => Still(w, u)
            /\ u.account.state = "connecting" => w.account.state = "connecting"
            /\ ~Active(w.account) => u.account.error \in {w.account.error, <<"restart", i>>}
<1> DEFINE no == FALSE
           v == [w EXCEPT !.account.probe = no, !.connection[i].source = no]
           x == CompleteConnect(v, i, FALSE)
           y == [v EXCEPT !.account.error = <<"restart", i>>]
           told == IF w.connection[i].connect = "pending" THEN x ELSE IF report THEN y ELSE v
           u == AbortReauthorization(w, i, report)
<1>1. u \in {told, PurpleDisconnect(told, FALSE)}
  BY DEF AbortReauthorization
<1>2. /\ Shaped(v) /\ v.account.state = w.account.state /\ v.account.error = w.account.error
  BY DEF Shaped
<1>3. told \in {x, v} \/ (report /\ told = y)
  OBVIOUS
<1> HIDE DEF u, told, v
<1>4. Still(w, v)
  BY <1>2 DEF Still, Active
<1>5. Still(v, x)
  BY <1>2, ConnectStill
<1>6. ASSUME Shaped(told) PROVE Still(told, u)
  BY <1>1, <1>6, PurpleDisconnectStill, StillItself
<1>7. CASE told \in {x, v}
  <2>1. Still(w, told)
    BY <1>4, <1>5, <1>7, StillComposes
  <2>2. Still(w, u)
    BY <1>6, <2>1, StillComposes DEF Still
  <2> QED BY <2>2 DEF Still, u
<1>8. CASE report /\ told = y
  <2>1. /\ Shaped(y) /\ y.account.state = v.account.state
        /\ y.account.error = <<"restart", i>>
    BY <1>2 DEF Shaped
  <2> HIDE DEF y
  <2>2. Still(y, u)
    BY <1>6, <1>8, <2>1
  <2> QED BY <1>2, <1>8, <2>1, <2>2 DEF Still, Active, u
<1> QED BY <1>3, <1>7, <1>8

LEMMA ReauthorizationStill ==
  ASSUME NEW w, NEW i, Shaped(w)
  PROVE  Still(w, ReauthorizationRequired(w, i))
<1> DEFINE no == FALSE
           yes == TRUE
           v == [w EXCEPT !.account.probe = no]
           x == [w EXCEPT !.account.probe = yes, !.account.recoveries = @ + 1,
                          !.connection[i].recovery = yes, !.connection[i].wait = no,
                          !.connection[i].source = yes]
           y == PurpleDisconnect(x, no)
           z == AbortReauthorization(w, i, no)
<1>1. ReauthorizationRequired(w, i)
        \in {z, y, CompleteConnect(v, i, FALSE), RuntimeFailed(v, i)}
  BY DEF ReauthorizationRequired, Recovering
<1>2. /\ Shaped(v) /\ v.account.state = w.account.state /\ v.account.error = w.account.error
      /\ Shaped(x) /\ x.account.state = w.account.state /\ x.account.error = w.account.error
  BY DEF Shaped
<1>3. no \in BOOLEAN /\ ~no
  OBVIOUS
<1> HIDE DEF v, x, no
<1>4. Still(w, v) /\ Still(w, x)
  BY <1>2 DEF Still, Active
<1>5. Still(w, z)
  BY <1>3, AbortStill
<1>6. Still(x, y)
  BY <1>2, PurpleDisconnectStill
<1>7. Still(v, CompleteConnect(v, i, FALSE)) /\ Still(v, RuntimeFailed(v, i))
  BY <1>2, ConnectStill, FailureStill
<1>8. Still(w, y) /\ Still(w, CompleteConnect(v, i, FALSE)) /\ Still(w, RuntimeFailed(v, i))
  BY <1>4, <1>6, <1>7, StillComposes
<1> QED BY <1>1, <1>5, <1>8

\* The end of a session that nobody awaits
LEMMA EndStill ==
  ASSUME NEW w, NEW i, NEW result, Shaped(w), ~w.connection[i].explicit
  PROVE  Still(w, BackendClosed(w, i, result))
<1> DEFINE u == SettledIn(w, i, result)
           end == CASE ~w.connection[i].signOut -> u
                    [] w.connection[i].signOut /\ result = "Closed" ->
                         ReauthorizationRequired(u, i)
                    [] w.connection[i].signOut /\ result # "Closed" /\ w.connection[i].chosen ->
                         NotifyRuntimeFailure(u, i)
                    [] OTHER -> NotifyConnectFailure(u, i)
           v == EndedIn(end, i)
<1>1. BackendClosed(w, i, result) = v
  BY Zenon DEF BackendClosed, SettledIn, EndedIn
<1>2. Still(w, u)
  BY StillWith DEF SettledIn, Shaped
<1>3. end \in {u, ReauthorizationRequired(u, i), NotifyRuntimeFailure(u, i),
               NotifyConnectFailure(u, i)}
  OBVIOUS
<1> HIDE DEF u, end
<1>4. Still(u, end)
  BY <1>2, <1>3, ReauthorizationStill, FailureStill, CloseStill, StillItself DEF Still
<1>5. Still(end, v)
  BY <1>4, StillWith DEF EndedIn, Still, Shaped
<1> QED BY <1>1, <1>2, <1>4, <1>5, StillComposes

\* ... and of one whose end is awaited: a cleanup error is about this connection, and
\* replaces no other if the tasks would not have it so.
LEMMA AwaitedEndStill ==
  ASSUME NEW w \in Worlds, NEW i \in Ids, NEW result \in Results,
         w.connection[i].explicit, ~w.connection[i].signOut
  PROVE  LET a == BackendClosed(w, i, result).account
             tasks == w.connection[i].tasks
         IN /\ a.state = "connecting" => w.account.state = "connecting"
            /\ a.error \in {w.account.error, <<"cleanup", i>>}
            /\ (\A k \in DOMAIN tasks : tasks[k].ours => tasks[k].preserve)
                 => a.error = w.account.error
<1> DEFINE u == SettledIn(w, i, result)
           end == CompleteDisconnects(u, i, result)
           v == EndedIn(end, i)
           c == w.connection[i]
           d == [c EXCEPT !.phase = "Settled", !.closed = result]
<1>1. BackendClosed(w, i, result) = v
  BY Zenon DEF BackendClosed, SettledIn, EndedIn
<1>2. c \in Connection /\ w.connection[i] = c /\ w.account \in Account
  BY WorldParts
<1>3. u = [w EXCEPT !.connection[i].phase = "Settled", !.connection[i].closed = result]
  BY DEF SettledIn
<1> HIDE DEF u, c
<1>4. u = Makes(w, i, w.account, d, w.pending, w.sync)
  BY <1>2, <1>3, Zenon DEF Makes, Worlds
<1>5. d \in Connection /\ d.tasks = c.tasks
  BY <1>2, ZenonT(30) DEF Connection
<1> HIDE DEF d
<1>6. u \in Worlds /\ u.account = w.account /\ u.connection[i].tasks = c.tasks
  BY <1>4, <1>5, MakesLocal
<1>7. Answered(u, end, i)
  BY <1>6, TasksAnswered
<1>8. end.account.error \in {u.account.error, <<"cleanup", i>>}
  <2> DEFINE y == [u EXCEPT !.connection[i].tasks = <<>>, !.connection[i].result = result]
  <2>1. \/ \E done : end = DisconnectsSeen(y, i, done)
        \/ \E done : end = [y EXCEPT !.pending = @ \o done]
    BY DEF CompleteDisconnects
  <2>2. y.account = u.account /\ DOMAIN y = DOMAIN u /\ y.account \in Account
    BY <1>2, <1>6 DEF Worlds
  <2>3. "account" \in DOMAIN y /\ DOMAIN y.account = DOMAIN w.account
    BY <1>6, <2>2 DEF Worlds
  <2> HIDE DEF y, end
  <2>4. ASSUME NEW done, end = DisconnectsSeen(y, i, done)
        PROVE  end.account.error \in {y.account.error, <<"cleanup", i>>}
    BY <2>2, <2>3, <2>4 DEF DisconnectsSeen, Account
  <2>5. ASSUME NEW done, end = [y EXCEPT !.pending = @ \o done]
        PROVE  end.account.error = y.account.error
    BY <2>3, <2>5
  <2> QED BY <2>1, <2>2, <2>4, <2>5
<1>9. end \in Worlds
  BY <1>7 DEF Answered, Outer
<1> HIDE DEF end
<1>10. v.account = end.account
  BY <1>9 DEF EndedIn, Worlds
<1> QED BY <1>1, <1>2, <1>6, <1>7, <1>8, <1>10 DEF Answered, Active

LEMMA ReadyStill ==
  ASSUME NEW w, NEW i, Shaped(w)
  PROVE  LET a == SelectReady(w, i).account
         IN /\ a.state = "connecting" => w.account.state = "connecting"
            /\ a.error = w.account.error
<1> DEFINE u == [w EXCEPT !.connection[i].phase = "Ready"]
           v == [u EXCEPT !.connection[i].chosen = TRUE]
           x == [v EXCEPT !.account.probe = FALSE, !.account.state = "connected",
                          !.account.recoveries = 0]
<1>1. SelectReady(w, i) \in {v, CompleteConnect(v, i, FALSE), CompleteConnect(x, i, TRUE)}
  BY DEF SelectReady, NotifyReady
<1>2. /\ Shaped(v) /\ v.account = w.account
      /\ Shaped(x) /\ x.account.state = "connected" /\ x.account.error = w.account.error
  BY DEF Shaped
<1> HIDE DEF v, x
<1>3. /\ CompleteConnect(v, i, FALSE).account.error = v.account.error
      /\ CompleteConnect(v, i, FALSE).account.state = "connecting"
           => v.account.state = "connecting"
  BY <1>2 DEF Shaped, CompleteConnect, ConnectFailedSeen
<1>4. /\ CompleteConnect(x, i, TRUE).account.error = x.account.error
      /\ CompleteConnect(x, i, TRUE).account.state # "connecting"
  BY <1>2 DEF Shaped, CompleteConnect, ConnectFailedSeen
<1> QED BY <1>1, <1>2, <1>3, <1>4

\* In a step, of the connection i
NotMisled(i) ==
  /\ account.error = <<"runtime", i>> => account'.error # <<"cleanup", i>>
  /\ connections[i].source /\ ~connections'[i].source
     /\ account.state # "connecting" /\ account'.state = "connecting"
     => connections[i].connect \in {"connected", "failed"}

LEMMA TheWorldIsShaped ==
  ASSUME IInv, NEW sync \in BOOLEAN
  PROVE  Shaped(World(sync)) /\ World(sync).account = account
  BY WorldNow DEF Shaped, Worlds, Account

\* An account with the error of a failure is not active.
LEMMA FailedIsInactive ==
  ASSUME IInv, NEW i \in Ids, account.error = <<"runtime", i>>
  PROVE  ~Active(account) /\ account.state # "connecting"
<1>1. /\ Inv(World(FALSE)) /\ World(FALSE).account = account
  BY WorldNow
<1>2. ErrorKept(World(FALSE), i)
  BY <1>1 DEF Inv, At
<1> QED BY <1>1, <1>2 DEF ErrorKept, Active

LEMMA StillTells ==
  ASSUME IInv, NEW sync \in BOOLEAN, NEW v, Still(World(sync), v), Become(v), NEW i \in Ids
  PROVE  NotMisled(i)
<1>1. World(sync).account = account
  BY WorldNow
<1>2. account.error = <<"runtime", i>> => account'.error = account.error
  BY <1>1, FailedIsInactive DEF Still, Become
<1>3. account'.state = "connecting" => account.state = "connecting"
  BY <1>1 DEF Still, Become
<1> QED BY <1>2, <1>3 DEF NotMisled

LEMMA AccountUnchanged ==
  ASSUME NEW i, account' = account
  PROVE  NotMisled(i)
  BY DEF NotMisled

LEMMA QuietStepsOfAccount ==
  ASSUME IInv, UserDisconnects \/ UserDisables \/ UserEnables, NEW i \in Ids
  PROVE  NotMisled(i)
<1>1. CASE UserDisconnects
  <2>1. PICK sync \in BOOLEAN : Step(PurpleDisconnect(World(sync), FALSE))
    BY <1>1 DEF UserDisconnects
  <2>2. Still(World(sync), PurpleDisconnect(World(sync), FALSE))
    BY TheWorldIsShaped, PurpleDisconnectStill
  <2> QED BY <2>1, <2>2, StillTells DEF Step
<1>2. CASE UserDisables
  <2>1. PICK sync \in BOOLEAN :
          LET w == [World(sync) EXCEPT !.account.enabled = FALSE]
          IN Step(IF account.conn = 0 THEN w ELSE PurpleDisconnect(w, FALSE))
    BY <1>2 DEF UserDisables
  <2> DEFINE u == World(sync)
             w == [u EXCEPT !.account.enabled = FALSE]
             v == IF account.conn = 0 THEN w ELSE PurpleDisconnect(w, FALSE)
  <2>2. Shaped(u) /\ Step(v)
    BY <2>1, TheWorldIsShaped
  <2> HIDE DEF u
  <2>3. Still(u, w)
    BY <2>2 DEF Still, Shaped, Active
  <2> HIDE DEF w
  <2>4. Still(w, v)
    BY <2>3, PurpleDisconnectStill, StillItself DEF Still
  <2> HIDE DEF v
  <2>5. Still(u, v)
    BY <2>3, <2>4, StillComposes
  <2> QED BY <2>2, <2>5, StillTells DEF Step, u
<1>3. CASE UserEnables
  <2> DEFINE u == World(FALSE)
             w == [u EXCEPT !.account.enabled = TRUE]
  <2>1. Shaped(u) /\ Step(w)
    BY <1>3, TheWorldIsShaped DEF UserEnables
  <2> HIDE DEF u
  <2>2. Still(u, w)
    BY <2>1 DEF Still, Shaped, Active
  <2> HIDE DEF w
  <2> QED BY <2>1, <2>2, StillTells DEF Step, u
<1> QED BY <1>1, <1>2, <1>3

LEMMA QuietCancellation ==
  ASSUME IInv, NEW j \in Ids, NEW i \in Ids,
         \/ PrepareUnload(j) \/ ForeignCancel(j) \/ OwnerCancel(j)
         \/ DeferredCancel(j) \/ Dispose(j)
  PROVE  NotMisled(i)
<1>1. ASSUME NEW u, Shaped(u) PROVE Still(u, Cancel(u, j)) /\ Still(u, u)
  BY <1>1, CloseStill, StillItself DEF Cancel
<1>2. ASSUME NEW sync \in BOOLEAN, NEW u, u.account = account, DOMAIN u = DOMAIN World(sync),
             NEW v \in {u, Cancel(u, j)}, Step(v)
      PROVE  NotMisled(i)
  <2> DEFINE w == World(sync)
  <2>1. Shaped(w) /\ w.account = account
    BY TheWorldIsShaped
  <2>2. w = World(sync)
    OBVIOUS
  <2> HIDE DEF w
  <2>3. Still(w, u)
    BY <1>2, <2>1, <2>2, StillWith
  <2>4. Still(u, v)
    BY <1>1, <1>2, <2>3 DEF Still
  <2>5. Still(w, v)
    BY <2>3, <2>4, StillComposes
  <2> QED BY <1>2, <2>2, <2>5, StillTells DEF Step
<1>3. \A sync \in BOOLEAN : {"account", "connection"} \subseteq DOMAIN World(sync)
                            /\ World(sync).account = account
  BY DEF World
<1>4. CASE PrepareUnload(j)
  <2>1. PICK sync \in BOOLEAN : Step(Cancel(World(sync), j))
    BY <1>4 DEF PrepareUnload
  <2> QED BY <1>2, <1>3, <2>1
<1>5. CASE ForeignCancel(j)
  BY <1>5, AccountUnchanged DEF ForeignCancel
<1>6. CASE OwnerCancel(j)
  <2>1. PICK sync \in BOOLEAN :
          LET w == [World(sync) EXCEPT !.connection[j].cancelled = TRUE]
          IN Step(IF connections[j].watching THEN Cancel(w, j) ELSE w)
    BY <1>6 DEF OwnerCancel
  <2> DEFINE u == World(sync)
             w == [u EXCEPT !.connection[j].cancelled = TRUE]
             v == IF connections[j].watching THEN Cancel(w, j) ELSE w
  <2>2. Step(v) /\ v \in {w, Cancel(w, j)}
    BY <2>1
  <2>3. u = World(sync)
    OBVIOUS
  <2> HIDE DEF u, v
  <2>4. w.account = account /\ DOMAIN w = DOMAIN u
    BY <1>3, <2>3
  <2> HIDE DEF w
  <2> QED BY <1>2, <2>2, <2>3, <2>4
<1>7. CASE DeferredCancel(j)
  <2>1. PICK sync \in BOOLEAN :
          Step(Cancel([World(sync) EXCEPT !.connection[j].deferred = FALSE], j))
    BY <1>7 DEF DeferredCancel
  <2> DEFINE u == World(sync)
             w == [u EXCEPT !.connection[j].deferred = FALSE]
  <2>2. Step(Cancel(w, j)) /\ u = World(sync)
    BY <2>1
  <2> HIDE DEF u
  <2>3. w.account = account /\ DOMAIN w = DOMAIN u
    BY <1>3, <2>2
  <2> HIDE DEF w
  <2> QED BY <1>2, <2>2, <2>3
<1>8. CASE Dispose(j)
  BY <1>8, <1>3, AccountUnchanged DEF Dispose, Step, Become
<1> QED BY <1>4, <1>5, <1>6, <1>7, <1>8

LEMMA QuietSession ==
  ASSUME IInv, NEW j \in Ids, NEW i \in Ids,
         \/ OthersDisconnect(j) \/ LoginEnds(j) \/ \E state \in Lifecycle : Update(j, state)
         \/ SignOutTimesOut(j) \/ BackendFails(j)
  PROVE  NotMisled(i)
<1>1. \A sync \in BOOLEAN : Shaped(World(sync))
  BY TheWorldIsShaped
<1>2. CASE OthersDisconnect(j)
  <2>1. PICK sync \in BOOLEAN : Step(DisconnectAsync(World(sync), j, FALSE, FALSE))
    BY <1>2 DEF OthersDisconnect
  <2>2. Still(World(sync), DisconnectAsync(World(sync), j, FALSE, FALSE))
    BY <1>1, DisconnectStill
  <2> QED BY <2>1, <2>2, StillTells DEF Step
<1>3. CASE LoginEnds(j)
  <2>1. PICK sync \in BOOLEAN :
          \/ Step(CancelLogin(World(sync), j))
          \/ Step(AuthorizationFailed(
                    [World(sync) EXCEPT !.connection[j].login = "failed"], j))
    BY <1>3 DEF LoginEnds
  <2> DEFINE w == World(sync)
             u == [w EXCEPT !.connection[j].login = "failed"]
  <2>2. Step(CancelLogin(w, j)) \/ Step(AuthorizationFailed(u, j))
    BY <2>1
  <2>3. Shaped(w) /\ w = World(sync)
    BY <1>1
  <2> HIDE DEF w
  <2>4. Still(w, u)
    BY <2>3, StillWith DEF Shaped
  <2> HIDE DEF u
  <2>5. Still(w, CancelLogin(w, j)) /\ Still(u, AuthorizationFailed(u, j))
    BY <2>3, <2>4, CloseStill, FailureStill DEF Still
  <2>6. Still(w, AuthorizationFailed(u, j))
    BY <2>4, <2>5, StillComposes
  <2> QED BY <2>2, <2>3, <2>5, <2>6, StillTells DEF Step
<1>4. CASE \E state \in Lifecycle : Update(j, state)
  <2>1. PICK state \in Lifecycle, sync \in BOOLEAN, timed \in BOOLEAN :
          Step(ProcessUpdate(World(sync), j, state, timed))
    BY <1>4 DEF Update
  <2>2. Still(World(sync), ProcessUpdate(World(sync), j, state, timed))
    BY <1>1, UpdateStill
  <2> QED BY <2>1, <2>2, StillTells DEF Step
<1>5. CASE SignOutTimesOut(j) \/ BackendFails(j)
  <2>1. PICK sync \in BOOLEAN : Step(World(sync)) \/ Step(AuthorizationFailed(World(sync), j))
    BY <1>5 DEF SignOutTimesOut, BackendFails, BackendFailed
  <2>2. /\ Still(World(sync), World(sync))
        /\ Still(World(sync), AuthorizationFailed(World(sync), j))
    BY <1>1, FailureStill, StillItself
  <2> QED BY <2>1, <2>2, StillTells DEF Step
<1> QED BY <1>2, <1>3, <1>4, <1>5

LEMMA QuietLogin ==
  ASSUME IInv, NEW i \in Ids, Unwatch \/ SelectOutcome \/ \E j \in Ids : LoginReady(j)
  PROVE  NotMisled(i)
<1>1. \A sync \in BOOLEAN : Shaped(World(sync)) /\ World(sync).account = account
  BY TheWorldIsShaped
<1>2. CASE Unwatch
  BY <1>2, AccountUnchanged DEF Unwatch
<1>3. CASE \E j \in Ids : LoginReady(j)
  <2>1. PICK j \in Ids, sync \in BOOLEAN :
          LET w == [World(sync) EXCEPT !.connection[j].login = "ready"]
          IN Become(GiveUp(w, j)) \/ Become(w)
    BY <1>3 DEF LoginReady, Step
  <2> DEFINE w == World(sync)
             u == [w EXCEPT !.connection[j].login = "ready"]
  <2>2. Become(GiveUp(u, j)) \/ Become(u)
    BY <2>1
  <2>3. Shaped(w) /\ w = World(sync)
    BY <1>1
  <2> HIDE DEF w
  <2>4. Still(w, u)
    BY <2>3, StillWith DEF Shaped
  <2> HIDE DEF u
  <2>5. Still(u, GiveUp(u, j))
    BY <2>4, CloseStill DEF Still
  <2>6. Still(w, GiveUp(u, j))
    BY <2>4, <2>5, StillComposes
  <2> QED BY <2>2, <2>3, <2>4, <2>6, StillTells
<1>4. CASE SelectOutcome
  <2>1. PICK sync \in BOOLEAN : \/ Become(GiveUp(World(sync), readying.conn))
                                \/ Become(SelectReady(World(sync), readying.conn))
    BY <1>4 DEF SelectOutcome
  <2>2. CASE Become(GiveUp(World(sync), readying.conn))
    <3>1. Still(World(sync), GiveUp(World(sync), readying.conn))
      BY <1>1, CloseStill
    <3> QED BY <2>2, <3>1, StillTells
  <2>3. CASE Become(SelectReady(World(sync), readying.conn))
    <3> DEFINE v == SelectReady(World(sync), readying.conn)
    <3>1. /\ v.account.state = "connecting" => account.state = "connecting"
          /\ v.account.error = account.error
      BY <1>1, ReadyStill
    <3> QED BY <2>3, <3>1 DEF NotMisled, Become
  <2> QED BY <2>1, <2>2, <2>3
<1> QED BY <1>2, <1>3, <1>4

\* The cleanup of a failure says that it succeeded.
LEMMA CompletionTells ==
  ASSUME IInv, TaskCompletes, NEW i \in Ids
  PROVE  NotMisled(i)
<1> DEFINE w == World(FALSE)
           task == Head(w.pending)
           k == task.conn
           u == [w EXCEPT !.pending = Tail(@)]
<1>1. /\ Inv(w) /\ w \in Worlds /\ w.account = account /\ w.pending = pending /\ Shaped(w)
  BY WorldNow, TheWorldIsShaped
<1>2. /\ w.pending # <<>>
      /\ Step(IF task.of = "connect" THEN ConnectFailedSeen(u, k)
              ELSE DisconnectsSeen(u, k, {task}))
  BY <1>1 DEF TaskCompletes
<1> HIDE DEF w
<1>3. Shaped(u) /\ u.account = account
  BY <1>1 DEF Shaped
<1>4. /\ task \in Completions /\ 1 \in DOMAIN w.pending /\ w.pending[1] = task
  <2>1. w.pending \in Seq(Completions)
    BY <1>1 DEF Worlds
  <2> QED BY <1>2, <2>1, OldestSeen
<1> HIDE DEF task, u
<1>5. CASE task.of = "connect"
  <2> DEFINE v == ConnectFailedSeen(u, k)
  <2>1. v.account.error = account.error /\ v.account.state # "connecting"
    BY <1>3 DEF ConnectFailedSeen, Shaped
  <2>2. Step(v)
    BY <1>2, <1>5
  <2> HIDE DEF v
  <2> QED BY <2>1, <2>2 DEF NotMisled, Step, Become
<1>6. CASE task.of = "disconnect"
  <2> DEFINE v == DisconnectsSeen(u, k, {task})
  <2>1. /\ v.account.state = "connecting" => account.state = "connecting"
        /\ \/ v.account.error = account.error
           \/ v.account.error = <<"cleanup", k>> /\ task.ours /\ ~task.ok
    BY <1>3 DEF DisconnectsSeen, Shaped
  <2>2. Step(v)
    BY <1>2, <1>6
  <2> HIDE DEF v
  <2>3. account.error = <<"runtime", i>> => v.account.error # <<"cleanup", i>>
    <3> SUFFICES ASSUME account.error = <<"runtime", i>>, v.account.error = <<"cleanup", i>>
                 PROVE  FALSE
      OBVIOUS
    <3>1. k = i /\ task.ours /\ ~task.ok
      BY <2>1
    <3>2. 1 \in Waits(w, i, "disconnect")
      BY <1>4, <1>6, <3>1 DEF Waits
    <3>3. ErrorKept(w, i)
      BY <1>1 DEF Inv, At
    <3> QED BY <1>1, <1>4, <3>1, <3>2, <3>3 DEF ErrorKept
  <2> QED BY <2>1, <2>2, <2>3 DEF NotMisled, Step, Become
<1> QED BY <1>4, <1>5, <1>6 DEF Completions

LEMMA EndTells ==
  ASSUME IInv, NEW j \in Ids, BackendCloses(j), NEW i \in Ids
  PROVE  NotMisled(i)
<1>1. PICK sync \in BOOLEAN, result \in Results : Step(BackendClosed(World(sync), j, result))
  BY DEF BackendCloses
<1> DEFINE w == World(sync)
           c == w.connection[j]
           v == BackendClosed(w, j, result)
<1>2. /\ Inv(w) /\ w \in Worlds /\ w.account = account /\ Shaped(w) /\ w = World(sync)
  BY WorldNow, TheWorldIsShaped
<1>3. Step(v)
  BY <1>1
<1> HIDE DEF w
<1>4. CASE ~c.explicit
  <2>1. Still(w, v)
    BY <1>2, <1>4, EndStill
  <2> QED BY <1>2, <1>3, <2>1, StillTells DEF Step
<1>5. CASE c.explicit
  <2>1. ~c.signOut /\ ErrorKept(w, j)
    BY <1>2, <1>5 DEF Inv, At, Local, SignOutOK
  <2>2. /\ v.account.state = "connecting" => w.account.state = "connecting"
        /\ v.account.error \in {w.account.error, <<"cleanup", j>>}
        /\ (\A k \in DOMAIN c.tasks : c.tasks[k].ours => c.tasks[k].preserve)
             => v.account.error = w.account.error
    BY <1>2, <1>5, <2>1, AwaitedEndStill
  <2>3. account.error = <<"runtime", i>> => v.account.error # <<"cleanup", i>>
    <3>1. CASE i = j
      BY <1>2, <2>1, <2>2, <3>1 DEF ErrorKept
    <3>2. CASE i # j
      BY <1>2, <2>2, <3>2
    <3> QED BY <3>1, <3>2
  <2> QED BY <1>2, <1>3, <2>2, <2>3 DEF NotMisled, Step, Become
<1> QED BY <1>4, <1>5

\* A restart connects the account when the failure of the connect before has been seen.
LEMMA RestartTells ==
  ASSUME IInv, NEW j \in Ids, NEW late \in BOOLEAN, RecoveryTimer(j, late), NEW i \in Ids
  PROVE  NotMisled(i)
<1>1. PICK sync \in BOOLEAN : Step(Recover(World(sync), j, late))
  BY DEF RecoveryTimer
<1> DEFINE w == World(sync)
           c == w.connection[j]
           yes == TRUE
           no == FALSE
           x == CompleteConnect(w, j, FALSE)
           y == [w EXCEPT !.connection[j].source = FALSE]
           v == Recover(w, j, late)
<1>2. /\ Inv(w) /\ w \in Worlds /\ w.account = account /\ w.connection = connections
      /\ Shaped(w) /\ w.pending = pending /\ w = World(sync)
  BY WorldNow, TheWorldIsShaped
<1>3. Step(v) /\ c.source /\ w.pending = <<>>
  BY <1>1, <1>2 DEF RecoveryTimer
<1>4. yes \in BOOLEAN /\ no \in BOOLEAN
  OBVIOUS
<1>5. \/ v \in {AbortReauthorization(w, j, no), AbortReauthorization(w, j, yes)}
      \/ v \in {w, WaitSet(x, j, TRUE), WaitSet(w, j, FALSE)}
      \/ v = Connecting(y) /\ c.connect # "pending"
  BY Zenon DEF Recover, AnswerAndWait, WaitSet
<1> HIDE DEF w, v, yes, no
<1>6. CASE v \in {AbortReauthorization(w, j, no), AbortReauthorization(w, j, yes)}
  <2>1. /\ v.account.state = "connecting" => w.account.state = "connecting"
        /\ ~Active(w.account) => v.account.error \in {w.account.error, <<"restart", j>>}
    BY <1>2, <1>4, <1>6, AbortStill
  <2> QED BY <1>2, <1>3, <2>1, FailedIsInactive DEF NotMisled, Step, Become
<1>7. CASE v \in {w, WaitSet(x, j, TRUE), WaitSet(w, j, FALSE)}
  <2>1. Still(w, x) /\ Still(w, w)
    BY <1>2, ConnectStill, StillItself
  <2> HIDE DEF x
  <2>2. Still(w, WaitSet(w, j, FALSE)) /\ Still(x, WaitSet(x, j, TRUE))
    BY <1>2, <2>1, StillWith DEF WaitSet, Shaped, Still
  <2>3. Still(w, v)
    BY <1>7, <2>1, <2>2, StillComposes
  <2> QED BY <1>2, <1>3, <2>3, StillTells DEF Step
<1>8. CASE v = Connecting(y) /\ c.connect # "pending"
  <2>1. /\ v.account.error = NoError
        /\ \A k \in Ids \ {j} : v.connection[k] = w.connection[k]
    BY <1>2, <1>8 DEF Connecting, Worlds, Account
  <2>2. c.connect \in {"connected", "failed"}
    <3>1. c \in Connection /\ At(w, j)
      BY <1>2, WorldParts DEF Inv
    <3>2. c.connect # "none"
      BY <1>3, <3>1 DEF At, Local, SignOutOK
    <3>3. c.connect # "returned"
      BY <1>3, <3>1 DEF At, CompletionsOK, Waits
    <3> QED BY <1>8, <3>1, <3>2, <3>3 DEF Connection
  <2>3. NoError # <<"cleanup", i>>
    BY DEF NoError
  <2> QED BY <1>2, <1>3, <2>1, <2>2, <2>3 DEF NotMisled, Step, Become
<1> QED BY <1>5, <1>6, <1>7, <1>8

LEMMA ConnectTells ==
  ASSUME IInv, AccountConnects \/ ConnectAsync, NEW i \in Ids
  PROVE  NotMisled(i)
<1>1. CASE ConnectAsync
  BY <1>1, FailedIsInactive DEF ConnectAsync, NotMisled
<1>2. CASE AccountConnects
  <2> DEFINE w == World(FALSE)
             u == [w EXCEPT !.account.recoveries = 0,
                            !.account.byHand = @ \/ \E j \in Ids : connections[j].source]
             v == Connecting(u)
  <2>1. /\ Shaped(w) /\ {"account", "connection"} \subseteq DOMAIN w
        /\ w.connection = connections
    BY TheWorldIsShaped DEF World
  <2>2. Step(v)
    BY <1>2 DEF AccountConnects
  <2> HIDE DEF w
  <2>3. v.account.error = NoError /\ v.connection = connections
    BY <2>1 DEF Connecting, Shaped
  <2> HIDE DEF v
  <2> QED BY <2>2, <2>3 DEF NotMisled, NoError, Step, Become
<1> QED BY <1>1, <1>2

LEMMA StepsTell == IInv /\ [Next]_vars => [\A i \in Ids : NotMisled(i)]_vars
<1> SUFFICES ASSUME IInv, Next, NEW i \in Ids PROVE NotMisled(i)
  OBVIOUS
<1>1. CASE AccountConnects \/ ConnectAsync
  BY <1>1, ConnectTells
<1>2. CASE TaskCompletes
  BY <1>2, CompletionTells
<1>3. CASE UserDisconnects \/ UserDisables \/ UserEnables
  BY <1>3, QuietStepsOfAccount
<1>4. CASE Unwatch \/ SelectOutcome
  BY <1>4, QuietLogin
<1>5. ASSUME NEW j \in Ids,
             PrepareUnload(j) \/ ForeignCancel(j) \/ OwnerCancel(j) \/ DeferredCancel(j)
             \/ Dispose(j)
      PROVE  NotMisled(i)
  BY <1>5, QuietCancellation
<1>6. ASSUME NEW j \in Ids,
             \/ OthersDisconnect(j) \/ LoginEnds(j)
             \/ \E state \in Lifecycle : Update(j, state)
             \/ SignOutTimesOut(j) \/ BackendFails(j)
      PROVE  NotMisled(i)
  BY <1>6, QuietSession
<1>7. ASSUME NEW j \in Ids, LoginReady(j) PROVE NotMisled(i)
  BY <1>7, QuietLogin
<1>8. ASSUME NEW j \in Ids, BackendCloses(j) \/ \E late \in BOOLEAN : RecoveryTimer(j, late)
      PROVE  NotMisled(i)
  BY <1>8, EndTells, RestartTells
<1> QED BY <1>1, <1>2, <1>3, <1>4, <1>5, <1>6, <1>7, <1>8 DEF Next

\* The error of a failure is not replaced by one of the cleanup after it, and a restart
\* connects the account when the failure of the connect before has been seen.
THEOREM NothingMisleads == Spec => AccountNotMisled
<1>1. Spec => []IInv /\ [][Next]_vars
  BY AlwaysIInv DEF Spec
<1>2. IInv /\ [Next]_vars => [\A i \in Ids : NotMisled(i)]_vars
  BY StepsTell
<1>3. Spec => [][\A i \in Ids : NotMisled(i)]_vars
  BY <1>1, <1>2, PTL
<1> QED BY <1>3 DEF AccountNotMisled, NotMisled

===============================================================================
