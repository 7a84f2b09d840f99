---------------------------- MODULE SessionsProofs ----------------------------
(***************************************************************************)
(* Proofs about Sessions, for any clients, fingerprints, number of         *)
(* requests and crashes: a conversation has one session at a time, the     *)
(* resolution implements the registry of SessionRegistry, turns that run   *)
(* alone are numbered above the traced ones, and settings are kept.        *)
(*                                                                         *)
(* The invariant has three layers.  TypeOK and TasksSound say what each    *)
(* request knows where it stands.  OneRow rests on the creation lock: the  *)
(* request that creates a row heads the queue of its fingerprint and saw   *)
(* no row of it.  TurnsSound and SettingsSound follow the one request of   *)
(* an unspoiled session through the reads and writes of its row.           *)
(***************************************************************************)
EXTENDS Sessions, SequenceTheorems, TLAPS

-----------------------------------------------------------------------------
(* The invariant.                                                          *)

Names == UNION {q.cfg : q \in Queries}

Row == [print : Prints \cup {None}, turn : Nat, expired : BOOLEAN, cfg : SUBSET Names]

Before    == {"byId", "byPrint", "locked", "create"}
Reconcile == {"trace", "behind", "advance"}
Later     == {"merge", "store", "load"}
After     == Reconcile \cup {"touch", "turn"} \cup Later
Places    == {"idle", "serve"} \cup Before \cup After

Task == [pc : Places, q : Queries \cup {None}, sid : Ids \cup {None},
         isNew : BOOLEAN, left : Int, turn : Nat, cfg : SUBSET Names]

TypeOK ==
  /\ db \in [Ids -> Row \cup {None}]
  /\ aged \subseteq Ids
  /\ lock \in [Prints -> Seq(Requests)]
  /\ reconciled \in Seq(Ids)
  /\ traced \in [Ids -> Int]
  /\ req \in [Requests -> Task]
  /\ cleanup \in {"sleep", "delete"}
  /\ minted \in 0..MaxMinted /\ arrivals \in 0..MaxArrivals /\ crashes \in Nat
  /\ spoiled \subseteq Ids
  /\ asked \in [Ids -> SUBSET Names]

\* What a request knows where it stands.
TaskSound(t) ==
  /\ t.pc # "idle" => t.q \in Queries
  /\ t.pc = "idle" => t.sid = None
  /\ t.pc \in Before => t.sid = None /\ ~t.isNew /\ t.cfg = {}
  /\ t.pc \in After => t.sid \in Ids
  /\ t.pc \in Reconcile \cup {"touch"} => ~t.isNew
  /\ t.pc = "byId" => HasId(t.q)
  /\ t.pc \in {"byPrint", "locked"} => HasPrint(t.q)
  /\ t.pc \in {"store", "serve"} => t.cfg \cap Denied = {}

TasksSound ==
  \A r \in Requests : TaskSound(req[r]) /\ (r > arrivals => req[r].pc = "idle")

\* Request r, with record t, is in the queue of a creation lock.
Waiting(t) == t.pc \in {"locked", "create"} /\ HasPrint(t.q)
Queued(r) == Waiting(req[r])

LockSound ==
  /\ \A p \in Prints : \A n \in 1..Len(lock[p]) :
       /\ Queued(lock[p][n]) /\ Fingerprint(req[lock[p][n]].q) = p
       /\ At(lock[p][n], "create") => n = 1
       /\ \A k \in 1..Len(lock[p]) : lock[p][k] = lock[p][n] => k = n
  /\ \A r \in Requests : Queued(r) =>
       \E n \in 1..Len(lock[Fingerprint(req[r].q)]) : lock[Fingerprint(req[r].q)][n] = r

\* A conversation has one row, and none while a request is to create it.
OneRow ==
  /\ \A s1, s2 \in Rows : db[s1].print = db[s2].print /\ db[s1].print # None => s1 = s2
  /\ \A s \in Rows : s \in ExplicitIds => db[s].print = None
  /\ \A s \in Rows : s \notin ExplicitIds => s <= minted
  /\ \A r \in Requests :
       At(r, "create") /\ HasPrint(req[r].q) => RowOf(Fingerprint(req[r].q)) = {}

\* Where the one request t of an unspoiled session stands, with its row and the
\* highest turn in the traces.
TurnSound(t, row, top) ==
  /\ t.pc = "behind" => t.left = top
  /\ t.pc = "advance" => t.left >= 1 /\ row.turn + t.left = top
  /\ t.pc = "touch" => row.turn >= top
  /\ t.pc = "turn" /\ ~t.isNew => row.turn >= top /\ (t.q.user => row.turn > top)
  /\ t.pc \in Later \cup {"serve"} =>
       t.turn <= row.turn /\ (~t.isNew /\ t.q.user => t.turn > top)
  /\ t.pc = "store" => t.cfg = row.cfg

SessionSound(s) ==
  /\ \A r1, r2 \in InFlight(s) : r1 = r2
  /\ \A r \in InFlight(s) : db[s] # None /\ TurnSound(req[r], db[s], traced[s])
  /\ Contains(reconciled, s) => db[s] # None
  /\ Contains(reconciled, s) /\ (\A r \in InFlight(s) : req[r].pc \notin Reconcile) =>
       db[s].turn >= traced[s]
  /\ db[s] # None => asked[s] \ Denied \subseteq db[s].cfg

TurnsSound == \A s \in Ids \ spoiled : SessionSound(s)

SettingsSound == \A s \in Rows : db[s].cfg \cap Denied = {}

IInv == /\ TypeOK /\ TasksSound
        /\ LockSound /\ OneRow
        /\ TurnsSound /\ SettingsSound

-----------------------------------------------------------------------------
(* Requests.                                                               *)

LEMMA ConstantsAre ==
  /\ None \notin Ids /\ None \notin Prints /\ None \notin Row
  /\ ExplicitIds \subseteq Ids /\ 1..MaxMinted \subseteq Ids
  /\ MaxMinted \in Nat /\ MaxArrivals \in Nat /\ MaxMarks \in Nat \ {0}
  /\ \A s \in Ids \ ExplicitIds : s \in 1..MaxMinted
BY SessionBounds, SessionNames DEF Ids, Row, Names

LEMMA QueryIs ==
  ASSUME NEW q \in Queries
  PROVE  /\ HasId(q) => q.id \in ExplicitIds
         /\ HasPrint(q) => Fingerprint(q) \in Prints
         /\ q.user \in BOOLEAN
         /\ q.cfg \subseteq Names /\ Applied(q) \subseteq Names
         /\ AfterReconcile(q) \in {"touch", "turn"}
         /\ AfterReconcile(q) = "turn" <=> ~q.user
BY SessionNames DEF HasId, HasPrint, Fingerprint, Names, Applied, AfterReconcile

\* Slot r of the requests now holds t.
Becomes(r, t) == t \in Task /\ TaskSound(t) /\ req' = [req EXCEPT ![r] = t]

\* u is t but for its place.
Same(t, u) ==
  /\ t.q = u.q /\ t.sid = u.sid /\ t.isNew = u.isNew /\ t.left = u.left
  /\ t.turn = u.turn /\ t.cfg = u.cfg

LEMMA ReqIs ==
  ASSUME TypeOK, TasksSound, NEW r \in Requests
  PROVE  req[r] \in Task /\ TaskSound(req[r])
BY DEF TypeOK, TasksSound

LEMMA ChangePc ==
  ASSUME TypeOK, NEW r \in Requests, NEW p \in Places, Goto(r, p)
  PROVE  \E t \in Task :
           req' = [req EXCEPT ![r] = t] /\ t.pc = p /\ Same(t, req[r])
<1>. DEFINE old == req[r]
            t == [old EXCEPT !.pc = p]
<1>1. old \in Task
  BY DEF TypeOK
<1>2. t \in Task /\ t.pc = p /\ Same(t, old)
  BY <1>1 DEF Task, Same
<1>3. req' = [req EXCEPT ![r] = t]
  BY DEF Goto
<1>4. QED
  BY <1>2, <1>3

LEMMA ChangeNew ==
  ASSUME TypeOK, NEW r \in Requests, NEW s \in Ids,
         req' = [req EXCEPT ![r].sid = s, ![r].isNew = TRUE, ![r].pc = "turn"]
  PROVE  \E t \in Task :
           /\ req' = [req EXCEPT ![r] = t] /\ t.pc = "turn" /\ t.sid = s
           /\ t.q = req[r].q /\ t.isNew /\ t.cfg = req[r].cfg
<1>. DEFINE old == req[r]
            t == [old EXCEPT !.sid = s, !.isNew = TRUE, !.pc = "turn"]
<1>1. old \in Task
  BY DEF TypeOK
<1>2. t \in Task /\ t.pc = "turn" /\ t.sid = s /\ t.q = old.q /\ t.isNew
      /\ t.cfg = old.cfg
  BY <1>1 DEF Task, Places, After
<1>3. req' = [req EXCEPT ![r] = t]
  BY DEF TypeOK
<1>4. QED
  BY <1>2, <1>3

SetLeft(r, k, p) == req' = [req EXCEPT ![r].left = k, ![r].pc = p]
SetTurn(r, n, p) == req' = [req EXCEPT ![r].turn = n, ![r].pc = p]
SetCfg(r, c, p) ==
  \/ req' = [req EXCEPT ![r].cfg = c, ![r].pc = p]
  \/ req' = [req EXCEPT ![r].pc = p, ![r].cfg = c]

LEMMA ChangeLeft ==
  ASSUME TypeOK, NEW r \in Requests, NEW p \in Places, NEW k \in Int,
         SetLeft(r, k, p)
  PROVE  \E t \in Task :
           /\ req' = [req EXCEPT ![r] = t] /\ t.pc = p /\ t.left = k
           /\ t.q = req[r].q /\ t.sid = req[r].sid /\ t.isNew = req[r].isNew
<1>. DEFINE old == req[r]
            t == [old EXCEPT !.left = k, !.pc = p]
<1>1. old \in Task
  BY DEF TypeOK
<1>2. t \in Task /\ t.pc = p /\ t.left = k /\ t.q = old.q /\ t.sid = old.sid
      /\ t.isNew = old.isNew
  BY <1>1 DEF Task
<1>3. req' = [req EXCEPT ![r] = t]
  BY DEF TypeOK, SetLeft
<1>4. QED
  BY <1>2, <1>3

LEMMA ChangeTurn ==
  ASSUME TypeOK, NEW r \in Requests, NEW p \in Places, NEW n \in Nat,
         SetTurn(r, n, p)
  PROVE  \E t \in Task :
           /\ req' = [req EXCEPT ![r] = t] /\ t.pc = p /\ t.turn = n
           /\ t.q = req[r].q /\ t.sid = req[r].sid /\ t.isNew = req[r].isNew
<1>. DEFINE old == req[r]
            t == [old EXCEPT !.turn = n, !.pc = p]
<1>1. old \in Task
  BY DEF TypeOK
<1>2. t \in Task /\ t.pc = p /\ t.turn = n /\ t.q = old.q /\ t.sid = old.sid
      /\ t.isNew = old.isNew
  BY <1>1 DEF Task
<1>3. req' = [req EXCEPT ![r] = t]
  BY DEF TypeOK, SetTurn
<1>4. QED
  BY <1>2, <1>3

LEMMA ChangeCfg ==
  ASSUME TypeOK, NEW r \in Requests, NEW p \in Places, NEW c \in SUBSET Names,
         SetCfg(r, c, p)
  PROVE  \E t \in Task :
           /\ req' = [req EXCEPT ![r] = t] /\ t.pc = p /\ t.cfg = c
           /\ t.q = req[r].q /\ t.sid = req[r].sid /\ t.isNew = req[r].isNew
           /\ t.turn = req[r].turn
<1>. DEFINE old == req[r]
            t == [old EXCEPT !.cfg = c, !.pc = p]
            u == [old EXCEPT !.pc = p, !.cfg = c]
<1>1. old \in Task
  BY DEF TypeOK
<1>2. t \in Task /\ t.pc = p /\ t.cfg = c /\ t.q = old.q /\ t.sid = old.sid
      /\ t.isNew = old.isNew /\ t.turn = old.turn
  BY <1>1 DEF Task
<1>3. u \in Task /\ u.pc = p /\ u.cfg = c /\ u.q = old.q /\ u.sid = old.sid
      /\ u.isNew = old.isNew /\ u.turn = old.turn
  BY <1>1 DEF Task
<1>4. req' = [req EXCEPT ![r] = t] \/ req' = [req EXCEPT ![r] = u]
  BY DEF TypeOK, SetCfg
<1>5. QED
  BY <1>2, <1>3, <1>4

-----------------------------------------------------------------------------
(* What the parts of the actions do.                                       *)

\* A session that was looked up counts as used; one may be forgotten for it.
LEMMA MarksIs ==
  ASSUME reconciled \in Seq(Ids), NEW s \in Ids
  PROVE  /\ Marks(s) \in Seq(Ids)
         /\ \A x : Contains(Marks(s), x) => x = s \/ Contains(reconciled, x)
<1>. DEFINE others == IF Contains(reconciled, s)
                        THEN RemoveAt(reconciled, CHOOSE n \in 1..Len(reconciled) :
                                                    reconciled[n] = s)
                        ELSE reconciled
            moved  == Append(others, s)
<1>1. others \in Seq(Ids) /\ \A x : Contains(others, x) => Contains(reconciled, x)
  <2>1. CASE Contains(reconciled, s)
    <3>1. PICK n \in 1..Len(reconciled) : others = RemoveAt(reconciled, n)
      BY <2>1 DEF Contains
    <3>. DEFINE a == SubSeq(reconciled, 1, n - 1)
                b == SubSeq(reconciled, n + 1, Len(reconciled))
    <3>2. Len(reconciled) \in Nat /\ n \in Nat
      OBVIOUS
    <3>3. \A i \in 1..Len(reconciled) : reconciled[i] \in Ids
      OBVIOUS
    <3>4. /\ a \in Seq(Ids) /\ Len(a) = n - 1
          /\ \A i \in 1..(n - 1) : a[i] = reconciled[i]
      <4>1. \A i \in 1..(n - 1) : reconciled[i] \in Ids
        BY <3>2, <3>3
      <4>2. 1 \in Int /\ n - 1 \in Int
        BY <3>2
      <4>3. /\ a \in Seq(Ids) /\ Len(a) = IF 1 <= n - 1 THEN n - 1 - 1 + 1 ELSE 0
            /\ \A i \in 1..(n - 1 - 1 + 1) : a[i] = reconciled[1 + i - 1]
        BY <4>1, <4>2, SubSeqProperties
      <4>4. QED
        BY <3>2, <4>3
    <3>5. /\ b \in Seq(Ids) /\ Len(b) = Len(reconciled) - n
          /\ \A i \in 1..(Len(reconciled) - n) : b[i] = reconciled[n + i]
      <4>1. \A i \in (n + 1)..Len(reconciled) : reconciled[i] \in Ids
        BY <3>2, <3>3
      <4>2. n + 1 \in Int /\ Len(reconciled) \in Int
        BY <3>2
      <4>3. /\ b \in Seq(Ids)
            /\ Len(b) = IF n + 1 <= Len(reconciled) THEN Len(reconciled) - (n + 1) + 1
                                                    ELSE 0
            /\ \A i \in 1..(Len(reconciled) - (n + 1) + 1) : b[i] = reconciled[n + 1 + i - 1]
        BY <4>1, <4>2, SubSeqProperties
      <4>4. QED
        BY <3>2, <4>3
    <3>6. /\ a \o b \in Seq(Ids) /\ Len(a \o b) = Len(a) + Len(b)
          /\ \A i \in 1..(Len(a) + Len(b)) :
               (a \o b)[i] = IF i <= Len(a) THEN a[i] ELSE b[i - Len(a)]
      BY <3>4, <3>5, ConcatProperties
    <3>7. others = a \o b
      BY <3>1 DEF RemoveAt
    <3>. HIDE DEF a, b, others
    <3>10. Len(others) = Len(reconciled) - 1
      <4>1. Len(others) = Len(a) + Len(b)
        BY <3>6, <3>7
      <4>2. Len(a) + Len(b) = (n - 1) + (Len(reconciled) - n)
        BY <3>4, <3>5
      <4>3. (n - 1) + (Len(reconciled) - n) = Len(reconciled) - 1
        BY <3>2
      <4>4. QED
        BY <4>1, <4>2, <4>3
    <3>8. ASSUME NEW i \in 1..Len(others)
          PROVE  \E j \in 1..Len(reconciled) : others[i] = reconciled[j]
      <4>1. CASE i <= n - 1
        <5>1. i \in 1..(n - 1) /\ i \in 1..Len(a) /\ i \in 1..(Len(a) + Len(b)) /\ i <= Len(a)
          BY <3>2, <3>4, <3>5, <3>6, <3>7, <4>1
        <5>2. others[i] = a[i]
          BY <3>6, <3>7, <5>1
        <5>3. a[i] = reconciled[i] /\ i \in 1..Len(reconciled)
          BY <3>2, <3>4, <5>1
        <5>4. QED
          BY <5>2, <5>3
      <4>2. CASE i > n - 1
        <5>1. i - (n - 1) \in 1..(Len(reconciled) - n)
          BY <3>2, <3>10, <4>2
        <5>2. others[i] = b[i - (n - 1)]
          BY <3>2, <3>4, <3>5, <3>6, <3>7, <4>2
        <5>3. others[i] = reconciled[n + (i - (n - 1))]
          BY <3>5, <5>1, <5>2
        <5>4. n + (i - (n - 1)) \in 1..Len(reconciled)
          BY <3>2, <5>1
        <5>5. QED
          BY <5>3, <5>4
      <4>3. QED
        BY <3>2, <4>1, <4>2
    <3>9. QED
      BY <3>6, <3>7, <3>8 DEF Contains
  <2>2. CASE ~Contains(reconciled, s)
    BY <2>2
  <2>3. QED
    BY <2>1, <2>2
<1>. HIDE DEF others
<1>2. moved \in Seq(Ids) /\ moved # <<>> /\ Len(moved) \in Nat
      /\ \A x : Contains(moved, x) => x = s \/ Contains(reconciled, x)
  <2>1. /\ moved \in Seq(Ids) /\ moved # <<>> /\ Len(moved) = Len(others) + 1
        /\ \A i \in 1..Len(others) : moved[i] = others[i]
        /\ moved[Len(others) + 1] = s
    BY <1>1, AppendProperties
  <2>2. Len(others) \in Nat
    BY <1>1
  <2>. HIDE DEF moved
  <2>3. \A i \in 1..Len(moved) : moved[i] = s \/ \E j \in 1..Len(others) : moved[i] = others[j]
    BY <2>1, <2>2
  <2>4. \A i \in 1..Len(others) : \E j \in 1..Len(reconciled) : others[i] = reconciled[j]
    BY <1>1 DEF Contains
  <2>5. \A i \in 1..Len(moved) : moved[i] = s \/ \E j \in 1..Len(reconciled) : moved[i] = reconciled[j]
    <3>1. SUFFICES ASSUME NEW i \in 1..Len(moved), moved[i] # s
                   PROVE  \E j \in 1..Len(reconciled) : moved[i] = reconciled[j]
      OBVIOUS
    <3>2. PICK k \in 1..Len(others) : moved[i] = others[k]
      BY <2>3, <3>1
    <3>3. PICK j \in 1..Len(reconciled) : others[k] = reconciled[j]
      BY <2>4
    <3>4. QED
      BY <3>2, <3>3
  <2>6. Len(moved) \in Nat
    BY <2>1, <2>2
  <2>7. QED
    BY <2>1, <2>5, <2>6, Zenon DEF Contains
<1>3. Marks(s) = IF Len(moved) > MaxMarks THEN Tail(moved) ELSE moved
  BY DEF Marks, others
<1>. HIDE DEF moved
<1>4. /\ Tail(moved) \in Seq(Ids)
      /\ \A x : Contains(Tail(moved), x) => Contains(moved, x)
  <2>1. /\ Tail(moved) \in Seq(Ids) /\ Len(Tail(moved)) = Len(moved) - 1
        /\ \A i \in 1..Len(Tail(moved)) : Tail(moved)[i] = moved[i + 1]
    BY <1>2, HeadTailProperties
  <2>2. \A i \in 1..Len(Tail(moved)) : i + 1 \in 1..Len(moved)
    BY <1>2, <2>1
  <2>3. QED
    BY <2>1, <2>2 DEF Contains
<1>5. QED
  BY <1>2, <1>3, <1>4

\* No row comes, goes or changes its fingerprint.
RowsKept ==
  \A x \in Ids : /\ db'[x] = None <=> db[x] = None
                 /\ db[x] # None => db'[x].print = db[x].print

LEMMA RowsUnchanged ==
  ASSUME db' = db
  PROVE  RowsKept
BY DEF RowsKept

LEMMA RowIs ==
  ASSUME TypeOK, NEW s \in Ids, db[s] # None
  PROVE  db[s] \in Row
BY DEF TypeOK

LEMMA FoundIs ==
  ASSUME TypeOK, TasksSound, NEW r \in Requests, NEW s \in Rows,
         req[r].pc \in {"byId", "byPrint", "locked"}, Found(r, s)
  PROVE  /\ \E t : /\ Becomes(r, t) /\ t.sid = s /\ ~t.isNew /\ t.q = req[r].q
                   /\ t.pc = IF Contains(reconciled, s) THEN AfterReconcile(t.q)
                             ELSE "trace"
         /\ reconciled' \in Seq(Ids)
         /\ \A x : Contains(reconciled', x) => x = s \/ Contains(reconciled, x)
         /\ spoiled' = IF InFlight(s) = {} THEN spoiled ELSE spoiled \cup {s}
<1>. DEFINE old == req[r]
<1>1. old \in Task /\ TaskSound(old) /\ s \in Ids
  BY ReqIs DEF Rows
<1>2. old.q \in Queries /\ old.sid = None /\ ~old.isNew /\ old.cfg = {}
  BY <1>1 DEF TaskSound, Before
<1>3. PICK p \in Places :
        /\ p \in {"touch", "turn", "trace"}
        /\ p = IF Contains(reconciled, s) THEN AfterReconcile(old.q) ELSE "trace"
  <2>1. {"touch", "turn", "trace"} \subseteq Places
    BY DEF Places, After, Reconcile
  <2>2. AfterReconcile(old.q) \in {"touch", "turn"}
    BY <1>2, QueryIs
  <2>3. QED
    BY <2>1, <2>2
<1>4. req' = [req EXCEPT ![r].sid = s, ![r].pc = p]
  BY <1>3 DEF Found
<1>5. PICK t \in Task :
        /\ req' = [req EXCEPT ![r] = t] /\ t.pc = p /\ t.sid = s
        /\ t.q = old.q /\ t.isNew = old.isNew /\ t.cfg = old.cfg
  <2>. DEFINE t == [old EXCEPT !.sid = s, !.pc = p]
  <2>1. t \in Task /\ t.pc = p /\ t.sid = s /\ t.q = old.q /\ t.isNew = old.isNew
        /\ t.cfg = old.cfg
    BY <1>1 DEF Task
  <2>2. req' = [req EXCEPT ![r] = t]
    BY <1>4 DEF TypeOK
  <2>3. QED
    BY <2>1, <2>2
<1>. HIDE DEF old
<1>6. TaskSound(t)
  BY <1>1, <1>2, <1>3, <1>5 DEF TaskSound, Before, After, Reconcile, Later
<1>7. /\ reconciled' \in Seq(Ids)
      /\ \A x : Contains(reconciled', x) => x = s \/ Contains(reconciled, x)
  <2>1. reconciled' = Marks(s) /\ reconciled \in Seq(Ids)
    BY DEF Found, TypeOK
  <2>2. QED
    BY <1>1, <2>1, MarksIs
<1>8. QED
  BY <1>2, <1>3, <1>5, <1>6, <1>7 DEF Becomes, Found, old

LEMMA CreatedIs ==
  ASSUME TypeOK, TasksSound, NEW r \in Requests, req[r].pc = "create",
         NEW s \in Ids, NEW p \in Prints \cup {None}, Created(r, s, p)
  PROVE  /\ \E t : /\ Becomes(r, t) /\ t.sid = s /\ t.isNew /\ t.q = req[r].q
                   /\ t.pc = "turn"
         /\ db' \in [Ids -> Row \cup {None}] /\ aged' \subseteq Ids
         /\ asked' \in [Ids -> SUBSET Names]
         /\ db'[s] # None /\ db'[s].print = p /\ db'[s].cfg = {} /\ db'[s].turn = 0
         /\ asked'[s] = {}
         /\ \A x \in Ids \ {s} : db'[x] = db[x] /\ asked'[x] = asked[x]
<1>. DEFINE old == req[r]
            row == [print |-> p, turn |-> 0, expired |-> FALSE, cfg |-> {}]
<1>1. old \in Task /\ TaskSound(old)
  BY ReqIs
<1>2. old.q \in Queries /\ old.sid = None /\ ~old.isNew /\ old.cfg = {}
  BY <1>1 DEF TaskSound, Before
<1>3. PICK t \in Task :
        /\ req' = [req EXCEPT ![r] = t] /\ t.pc = "turn" /\ t.sid = s
        /\ t.q = old.q /\ t.isNew /\ t.cfg = old.cfg
  BY ChangeNew DEF Created
<1>. HIDE DEF old
<1>4. TaskSound(t)
  BY <1>2, <1>3 DEF TaskSound, Before, After, Reconcile, Later
<1>5. row \in Row
  BY DEF Row
<1>6. row # None /\ row.print = p /\ row.cfg = {} /\ row.turn = 0
  BY <1>5, ConstantsAre
<1>. HIDE DEF row
<1>7. /\ db' = [db EXCEPT ![s] = row] /\ aged' = aged \ {s}
      /\ asked' = [asked EXCEPT ![s] = {}]
  BY DEF Created, NewRow, row
<1>8. QED
  BY <1>3, <1>4, <1>5, <1>6, <1>7 DEF Becomes, TypeOK, old

LEMMA TouchedIs ==
  ASSUME TypeOK, NEW s \in Ids, Touched(s)
  PROVE  /\ db' \in [Ids -> Row \cup {None}] /\ aged' \subseteq Ids
         /\ RowsKept
         /\ \A x \in Ids \ {s} : db'[x] = db[x]
         /\ db[s] # None => /\ db'[s].turn = db[s].turn + 1
                            /\ db'[s].cfg = db[s].cfg
<1>1. aged' \subseteq Ids
  BY DEF Touched, TypeOK
<1>2. CASE db[s] = None
  BY <1>1, <1>2, RowsUnchanged DEF Touched, TypeOK
<1>3. CASE db[s] # None
  <2>. DEFINE old == db[s]
              row == [old EXCEPT !.turn = @ + 1]
  <2>1. old \in Row
    BY <1>3, RowIs
  <2>2. old.turn + 1 \in Nat
    BY <2>1 DEF Row
  <2>3. row \in Row /\ row.print = old.print /\ row.turn = old.turn + 1 /\ row.cfg = old.cfg
    BY <2>1, <2>2 DEF Row
  <2>4. db' = [db EXCEPT ![s] = row]
    BY <1>3 DEF Touched, TypeOK
  <2>5. row # None
    BY <2>3, ConstantsAre
  <2>. HIDE DEF row
  <2>6. db' \in [Ids -> Row \cup {None}] /\ db'[s] = row
        /\ \A x \in Ids \ {s} : db'[x] = db[x]
    BY <2>3, <2>4 DEF TypeOK
  <2>7. RowsKept
    BY <1>3, <2>3, <2>5, <2>6 DEF RowsKept
  <2>8. QED
    BY <1>1, <2>3, <2>6, <2>7
<1>4. QED
  BY <1>2, <1>3

-----------------------------------------------------------------------------
(* What the actions of a request make of its record.                       *)

\* r goes to place p with all else as it was.
Went(r, p) ==
  \E t : Becomes(r, t) /\ t.pc = p /\ Same(t, req[r])

\* The places a request goes to without learning anything.
LEMMA WentIs ==
  ASSUME TypeOK, TasksSound, NEW r \in Requests, NEW p \in Places, Goto(r, p),
         \/ p = "create" /\ req[r].pc \in {"byId", "locked"}
         \/ p = "locked" /\ req[r].pc = "byPrint"
         \/ p = "serve" /\ req[r].pc = "create"
         \/ p \in {"touch", "turn"} /\ req[r].pc \in Reconcile
         \/ p = "turn" /\ req[r].pc = "touch"
  PROVE  Went(r, p)
<1>. DEFINE old == req[r]
<1>1. old \in Task /\ TaskSound(old)
  BY ReqIs
<1>2. PICK t \in Task : req' = [req EXCEPT ![r] = t] /\ t.pc = p /\ Same(t, old)
  BY ChangePc
<1>. HIDE DEF old
<1>3. TaskSound(t)
  BY <1>1, <1>2 DEF TaskSound, Same, Before, After, Reconcile, Later, old
<1>4. QED
  BY <1>2, <1>3 DEF Becomes, Went, old

LEMMA FindByIdIs ==
  ASSUME TypeOK, TasksSound, NEW r \in Requests, FindById(r)
  PROVE  /\ req[r].pc = "byId" /\ HasId(req[r].q) /\ req[r].q.id \in Ids
         /\ \/ req[r].q.id \in Rows /\ Found(r, req[r].q.id)
            \/ Went(r, "create") /\ UNCHANGED <<reconciled, spoiled>>
<1>1. req[r].pc = "byId"
  BY DEF FindById, At
<1>2. HasId(req[r].q) /\ req[r].q \in Queries
  BY <1>1, ReqIs DEF TaskSound
<1>3. req[r].q.id \in Ids
  BY <1>2, QueryIs, ConstantsAre
<1>4. CASE db[req[r].q.id] # None
  BY <1>1, <1>2, <1>3, <1>4 DEF FindById, Rows
<1>5. CASE db[req[r].q.id] = None
  <2>1. Goto(r, "create") /\ UNCHANGED <<reconciled, spoiled>>
    BY <1>5 DEF FindById
  <2>2. Went(r, "create")
    BY <1>1, <2>1, WentIs DEF Places, Before
  <2>3. QED
    BY <1>1, <1>2, <1>3, <2>1, <2>2
<1>6. QED
  BY <1>4, <1>5

LEMMA FindByPrintIs ==
  ASSUME TypeOK, TasksSound, NEW r \in Requests, FindByPrint(r)
  PROVE  LET p == Fingerprint(req[r].q)
         IN /\ req[r].pc = "byPrint" /\ HasPrint(req[r].q) /\ p \in Prints
            /\ \/ \E s \in Rows : db[s].print = p /\ Found(r, s) /\ lock' = lock
               \/ /\ RowOf(p) = {} /\ Went(r, "locked")
                  /\ lock' = [lock EXCEPT ![p] = Append(@, r)]
                  /\ UNCHANGED <<reconciled, spoiled>>
<1>. DEFINE p == Fingerprint(req[r].q)
<1>1. req[r].pc = "byPrint"
  BY DEF FindByPrint, At
<1>2. HasPrint(req[r].q) /\ req[r].q \in Queries
  BY <1>1, ReqIs DEF TaskSound
<1>3. p \in Prints
  BY <1>2, QueryIs
<1>4. Goto(r, "locked") => Went(r, "locked")
  BY <1>1, WentIs DEF Places, Before
<1>5. QED
  BY <1>1, <1>2, <1>3, <1>4 DEF FindByPrint, RowOf

LEMMA FindLockedIs ==
  ASSUME TypeOK, TasksSound, NEW r \in Requests, FindLocked(r)
  PROVE  LET p == Fingerprint(req[r].q)
         IN /\ req[r].pc = "locked" /\ HasPrint(req[r].q) /\ p \in Prints
            /\ Head(lock[p]) = r
            /\ \/ \E s \in Rows : db[s].print = p /\ Found(r, s) /\ Release(r)
               \/ /\ RowOf(p) = {} /\ Went(r, "create")
                  /\ UNCHANGED <<lock, reconciled, spoiled>>
<1>. DEFINE p == Fingerprint(req[r].q)
<1>1. req[r].pc = "locked"
  BY DEF FindLocked, At
<1>2. HasPrint(req[r].q) /\ req[r].q \in Queries
  BY <1>1, ReqIs DEF TaskSound
<1>3. p \in Prints
  BY <1>2, QueryIs
<1>4. Goto(r, "create") => Went(r, "create")
  BY <1>1, WentIs DEF Places, Before
<1>5. QED
  BY <1>1, <1>2, <1>3, <1>4 DEF FindLocked, RowOf

LEMMA CreateIs ==
  ASSUME TypeOK, TasksSound, NEW r \in Requests, Create(r)
  PROVE  LET q == req[r].q
         IN /\ req[r].pc = "create" /\ q \in Queries
            /\ \/ /\ HasId(q) /\ q.id \in ExplicitIds /\ db[q.id] = None
                  /\ Created(r, q.id, None) /\ UNCHANGED <<lock, minted>>
               \/ /\ HasId(q) /\ Went(r, "serve")
                  /\ UNCHANGED <<db, aged, lock, minted, reconciled, spoiled, asked>>
               \/ /\ ~HasId(q) /\ minted + 1 \in 1..MaxMinted /\ minted' = minted + 1
                  /\ Created(r, minted + 1, IF Anonymous(q) THEN None ELSE Fingerprint(q))
                  /\ Release(r)
            /\ UNCHANGED <<traced, cleanup, arrivals, crashes>>
<1>1. req[r].pc = "create"
  BY DEF Create, At
<1>2. req[r].q \in Queries
  BY <1>1, ReqIs DEF TaskSound
<1>3. HasId(req[r].q) => req[r].q.id \in ExplicitIds
  BY <1>2, QueryIs
<1>4. Goto(r, "serve") => Went(r, "serve")
  BY <1>1, WentIs DEF Places
<1>5. minted < MaxMinted => minted + 1 \in 1..MaxMinted
  BY ConstantsAre DEF TypeOK
<1>6. QED
  BY <1>1, <1>2, <1>3, <1>4, <1>5 DEF Create, Mint, dbVars, countVars

LEMMA ReadTraceIs ==
  ASSUME TypeOK, TasksSound, NEW r \in Requests, ReadTrace(r)
  PROVE  /\ req[r].pc = "trace" /\ req[r].sid \in Ids
         /\ \E t : /\ Becomes(r, t) /\ t.left = traced[req[r].sid]
                   /\ t.q = req[r].q /\ t.sid = req[r].sid /\ t.isNew = req[r].isNew
                   /\ t.pc = IF traced[req[r].sid] = -1 THEN AfterReconcile(t.q) ELSE "behind"
<1>1. req[r].pc = "trace" /\ req[r].sid \in Ids /\ req[r].q \in Queries
  BY ReqIs DEF ReadTrace, At, TaskSound, After, Reconcile
<1>2. PICK k \in Int : k = traced[req[r].sid]
  BY <1>1 DEF TypeOK
<1>3. PICK p \in Places :
        /\ p = IF k = -1 THEN AfterReconcile(req[r].q) ELSE "behind"
        /\ p \in {"touch", "turn", "behind"}
  BY <1>1, QueryIs DEF Places, After, Reconcile
<1>4. SetLeft(r, k, p)
  BY <1>2, <1>3 DEF ReadTrace, SetLeft
<1>5. PICK t \in Task :
           /\ req' = [req EXCEPT ![r] = t] /\ t.pc = p /\ t.left = k
           /\ t.q = req[r].q /\ t.sid = req[r].sid /\ t.isNew = req[r].isNew
  BY <1>4, ChangeLeft
<1>6. TaskSound(t)
  BY <1>1, <1>3, <1>5, ReqIs DEF TaskSound, Before, After, Reconcile, Later
<1>7. QED
  BY <1>1, <1>2, <1>3, <1>5, <1>6 DEF Becomes

LEMMA TurnIs ==
  ASSUME TypeOK, NEW s \in Ids
  PROVE  /\ TurnOf(s) \in Nat
         /\ db[s] # None => TurnOf(s) = db[s].turn
         /\ SettingsOf(s) \in SUBSET Names
         /\ db[s] # None => SettingsOf(s) = db[s].cfg
<1>1. db[s] # None => db[s] \in Row
  BY RowIs
<1>2. QED
  BY <1>1 DEF TurnOf, SettingsOf, Row

LEMMA BehindIs ==
  ASSUME TypeOK, TasksSound, NEW r \in Requests, Behind(r)
  PROVE  /\ req[r].pc = "behind" /\ req[r].sid \in Ids
         /\ \E t : /\ Becomes(r, t) /\ t.left = req[r].left - TurnOf(t.sid)
                   /\ t.q = req[r].q /\ t.sid = req[r].sid /\ t.isNew = req[r].isNew
                   /\ t.pc = IF t.left > 0 THEN "advance" ELSE AfterReconcile(t.q)
<1>1. req[r].pc = "behind" /\ req[r].sid \in Ids /\ req[r].q \in Queries
  BY ReqIs DEF Behind, At, TaskSound, After, Reconcile
<1>2. req[r].left \in Int /\ TurnOf(req[r].sid) \in Nat
  BY <1>1, TurnIs, ReqIs DEF Task
<1>3. PICK k \in Int : k = req[r].left - TurnOf(req[r].sid)
  BY <1>2
<1>4. PICK p \in Places :
        /\ p = IF k > 0 THEN "advance" ELSE AfterReconcile(req[r].q)
        /\ p \in {"touch", "turn", "advance"}
  BY <1>1, QueryIs DEF Places, After, Reconcile
<1>5. SetLeft(r, k, p)
  BY <1>3, <1>4 DEF Behind, SetLeft
<1>6. PICK t \in Task :
           /\ req' = [req EXCEPT ![r] = t] /\ t.pc = p /\ t.left = k
           /\ t.q = req[r].q /\ t.sid = req[r].sid /\ t.isNew = req[r].isNew
  BY <1>5, ChangeLeft
<1>7. TaskSound(t)
  BY <1>1, <1>4, <1>6, ReqIs DEF TaskSound, Before, After, Reconcile, Later
<1>8. QED
  BY <1>1, <1>3, <1>4, <1>6, <1>7 DEF Becomes

LEMMA AdvanceIs ==
  ASSUME TypeOK, TasksSound, NEW r \in Requests, Advance(r)
  PROVE  /\ req[r].pc = "advance" /\ req[r].sid \in Ids /\ Touched(req[r].sid)
         /\ \E t : /\ Becomes(r, t) /\ t.left = req[r].left - 1
                   /\ t.q = req[r].q /\ t.sid = req[r].sid /\ t.isNew = req[r].isNew
                   /\ t.pc = IF req[r].left = 1 THEN AfterReconcile(t.q) ELSE "advance"
<1>1. req[r].pc = "advance" /\ req[r].sid \in Ids /\ req[r].q \in Queries
  BY ReqIs DEF Advance, At, TaskSound, After, Reconcile
<1>2. PICK k \in Int : k = req[r].left - 1
  BY <1>1, ReqIs DEF Task
<1>3. PICK p \in Places :
        /\ p = IF req[r].left = 1 THEN AfterReconcile(req[r].q) ELSE "advance"
        /\ p \in {"touch", "turn", "advance"}
  BY <1>1, QueryIs DEF Places, After, Reconcile
<1>4. SetLeft(r, k, p)
  BY <1>1, <1>2, <1>3 DEF Advance, SetLeft, TypeOK
<1>5. PICK t \in Task :
           /\ req' = [req EXCEPT ![r] = t] /\ t.pc = p /\ t.left = k
           /\ t.q = req[r].q /\ t.sid = req[r].sid /\ t.isNew = req[r].isNew
  BY <1>4, ChangeLeft
<1>6. TaskSound(t)
  BY <1>1, <1>3, <1>5, ReqIs DEF TaskSound, Before, After, Reconcile, Later
<1>7. QED
  BY <1>1, <1>2, <1>3, <1>5, <1>6 DEF Becomes, Advance

LEMMA TouchIs ==
  ASSUME TypeOK, TasksSound, NEW r \in Requests, Touch(r)
  PROVE  /\ req[r].pc = "touch" /\ req[r].sid \in Ids /\ Touched(req[r].sid)
         /\ Went(r, "turn")
<1>1. req[r].pc = "touch" /\ req[r].sid \in Ids
  BY ReqIs DEF Touch, At, TaskSound, After
<1>2. Went(r, "turn")
  BY <1>1, WentIs DEF Touch, Places, After
<1>3. QED
  BY <1>1, <1>2 DEF Touch

LEMMA ReadTurnIs ==
  ASSUME TypeOK, TasksSound, NEW r \in Requests, ReadTurn(r)
  PROVE  /\ req[r].pc = "turn" /\ req[r].sid \in Ids
         /\ \E t : /\ Becomes(r, t) /\ t.turn = TurnOf(t.sid)
                   /\ t.q = req[r].q /\ t.sid = req[r].sid /\ t.isNew = req[r].isNew
                   /\ t.pc \in {"load", "merge"}
<1>1. req[r].pc = "turn" /\ req[r].sid \in Ids /\ req[r].q \in Queries
  BY ReqIs DEF ReadTurn, At, TaskSound, After
<1>2. PICK n \in Nat : n = TurnOf(req[r].sid)
  BY <1>1, TurnIs
<1>3. PICK p \in Places :
        /\ p = IF Applied(req[r].q) = {} THEN "load" ELSE "merge"
        /\ p \in {"load", "merge"}
  BY DEF Places, After, Later
<1>4. SetTurn(r, n, p)
  BY <1>2, <1>3 DEF ReadTurn, SetTurn
<1>5. PICK t \in Task :
           /\ req' = [req EXCEPT ![r] = t] /\ t.pc = p /\ t.turn = n
           /\ t.q = req[r].q /\ t.sid = req[r].sid /\ t.isNew = req[r].isNew
  BY <1>4, ChangeTurn
<1>6. TaskSound(t)
  BY <1>1, <1>3, <1>5 DEF TaskSound, Before, After, Reconcile, Later
<1>7. QED
  BY <1>1, <1>2, <1>3, <1>5, <1>6 DEF Becomes

LEMMA MergeReadIs ==
  ASSUME TypeOK, TasksSound, SettingsSound, NEW r \in Requests,
         MergeRead(r) \/ LoadSettings(r)
  PROVE  /\ req[r].pc \in {"merge", "load"} /\ req[r].sid \in Ids
         /\ \E t : /\ Becomes(r, t) /\ t.cfg = SettingsOf(t.sid)
                   /\ t.q = req[r].q /\ t.sid = req[r].sid /\ t.isNew = req[r].isNew
                   /\ t.turn = req[r].turn
                   /\ t.pc \in {"store", "serve"}
<1>1. req[r].pc \in {"merge", "load"} /\ req[r].sid \in Ids /\ req[r].q \in Queries
  BY ReqIs DEF MergeRead, LoadSettings, At, TaskSound, After, Later
<1>2. PICK c \in SUBSET Names : c = SettingsOf(req[r].sid)
  BY <1>1, TurnIs
<1>3. c \cap Denied = {}
  BY <1>1, <1>2 DEF SettingsSound, SettingsOf, Rows
<1>4. PICK p \in Places : p \in {"store", "serve"} /\ SetCfg(r, c, p)
  BY <1>2 DEF MergeRead, LoadSettings, SetCfg, Places, After, Later
<1>5. PICK t \in Task :
           /\ req' = [req EXCEPT ![r] = t] /\ t.pc = p /\ t.cfg = c
           /\ t.q = req[r].q /\ t.sid = req[r].sid /\ t.isNew = req[r].isNew
           /\ t.turn = req[r].turn
  BY <1>4, ChangeCfg
<1>6. TaskSound(t)
  BY <1>1, <1>3, <1>4, <1>5 DEF TaskSound, Before, After, Reconcile, Later
<1>7. QED
  BY <1>1, <1>2, <1>4, <1>5, <1>6 DEF Becomes

LEMMA MergeStoreIs ==
  ASSUME TypeOK, TasksSound, NEW r \in Requests, MergeStore(r)
  PROVE  LET s == req[r].sid
             merged == req[r].cfg \cup Applied(req[r].q)
         IN /\ req[r].pc = "store" /\ s \in Ids /\ merged \cap Denied = {}
            /\ \E t : /\ Becomes(r, t) /\ t.pc = "serve"
                      /\ t.q = req[r].q /\ t.sid = s /\ t.isNew = req[r].isNew
                      /\ t.turn = req[r].turn
            /\ db' \in [Ids -> Row \cup {None}]
            /\ RowsKept
            /\ \A x \in Ids \ {s} : db'[x] = db[x] /\ asked'[x] = asked[x]
            /\ db[s] # None => db'[s].turn = db[s].turn /\ db'[s].cfg = merged
            /\ asked' \in [Ids -> SUBSET Names]
            /\ asked'[s] = asked[s] \cup req[r].q.cfg
<1>1. /\ req[r].pc = "store" /\ req[r].sid \in Ids /\ req[r].q \in Queries
      /\ req[r].cfg \cap Denied = {} /\ req[r].cfg \in SUBSET Names
  BY ReqIs DEF MergeStore, At, TaskSound, After, Later, Task
<1>2. PICK s \in Ids : s = req[r].sid
  BY <1>1
<1>3. PICK c \in SUBSET Names : c = req[r].cfg \cup Applied(req[r].q)
  BY <1>1, QueryIs
<1>4. c \cap Denied = {}
  BY <1>1, <1>3 DEF Applied
<1>5. SetCfg(r, c, "serve") /\ "serve" \in Places
  BY <1>3 DEF MergeStore, SetCfg, Places
<1>6. PICK t \in Task :
           /\ req' = [req EXCEPT ![r] = t] /\ t.pc = "serve" /\ t.cfg = c
           /\ t.q = req[r].q /\ t.sid = req[r].sid /\ t.isNew = req[r].isNew
           /\ t.turn = req[r].turn
  BY <1>5, ChangeCfg
<1>7. TaskSound(t)
  BY <1>1, <1>4, <1>6 DEF TaskSound, Before, After, Reconcile, Later
<1>8. /\ asked' = [asked EXCEPT ![s] = @ \cup req[r].q.cfg]
      /\ db' = IF db[s] = None THEN db ELSE [db EXCEPT ![s].cfg = c]
  BY <1>2, <1>3 DEF MergeStore
<1>9. /\ asked' \in [Ids -> SUBSET Names] /\ asked'[s] = asked[s] \cup req[r].q.cfg
      /\ \A x \in Ids \ {s} : asked'[x] = asked[x]
  BY <1>1, <1>8, QueryIs DEF TypeOK
<1>10. CASE db[s] = None
  <2>1. db' = db
    BY <1>8, <1>10
  <2>2. db \in [Ids -> Row \cup {None}]
    BY DEF TypeOK
  <2>3. QED
    BY <1>1, <1>2, <1>3, <1>4, <1>6, <1>7, <1>9, <1>10, <2>1, <2>2, RowsUnchanged
       DEF Becomes
<1>11. CASE db[s] # None
  <2>. DEFINE old == db[s]
              row == [old EXCEPT !.cfg = c]
  <2>1. old \in Row
    BY <1>11, RowIs
  <2>2. row \in Row /\ row.print = old.print /\ row.turn = old.turn /\ row.cfg = c
    BY <2>1 DEF Row
  <2>3. db' = [db EXCEPT ![s] = row]
    BY <1>8, <1>11
  <2>4. row # None
    BY <2>2, ConstantsAre
  <2>. HIDE DEF row
  <2>5. db' \in [Ids -> Row \cup {None}] /\ db'[s] = row
        /\ \A x \in Ids \ {s} : db'[x] = db[x]
    BY <2>2, <2>3 DEF TypeOK
  <2>6. RowsKept
    BY <1>11, <2>2, <2>4, <2>5 DEF RowsKept
  <2>7. QED
    BY <1>1, <1>2, <1>3, <1>4, <1>6, <1>7, <1>9, <2>2, <2>5, <2>6 DEF Becomes
<1>12. QED
  BY <1>10, <1>11

LEMMA ResolveFailsIs ==
  ASSUME TypeOK, TasksSound, NEW r \in Requests, ResolveFails(r)
  PROVE  /\ req[r].pc \in {"byId", "byPrint", "locked", "create", "touch", "turn"} \cup Later
         /\ req[r].pc = "locked" => Head(lock[Fingerprint(req[r].q)]) = r
         /\ \E t : /\ Becomes(r, t) /\ t.pc = "serve"
                   /\ t.q = req[r].q /\ t.sid = req[r].sid /\ t.isNew = req[r].isNew
         /\ spoiled' \subseteq Ids /\ spoiled \subseteq spoiled'
         /\ req[r].sid # None => req[r].sid \in spoiled'
<1>1. /\ req[r].pc \in {"byId", "byPrint", "locked", "create", "touch", "turn"} \cup Later
      /\ req[r].pc = "locked" => Head(lock[Fingerprint(req[r].q)]) = r
  BY DEF ResolveFails, At, Later
<1>2. req[r].q \in Queries /\ req[r].sid \in Ids \cup {None}
  BY <1>1, ReqIs DEF TaskSound, Task, Later
<1>3. SetCfg(r, {}, "serve") /\ "serve" \in Places /\ {} \in SUBSET Names
  BY DEF ResolveFails, SetCfg, Places
<1>4. PICK t \in Task :
           /\ req' = [req EXCEPT ![r] = t] /\ t.pc = "serve" /\ t.cfg = {}
           /\ t.q = req[r].q /\ t.sid = req[r].sid /\ t.isNew = req[r].isNew
  BY <1>3, ChangeCfg
<1>5. TaskSound(t)
  BY <1>2, <1>4 DEF TaskSound, Before, After, Reconcile, Later
<1>6. spoiled' = IF req[r].sid = None THEN spoiled ELSE spoiled \cup {req[r].sid}
  BY DEF ResolveFails
<1>7. QED
  BY <1>1, <1>2, <1>4, <1>5, <1>6 DEF Becomes, TypeOK

LEMMA ReconcileFailsIs ==
  ASSUME TypeOK, TasksSound, NEW r \in Requests, ReconcileFails(r)
  PROVE  /\ req[r].pc \in Reconcile /\ req[r].sid \in Ids
         /\ \E p : Went(r, p) /\ p \in {"touch", "turn"}
<1>1. req[r].pc \in Reconcile /\ req[r].sid \in Ids /\ req[r].q \in Queries
  BY ReqIs DEF ReconcileFails, TaskSound, After, Reconcile
<1>2. PICK p \in Places : p = AfterReconcile(req[r].q) /\ p \in {"touch", "turn"}
  BY <1>1, QueryIs DEF Places, After
<1>3. Goto(r, p)
  BY <1>2 DEF ReconcileFails
<1>4. Went(r, p)
  BY <1>1, <1>2, <1>3, WentIs
<1>5. QED
  BY <1>1, <1>2, <1>4

LEMMA IdleIs == Idle \in Task /\ TaskSound(Idle) /\ Idle.pc = "idle" /\ Idle.sid = None
                /\ ~Idle.isNew
BY DEF Idle, Task, Places, TaskSound, Before, After, Reconcile, Later

LEMMA ArriveIs ==
  ASSUME TypeOK, TasksSound, NEW r \in Requests, NEW q \in Queries, Arrive(r, q)
  PROVE  /\ req[r].pc = "idle" /\ arrivals' = r /\ r = arrivals + 1
         /\ \E t : /\ Becomes(r, t) /\ t.q = q /\ t.sid = None /\ ~t.isNew
                   /\ t.pc \in {"byId", "byPrint", "create"}
                   /\ t.pc = "create" => ~HasPrint(q)
<1>1. arrivals' = r /\ r = arrivals + 1
  BY DEF Arrive
<1>2. req[r].pc = "idle"
  <2>1. arrivals \in Nat
    BY ConstantsAre DEF TypeOK
  <2>2. r > arrivals
    BY <1>1, <2>1
  <2>3. QED
    BY <2>2 DEF TasksSound
<1>3. PICK p \in Places :
        /\ p = IF HasId(q) THEN "byId" ELSE IF HasPrint(q) THEN "byPrint" ELSE "create"
        /\ p \in Before
  BY DEF Places, Before
<1>. DEFINE t == [Idle EXCEPT !.q = q, !.pc = p]
<1>4. /\ t \in Task /\ t.pc = p /\ t.q = q /\ t.sid = Idle.sid
      /\ t.isNew = Idle.isNew /\ t.cfg = Idle.cfg
  BY IdleIs DEF Task
<1>5. Idle.cfg = {}
  BY DEF Idle
<1>6. req' = [req EXCEPT ![r] = t]
  BY <1>3 DEF Arrive
<1>. HIDE DEF t
<1>7. TaskSound(t)
  BY <1>3, <1>4, <1>5, IdleIs DEF TaskSound, Before, After, Reconcile, Later
<1>8. QED
  BY <1>1, <1>2, <1>3, <1>4, <1>6, <1>7, IdleIs DEF Becomes

-----------------------------------------------------------------------------
(* Types.                                                                  *)

\* Only slot r of the requests changes.
LEMMA OthersKept ==
  ASSUME TypeOK, NEW r \in Requests, NEW t, Becomes(r, t)
  PROVE  /\ req' \in [Requests -> Task]
         /\ req'[r] = t
         /\ \A x \in Requests \ {r} : req'[x] = req[x]
BY DEF TypeOK, Becomes

LEMMA TasksBecome ==
  ASSUME TypeOK, TasksSound, NEW r \in Requests, NEW t, Becomes(r, t),
         \/ req[r].pc # "idle" /\ UNCHANGED arrivals
         \/ arrivals' = arrivals + 1 /\ r = arrivals + 1
  PROVE  TasksSound' /\ req' \in [Requests -> Task]
<1>1. /\ req' \in [Requests -> Task] /\ req'[r] = t
      /\ \A x \in Requests \ {r} : req'[x] = req[x]
  BY OthersKept
<1>2. TaskSound(t)
  BY DEF Becomes
<1>3. arrivals \in Nat
  BY ConstantsAre DEF TypeOK
<1>4. ASSUME NEW x \in Requests
      PROVE  TaskSound(req'[x]) /\ (x > arrivals' => req'[x].pc = "idle")
  <2>1. x \in Nat /\ r \in Nat
    BY DEF Requests
  <2>2. CASE x = r
    <3>1. ~(r > arrivals')
      BY <1>3, <2>1 DEF TasksSound
    <3>2. QED
      BY <1>1, <1>2, <2>2, <3>1
  <2>3. CASE x # r
    <3>1. req'[x] = req[x]
      BY <1>1, <2>3
    <3>2. x > arrivals' => x > arrivals
      BY <1>3, <2>1
    <3>3. QED
      BY <3>1, <3>2 DEF TasksSound
  <2>4. QED
    BY <2>2, <2>3
<1>5. QED
  BY <1>1, <1>4 DEF TasksSound

LEMMA ReleaseTyped ==
  ASSUME TypeOK, NEW r \in Requests, Release(r)
  PROVE  lock' \in [Prints -> Seq(Requests)]
<1>1. ASSUME NEW p \in Prints
      PROVE  (IF lock[p] # <<>> /\ Head(lock[p]) = r THEN Tail(lock[p]) ELSE lock[p])
               \in Seq(Requests)
  <2>1. lock[p] \in Seq(Requests)
    BY DEF TypeOK
  <2>2. lock[p] # <<>> => Tail(lock[p]) \in Seq(Requests)
    BY <2>1, HeadTailProperties
  <2>3. QED
    BY <2>1, <2>2
<1>2. QED
  BY <1>1 DEF Release

\* Once the requests and what a step says of the rest are typed, all is.
Rest ==
  /\ db' \in [Ids -> Row \cup {None}]
  /\ aged' \subseteq Ids
  /\ lock' \in [Prints -> Seq(Requests)]
  /\ reconciled' \in Seq(Ids)
  /\ traced' \in [Ids -> Int]
  /\ cleanup' \in {"sleep", "delete"}
  /\ minted' \in 0..MaxMinted /\ crashes' \in Nat
  /\ spoiled' \subseteq Ids
  /\ asked' \in [Ids -> SUBSET Names]

LEMMA TaskStepTyped ==
  ASSUME TypeOK, TasksSound, Rest, NEW r \in Requests, NEW t, Becomes(r, t),
         req[r].pc # "idle", UNCHANGED arrivals
  PROVE  TypeOK' /\ TasksSound'
<1>1. TasksSound' /\ req' \in [Requests -> Task]
  BY TasksBecome
<1>2. arrivals' \in 0..MaxArrivals
  BY DEF TypeOK
<1>3. QED
  BY <1>1, <1>2 DEF TypeOK, Rest

LEMMA FoundTyped ==
  ASSUME TypeOK, TasksSound, NEW r \in Requests, NEW s \in Rows,
         req[r].pc \in {"byId", "byPrint", "locked"}, Found(r, s)
  PROVE  reconciled' \in Seq(Ids) /\ spoiled' \subseteq Ids
<1>1. reconciled' \in Seq(Ids) /\ spoiled' \in {spoiled, spoiled \cup {s}}
  BY FoundIs
<1>2. QED
  BY <1>1 DEF TypeOK, Rows

LEMMA StepTyped ==
  ASSUME TypeOK, TasksSound, SettingsSound, NEW r \in Requests,
         Step(r) \/ ReconcileFails(r) \/ ResolveFails(r)
  PROVE  TypeOK' /\ TasksSound'
<1>. USE TaskStepTyped
<1>1. CASE FindById(r)
  <2>1. PICK t : Becomes(r, t)
    BY <1>1, FindByIdIs, FoundIs DEF Went
  <2>2. reconciled' \in Seq(Ids) /\ spoiled' \subseteq Ids
    BY <1>1, FindByIdIs, FoundTyped DEF TypeOK
  <2>3. Rest /\ UNCHANGED arrivals
    BY <1>1, <2>2 DEF FindById, dbVars, countVars, Rest, TypeOK
  <2>4. QED
    BY <1>1, <2>1, <2>3, FindByIdIs
<1>2. CASE FindByPrint(r)
  <2>1. PICK t : Becomes(r, t)
    BY <1>2, FindByPrintIs, FoundIs DEF Went
  <2>2. reconciled' \in Seq(Ids) /\ spoiled' \subseteq Ids
    BY <1>2, FindByPrintIs, FoundTyped DEF TypeOK
  <2>3. lock' \in [Prints -> Seq(Requests)]
    <3>1. PICK p \in Prints : lock' = lock \/ lock' = [lock EXCEPT ![p] = Append(@, r)]
      BY <1>2, FindByPrintIs
    <3>2. Append(lock[p], r) \in Seq(Requests)
      BY AppendProperties DEF TypeOK
    <3>3. QED
      BY <3>1, <3>2 DEF TypeOK
  <2>4. Rest /\ UNCHANGED arrivals
    BY <1>2, <2>2, <2>3 DEF FindByPrint, dbVars, countVars, Rest, TypeOK
  <2>5. QED
    BY <1>2, <2>1, <2>4, FindByPrintIs
<1>3. CASE FindLocked(r)
  <2>1. PICK t : Becomes(r, t)
    BY <1>3, FindLockedIs, FoundIs DEF Went
  <2>2. reconciled' \in Seq(Ids) /\ spoiled' \subseteq Ids
    BY <1>3, FindLockedIs, FoundTyped DEF TypeOK
  <2>3. lock' \in [Prints -> Seq(Requests)]
    BY <1>3, FindLockedIs, ReleaseTyped DEF TypeOK
  <2>4. Rest /\ UNCHANGED arrivals
    BY <1>3, <2>2, <2>3 DEF FindLocked, dbVars, countVars, Rest, TypeOK
  <2>5. QED
    BY <1>3, <2>1, <2>4, FindLockedIs
<1>4. CASE Create(r)
  <2>1. req[r].pc = "create" /\ UNCHANGED <<traced, cleanup, arrivals, crashes>>
        /\ req[r].q \in Queries
    BY <1>4, CreateIs
  <2>2. CASE \E s \in Ids, p \in Prints \cup {None} :
               Created(r, s, p) /\ (UNCHANGED lock \/ Release(r))
               /\ minted' \in {minted, minted + 1} /\ minted' \in 0..MaxMinted
    <3>1. PICK s \in Ids, p \in Prints \cup {None} :
             Created(r, s, p) /\ (UNCHANGED lock \/ Release(r))
               /\ minted' \in {minted, minted + 1} /\ minted' \in 0..MaxMinted
      BY <2>2
    <3>2. /\ \E t : Becomes(r, t)
          /\ db' \in [Ids -> Row \cup {None}] /\ aged' \subseteq Ids
          /\ asked' \in [Ids -> SUBSET Names]
      BY <2>1, <3>1, CreatedIs
    <3>3. lock' \in [Prints -> Seq(Requests)]
      BY <3>1, ReleaseTyped DEF TypeOK
    <3>4. reconciled' \in Seq(Ids) /\ spoiled' \subseteq Ids
      BY <3>1 DEF Created, TypeOK
    <3>5. Rest
      BY <2>1, <3>1, <3>2, <3>3, <3>4 DEF Rest, TypeOK
    <3>6. QED
      BY <2>1, <3>2, <3>5
  <2>3. CASE Went(r, "serve") /\ UNCHANGED <<db, aged, lock, minted, reconciled, spoiled, asked>>
    <3>1. Rest
      BY <2>1, <2>3 DEF Rest, TypeOK
    <3>2. PICK t : Becomes(r, t)
      BY <2>3 DEF Went
    <3>3. QED
      BY <2>1, <3>1, <3>2
  <2>4. QED
    <3>1. HasId(req[r].q) => req[r].q.id \in Ids
      BY <2>1, QueryIs, ConstantsAre
    <3>2. ~HasId(req[r].q) => minted + 1 \in Ids \/ minted + 1 \notin 1..MaxMinted
      BY ConstantsAre
    <3>3. ~HasId(req[r].q) =>
            (IF Anonymous(req[r].q) THEN None ELSE Fingerprint(req[r].q)) \in Prints \cup {None}
      BY <2>1, QueryIs DEF Anonymous, HasPrint
    <3>4. minted + 1 \in 1..MaxMinted => minted + 1 \in 0..MaxMinted
      BY ConstantsAre
    <3>5. minted \in 0..MaxMinted
      BY DEF TypeOK
    <3>6. QED
      BY <1>4, <2>2, <2>3, <3>1, <3>2, <3>3, <3>4, <3>5, CreateIs
<1>5. CASE ReadTrace(r)
  <2>1. Rest /\ UNCHANGED arrivals
    BY <1>5 DEF ReadTrace, dbVars, countVars, Rest, TypeOK
  <2>2. QED
    BY <1>5, <2>1, ReadTraceIs
<1>6. CASE Behind(r)
  <2>1. Rest /\ UNCHANGED arrivals
    BY <1>6 DEF Behind, dbVars, countVars, Rest, TypeOK
  <2>2. QED
    BY <1>6, <2>1, BehindIs
<1>7. CASE Advance(r)
  <2>1. Rest /\ UNCHANGED arrivals
    BY <1>7, AdvanceIs, TouchedIs DEF Advance, countVars, Rest, TypeOK
  <2>2. QED
    BY <1>7, <2>1, AdvanceIs
<1>8. CASE Touch(r)
  <2>1. Rest /\ UNCHANGED arrivals
    BY <1>8, TouchIs, TouchedIs DEF Touch, countVars, Rest, TypeOK
  <2>2. QED
    BY <1>8, <2>1, TouchIs DEF Went
<1>9. CASE ReadTurn(r)
  <2>1. Rest /\ UNCHANGED arrivals
    BY <1>9 DEF ReadTurn, dbVars, countVars, Rest, TypeOK
  <2>2. QED
    BY <1>9, <2>1, ReadTurnIs
<1>10. CASE MergeRead(r) \/ LoadSettings(r)
  <2>1. Rest /\ UNCHANGED arrivals
    BY <1>10 DEF MergeRead, LoadSettings, dbVars, countVars, Rest, TypeOK
  <2>2. \E t : Becomes(r, t)
    BY <1>10, MergeReadIs
  <2>3. req[r].pc # "idle"
    BY <1>10, MergeReadIs
  <2>4. QED
    BY <2>1, <2>2, <2>3
<1>11. CASE MergeStore(r)
  <2>1. Rest /\ UNCHANGED arrivals
    BY <1>11, MergeStoreIs DEF MergeStore, countVars, Rest, TypeOK
  <2>2. QED
    BY <1>11, <2>1, MergeStoreIs
<1>12. CASE Finish(r)
  <2>1. req[r].pc = "serve" /\ Becomes(r, Idle) /\ req[r] \in Task
    BY <1>12, IdleIs, ReqIs DEF Finish, At, Becomes
  <2>2. traced' \in [Ids -> Int]
    <3>1. PICK s \in Ids \cup {None}, n \in Int : s = req[r].sid /\ n = req[r].turn
      BY <2>1 DEF Task
    <3>2. \/ traced' = traced
          \/ s # None /\ traced' = [traced EXCEPT ![s] = IF @ > n THEN @ ELSE n]
      BY <1>12, <3>1 DEF Finish
    <3>3. QED
      BY <3>2 DEF TypeOK
  <2>3. Rest /\ UNCHANGED arrivals
    BY <1>12, <2>2 DEF Finish, dbVars, countVars, Rest, TypeOK
  <2>4. QED
    BY <2>1, <2>3
<1>13. CASE ReconcileFails(r)
  <2>1. req[r].pc \in Reconcile /\ req[r].sid \in Ids
    BY <1>13, ReconcileFailsIs
  <2>2. Rest /\ UNCHANGED arrivals
    BY <1>13, <2>1 DEF ReconcileFails, dbVars, countVars, Rest, TypeOK
  <2>3. \E t : Becomes(r, t)
    BY <1>13, ReconcileFailsIs DEF Went
  <2>4. QED
    BY <2>1, <2>2, <2>3 DEF Reconcile
<1>14. CASE ResolveFails(r)
  <2>1. lock' \in [Prints -> Seq(Requests)] /\ spoiled' \subseteq Ids
    BY <1>14, ReleaseTyped, ResolveFailsIs DEF ResolveFails
  <2>2. Rest /\ UNCHANGED arrivals
    BY <1>14, <2>1 DEF ResolveFails, dbVars, countVars, Rest, TypeOK
  <2>3. \E t : Becomes(r, t)
    BY <1>14, ResolveFailsIs
  <2>4. req[r].pc # "idle"
    BY <1>14, ResolveFailsIs DEF Later
  <2>5. QED
    BY <2>2, <2>3, <2>4
<1>15. QED
  BY <1>1, <1>2, <1>3, <1>4, <1>5, <1>6, <1>7, <1>8, <1>9, <1>10, <1>11, <1>12, <1>13,
     <1>14 DEF Step

LEMMA ArriveTyped ==
  ASSUME TypeOK, TasksSound, NEW r \in Requests, NEW q \in Queries, Arrive(r, q)
  PROVE  TypeOK' /\ TasksSound'
<1>1. TasksSound' /\ req' \in [Requests -> Task] /\ arrivals' = r
  BY ArriveIs, TasksBecome
<1>2. arrivals' \in 0..MaxArrivals
  BY <1>1 DEF Requests
<1>3. Rest
  BY DEF Arrive, Rest, TypeOK, dbVars
<1>4. QED
  BY <1>1, <1>2, <1>3 DEF TypeOK, Rest

\* The time to live of a session runs out: nothing else in its row changes.
LEMMA ExpireIs ==
  ASSUME TypeOK, Expire
  PROVE  /\ db' \in [Ids -> Row \cup {None}] /\ aged' \subseteq Ids
         /\ RowsKept
         /\ \A x \in Ids : db[x] # None => /\ db'[x].turn = db[x].turn
                                           /\ db'[x].cfg = db[x].cfg
         /\ \A x \in Ids : db'[x] # db[x] => InFlight(x) = {}
<1>1. PICK old \in SUBSET {s \in Rows : ~db[s].expired /\ InFlight(s) = {}} :
        /\ db' = [s \in Ids |-> IF s \in old THEN [db[s] EXCEPT !.expired = TRUE] ELSE db[s]]
        /\ aged' = aged \cup old
  BY DEF Expire
<1>2. old \subseteq Ids
  BY DEF Rows
<1>3. ASSUME NEW x \in Ids
      PROVE  /\ db'[x] \in Row \cup {None}
             /\ db'[x] = None <=> db[x] = None
             /\ db[x] # None => /\ db'[x].print = db[x].print
                                /\ db'[x].turn = db[x].turn /\ db'[x].cfg = db[x].cfg
             /\ db'[x] # db[x] => InFlight(x) = {}
  <2>1. CASE x \in old
    <3>. DEFINE row == db[x]
                aging == [row EXCEPT !.expired = TRUE]
    <3>1. db[x] # None
      BY <2>1 DEF Rows
    <3>2. row \in Row
      BY <3>1, RowIs
    <3>3. aging \in Row /\ aging.print = row.print /\ aging.turn = row.turn
          /\ aging.cfg = row.cfg
      BY <3>2 DEF Row
    <3>4. aging # None
      BY <3>3, ConstantsAre
    <3>5. db'[x] = aging
      BY <1>1, <2>1
    <3>. HIDE DEF aging
    <3>6. QED
      BY <2>1, <3>1, <3>3, <3>4, <3>5
  <2>2. CASE x \notin old
    BY <1>1, <2>2 DEF TypeOK
  <2>3. QED
    BY <2>1, <2>2
<1>4. db' = [x \in Ids |-> db'[x]]
  BY <1>1
<1>5. QED
  BY <1>1, <1>2, <1>3, <1>4 DEF RowsKept, TypeOK

\* The cleanup deletes rows and counts their requests as disturbed.
LEMMA DeleteIs ==
  ASSUME TypeOK, DeleteExpired
  PROVE  /\ db' \in [Ids -> Row \cup {None}] /\ aged' \subseteq Ids
         /\ \A x \in Ids : db'[x] = db[x] \/ (db'[x] = None /\ x \in spoiled')
         /\ spoiled' \subseteq Ids /\ spoiled \subseteq spoiled'
BY DEF DeleteExpired, TypeOK, Dead, Rows

\* The rows outlive a crash; they may lose turns.
LEMMA CrashIs ==
  ASSUME TypeOK, Crash
  PROVE  /\ db' \in [Ids -> Row \cup {None}]
         /\ RowsKept
         /\ \A x \in Ids : db[x] # None => db'[x].cfg = db[x].cfg /\ asked'[x] = db[x].cfg
         /\ asked' \in [Ids -> SUBSET Names]
         /\ \A r \in Requests : req'[r] = Idle
         /\ req' \in [Requests -> Task]
<1>1. PICK lost \in [Rows -> 0..MaxLost] :
       db' = [s \in Ids |-> IF s \in Rows
                THEN [db[s] EXCEPT !.turn = IF lost[s] < @ THEN @ - lost[s] ELSE 0]
                ELSE None]
  BY DEF Crash
<1>2. ASSUME NEW x \in Ids
      PROVE  /\ db'[x] \in Row \cup {None}
             /\ db'[x] = None <=> db[x] = None
             /\ db[x] # None => /\ db'[x].print = db[x].print
                                /\ db'[x].cfg = db[x].cfg
             /\ db[x] # None => db[x].cfg \in SUBSET Names
  <2>1. CASE x \in Rows
    <3>. DEFINE row == db[x]
                n == IF lost[x] < row.turn THEN row.turn - lost[x] ELSE 0
                kept == [row EXCEPT !.turn = n]
    <3>1. db[x] # None
      BY <2>1 DEF Rows
    <3>2. row \in Row
      BY <3>1, RowIs
    <3>3. n \in Nat
      <4>1. row.turn \in Nat /\ lost[x] \in 0..MaxLost /\ MaxLost \in Nat
        BY <2>1, <3>2, SessionBounds DEF Row
      <4>2. QED
        BY <4>1
    <3>4. db'[x] = kept
      BY <1>1, <2>1
    <3>. HIDE DEF n
    <3>5. kept \in Row /\ kept.print = row.print /\ kept.cfg = row.cfg
          /\ row.cfg \in SUBSET Names
      BY <3>2, <3>3 DEF Row
    <3>6. kept # None
      BY <3>5, ConstantsAre
    <3>. HIDE DEF kept
    <3>7. QED
      BY <3>1, <3>4, <3>5, <3>6
  <2>2. CASE x \notin Rows
    BY <1>1, <2>2 DEF Rows
  <2>3. QED
    BY <2>1, <2>2
<1>3. db' = [x \in Ids |-> db'[x]]
  BY <1>1
<1>4. /\ asked' = [s \in Ids |-> IF s \in Rows THEN db[s].cfg ELSE {}]
      /\ req' = [r \in Requests |-> Idle]
  BY DEF Crash
<1>5. asked' \in [Ids -> SUBSET Names]
  BY <1>2, <1>4 DEF Rows
<1>6. \A x \in Ids : db[x] # None => asked'[x] = db[x].cfg
  BY <1>4 DEF Rows
<1>7. req' \in [Requests -> Task] /\ \A r \in Requests : req'[r] = Idle
  BY <1>4, IdleIs
<1>8. QED
  BY <1>2, <1>3, <1>5, <1>6, <1>7 DEF RowsKept

LEMMA OthersTyped ==
  ASSUME TypeOK, TasksSound, Expire \/ DeleteExpired \/ CleanupFails \/ Crash
  PROVE  TypeOK' /\ TasksSound'
<1>1. CASE Expire
  <2>1. db' \in [Ids -> Row \cup {None}] /\ aged' \subseteq Ids
    BY <1>1, ExpireIs
  <2>2. QED
    BY <1>1, <2>1 DEF Expire, TypeOK, TasksSound, countVars
<1>2. CASE DeleteExpired
  <2>1. db' \in [Ids -> Row \cup {None}] /\ aged' \subseteq Ids /\ spoiled' \subseteq Ids
    BY <1>2, DeleteIs
  <2>2. QED
    BY <1>2, <2>1 DEF DeleteExpired, TypeOK, TasksSound, countVars
<1>3. CASE CleanupFails
  BY <1>3 DEF CleanupFails, TypeOK, TasksSound, dbVars, countVars
<1>4. CASE Crash
  <2>1. /\ db' \in [Ids -> Row \cup {None}] /\ asked' \in [Ids -> SUBSET Names]
        /\ req' \in [Requests -> Task] /\ \A r \in Requests : req'[r] = Idle
    BY <1>4, CrashIs
  <2>2. TasksSound'
    BY <2>1, IdleIs DEF TasksSound
  <2>3. lock' \in [Prints -> Seq(Requests)] /\ reconciled' \in Seq(Ids)
    BY <1>4 DEF Crash
  <2>4. crashes' \in Nat /\ spoiled' = {} /\ cleanup' = "sleep"
    BY <1>4 DEF Crash, TypeOK
  <2>5. UNCHANGED <<aged, traced, minted, arrivals>>
    BY <1>4 DEF Crash
  <2>6. QED
    BY <2>1, <2>2, <2>3, <2>4, <2>5 DEF TypeOK
<1>5. QED
  BY <1>1, <1>2, <1>3, <1>4

LEMMA NextTyped ==
  ASSUME TypeOK, TasksSound, SettingsSound, Next
  PROVE  TypeOK' /\ TasksSound'
BY StepTyped, ArriveTyped, OthersTyped DEF Next

-----------------------------------------------------------------------------
(* The creation locks.                                                     *)

\* The waiter at place n of the queue of p.
LEMMA WaiterIs ==
  ASSUME TypeOK, LockSound, NEW p \in Prints, NEW n \in 1..Len(lock[p])
  PROVE  /\ lock[p][n] \in Requests /\ Queued(lock[p][n])
         /\ Fingerprint(req[lock[p][n]].q) = p
         /\ At(lock[p][n], "create") => n = 1
BY DEF TypeOK, LockSound

\* Who holds a lock, or creates a row for a fingerprint, is first in its queue.
LEMMA HeadIs ==
  ASSUME TypeOK, TasksSound, LockSound, NEW r \in Requests,
         Queued(r), \/ req[r].pc = "create"
                    \/ Head(lock[Fingerprint(req[r].q)]) = r
  PROVE  /\ Fingerprint(req[r].q) \in Prints
         /\ lock[Fingerprint(req[r].q)] # <<>>
         /\ Head(lock[Fingerprint(req[r].q)]) = r
<1>. DEFINE p == Fingerprint(req[r].q)
<1>1. p \in Prints
  BY ReqIs, QueryIs DEF Queued, Waiting, TaskSound
<1>2. lock[p] \in Seq(Requests)
  BY <1>1 DEF TypeOK
<1>3. PICK n \in 1..Len(lock[p]) : lock[p][n] = r
  BY DEF LockSound
<1>4. lock[p] # <<>>
  BY <1>2, <1>3
<1>5. req[r].pc = "create" => n = 1
  BY <1>1, <1>3 DEF LockSound, At
<1>6. Head(lock[p]) = lock[p][1]
  BY <1>2, <1>4
<1>7. QED
  BY <1>1, <1>3, <1>4, <1>5, <1>6

LEMMA NotQueued ==
  ASSUME TypeOK, LockSound, NEW r \in Requests, ~Queued(r), Release(r)
  PROVE  lock' = lock
<1>1. ASSUME NEW p \in Prints, lock[p] # <<>>
      PROVE  Head(lock[p]) # r
  <2>1. lock[p] \in Seq(Requests)
    BY DEF TypeOK
  <2>2. 1 \in 1..Len(lock[p]) /\ Head(lock[p]) = lock[p][1]
    BY <1>1, <2>1
  <2>3. Queued(lock[p][1])
    BY <2>2 DEF LockSound
  <2>4. QED
    BY <2>2, <2>3
<1>2. lock' = [p \in Prints |-> lock[p]]
  BY <1>1 DEF Release
<1>3. QED
  BY <1>2 DEF TypeOK

LEMMA ReleasedOne ==
  ASSUME TypeOK, LockSound, NEW p \in Prints, lock[p] # <<>>, NEW r \in Requests,
         Head(lock[p]) = r, Release(r)
  PROVE  lock' = [lock EXCEPT ![p] = Tail(@)]
<1>1. ASSUME NEW k \in Prints \ {p}, lock[k] # <<>>
      PROVE  Head(lock[k]) # r
  <2>1. lock[k] \in Seq(Requests) /\ lock[p] \in Seq(Requests)
    BY DEF TypeOK
  <2>2. 1 \in 1..Len(lock[k]) /\ Head(lock[k]) = lock[k][1]
    BY <1>1, <2>1
  <2>3. 1 \in 1..Len(lock[p]) /\ Head(lock[p]) = lock[p][1]
    BY <2>1
  <2>4. Fingerprint(req[lock[k][1]].q) = k /\ Fingerprint(req[lock[p][1]].q) = p
    BY <2>2, <2>3 DEF LockSound
  <2>5. QED
    BY <2>2, <2>3, <2>4
<1>2. lock' = [k \in Prints |-> IF k = p THEN Tail(lock[p]) ELSE lock[k]]
  BY <1>1 DEF Release
<1>3. QED
  BY <1>2 DEF TypeOK

\* The step is none of the locks' business.
LEMMA QuietLocks ==
  ASSUME TypeOK, LockSound, lock' = lock,
         \A x \in Requests : Queued(x) \/ Queued(x)' => req'[x] = req[x]
  PROVE  LockSound'
<1>1. ASSUME NEW p \in Prints, NEW n \in 1..Len(lock[p])
      PROVE  /\ Waiting(req'[lock[p][n]]) /\ Fingerprint(req'[lock[p][n]].q) = p
             /\ req'[lock[p][n]].pc = "create" => n = 1
  <2>1. PICK x \in Requests : x = lock[p][n]
    BY WaiterIs
  <2>2. Queued(x) /\ Fingerprint(req[x].q) = p /\ (At(x, "create") => n = 1)
    BY <2>1, WaiterIs
  <2>3. req'[x] = req[x]
    BY <2>2
  <2>4. QED
    BY <2>1, <2>2, <2>3 DEF Queued, Waiting, At
<1>2. ASSUME NEW r \in Requests, Queued(r)'
      PROVE  \E n \in 1..Len(lock'[Fingerprint(req'[r].q)]) :
               lock'[Fingerprint(req'[r].q)][n] = r
  <2>1. req'[r] = req[r]
    BY <1>2
  <2>2. Queued(r)
    BY <1>2, <2>1 DEF Queued, Waiting
  <2>3. QED
    BY <2>1, <2>2 DEF LockSound
<1>3. QED
  BY <1>1, <1>2 DEF LockSound, Queued, At

\* A request that saw no row queues up.
LEMMA Enqueues ==
  ASSUME TypeOK, TasksSound, LockSound, NEW r \in Requests, NEW p \in Prints,
         NEW t, Becomes(r, t), t.pc = "locked", HasPrint(t.q), Fingerprint(t.q) = p,
         ~Queued(r), lock' = [lock EXCEPT ![p] = Append(@, r)]
  PROVE  LockSound'
<1>1. /\ req'[r] = t /\ \A x \in Requests \ {r} : req'[x] = req[x]
  BY OthersKept
<1>2. lock[p] \in Seq(Requests)
  BY DEF TypeOK
<1>3. PICK m \in Nat : m = Len(lock[p])
  BY <1>2
<1>4. /\ lock'[p] = Append(lock[p], r) /\ \A k \in Prints \ {p} : lock'[k] = lock[k]
      /\ Len(lock'[p]) = m + 1 /\ lock'[p][m + 1] = r
      /\ \A n \in 1..m : lock'[p][n] = lock[p][n]
  BY <1>2, <1>3, AppendProperties DEF TypeOK
<1>5. \A k \in Prints : \A n \in 1..Len(lock[k]) : lock[k][n] \in Requests \ {r}
  BY WaiterIs
<1>6. ASSUME NEW k \in Prints, NEW n \in 1..Len(lock[k])
      PROVE  /\ Waiting(req'[lock[k][n]]) /\ Fingerprint(req'[lock[k][n]].q) = k
             /\ req'[lock[k][n]].pc = "create" => n = 1
  <2>1. PICK x \in Requests \ {r} : x = lock[k][n]
    BY <1>5
  <2>2. Queued(x) /\ Fingerprint(req[x].q) = k /\ (At(x, "create") => n = 1)
    BY <2>1, WaiterIs
  <2>3. req'[x] = req[x]
    BY <1>1
  <2>4. QED
    BY <2>1, <2>2, <2>3 DEF Queued, Waiting, At
<1>7. Queued(r)' /\ Fingerprint(req'[r].q) = p /\ req'[r].pc # "create"
  BY <1>1 DEF Queued, Waiting
<1>8. ASSUME NEW k \in Prints, NEW n \in 1..Len(lock'[k])
      PROVE  /\ Waiting(req'[lock'[k][n]]) /\ Fingerprint(req'[lock'[k][n]].q) = k
             /\ req'[lock'[k][n]].pc = "create" => n = 1
             /\ \A i \in 1..Len(lock'[k]) : lock'[k][i] = lock'[k][n] => i = n
  <2>1. CASE k # p
    BY <1>4, <1>6, <2>1 DEF LockSound
  <2>2. CASE k = p /\ n \in 1..m
    <3>1. ASSUME NEW i \in 1..(m + 1), lock'[k][i] = lock'[k][n]
          PROVE  i = n
      <4>1. i # m + 1
        BY <1>3, <1>4, <1>5, <2>2, <3>1
      <4>2. i \in 1..m
        BY <4>1
      <4>3. QED
        BY <1>3, <1>4, <2>2, <3>1, <4>2 DEF LockSound
    <3>2. QED
      BY <1>3, <1>4, <1>6, <2>2, <3>1
  <2>3. CASE k = p /\ n = m + 1
    <3>1. ASSUME NEW i \in 1..(m + 1), lock'[k][i] = r
          PROVE  i = n
      <4>1. i \notin 1..m
        BY <1>3, <1>4, <1>5, <2>3, <3>1
      <4>2. QED
        BY <2>3, <4>1
    <3>2. Waiting(req'[r])
      BY <1>7 DEF Queued
    <3>3. QED
      BY <1>4, <1>7, <2>3, <3>1, <3>2
  <2>4. QED
    BY <1>4, <2>1, <2>2, <2>3
<1>9. ASSUME NEW x \in Requests, Queued(x)'
      PROVE  \E n \in 1..Len(lock'[Fingerprint(req'[x].q)]) :
               lock'[Fingerprint(req'[x].q)][n] = x
  <2>1. CASE x = r
    BY <1>4, <1>7, <2>1
  <2>2. CASE x # r
    <3>1. req'[x] = req[x]
      BY <1>1, <2>2
    <3>2. Queued(x)
      BY <1>9, <3>1 DEF Queued, Waiting
    <3>3. PICK k : k = Fingerprint(req[x].q)
      OBVIOUS
    <3>4. k \in Prints
      BY <3>2, <3>3, ReqIs, QueryIs DEF Queued, Waiting, TaskSound
    <3>5. PICK n \in 1..Len(lock[k]) : lock[k][n] = x
      BY <3>2, <3>3 DEF LockSound
    <3>6. n \in 1..Len(lock'[k]) /\ lock'[k][n] = x
      BY <1>3, <1>4, <3>4, <3>5
    <3>7. QED
      BY <3>1, <3>3, <3>6
  <2>3. QED
    BY <2>1, <2>2
<1>10. QED
  BY <1>8, <1>9 DEF LockSound, Queued, At

\* The holder of the lock goes on to create the row.
LEMMA GoesToCreate ==
  ASSUME TypeOK, TasksSound, LockSound, NEW r \in Requests, NEW t, Becomes(r, t),
         t.pc = "create", t.q = req[r].q, Queued(r),
         Head(lock[Fingerprint(req[r].q)]) = r, lock' = lock
  PROVE  LockSound'
<1>1. /\ req'[r] = t /\ \A x \in Requests \ {r} : req'[x] = req[x]
  BY OthersKept
<1>2. PICK p : p = Fingerprint(req[r].q)
  OBVIOUS
<1>3. p \in Prints /\ lock[p] # <<>> /\ Head(lock[p]) = r
  BY <1>2, HeadIs
<1>4. lock[p] \in Seq(Requests) /\ 1 \in 1..Len(lock[p]) /\ lock[p][1] = r
  BY <1>3 DEF TypeOK
<1>5. \A x \in Requests : Queued(x)' <=> Queued(x)
  BY <1>1 DEF Queued, Waiting
<1>6. \A x \in Requests : req'[x].q = req[x].q
  BY <1>1
<1>7. ASSUME NEW k \in Prints, NEW n \in 1..Len(lock[k]), req'[lock[k][n]].pc = "create"
      PROVE  n = 1
  <2>1. PICK x \in Requests : x = lock[k][n]
    BY WaiterIs
  <2>2. CASE x = r
    <3>1. k = p
      BY <1>2, <2>1, <2>2, WaiterIs
    <3>2. \A i \in 1..Len(lock[p]) : lock[p][i] = lock[p][1] => i = 1
      BY <1>3, <1>4 DEF LockSound
    <3>3. QED
      BY <1>4, <2>1, <2>2, <3>1, <3>2
  <2>3. CASE x # r
    <3>1. req[x].pc = "create"
      BY <1>1, <1>7, <2>1, <2>3
    <3>2. QED
      BY <2>1, <3>1, WaiterIs DEF At
  <2>4. QED
    BY <2>2, <2>3
<1>8. ASSUME NEW k \in Prints, NEW n \in 1..Len(lock[k])
      PROVE  /\ Waiting(req'[lock[k][n]]) /\ Fingerprint(req'[lock[k][n]].q) = k
  <2>1. PICK x \in Requests : x = lock[k][n]
    BY WaiterIs
  <2>2. Queued(x) /\ Fingerprint(req[x].q) = k
    BY <2>1, WaiterIs
  <2>3. Waiting(req'[x])
    BY <1>5, <2>2 DEF Queued
  <2>4. QED
    BY <1>6, <2>1, <2>2, <2>3
<1>9. QED
  BY <1>5, <1>6, <1>7, <1>8 DEF LockSound, Queued, At

\* The first of a queue leaves it.
LEMMA Leaves ==
  ASSUME TypeOK, TasksSound, LockSound, NEW r \in Requests, NEW t, Becomes(r, t),
         t.pc \notin {"locked", "create"}, Queued(r),
         \/ req[r].pc = "create"
         \/ Head(lock[Fingerprint(req[r].q)]) = r,
         Release(r)
  PROVE  LockSound'
<1>1. /\ req'[r] = t /\ \A x \in Requests \ {r} : req'[x] = req[x]
  BY OthersKept
<1>2. PICK p : p = Fingerprint(req[r].q)
  OBVIOUS
<1>3. p \in Prints /\ lock[p] # <<>> /\ Head(lock[p]) = r
  BY <1>2, HeadIs
<1>4. lock[p] \in Seq(Requests) /\ 1 \in 1..Len(lock[p]) /\ lock[p][1] = r
  BY <1>3 DEF TypeOK
<1>5. lock' = [lock EXCEPT ![p] = Tail(@)]
  BY <1>3, ReleasedOne
<1>6. PICK m \in Nat : m + 1 = Len(lock[p])
  <2>1. Len(lock[p]) - 1 \in Nat /\ (Len(lock[p]) - 1) + 1 = Len(lock[p])
    BY <1>4
  <2>2. QED
    BY <2>1
<1>7. /\ \A k \in Prints \ {p} : lock'[k] = lock[k]
      /\ Len(lock'[p]) = m /\ \A n \in 1..m : lock'[p][n] = lock[p][n + 1]
  <2>1. /\ Len(Tail(lock[p])) = Len(lock[p]) - 1
        /\ \A n \in 1..Len(Tail(lock[p])) : Tail(lock[p])[n] = lock[p][n + 1]
    BY <1>3, <1>4, HeadTailProperties
  <2>2. lock'[p] = Tail(lock[p])
    BY <1>3, <1>5 DEF TypeOK
  <2>3. \A k \in Prints \ {p} : lock'[k] = lock[k]
    BY <1>5 DEF TypeOK
  <2>4. Len(lock[p]) - 1 = m
    BY <1>6
  <2>5. QED
    BY <2>1, <2>2, <2>3, <2>4
<1>8. \A n \in 1..m : n + 1 \in 1..Len(lock[p]) /\ n + 1 # 1
  BY <1>6
\* Who is still queued was queued behind r, or at another lock.
<1>9. ASSUME NEW k \in Prints, NEW n \in 1..Len(lock[k]), lock[k][n] # r
      PROVE  /\ Waiting(req'[lock[k][n]]) /\ Fingerprint(req'[lock[k][n]].q) = k
             /\ req'[lock[k][n]].pc = "create" => n = 1
  <2>1. PICK x \in Requests \ {r} : x = lock[k][n]
    BY <1>9, WaiterIs
  <2>2. Queued(x) /\ Fingerprint(req[x].q) = k /\ (At(x, "create") => n = 1)
    BY <2>1, WaiterIs
  <2>3. req'[x] = req[x]
    BY <1>1
  <2>4. QED
    BY <2>1, <2>2, <2>3 DEF Queued, Waiting, At
<1>10. \A n \in 1..m : lock[p][n + 1] # r
  BY <1>3, <1>4, <1>8 DEF LockSound
<1>11. \A k \in Prints \ {p} : \A n \in 1..Len(lock[k]) : lock[k][n] # r
  BY <1>2, WaiterIs
<1>12. ASSUME NEW k \in Prints, NEW n \in 1..Len(lock'[k])
       PROVE  /\ Waiting(req'[lock'[k][n]]) /\ Fingerprint(req'[lock'[k][n]].q) = k
              /\ req'[lock'[k][n]].pc = "create" => n = 1
              /\ \A i \in 1..Len(lock'[k]) : lock'[k][i] = lock'[k][n] => i = n
  <2>1. CASE k # p
    BY <1>7, <1>9, <1>11, <2>1 DEF LockSound
  <2>2. CASE k = p
    <3>1. n \in 1..m /\ lock'[k][n] = lock[p][n + 1]
      BY <1>7, <2>2
    <3>2. /\ Waiting(req'[lock[p][n + 1]]) /\ Fingerprint(req'[lock[p][n + 1]].q) = p
          /\ req'[lock[p][n + 1]].pc # "create"
      BY <1>3, <1>8, <1>9, <1>10, <3>1
    <3>3. ASSUME NEW i \in 1..m, lock[p][i + 1] = lock[p][n + 1]
          PROVE  i = n
      <4>1. i + 1 = n + 1
        BY <1>3, <1>8, <3>1, <3>3 DEF LockSound
      <4>2. QED
        BY <3>1, <4>1
    <3>4. QED
      BY <1>7, <2>2, <3>1, <3>2, <3>3
  <2>3. QED
    BY <2>1, <2>2
<1>13. ASSUME NEW x \in Requests, Queued(x)'
       PROVE  \E n \in 1..Len(lock'[Fingerprint(req'[x].q)]) :
                lock'[Fingerprint(req'[x].q)][n] = x
  <2>1. x # r
    BY <1>1, <1>13 DEF Queued, Waiting
  <2>2. req'[x] = req[x]
    BY <1>1, <2>1
  <2>3. Queued(x)
    BY <1>13, <2>2 DEF Queued, Waiting
  <2>4. PICK k : k = Fingerprint(req[x].q)
    OBVIOUS
  <2>5. k \in Prints
    BY <2>3, <2>4, ReqIs, QueryIs DEF Queued, Waiting, TaskSound
  <2>6. PICK n \in 1..Len(lock[k]) : lock[k][n] = x
    BY <2>3, <2>4 DEF LockSound
  <2>7. \E j \in 1..Len(lock'[k]) : lock'[k][j] = x
    <3>1. CASE k # p
      BY <1>7, <2>5, <2>6, <3>1
    <3>2. CASE k = p
      <4>1. n # 1
        BY <1>4, <2>1, <2>6, <3>2
      <4>2. n - 1 \in 1..m /\ (n - 1) + 1 = n
        BY <1>6, <2>6, <3>2, <4>1
      <4>3. n - 1 \in 1..Len(lock'[k]) /\ lock'[k][n - 1] = x
        BY <1>7, <2>6, <3>2, <4>2
      <4>4. QED
        BY <4>3
    <3>3. QED
      BY <3>1, <3>2
  <2>8. QED
    BY <2>2, <2>4, <2>7
<1>14. QED
  BY <1>12, <1>13 DEF LockSound, Queued, At

-----------------------------------------------------------------------------
(* One row for a conversation.                                             *)

\* A row of the next state was there before, has an explicit id, or is the
\* one just made for p under the next random id.
RowsStep(p) ==
  /\ minted' \in Nat /\ minted' >= minted
  /\ \A x \in Ids : db'[x] # None =>
       \/ db[x] # None /\ db'[x].print = db[x].print
       \/ x \in ExplicitIds /\ db'[x].print = None
       \/ /\ x \notin ExplicitIds /\ x = minted + 1 /\ minted' = minted + 1
          /\ db'[x].print = p

LEMMA RowsKeptIs ==
  ASSUME TypeOK, RowsKept, minted' = minted
  PROVE  RowsStep(None)
BY SessionBounds DEF RowsKept, RowsStep, TypeOK

\* Nobody is to create a row that is there, unless it is the one just made.
LEMMA OneRowStep ==
  ASSUME TypeOK, OneRow, NEW p \in Prints \cup {None}, RowsStep(p),
         p # None => RowOf(p) = {},
         \A x \in Requests : req'[x].pc = "create" /\ HasPrint(req'[x].q) =>
           /\ RowOf(Fingerprint(req'[x].q)) = {}
           /\ Fingerprint(req'[x].q) \in Prints \ {p}
  PROVE  OneRow'
<1>1. minted \in Nat /\ minted' \in Nat /\ minted' >= minted
  BY SessionBounds DEF RowsStep, TypeOK
<1>2. ASSUME NEW k \in Prints, k # p, NEW x \in Ids, db'[x] # None, db'[x].print = k
      PROVE  x \in RowOf(k)
  BY <1>2, ConstantsAre DEF RowsStep, RowOf, Rows
<1>3. ASSUME NEW k \in Prints \cup {None}, k # None, NEW s1 \in Ids, NEW s2 \in Ids,
             db'[s1] # None, db'[s2] # None, db'[s1].print = k, db'[s2].print = k
      PROVE  s1 = s2
  <2>1. CASE k # p
    <3>1. s1 \in RowOf(k) /\ s2 \in RowOf(k)
      BY <1>2, <1>3, <2>1
    <3>2. QED
      BY <1>3, <3>1 DEF OneRow, RowOf
  <2>2. CASE k = p
    <3>1. \A x \in Ids : db'[x] # None /\ db'[x].print = p => x = minted + 1
      BY <1>3, <2>2 DEF RowsStep, RowOf, Rows
    <3>2. QED
      BY <1>3, <2>2, <3>1
  <2>3. QED
    BY <2>1, <2>2
<1>4. ASSUME NEW s \in Ids, db'[s] # None
      PROVE  /\ db'[s].print \in Prints \cup {None}
             /\ s \in ExplicitIds => db'[s].print = None
             /\ s \notin ExplicitIds => s <= minted'
  <2>1. CASE db[s] # None /\ db'[s].print = db[s].print
    <3>1. db[s] \in Row
      BY <2>1, RowIs
    <3>2. s \notin ExplicitIds => s \in Nat /\ s <= minted
      BY <2>1, ConstantsAre DEF OneRow, Rows
    <3>3. QED
      BY <1>1, <2>1, <3>1, <3>2 DEF OneRow, Rows, Row
  <2>2. CASE s \in ExplicitIds /\ db'[s].print = None
    BY <2>2
  <2>3. CASE s \notin ExplicitIds /\ s = minted + 1 /\ minted' = minted + 1 /\ db'[s].print = p
    BY <1>1, <2>3
  <2>4. QED
    BY <1>4, <2>1, <2>2, <2>3 DEF RowsStep
<1>5. ASSUME NEW x \in Requests, req'[x].pc = "create", HasPrint(req'[x].q)
      PROVE  \A s \in Ids : db'[s] # None => db'[s].print # Fingerprint(req'[x].q)
  <2>1. PICK k \in Prints \ {p} : k = Fingerprint(req'[x].q) /\ RowOf(k) = {}
    BY <1>5
  <2>2. QED
    BY <1>2, <2>1
<1>6. \A x \in Requests : (At(x, "create") /\ HasPrint(req[x].q) =>
                           RowOf(Fingerprint(req[x].q)) = {})'
  BY <1>5 DEF At, RowOf, Rows
<1>7. (\A s1, s2 \in Rows : db[s1].print = db[s2].print /\ db[s1].print # None
                           => s1 = s2)'
  BY <1>3, <1>4 DEF Rows
<1>8. (\A s \in Rows : (s \in ExplicitIds => db[s].print = None)
                      /\ (s \notin ExplicitIds => s <= minted))'
  BY <1>4 DEF Rows
<1>9. QED
  BY <1>6, <1>7, <1>8 DEF OneRow

LEMMA QuietRows ==
  ASSUME TypeOK, TasksSound, OneRow, RowsStep(None),
         NEW r \in Requests, NEW t, Becomes(r, t),
         t.pc = "create" /\ HasPrint(t.q) => RowOf(Fingerprint(t.q)) = {}
  PROVE  OneRow'
<1>1. /\ req'[r] = t /\ \A x \in Requests \ {r} : req'[x] = req[x]
  BY OthersKept
<1>2. ASSUME NEW x \in Requests, req'[x].pc = "create", HasPrint(req'[x].q)
      PROVE  /\ RowOf(Fingerprint(req'[x].q)) = {}
             /\ Fingerprint(req'[x].q) \in Prints \ {None}
  <2>1. PICK u : u = req'[x] /\ TaskSound(u)
    BY <1>1 DEF Becomes, TasksSound
  <2>2. Fingerprint(u.q) \in Prints \ {None}
    BY <1>2, <2>1, QueryIs, ConstantsAre DEF TaskSound
  <2>3. CASE x = r
    BY <1>1, <1>2, <2>1, <2>2, <2>3
  <2>4. CASE x # r
    BY <1>1, <1>2, <2>1, <2>2, <2>4 DEF OneRow, At
  <2>5. QED
    BY <2>3, <2>4
<1>3. QED
  BY <1>2, OneRowStep

\* A step of a request that has nothing to do with a lock.
LEMMA QuietStep ==
  ASSUME TypeOK, TasksSound, LockSound, OneRow, lock' = lock, RowsStep(None),
         NEW r \in Requests, NEW t, Becomes(r, t), ~Waiting(req[r]), ~Waiting(t)
  PROVE  LockSound' /\ OneRow'
<1>1. /\ req'[r] = t /\ \A x \in Requests \ {r} : req'[x] = req[x]
  BY OthersKept
<1>2. \A x \in Requests : Queued(x) \/ Queued(x)' => req'[x] = req[x]
  BY <1>1 DEF Queued
<1>3. LockSound'
  BY <1>2, QuietLocks
<1>4. OneRow'
  BY QuietRows DEF Waiting
<1>5. QED
  BY <1>3, <1>4

\* A request that knows its session, or has none, works on.
LEMMA WorksOn ==
  ASSUME TypeOK, TasksSound, LockSound, OneRow, NEW r \in Requests,
         req[r].pc \notin {"locked", "create"}, lock' = lock \/ Release(r),
         RowsKept, minted' = minted,
         \E t : Becomes(r, t) /\ t.pc \notin {"locked", "create"}
  PROVE  LockSound' /\ OneRow'
<1>1. PICK t : Becomes(r, t) /\ t.pc \notin {"locked", "create"}
  OBVIOUS
<1>2. ~Waiting(req[r]) /\ ~Waiting(t) /\ ~Queued(r)
  BY <1>1 DEF Waiting, Queued
<1>3. lock' = lock
  BY <1>2, NotQueued
<1>4. RowsStep(None)
  BY RowsKeptIs
<1>5. QED
  BY <1>1, <1>2, <1>3, <1>4, QuietStep

LEMMA FindsKeepLocks ==
  ASSUME TypeOK, TasksSound, LockSound, OneRow, NEW r \in Requests,
         FindById(r) \/ FindByPrint(r) \/ FindLocked(r)
  PROVE  LockSound' /\ OneRow'
<1>1. RowsKept /\ RowsStep(None) /\ minted' = minted
  BY RowsUnchanged, RowsKeptIs DEF FindById, FindByPrint, FindLocked, dbVars, countVars
<1>2. \A s \in Rows : req[r].pc \in {"byId", "byPrint", "locked"} /\ Found(r, s) =>
        \E t : Becomes(r, t) /\ t.pc \notin {"locked", "create"}
  <2>1. ASSUME NEW s \in Rows, req[r].pc \in {"byId", "byPrint", "locked"}, Found(r, s)
        PROVE  \E t : Becomes(r, t) /\ t.pc \notin {"locked", "create"}
    <3>1. PICK t : /\ Becomes(r, t) /\ t.q = req[r].q
                   /\ t.pc = IF Contains(reconciled, s) THEN AfterReconcile(t.q)
                             ELSE "trace"
      BY <2>1, FoundIs
    <3>2. AfterReconcile(t.q) \in {"touch", "turn"}
      BY DEF AfterReconcile
    <3>3. QED
      BY <3>1, <3>2
  <2>2. QED
    BY <2>1
<1>3. CASE FindById(r)
  <2>1. req[r].pc = "byId" /\ HasId(req[r].q) /\ lock' = lock
    BY <1>3, FindByIdIs DEF FindById
  <2>2. CASE req[r].q.id \in Rows /\ Found(r, req[r].q.id)
    BY <1>1, <1>2, <2>1, <2>2, WorksOn
  <2>3. CASE Went(r, "create")
    <3>1. PICK t : Becomes(r, t) /\ t.pc = "create" /\ t.q = req[r].q
      BY <2>3 DEF Went, Same
    <3>2. ~Waiting(req[r]) /\ ~Waiting(t)
      BY <2>1, <3>1 DEF Waiting, HasPrint
    <3>3. QED
      BY <1>1, <2>1, <3>1, <3>2, QuietStep
  <2>4. QED
    BY <1>3, <2>2, <2>3, FindByIdIs
<1>4. CASE FindByPrint(r)
  <2>1. PICK p \in Prints :
          /\ p = Fingerprint(req[r].q) /\ req[r].pc = "byPrint" /\ HasPrint(req[r].q)
          /\ \/ \E s \in Rows : db[s].print = p /\ Found(r, s) /\ lock' = lock
             \/ /\ RowOf(p) = {} /\ Went(r, "locked")
                /\ lock' = [lock EXCEPT ![p] = Append(@, r)]
    BY <1>4, FindByPrintIs
  <2>2. CASE \E s \in Rows : db[s].print = p /\ Found(r, s) /\ lock' = lock
    BY <1>1, <1>2, <2>1, <2>2, WorksOn
  <2>3. CASE Went(r, "locked") /\ lock' = [lock EXCEPT ![p] = Append(@, r)]
    <3>1. PICK t : Becomes(r, t) /\ t.pc = "locked" /\ t.q = req[r].q
      BY <2>3 DEF Went, Same
    <3>2. ~Queued(r)
      BY <2>1 DEF Queued, Waiting
    <3>3. LockSound'
      BY <2>1, <2>3, <3>1, <3>2, Enqueues
    <3>4. OneRow'
      BY <1>1, <3>1, QuietRows
    <3>5. QED
      BY <3>3, <3>4
  <2>4. QED
    BY <2>1, <2>2, <2>3
<1>5. CASE FindLocked(r)
  <2>1. PICK p \in Prints :
          /\ p = Fingerprint(req[r].q) /\ req[r].pc = "locked" /\ HasPrint(req[r].q)
          /\ Head(lock[p]) = r
          /\ \/ \E s \in Rows : db[s].print = p /\ Found(r, s) /\ Release(r)
             \/ RowOf(p) = {} /\ Went(r, "create") /\ UNCHANGED lock
    BY <1>5, FindLockedIs
  <2>2. Queued(r) /\ Head(lock[Fingerprint(req[r].q)]) = r
    BY <2>1 DEF Queued, Waiting
  <2>3. CASE \E s \in Rows : db[s].print = p /\ Found(r, s) /\ Release(r)
    <3>1. PICK t : Becomes(r, t) /\ t.pc \notin {"locked", "create"}
      BY <1>2, <2>1, <2>3
    <3>2. LockSound'
      BY <2>2, <2>3, <3>1, Leaves
    <3>3. OneRow'
      BY <1>1, <3>1, QuietRows
    <3>4. QED
      BY <3>2, <3>3
  <2>4. CASE RowOf(p) = {} /\ Went(r, "create") /\ UNCHANGED lock
    <3>1. PICK t : Becomes(r, t) /\ t.pc = "create" /\ t.q = req[r].q
      BY <2>4 DEF Went, Same
    <3>2. LockSound'
      BY <2>2, <2>4, <3>1, GoesToCreate
    <3>3. OneRow'
      BY <1>1, <2>1, <2>4, <3>1, QuietRows
    <3>4. QED
      BY <3>2, <3>3
  <2>5. QED
    BY <2>1, <2>3, <2>4
<1>6. QED
  BY <1>3, <1>4, <1>5

LEMMA CreateKeepsLocks ==
  ASSUME TypeOK, TasksSound, TasksSound', LockSound, OneRow, NEW r \in Requests, Create(r)
  PROVE  LockSound' /\ OneRow'
<1>1. PICK q \in Queries :
        /\ q = req[r].q /\ req[r].pc = "create"
        /\ \/ /\ HasId(q) /\ q.id \in ExplicitIds /\ db[q.id] = None
              /\ Created(r, q.id, None) /\ UNCHANGED <<lock, minted>>
           \/ /\ HasId(q) /\ Went(r, "serve")
              /\ UNCHANGED <<db, lock, minted>>
           \/ /\ ~HasId(q) /\ minted + 1 \in 1..MaxMinted /\ minted' = minted + 1
              /\ Created(r, minted + 1, IF Anonymous(q) THEN None ELSE Fingerprint(q))
              /\ Release(r)
  BY CreateIs
<1>2. minted \in Nat
  BY SessionBounds DEF TypeOK
<1>3. CASE HasId(q) /\ q.id \in ExplicitIds /\ db[q.id] = None
           /\ Created(r, q.id, None) /\ UNCHANGED <<lock, minted>>
  <2>1. PICK s \in Ids : s = q.id
    BY <1>3, ConstantsAre
  <2>2. PICK t : Becomes(r, t) /\ t.pc = "turn"
    BY <1>1, <1>3, <2>1, CreatedIs
  <2>3. db'[s].print = None /\ \A x \in Ids \ {s} : db'[x] = db[x]
    BY <1>1, <1>3, <2>1, CreatedIs
  <2>4. RowsStep(None)
    BY <1>2, <1>3, <2>1, <2>3 DEF RowsStep
  <2>5. ~Waiting(req[r]) /\ ~Waiting(t)
    BY <1>1, <1>3, <2>2 DEF Waiting, HasPrint
  <2>6. QED
    BY <1>3, <2>2, <2>4, <2>5, QuietStep
<1>4. CASE HasId(q) /\ Went(r, "serve") /\ UNCHANGED <<db, lock, minted>>
  <2>1. PICK t : Becomes(r, t) /\ t.pc = "serve"
    BY <1>4 DEF Went
  <2>2. ~Waiting(req[r]) /\ ~Waiting(t)
    BY <1>1, <1>4, <2>1 DEF Waiting, HasPrint
  <2>3. RowsStep(None)
    BY <1>4, RowsUnchanged, RowsKeptIs
  <2>4. QED
    BY <1>4, <2>1, <2>2, <2>3, QuietStep
<1>5. CASE /\ ~HasId(q) /\ minted + 1 \in 1..MaxMinted /\ minted' = minted + 1
           /\ Created(r, minted + 1, IF Anonymous(q) THEN None ELSE Fingerprint(q))
           /\ Release(r)
  <2>1. PICK s \in Ids : s = minted + 1 /\ s \notin ExplicitIds
    BY <1>5, SessionNames, ConstantsAre
  <2>2. PICK p \in Prints \cup {None} :
          /\ p = IF Anonymous(q) THEN None ELSE Fingerprint(q)
          /\ HasPrint(q) <=> p # None
          /\ HasPrint(q) => Fingerprint(q) = p
    BY <1>1, <1>5, QueryIs, ConstantsAre DEF Anonymous, HasPrint
  <2>3. Created(r, s, p) /\ minted' = minted + 1
    BY <1>5, <2>1, <2>2
  <2>4. PICK t : Becomes(r, t) /\ t.pc = "turn"
    BY <1>1, <2>3, CreatedIs
  <2>5. db'[s].print = p /\ \A x \in Ids \ {s} : db'[x] = db[x]
    BY <1>1, <2>3, CreatedIs
  <2>6. RowsStep(p)
    <3>1. minted' \in Nat /\ minted' >= minted /\ s = minted + 1 /\ minted' = minted + 1
      BY <1>2, <2>1, <2>3
    <3>2. \A x \in Ids : x = s \/ db'[x] = db[x]
      BY <2>5
    <3>3. QED
      BY <2>1, <2>5, <3>1, <3>2 DEF RowsStep
  <2>7. CASE p = None
    <3>1. ~Waiting(req[r]) /\ ~Waiting(t) /\ ~Queued(r)
      BY <1>1, <2>2, <2>4, <2>7 DEF Waiting, Queued
    <3>2. lock' = lock
      BY <1>5, <3>1, NotQueued
    <3>3. QED
      BY <2>4, <2>6, <2>7, <3>1, <3>2, QuietStep
  <2>8. CASE p # None
    <3>1. Queued(r) /\ HasPrint(req[r].q) /\ Fingerprint(req[r].q) = p
      BY <1>1, <2>2, <2>8 DEF Queued, Waiting
    <3>2. LockSound'
      BY <1>1, <1>5, <2>4, <3>1, Leaves
    <3>3. RowOf(p) = {}
      BY <1>1, <3>1 DEF OneRow, At
    <3>4. Head(lock[p]) = r
      BY <1>1, <3>1, HeadIs
    <3>5. /\ req'[r] = t /\ \A x \in Requests \ {r} : req'[x] = req[x]
      BY <2>4, OthersKept
    <3>6. ASSUME NEW x \in Requests, req'[x].pc = "create", HasPrint(req'[x].q)
          PROVE  /\ RowOf(Fingerprint(req'[x].q)) = {}
                 /\ Fingerprint(req'[x].q) \in Prints \ {p}
      <4>1. x # r /\ req'[x] = req[x]
        BY <2>4, <3>5, <3>6
      <4>2. Queued(x) /\ req[x].pc = "create" /\ HasPrint(req[x].q)
        BY <3>6, <4>1 DEF Queued, Waiting
      <4>3. /\ Fingerprint(req[x].q) \in Prints
            /\ Head(lock[Fingerprint(req[x].q)]) = x
        BY <4>2, HeadIs
      <4>4. RowOf(Fingerprint(req[x].q)) = {}
        BY <4>2 DEF OneRow, At
      <4>5. QED
        BY <3>4, <4>1, <4>3, <4>4
    <3>7. OneRow'
      BY <2>6, <3>3, <3>6, OneRowStep
    <3>8. QED
      BY <3>2, <3>7
  <2>9. QED
    BY <2>7, <2>8
<1>6. QED
  BY <1>1, <1>3, <1>4, <1>5

LEMMA WorkKeepsLocks ==
  ASSUME TypeOK, TasksSound, SettingsSound, LockSound, OneRow, NEW r \in Requests,
         \/ ReadTrace(r) \/ Behind(r) \/ Advance(r) \/ Touch(r) \/ ReadTurn(r)
         \/ MergeRead(r) \/ MergeStore(r) \/ LoadSettings(r) \/ Finish(r)
         \/ ReconcileFails(r)
  PROVE  LockSound' /\ OneRow'
<1>1. lock' = lock /\ minted' = minted
  BY DEF ReadTrace, Behind, Advance, Touch, ReadTurn, MergeRead, MergeStore,
         LoadSettings, Finish, ReconcileFails, countVars
<1>2. RowsKept
  <2>1. CASE Advance(r) \/ Touch(r)
    BY <2>1, AdvanceIs, TouchIs, TouchedIs
  <2>2. CASE MergeStore(r)
    BY <2>2, MergeStoreIs
  <2>3. CASE ~(Advance(r) \/ Touch(r) \/ MergeStore(r))
    BY <2>3, RowsUnchanged DEF ReadTrace, Behind, ReadTurn, MergeRead,
       LoadSettings, Finish, ReconcileFails, dbVars
  <2>4. QED
    BY <2>1, <2>2, <2>3
<1>3. /\ req[r].pc \notin {"locked", "create"}
      /\ \E t : Becomes(r, t) /\ t.pc \notin {"locked", "create"}
  <2>0. \A q : AfterReconcile(q) \in {"touch", "turn"}
    BY DEF AfterReconcile
  <2>1. CASE ReadTrace(r)
    BY <2>0, <2>1, ReadTraceIs
  <2>2. CASE Behind(r)
    BY <2>0, <2>2, BehindIs
  <2>3. CASE Advance(r)
    BY <2>0, <2>3, AdvanceIs
  <2>4. CASE Touch(r)
    BY <2>4, TouchIs DEF Went
  <2>5. CASE ReadTurn(r)
    BY <2>5, ReadTurnIs
  <2>6. CASE MergeRead(r) \/ LoadSettings(r)
    <3>1. req[r].pc \in {"merge", "load"}
      BY <2>6, MergeReadIs
    <3>2. \E t : Becomes(r, t) /\ t.pc \in {"store", "serve"}
      BY <2>6, MergeReadIs
    <3>3. QED
      BY <3>1, <3>2
  <2>7. CASE MergeStore(r)
    BY <2>7, MergeStoreIs
  <2>8. CASE Finish(r)
    BY <2>8, IdleIs DEF Finish, At, Becomes
  <2>9. CASE ReconcileFails(r)
    BY <2>9, ReconcileFailsIs DEF Went, Reconcile
  <2>10. QED
    BY <2>1, <2>2, <2>3, <2>4, <2>5, <2>6, <2>7, <2>8, <2>9
<1>4. QED
  BY <1>1, <1>2, <1>3, WorksOn

LEMMA ResolveFailsKeepsLocks ==
  ASSUME TypeOK, TasksSound, LockSound, OneRow, NEW r \in Requests, ResolveFails(r)
  PROVE  LockSound' /\ OneRow'
<1>1. PICK t : Becomes(r, t) /\ t.pc = "serve"
  BY ResolveFailsIs
<1>2. RowsKept /\ minted' = minted /\ Release(r)
  BY RowsUnchanged DEF ResolveFails, dbVars, countVars
<1>3. RowsStep(None)
  BY <1>2, RowsKeptIs
<1>4. CASE Queued(r)
  <2>1. \/ req[r].pc = "create"
        \/ Head(lock[Fingerprint(req[r].q)]) = r
    BY <1>4, ResolveFailsIs DEF Queued, Waiting
  <2>2. LockSound'
    BY <1>1, <1>2, <1>4, <2>1, Leaves
  <2>3. OneRow'
    BY <1>1, <1>3, QuietRows
  <2>4. QED
    BY <2>2, <2>3
<1>5. CASE ~Queued(r)
  <2>1. ~Waiting(req[r]) /\ ~Waiting(t)
    BY <1>1, <1>5 DEF Queued, Waiting
  <2>2. lock' = lock
    BY <1>2, <1>5, NotQueued
  <2>3. QED
    BY <1>1, <1>3, <2>1, <2>2, QuietStep
<1>6. QED
  BY <1>4, <1>5

LEMMA ArriveKeepsLocks ==
  ASSUME TypeOK, TasksSound, LockSound, OneRow, NEW r \in Requests, NEW q \in Queries,
         Arrive(r, q)
  PROVE  LockSound' /\ OneRow'
<1>1. PICK t : Becomes(r, t) /\ t.q = q /\ t.pc # "locked" /\ (t.pc = "create" => ~HasPrint(q))
  BY ArriveIs
<1>2. req[r].pc = "idle"
  BY ArriveIs
<1>3. RowsKept /\ minted' = minted /\ lock' = lock
  BY RowsUnchanged DEF Arrive, dbVars
<1>4. ~Waiting(req[r]) /\ ~Waiting(t) /\ RowsStep(None)
  BY <1>1, <1>2, <1>3, RowsKeptIs DEF Waiting
<1>5. QED
  BY <1>1, <1>3, <1>4, QuietStep

LEMMA OthersKeepLocks ==
  ASSUME TypeOK, TasksSound, LockSound, OneRow,
         Expire \/ DeleteExpired \/ CleanupFails \/ Crash
  PROVE  LockSound' /\ OneRow'
<1>1. minted \in Nat /\ minted' = minted
  BY SessionBounds DEF Expire, DeleteExpired, CleanupFails, Crash, countVars, TypeOK
<1>2. RowsStep(None)
  <2>1. CASE Expire \/ CleanupFails \/ Crash
    BY <1>1, <2>1, ExpireIs, CrashIs, RowsUnchanged, RowsKeptIs DEF CleanupFails, dbVars
  <2>2. CASE DeleteExpired
    BY <1>1, <2>2, DeleteIs DEF RowsStep
  <2>3. QED
    BY <2>1, <2>2
<1>3. CASE Crash
  <2>1. \A x \in Requests : req'[x].pc = "idle"
    BY <1>3, CrashIs, IdleIs
  <2>2. lock' = [p \in Prints |-> <<>>]
    BY <1>3 DEF Crash
  <2>3. \A p \in Prints : Len(lock'[p]) = 0
    BY <2>2
  <2>4. \A x \in Requests : ~Queued(x)'
    BY <2>1 DEF Queued, Waiting
  <2>5. \A p \in Prints : 1..Len(lock'[p]) = {}
    BY <2>3
  <2>6. LockSound'
    BY <2>4, <2>5 DEF LockSound
  <2>7. OneRow'
    BY <1>2, <2>1, OneRowStep
  <2>8. QED
    BY <2>6, <2>7
<1>4. CASE Expire \/ DeleteExpired \/ CleanupFails
  <2>1. req' = req /\ lock' = lock
    BY <1>4 DEF Expire, DeleteExpired, CleanupFails
  <2>2. LockSound'
    BY <2>1, QuietLocks
  <2>3. ASSUME NEW x \in Requests, req[x].pc = "create", HasPrint(req[x].q)
        PROVE  /\ RowOf(Fingerprint(req[x].q)) = {}
               /\ Fingerprint(req[x].q) \in Prints \ {None}
    <3>1. req[x].q \in Queries
      BY <2>3, ReqIs DEF TaskSound
    <3>2. QED
      BY <2>3, <3>1, QueryIs, ConstantsAre DEF OneRow, At
  <2>4. OneRow'
    BY <1>2, <2>1, <2>3, OneRowStep
  <2>5. QED
    BY <2>2, <2>4
<1>5. QED
  BY <1>3, <1>4

LEMMA NextKeepsLocks ==
  ASSUME TypeOK, TasksSound, TasksSound', SettingsSound, LockSound, OneRow, Next
  PROVE  LockSound' /\ OneRow'
BY FindsKeepLocks, CreateKeepsLocks, WorkKeepsLocks, ResolveFailsKeepsLocks,
   ArriveKeepsLocks, OthersKeepLocks DEF Next, Step

-----------------------------------------------------------------------------
(* The request of an unspoiled session.                                    *)

LEMMA InFlightIs ==
  ASSUME TypeOK, NEW r \in Requests, NEW t, Becomes(r, t), NEW s, NEW x
  PROVE  /\ x \in InFlight(s)' /\ x # r <=> x \in InFlight(s) /\ x # r
         /\ r \in InFlight(s)' <=> t.pc # "idle" /\ t.sid = s
         /\ x \in InFlight(s) /\ x # r => req'[x] = req[x]
BY OthersKept DEF InFlight

\* Neither the session nor its request is concerned.
LEMMA Untouched ==
  ASSUME NEW s \in Ids, SessionSound(s),
         InFlight(s)' \subseteq InFlight(s), InFlight(s) \subseteq InFlight(s)',
         \A x \in InFlight(s) : req'[x] = req[x],
         db'[s] = None <=> db[s] = None,
         db[s] # None => db'[s].turn = db[s].turn /\ db'[s].cfg = db[s].cfg,
         traced'[s] = traced[s], asked'[s] = asked[s],
         Contains(reconciled', s) => Contains(reconciled, s)
  PROVE  SessionSound(s)'
<1>1. InFlight(s)' = InFlight(s)
  OBVIOUS
<1>2. ASSUME NEW x \in InFlight(s)
      PROVE  db'[s] # None /\ TurnSound(req'[x], db'[s], traced'[s])
  BY <1>2 DEF SessionSound, TurnSound
<1>3. Contains(reconciled', s) /\ (\A x \in InFlight(s) : req'[x].pc \notin Reconcile) =>
        db'[s].turn >= traced'[s]
  BY DEF SessionSound
<1>4. db'[s] # None => asked'[s] \ Denied \subseteq db'[s].cfg
  BY DEF SessionSound
<1>5. Contains(reconciled', s) => db'[s] # None
  BY DEF SessionSound
<1>6. QED
  BY <1>1, <1>2, <1>3, <1>4, <1>5 DEF SessionSound

\* What must hold after a step of the one request of s.
LEMMA Concerned ==
  ASSUME NEW s \in Ids, NEW r \in Requests, \A x \in InFlight(s)' : x = r,
         r \in InFlight(s)' => db'[s] # None /\ TurnSound(req'[r], db'[s], traced'[s]),
         Contains(reconciled', s) => db'[s] # None,
         Contains(reconciled', s) =>
           \/ r \in InFlight(s)' /\ req'[r].pc \in Reconcile
           \/ db'[s].turn >= traced'[s],
         db'[s] # None => asked'[s] \ Denied \subseteq db'[s].cfg
  PROVE  SessionSound(s)'
BY DEF SessionSound

\* What is known before it.
LEMMA OwnSession ==
  ASSUME TypeOK, TasksSound, TurnsSound, NEW r \in Requests, NEW s \in Ids,
         req[r].sid = s, s \notin spoiled
  PROVE  /\ \A x \in InFlight(s) : x = r
         /\ r \in InFlight(s)
         /\ db[s] \in Row /\ db[s] # None /\ db[s].turn \in Nat /\ traced[s] \in Int
         /\ TurnSound(req[r], db[s], traced[s])
         /\ Contains(reconciled, s) /\ req[r].pc \notin Reconcile =>
              db[s].turn >= traced[s]
         /\ asked[s] \ Denied \subseteq db[s].cfg
<1>1. req[r].pc # "idle"
  BY ReqIs, ConstantsAre DEF TaskSound
<1>2. r \in InFlight(s)
  BY <1>1 DEF InFlight
<1>3. SessionSound(s)
  BY DEF TurnsSound
<1>4. db[s] # None
  BY <1>2, <1>3 DEF SessionSound
<1>5. db[s] \in Row
  BY <1>4, RowIs
<1>6. db[s].turn \in Nat /\ traced[s] \in Int
  BY <1>5 DEF Row, TypeOK
<1>7. QED
  BY <1>2, <1>3, <1>4, <1>5, <1>6 DEF SessionSound

\* A request works on session s and on no other.
LEMMA WorkStep ==
  ASSUME TypeOK, TasksSound, TurnsSound, NEW r \in Requests, NEW s \in Ids,
         req[r].sid = s, NEW t, Becomes(r, t), t.sid = s, t.pc # "idle",
         \A x \in Ids \ {s} : db'[x] = db[x] /\ asked'[x] = asked[x],
         traced' = traced, reconciled' = reconciled, spoiled \subseteq spoiled',
         s \notin spoiled' =>
           /\ db'[s] # None
           /\ TurnSound(t, db'[s], traced[s])
           /\ Contains(reconciled, s) /\ t.pc \notin Reconcile => db'[s].turn >= traced[s]
           /\ asked'[s] \ Denied \subseteq db'[s].cfg
  PROVE  TurnsSound'
<1>1. ASSUME NEW x \in Ids, x \notin spoiled', x # s
      PROVE  SessionSound(x)'
  <2>1. SessionSound(x)
    BY <1>1 DEF TurnsSound
  <2>2. r \notin InFlight(x) /\ r \notin InFlight(x)'
    BY <1>1, InFlightIs DEF InFlight
  <2>3. /\ InFlight(x)' \subseteq InFlight(x) /\ InFlight(x) \subseteq InFlight(x)'
        /\ \A y \in InFlight(x) : req'[y] = req[y]
    BY <2>2, InFlightIs
  <2>4. QED
    BY <1>1, <2>1, <2>3, Untouched
<1>2. ASSUME s \notin spoiled'
      PROVE  SessionSound(s)'
  <2>1. \A x \in InFlight(s) : x = r
    BY <1>2, OwnSession
  <2>2. r \in InFlight(s)' /\ \A x \in InFlight(s)' : x = r
    BY <2>1, InFlightIs
  <2>3. req'[r] = t
    BY OthersKept
  <2>4. QED
    BY <1>2, <2>2, <2>3, Concerned
<1>3. QED
  BY <1>1, <1>2 DEF TurnsSound

\* A request without a session moves on without one.
LEMMA NoSession ==
  ASSUME TypeOK, TurnsSound, NEW r \in Requests, req[r].sid = None,
         NEW t, Becomes(r, t), t.sid = None,
         UNCHANGED <<db, asked, traced, reconciled>>, spoiled \subseteq spoiled'
  PROVE  TurnsSound'
<1>1. ASSUME NEW x \in Ids, x \notin spoiled'
      PROVE  SessionSound(x)'
  <2>1. SessionSound(x)
    BY <1>1 DEF TurnsSound
  <2>2. r \notin InFlight(x) /\ r \notin InFlight(x)'
    BY ConstantsAre, InFlightIs DEF InFlight
  <2>3. /\ InFlight(x)' \subseteq InFlight(x) /\ InFlight(x) \subseteq InFlight(x)'
        /\ \A y \in InFlight(x) : req'[y] = req[y]
    BY <2>2, InFlightIs
  <2>4. QED
    BY <1>1, <2>1, <2>3, Untouched
<1>2. QED
  BY <1>1 DEF TurnsSound

\* A request learns its session s: nobody else is in flight there.
LEMMA JoinStep ==
  ASSUME TypeOK, TasksSound, TurnsSound, NEW r \in Requests, req[r].sid = None,
         NEW s \in Ids, NEW t, Becomes(r, t), t.sid = s, t.pc # "idle",
         \A x \in Ids \ {s} : db'[x] = db[x] /\ asked'[x] = asked[x],
         \A x : Contains(reconciled', x) => x = s \/ Contains(reconciled, x),
         traced' = traced, spoiled \subseteq spoiled',
         s \notin spoiled' =>
           /\ InFlight(s) = {}
           /\ db'[s] # None
           /\ TurnSound(t, db'[s], traced[s])
           /\ Contains(reconciled', s) /\ t.pc \notin Reconcile => db'[s].turn >= traced[s]
           /\ asked'[s] \ Denied \subseteq db'[s].cfg
  PROVE  TurnsSound'
<1>1. ASSUME NEW x \in Ids, x \notin spoiled', x # s
      PROVE  SessionSound(x)'
  <2>1. SessionSound(x)
    BY <1>1 DEF TurnsSound
  <2>2. r \notin InFlight(x) /\ r \notin InFlight(x)'
    BY <1>1, ConstantsAre, InFlightIs DEF InFlight
  <2>3. /\ InFlight(x)' \subseteq InFlight(x) /\ InFlight(x) \subseteq InFlight(x)'
        /\ \A y \in InFlight(x) : req'[y] = req[y]
    BY <2>2, InFlightIs
  <2>4. QED
    BY <1>1, <2>1, <2>3, Untouched
<1>2. ASSUME s \notin spoiled'
      PROVE  SessionSound(s)'
  <2>1. r \in InFlight(s)' /\ \A x \in InFlight(s)' : x = r
    BY <1>2, InFlightIs
  <2>2. req'[r] = t
    BY OthersKept
  <2>3. QED
    BY <1>2, <2>1, <2>2, Concerned
<1>3. QED
  BY <1>1, <1>2 DEF TurnsSound

\* The reconciliation is done, or was not needed.
LEMMA CaughtUp ==
  ASSUME NEW t, t.q \in Queries, t.pc = AfterReconcile(t.q), NEW row, NEW top,
         row.turn >= top
  PROVE  TurnSound(t, row, top) /\ t.pc # "idle" /\ t.pc \notin Reconcile
<1>1. t.pc \in {"touch", "turn"} /\ (t.pc = "turn" <=> ~t.q.user)
  BY QueryIs
<1>2. QED
  BY <1>1 DEF TurnSound, Later, Reconcile

LEMMA FoundKeepsTurns ==
  ASSUME TypeOK, TasksSound, TurnsSound, NEW r \in Requests, NEW s \in Rows,
         req[r].pc \in {"byId", "byPrint", "locked"}, Found(r, s),
         UNCHANGED <<db, asked, traced>>
  PROVE  TurnsSound'
<1>1. PICK t : /\ Becomes(r, t) /\ t.sid = s /\ ~t.isNew /\ t.q = req[r].q
               /\ t.pc = IF Contains(reconciled, s) THEN AfterReconcile(t.q)
                         ELSE "trace"
  BY FoundIs
<1>2. req[r].sid = None /\ s \in Ids /\ db[s] # None /\ t.q \in Queries
  BY <1>1, ReqIs DEF TaskSound, Before, Rows
<1>3. /\ \A x : Contains(reconciled', x) => x = s \/ Contains(reconciled, x)
      /\ spoiled' = IF InFlight(s) = {} THEN spoiled ELSE spoiled \cup {s}
  BY FoundIs
<1>4. t.pc # "idle"
  BY <1>1, <1>2, QueryIs
<1>5. ASSUME s \notin spoiled'
      PROVE  /\ InFlight(s) = {}
             /\ TurnSound(t, db[s], traced[s])
             /\ t.pc \notin Reconcile => db[s].turn >= traced[s]
             /\ asked[s] \ Denied \subseteq db[s].cfg
  <2>1. InFlight(s) = {} /\ s \notin spoiled
    BY <1>3, <1>5
  <2>2. SessionSound(s)
    BY <1>2, <2>1 DEF TurnsSound
  <2>3. CASE Contains(reconciled, s)
    <3>1. db[s].turn >= traced[s]
      BY <2>1, <2>2, <2>3 DEF SessionSound
    <3>2. TurnSound(t, db[s], traced[s])
      BY <1>1, <1>2, <2>3, <3>1, CaughtUp
    <3>3. QED
      BY <1>2, <2>1, <2>2, <3>1, <3>2 DEF SessionSound
  <2>4. CASE ~Contains(reconciled, s)
    <3>1. t.pc = "trace"
      BY <1>1, <2>4
    <3>2. TurnSound(t, db[s], traced[s]) /\ t.pc \in Reconcile
      BY <3>1 DEF TurnSound, Later, Reconcile
    <3>3. QED
      BY <1>2, <2>1, <2>2, <3>2 DEF SessionSound
  <2>5. QED
    BY <2>3, <2>4
<1>6. spoiled \subseteq spoiled'
  BY <1>3
<1>7. QED
  BY <1>1, <1>2, <1>3, <1>4, <1>5, <1>6, JoinStep

LEMMA CreatedKeepsTurns ==
  ASSUME TypeOK, TasksSound, TurnsSound, NEW r \in Requests, req[r].pc = "create",
         NEW s \in Ids, NEW p \in Prints \cup {None}, Created(r, s, p), db[s] = None,
         UNCHANGED traced
  PROVE  TurnsSound'
<1>1. PICK t : /\ Becomes(r, t) /\ t.sid = s /\ t.isNew /\ t.pc = "turn"
  BY CreatedIs
<1>2. /\ db'[s] # None /\ db'[s].cfg = {} /\ asked'[s] = {}
      /\ \A x \in Ids \ {s} : db'[x] = db[x] /\ asked'[x] = asked[x]
  BY CreatedIs
<1>3. req[r].sid = None
  BY ReqIs DEF TaskSound, Before
<1>4. reconciled' = reconciled /\ spoiled' = spoiled
  BY DEF Created
<1>5. ASSUME s \notin spoiled
      PROVE  InFlight(s) = {} /\ ~Contains(reconciled, s)
  BY <1>5 DEF TurnsSound, SessionSound
<1>6. TurnSound(t, db'[s], traced[s])
  BY <1>1 DEF TurnSound, Later
<1>7. QED
  BY <1>1, <1>2, <1>3, <1>4, <1>5, <1>6, JoinStep

LEMMA FindsKeepTurns ==
  ASSUME TypeOK, TasksSound, TurnsSound, NEW r \in Requests,
         FindById(r) \/ FindByPrint(r) \/ FindLocked(r)
  PROVE  TurnsSound'
<1>1. UNCHANGED <<db, asked, traced>>
  BY DEF FindById, FindByPrint, FindLocked, dbVars
<1>2. req[r].pc \in {"byId", "byPrint", "locked"}
  BY DEF FindById, FindByPrint, FindLocked, At
<1>3. CASE \E s \in Rows : Found(r, s)
  BY <1>1, <1>2, <1>3, FoundKeepsTurns
<1>4. CASE \E p \in {"create", "locked"} : Went(r, p) /\ UNCHANGED <<reconciled, spoiled>>
  <2>1. PICK t : Becomes(r, t) /\ t.sid = req[r].sid
    BY <1>4 DEF Went, Same
  <2>2. req[r].sid = None
    BY <1>2, ReqIs DEF TaskSound, Before
  <2>3. QED
    BY <1>1, <1>4, <2>1, <2>2, NoSession
<1>5. QED
  BY <1>3, <1>4, FindByIdIs, FindByPrintIs, FindLockedIs

\* The row a request creates by a random id was nobody's.
LEMMA CreateKeepsTurns ==
  ASSUME TypeOK, TasksSound, TurnsSound, OneRow, NEW r \in Requests, Create(r)
  PROVE  TurnsSound'
<1>1. PICK q \in Queries :
        /\ q = req[r].q /\ req[r].pc = "create" /\ UNCHANGED traced
        /\ \/ /\ HasId(q) /\ q.id \in ExplicitIds /\ db[q.id] = None
              /\ Created(r, q.id, None)
           \/ /\ HasId(q) /\ Went(r, "serve")
              /\ UNCHANGED <<db, reconciled, spoiled, asked>>
           \/ /\ ~HasId(q) /\ minted + 1 \in 1..MaxMinted
              /\ Created(r, minted + 1, IF Anonymous(q) THEN None ELSE Fingerprint(q))
  BY CreateIs
<1>2. CASE HasId(q) /\ q.id \in ExplicitIds /\ db[q.id] = None /\ Created(r, q.id, None)
  BY <1>1, <1>2, ConstantsAre, CreatedKeepsTurns
<1>3. CASE HasId(q) /\ Went(r, "serve") /\ UNCHANGED <<db, reconciled, spoiled, asked>>
  <2>1. PICK t : Becomes(r, t) /\ t.sid = req[r].sid
    BY <1>3 DEF Went, Same
  <2>2. req[r].sid = None
    BY <1>1, ReqIs DEF TaskSound, Before
  <2>3. QED
    BY <1>1, <1>3, <2>1, <2>2, NoSession
<1>4. CASE /\ ~HasId(q) /\ minted + 1 \in 1..MaxMinted
           /\ Created(r, minted + 1, IF Anonymous(q) THEN None ELSE Fingerprint(q))
  <2>1. PICK s \in Ids : s = minted + 1 /\ s \notin ExplicitIds
    BY <1>4, SessionNames, ConstantsAre
  <2>2. db[s] = None
    <3>1. minted \in Nat
      BY SessionBounds DEF TypeOK
    <3>2. ~(s <= minted)
      BY <2>1, <3>1
    <3>3. QED
      BY <2>1, <3>2 DEF OneRow, Rows
  <2>3. PICK p \in Prints \cup {None} : Created(r, s, p)
    BY <1>1, <1>4, <2>1, QueryIs DEF Anonymous, HasPrint
  <2>4. QED
    BY <1>1, <2>2, <2>3, CreatedKeepsTurns
<1>5. QED
  BY <1>1, <1>2, <1>3, <1>4

LEMMA ReadTraceKeepsTurns ==
  ASSUME TypeOK, TasksSound, TurnsSound, NEW r \in Requests, ReadTrace(r)
  PROVE  TurnsSound'
<1>1. PICK s \in Ids : s = req[r].sid
  BY ReadTraceIs
<1>2. PICK t : /\ Becomes(r, t) /\ t.left = traced[s]
               /\ t.q = req[r].q /\ t.sid = s /\ t.isNew = req[r].isNew
               /\ t.pc = IF traced[s] = -1 THEN AfterReconcile(t.q) ELSE "behind"
  BY <1>1, ReadTraceIs
<1>3. UNCHANGED <<db, asked, traced, reconciled, spoiled>>
  BY DEF ReadTrace, dbVars
<1>4. t.q \in Queries /\ t.pc # "idle"
  BY <1>2, ReadTraceIs, ReqIs, QueryIs DEF TaskSound
<1>5. ASSUME s \notin spoiled
      PROVE  /\ db[s] # None
             /\ TurnSound(t, db[s], traced[s])
             /\ t.pc \notin Reconcile => db[s].turn >= traced[s]
             /\ asked[s] \ Denied \subseteq db[s].cfg
  <2>1. /\ db[s] # None /\ db[s].turn \in Nat /\ traced[s] \in Int
        /\ asked[s] \ Denied \subseteq db[s].cfg
    BY <1>1, <1>5, OwnSession
  <2>2. CASE traced[s] = -1
    <3>1. db[s].turn >= traced[s]
      BY <2>1, <2>2
    <3>2. QED
      BY <1>2, <1>4, <2>1, <2>2, <3>1, CaughtUp
  <2>3. CASE traced[s] # -1
    <3>1. t.pc = "behind" /\ t.left = traced[s]
      BY <1>2, <2>3
    <3>2. QED
      BY <2>1, <3>1 DEF TurnSound, Later, Reconcile
  <2>4. QED
    BY <2>2, <2>3
<1>6. QED
  BY <1>1, <1>2, <1>3, <1>4, <1>5, WorkStep

LEMMA BehindKeepsTurns ==
  ASSUME TypeOK, TasksSound, TurnsSound, NEW r \in Requests, Behind(r)
  PROVE  TurnsSound'
<1>1. PICK s \in Ids : s = req[r].sid
  BY BehindIs
<1>2. PICK t : /\ Becomes(r, t) /\ t.left = req[r].left - TurnOf(s)
               /\ t.q = req[r].q /\ t.sid = s /\ t.isNew = req[r].isNew
               /\ t.pc = IF t.left > 0 THEN "advance" ELSE AfterReconcile(t.q)
  BY <1>1, BehindIs
<1>3. UNCHANGED <<db, asked, traced, reconciled, spoiled>> /\ req[r].pc = "behind"
  BY DEF Behind, dbVars, At
<1>4. t.q \in Queries /\ t.pc # "idle"
  BY <1>2, <1>3, ReqIs, QueryIs DEF TaskSound
<1>5. ASSUME s \notin spoiled
      PROVE  /\ db[s] # None
             /\ TurnSound(t, db[s], traced[s])
             /\ t.pc \notin Reconcile => db[s].turn >= traced[s]
             /\ asked[s] \ Denied \subseteq db[s].cfg
  <2>1. /\ db[s] # None /\ db[s].turn \in Nat /\ traced[s] \in Int
        /\ asked[s] \ Denied \subseteq db[s].cfg
        /\ TurnSound(req[r], db[s], traced[s])
    BY <1>1, <1>5, OwnSession
  <2>2. req[r].left = traced[s]
    BY <1>3, <2>1 DEF TurnSound
  <2>3. t.left = traced[s] - db[s].turn /\ t.left \in Int
    BY <1>2, <2>1, <2>2, TurnIs
  <2>4. CASE t.left > 0
    <3>1. t.pc = "advance" /\ t.left >= 1 /\ db[s].turn + t.left = traced[s]
      BY <1>2, <2>1, <2>3, <2>4
    <3>2. QED
      BY <2>1, <3>1 DEF TurnSound, Later, Reconcile
  <2>5. CASE ~(t.left > 0)
    <3>1. db[s].turn >= traced[s]
      BY <2>1, <2>3, <2>5
    <3>2. QED
      BY <1>2, <1>4, <2>1, <2>5, <3>1, CaughtUp
  <2>6. QED
    BY <2>4, <2>5
<1>6. QED
  BY <1>1, <1>2, <1>3, <1>4, <1>5, WorkStep

LEMMA AdvanceKeepsTurns ==
  ASSUME TypeOK, TasksSound, TurnsSound, NEW r \in Requests, Advance(r)
  PROVE  TurnsSound'
<1>1. PICK s \in Ids : s = req[r].sid /\ Touched(s)
  BY AdvanceIs
<1>2. PICK t : /\ Becomes(r, t) /\ t.left = req[r].left - 1
               /\ t.q = req[r].q /\ t.sid = s /\ t.isNew = req[r].isNew
               /\ t.pc = IF req[r].left = 1 THEN AfterReconcile(t.q) ELSE "advance"
  BY <1>1, AdvanceIs
<1>3. UNCHANGED <<asked, traced, reconciled, spoiled>> /\ req[r].pc = "advance"
  BY DEF Advance, dbVars, At
<1>4. t.q \in Queries /\ t.pc # "idle"
  BY <1>2, <1>3, ReqIs, QueryIs DEF TaskSound
<1>5. /\ \A x \in Ids \ {s} : db'[x] = db[x]
      /\ db[s] # None => /\ db'[s] # None
                         /\ db'[s].turn = db[s].turn + 1 /\ db'[s].cfg = db[s].cfg
  BY <1>1, TouchedIs DEF RowsKept
<1>6. ASSUME s \notin spoiled
      PROVE  /\ db'[s] # None
             /\ TurnSound(t, db'[s], traced[s])
             /\ t.pc \notin Reconcile => db'[s].turn >= traced[s]
             /\ asked[s] \ Denied \subseteq db'[s].cfg
  <2>1. /\ db[s] # None /\ db[s].turn \in Nat /\ traced[s] \in Int
        /\ asked[s] \ Denied \subseteq db[s].cfg
        /\ TurnSound(req[r], db[s], traced[s])
    BY <1>1, <1>6, OwnSession
  <2>2. req[r].left >= 1 /\ db[s].turn + req[r].left = traced[s] /\ req[r].left \in Int
    BY <1>3, <2>1, ReqIs DEF TurnSound, Task
  <2>3. db'[s] # None /\ db'[s].turn = db[s].turn + 1 /\ db'[s].cfg = db[s].cfg
    BY <1>5, <2>1
  <2>4. CASE req[r].left = 1
    <3>1. db'[s].turn >= traced[s]
      BY <2>1, <2>2, <2>3, <2>4
    <3>2. QED
      BY <1>2, <1>4, <2>1, <2>3, <2>4, <3>1, CaughtUp
  <2>5. CASE req[r].left # 1
    <3>1. t.left >= 1 /\ db'[s].turn + t.left = traced[s]
      BY <1>2, <2>1, <2>2, <2>3, <2>5
    <3>2. t.pc = "advance"
      BY <1>2, <2>5
    <3>3. QED
      BY <2>1, <2>3, <3>1, <3>2 DEF TurnSound, Later, Reconcile
  <2>6. QED
    BY <2>4, <2>5
<1>7. QED
  BY <1>1, <1>2, <1>3, <1>4, <1>5, <1>6, WorkStep

LEMMA TouchKeepsTurns ==
  ASSUME TypeOK, TasksSound, TurnsSound, NEW r \in Requests, Touch(r)
  PROVE  TurnsSound'
<1>1. PICK s \in Ids : s = req[r].sid /\ Touched(s)
  BY TouchIs
<1>2. PICK t : Becomes(r, t) /\ t.pc = "turn" /\ t.sid = s
  BY <1>1, TouchIs DEF Went, Same
<1>3. UNCHANGED <<asked, traced, reconciled, spoiled>> /\ req[r].pc = "touch"
  BY DEF Touch, dbVars, At
<1>4. /\ \A x \in Ids \ {s} : db'[x] = db[x]
      /\ db[s] # None => /\ db'[s] # None
                         /\ db'[s].turn = db[s].turn + 1 /\ db'[s].cfg = db[s].cfg
  BY <1>1, TouchedIs DEF RowsKept
<1>5. ASSUME s \notin spoiled
      PROVE  /\ db'[s] # None
             /\ TurnSound(t, db'[s], traced[s])
             /\ db'[s].turn >= traced[s]
             /\ asked[s] \ Denied \subseteq db'[s].cfg
  <2>1. /\ db[s] # None /\ db[s].turn \in Nat /\ traced[s] \in Int
        /\ asked[s] \ Denied \subseteq db[s].cfg
        /\ TurnSound(req[r], db[s], traced[s])
    BY <1>1, <1>5, OwnSession
  <2>2. db'[s] # None /\ db'[s].turn = db[s].turn + 1 /\ db'[s].cfg = db[s].cfg
    BY <1>4, <2>1
  <2>3. db[s].turn >= traced[s]
    BY <1>3, <2>1 DEF TurnSound
  <2>4. db'[s].turn > traced[s] /\ db'[s].turn >= traced[s]
    BY <2>1, <2>2, <2>3
  <2>5. TurnSound(t, db'[s], traced[s])
    BY <1>2, <2>4 DEF TurnSound, Later
  <2>6. QED
    BY <2>1, <2>2, <2>4, <2>5
<1>6. QED
  BY <1>1, <1>2, <1>3, <1>4, <1>5, WorkStep

LEMMA ReadTurnKeepsTurns ==
  ASSUME TypeOK, TasksSound, TurnsSound, NEW r \in Requests, ReadTurn(r)
  PROVE  TurnsSound'
<1>1. PICK s \in Ids : s = req[r].sid
  BY ReadTurnIs
<1>2. PICK t : /\ Becomes(r, t) /\ t.turn = TurnOf(s)
               /\ t.q = req[r].q /\ t.sid = s /\ t.isNew = req[r].isNew
               /\ t.pc \in {"load", "merge"}
  BY <1>1, ReadTurnIs
<1>3. UNCHANGED <<db, asked, traced, reconciled, spoiled>> /\ req[r].pc = "turn"
  BY DEF ReadTurn, dbVars, At
<1>4. ASSUME s \notin spoiled
      PROVE  /\ db[s] # None
             /\ TurnSound(t, db[s], traced[s])
             /\ Contains(reconciled, s) => db[s].turn >= traced[s]
             /\ asked[s] \ Denied \subseteq db[s].cfg
  <2>1. /\ db[s] # None /\ db[s].turn \in Nat /\ traced[s] \in Int
        /\ asked[s] \ Denied \subseteq db[s].cfg
        /\ TurnSound(req[r], db[s], traced[s])
        /\ Contains(reconciled, s) => db[s].turn >= traced[s]
    BY <1>1, <1>3, <1>4, OwnSession DEF Reconcile
  <2>2. t.turn = db[s].turn
    BY <1>2, <2>1, TurnIs
  <2>3. ~req[r].isNew /\ req[r].q.user => db[s].turn > traced[s]
    BY <1>3, <2>1 DEF TurnSound
  <2>4. t.turn <= db[s].turn /\ (~t.isNew /\ t.q.user => t.turn > traced[s])
    BY <1>2, <2>1, <2>2, <2>3
  <2>5. TurnSound(t, db[s], traced[s])
    BY <1>2, <2>4 DEF TurnSound, Later
  <2>6. QED
    BY <2>1, <2>5
<1>5. t.pc # "idle"
  BY <1>2
<1>6. QED
  BY <1>1, <1>2, <1>3, <1>4, <1>5, WorkStep

LEMMA MergeReadKeepsTurns ==
  ASSUME TypeOK, TasksSound, TurnsSound, SettingsSound, NEW r \in Requests,
         MergeRead(r) \/ LoadSettings(r)
  PROVE  TurnsSound'
<1>1. PICK s \in Ids : s = req[r].sid /\ req[r].pc \in {"merge", "load"}
  BY MergeReadIs
<1>2. PICK t : /\ Becomes(r, t) /\ t.cfg = SettingsOf(s)
               /\ t.q = req[r].q /\ t.sid = s /\ t.isNew = req[r].isNew
               /\ t.turn = req[r].turn
               /\ t.pc \in {"store", "serve"}
  BY <1>1, MergeReadIs
<1>3. UNCHANGED <<db, asked, traced, reconciled, spoiled>>
  BY DEF MergeRead, LoadSettings, dbVars
<1>4. ASSUME s \notin spoiled
      PROVE  /\ db[s] # None
             /\ TurnSound(t, db[s], traced[s])
             /\ Contains(reconciled, s) => db[s].turn >= traced[s]
             /\ asked[s] \ Denied \subseteq db[s].cfg
  <2>1. /\ db[s] # None
        /\ asked[s] \ Denied \subseteq db[s].cfg
        /\ TurnSound(req[r], db[s], traced[s])
        /\ Contains(reconciled, s) => db[s].turn >= traced[s]
    BY <1>1, <1>4, OwnSession DEF Reconcile
  <2>2. t.cfg = db[s].cfg
    BY <1>2, <2>1, TurnIs
  <2>3. req[r].turn <= db[s].turn /\ (~req[r].isNew /\ req[r].q.user => req[r].turn > traced[s])
    BY <1>1, <2>1 DEF TurnSound, Later
  <2>4. TurnSound(t, db[s], traced[s])
    BY <1>2, <2>2, <2>3 DEF TurnSound, Later
  <2>5. QED
    BY <2>1, <2>4
<1>5. t.pc # "idle"
  BY <1>2
<1>6. QED
  BY <1>1, <1>2, <1>3, <1>4, <1>5, WorkStep

LEMMA MergeStoreKeepsTurns ==
  ASSUME TypeOK, TasksSound, TurnsSound, NEW r \in Requests, MergeStore(r)
  PROVE  TurnsSound'
<1>1. PICK s \in Ids : s = req[r].sid /\ req[r].pc = "store"
  BY MergeStoreIs
<1>2. PICK c : c = req[r].cfg \cup Applied(req[r].q)
  OBVIOUS
<1>3. PICK t : /\ Becomes(r, t) /\ t.pc = "serve" /\ t.q = req[r].q /\ t.sid = s
               /\ t.isNew = req[r].isNew /\ t.turn = req[r].turn
  BY <1>1, MergeStoreIs
<1>4. /\ RowsKept
      /\ \A x \in Ids \ {s} : db'[x] = db[x] /\ asked'[x] = asked[x]
      /\ db[s] # None => db'[s].turn = db[s].turn /\ db'[s].cfg = c
      /\ asked'[s] = asked[s] \cup req[r].q.cfg
  BY <1>1, <1>2, MergeStoreIs
<1>5. UNCHANGED <<traced, reconciled, spoiled>>
  BY DEF MergeStore
<1>6. ASSUME s \notin spoiled
      PROVE  /\ db'[s] # None
             /\ TurnSound(t, db'[s], traced[s])
             /\ Contains(reconciled, s) => db'[s].turn >= traced[s]
             /\ asked'[s] \ Denied \subseteq db'[s].cfg
  <2>1. /\ db[s] # None
        /\ asked[s] \ Denied \subseteq db[s].cfg
        /\ TurnSound(req[r], db[s], traced[s])
        /\ Contains(reconciled, s) => db[s].turn >= traced[s]
    BY <1>1, <1>6, OwnSession DEF Reconcile
  <2>2. db'[s] # None /\ db'[s].turn = db[s].turn /\ db'[s].cfg = c
    BY <1>4, <2>1 DEF RowsKept
  <2>3. /\ req[r].turn <= db[s].turn
        /\ (~req[r].isNew /\ req[r].q.user => req[r].turn > traced[s])
        /\ req[r].cfg = db[s].cfg
    BY <1>1, <2>1 DEF TurnSound, Later
  <2>4. TurnSound(t, db'[s], traced[s])
    BY <1>3, <2>2, <2>3 DEF TurnSound, Later
  <2>5. asked'[s] \ Denied \subseteq db'[s].cfg
    BY <1>2, <1>4, <2>1, <2>2, <2>3 DEF Applied
  <2>6. QED
    BY <2>1, <2>2, <2>4, <2>5
<1>7. QED
  BY <1>1, <1>3, <1>4, <1>5, <1>6, WorkStep

\* A failure counts the session of the request as disturbed.
LEMMA FailuresKeepTurns ==
  ASSUME TypeOK, TasksSound, TurnsSound, NEW r \in Requests,
         ReconcileFails(r) \/ ResolveFails(r)
  PROVE  TurnsSound'
<1>1. UNCHANGED <<db, asked, traced, reconciled>>
  BY DEF ReconcileFails, ResolveFails, dbVars
<1>2. /\ \E t : Becomes(r, t) /\ t.sid = req[r].sid /\ t.pc # "idle"
      /\ spoiled \subseteq spoiled' /\ (req[r].sid # None => req[r].sid \in spoiled')
  <2>1. CASE ReconcileFails(r)
    <3>1. \E p : Went(r, p) /\ p \in {"touch", "turn"}
      BY <2>1, ReconcileFailsIs
    <3>2. spoiled' = spoiled \cup {req[r].sid}
      BY <2>1 DEF ReconcileFails
    <3>3. QED
      BY <3>1, <3>2 DEF Went, Same
  <2>2. CASE ResolveFails(r)
    BY <2>2, ResolveFailsIs
  <2>3. QED
    BY <2>1, <2>2
<1>3. PICK t : Becomes(r, t) /\ t.sid = req[r].sid /\ t.pc # "idle"
  BY <1>2
<1>4. CASE req[r].sid = None
  BY <1>1, <1>2, <1>3, <1>4, NoSession
<1>5. CASE req[r].sid # None
  <2>1. req[r].sid \in Ids
    BY <1>5, ReqIs DEF Task
  <2>2. QED
    BY <1>1, <1>2, <1>3, <1>5, <2>1, WorkStep
<1>6. QED
  BY <1>4, <1>5

\* The turn a request records is one its row reached.
LEMMA FinishKeepsTurns ==
  ASSUME TypeOK, TasksSound, TurnsSound, NEW r \in Requests, Finish(r)
  PROVE  TurnsSound'
<1>1. Becomes(r, Idle) /\ req[r].pc = "serve" /\ UNCHANGED <<db, asked, reconciled, spoiled>>
  BY IdleIs DEF Finish, At, Becomes, dbVars
<1>2. PICK s \in Ids \cup {None}, n \in Nat : s = req[r].sid /\ n = req[r].turn
  BY ReqIs DEF Task
<1>3. \/ traced' = traced
      \/ s # None /\ traced' = [traced EXCEPT ![s] = IF @ > n THEN @ ELSE n]
  BY <1>2 DEF Finish
<1>4. CASE s = None
  BY <1>1, <1>2, <1>3, <1>4, IdleIs, NoSession
<1>5. CASE s # None
  <2>1. ASSUME NEW x \in Ids, x \notin spoiled, x # s
        PROVE  SessionSound(x)'
    <3>1. SessionSound(x)
      BY <2>1 DEF TurnsSound
    <3>2. r \notin InFlight(x) /\ r \notin InFlight(x)'
      BY <1>1, <1>2, <2>1, ConstantsAre, IdleIs, InFlightIs DEF InFlight
    <3>3. /\ InFlight(x)' \subseteq InFlight(x) /\ InFlight(x) \subseteq InFlight(x)'
          /\ \A y \in InFlight(x) : req'[y] = req[y]
      BY <1>1, <3>2, InFlightIs
    <3>4. traced'[x] = traced[x]
      BY <1>3, <2>1 DEF TypeOK
    <3>5. QED
      BY <1>1, <3>1, <3>3, <3>4, Untouched
  <2>2. ASSUME s \notin spoiled
        PROVE  SessionSound(s)'
    <3>1. s \in Ids
      BY <1>5
    <3>2. /\ \A x \in InFlight(s) : x = r
          /\ db[s] # None /\ db[s].turn \in Nat /\ traced[s] \in Int
          /\ TurnSound(req[r], db[s], traced[s])
          /\ Contains(reconciled, s) => db[s].turn >= traced[s]
          /\ asked[s] \ Denied \subseteq db[s].cfg
      BY <1>1, <1>2, <2>2, <3>1, OwnSession DEF Reconcile
    <3>3. r \notin InFlight(s)' /\ \A x \in InFlight(s)' : x = r
      BY <1>1, <3>2, IdleIs, InFlightIs
    <3>4. n <= db[s].turn
      BY <1>1, <1>2, <3>2 DEF TurnSound, Later
    <3>5. traced'[s] \in {traced[s], n}
      BY <1>3, <3>1 DEF TypeOK
    <3>6. Contains(reconciled, s) => db[s].turn >= traced'[s]
      BY <3>2, <3>4, <3>5
    <3>7. QED
      BY <1>1, <3>1, <3>2, <3>3, <3>6, Concerned
  <2>3. QED
    BY <1>1, <2>1, <2>2 DEF TurnsSound
<1>6. QED
  BY <1>4, <1>5

LEMMA ArriveKeepsTurns ==
  ASSUME TypeOK, TasksSound, TurnsSound, NEW r \in Requests, NEW q \in Queries,
         Arrive(r, q)
  PROVE  TurnsSound'
<1>1. PICK t : Becomes(r, t) /\ t.sid = None
  BY ArriveIs
<1>2. req[r].sid = None
  BY ArriveIs, ReqIs DEF TaskSound
<1>3. UNCHANGED <<db, asked, traced, reconciled, spoiled>>
  BY DEF Arrive, dbVars
<1>4. QED
  BY <1>1, <1>2, <1>3, NoSession

LEMMA OthersKeepTurns ==
  ASSUME TypeOK, TasksSound, TurnsSound, Expire \/ DeleteExpired \/ CleanupFails \/ Crash
  PROVE  TurnsSound'
<1>1. CASE Expire
  <2>1. UNCHANGED <<req, asked, traced, reconciled, spoiled>>
    BY <1>1 DEF Expire
  <2>2. ASSUME NEW s \in Ids, s \notin spoiled'
        PROVE  SessionSound(s)'
    <3>1. SessionSound(s)
      BY <2>1, <2>2 DEF TurnsSound
    <3>2. InFlight(s)' = InFlight(s)
      BY <2>1 DEF InFlight
    <3>3. /\ db'[s] = None <=> db[s] = None
          /\ db[s] # None => db'[s].turn = db[s].turn /\ db'[s].cfg = db[s].cfg
      BY <1>1, ExpireIs DEF RowsKept
    <3>4. QED
      BY <2>1, <3>1, <3>2, <3>3, Untouched
  <2>3. QED
    BY <2>2 DEF TurnsSound
<1>2. CASE DeleteExpired
  <2>1. UNCHANGED <<req, asked, traced, reconciled>>
    BY <1>2 DEF DeleteExpired
  <2>2. ASSUME NEW s \in Ids, s \notin spoiled'
        PROVE  SessionSound(s)'
    <3>1. SessionSound(s)
      BY <1>2, <2>2, DeleteIs DEF TurnsSound
    <3>2. InFlight(s)' = InFlight(s)
      BY <2>1 DEF InFlight
    <3>3. db'[s] = db[s]
      BY <1>2, <2>2, DeleteIs
    <3>4. QED
      BY <2>1, <3>1, <3>2, <3>3, Untouched
  <2>3. QED
    BY <2>2 DEF TurnsSound
<1>3. CASE CleanupFails
  <2>1. UNCHANGED <<db, req, asked, traced, reconciled, spoiled>>
    BY <1>3 DEF CleanupFails, dbVars
  <2>2. QED
    BY <2>1 DEF TurnsSound, SessionSound, InFlight
<1>4. CASE Crash
  <2>1. \A r \in Requests : req'[r].pc = "idle"
    BY <1>4, CrashIs, IdleIs
  <2>2. reconciled' = <<>>
    BY <1>4 DEF Crash
  <2>3. \A x : ~Contains(reconciled', x)
    BY <2>2 DEF Contains
  <2>4. \A x \in Ids : db'[x] # None => asked'[x] = db'[x].cfg
    BY <1>4, CrashIs DEF RowsKept
  <2>5. \A x \in Ids : InFlight(x)' = {}
    BY <2>1 DEF InFlight
  <2>6. QED
    BY <2>3, <2>4, <2>5 DEF TurnsSound, SessionSound
<1>5. QED
  BY <1>1, <1>2, <1>3, <1>4

LEMMA NextKeepsTurns ==
  ASSUME TypeOK, TasksSound, OneRow, TurnsSound, SettingsSound, Next
  PROVE  TurnsSound'
BY FindsKeepTurns, CreateKeepsTurns, ReadTraceKeepsTurns, BehindKeepsTurns,
   AdvanceKeepsTurns, TouchKeepsTurns, ReadTurnKeepsTurns, MergeReadKeepsTurns,
   MergeStoreKeepsTurns, FailuresKeepTurns, FinishKeepsTurns, ArriveKeepsTurns,
   OthersKeepTurns DEF Next, Step

-----------------------------------------------------------------------------
(* The settings.                                                           *)

LEMMA NextKeepsSettings ==
  ASSUME TypeOK, TasksSound, SettingsSound, Next
  PROVE  SettingsSound'
<1>1. SUFFICES ASSUME NEW s \in Ids, db'[s] # None
               PROVE  db'[s].cfg \cap Denied = {}
  BY DEF SettingsSound, Rows
<1>2. CASE db'[s] = db[s]
  BY <1>1, <1>2 DEF SettingsSound, Rows
<1>3. CASE db[s] # None /\ db'[s].cfg = db[s].cfg
  BY <1>3 DEF SettingsSound, Rows
<1>4. CASE db'[s].cfg = {}
  BY <1>4
<1>5. ASSUME NEW r \in Requests, Create(r)
      PROVE  db'[s] = db[s] \/ db'[s].cfg = {}
  <2>1. PICK q \in Queries :
        /\ q = req[r].q /\ req[r].pc = "create"
        /\ \/ HasId(q) /\ q.id \in ExplicitIds /\ Created(r, q.id, None)
           \/ db' = db
           \/ /\ ~HasId(q) /\ minted + 1 \in 1..MaxMinted
              /\ Created(r, minted + 1, IF Anonymous(q) THEN None ELSE Fingerprint(q))
    BY <1>5, CreateIs
  <2>2. CASE \E x \in Ids, p \in Prints \cup {None} : Created(r, x, p)
    BY <2>1, <2>2, CreatedIs
  <2>3. QED
    BY <2>1, <2>2, QueryIs, ConstantsAre DEF Anonymous, HasPrint
<1>6. ASSUME NEW r \in Requests, MergeStore(r)
      PROVE  db'[s] = db[s] \/ db'[s].cfg \cap Denied = {}
  <2>0. PICK x, c : x = req[r].sid /\ c = req[r].cfg \cup Applied(req[r].q)
    OBVIOUS
  <2>1. /\ x \in Ids /\ c \cap Denied = {} /\ RowsKept
        /\ \A y \in Ids \ {x} : db'[y] = db[y]
        /\ db[x] # None => db'[x].cfg = c
    BY <1>6, <2>0, MergeStoreIs
  <2>2. QED
    BY <1>1, <2>1 DEF RowsKept
<1>7. ASSUME NEW r \in Requests, Advance(r) \/ Touch(r)
      PROVE  db'[s] = db[s] \/ (db[s] # None /\ db'[s].cfg = db[s].cfg)
  <2>1. PICK x \in Ids : Touched(x)
    BY <1>7, AdvanceIs, TouchIs
  <2>2. QED
    BY <1>1, <2>1, TouchedIs DEF RowsKept
<1>8. CASE Expire
  BY <1>1, <1>3, <1>8, ExpireIs DEF RowsKept
<1>9. CASE DeleteExpired
  BY <1>1, <1>2, <1>9, DeleteIs
<1>10. CASE Crash
  BY <1>1, <1>3, <1>10, CrashIs DEF RowsKept
<1>11. CASE CleanupFails \/ \E r \in Requests : (\E q \in Queries : Arrive(r, q))
              \/ FindById(r) \/ FindByPrint(r) \/ FindLocked(r) \/ ReadTrace(r)
              \/ Behind(r) \/ ReadTurn(r) \/ MergeRead(r) \/ LoadSettings(r) \/ Finish(r)
              \/ ReconcileFails(r) \/ ResolveFails(r)
  <2>1. db' = db
    BY <1>11 DEF CleanupFails, Arrive, FindById, FindByPrint, FindLocked, ReadTrace,
       Behind, ReadTurn, MergeRead, LoadSettings, Finish, ReconcileFails, ResolveFails,
       dbVars
  <2>2. QED
    BY <1>2, <2>1
<1>12. QED
  BY <1>2, <1>3, <1>4, <1>5, <1>6, <1>7, <1>8, <1>9, <1>10, <1>11 DEF Next, Step

-----------------------------------------------------------------------------
(* The invariant holds.                                                    *)

LEMMA InitSound == Init => IInv
<1>. SUFFICES ASSUME Init PROVE IInv
  OBVIOUS
<1>1. PICK past \in SUBSET ExplicitIds, turn \in 0..MaxPast :
       /\ db = [s \in Ids |-> IF s \in past
                THEN [print |-> None, turn |-> turn, expired |-> FALSE, cfg |-> {}]
                ELSE None]
       /\ traced = [s \in Ids |-> IF s \in past THEN MaxPast ELSE -1]
  BY DEF Init
<1>2. /\ aged = {} /\ lock = [p \in Prints |-> <<>>] /\ reconciled = <<>>
      /\ req = [r \in Requests |-> Idle] /\ cleanup = "sleep"
      /\ minted = 0 /\ arrivals = 0 /\ crashes = 0 /\ spoiled = {}
      /\ asked = [s \in Ids |-> {}]
  BY DEF Init
<1>3. turn \in Nat /\ MaxPast \in Int
  BY SessionBounds
<1>. DEFINE row == [print |-> None, turn |-> turn, expired |-> FALSE, cfg |-> {}]
<1>4. row \in Row /\ row.print = None /\ row.cfg = {}
  BY <1>3 DEF Row
<1>5. \A s \in Ids : db[s] = IF s \in past THEN row ELSE None
  BY <1>1
<1>6. TypeOK
  <2>1. db \in [Ids -> Row \cup {None}]
    BY <1>1, <1>4
  <2>2. traced \in [Ids -> Int]
    BY <1>1, <1>3
  <2>3. 0 \in 0..MaxMinted /\ 0 \in 0..MaxArrivals /\ 0 \in Nat
    BY ConstantsAre
  <2>4. req \in [Requests -> Task]
    BY <1>2, IdleIs
  <2>5. reconciled \in Seq(Ids) /\ lock \in [Prints -> Seq(Requests)]
        /\ asked \in [Ids -> SUBSET Names]
    BY <1>2
  <2>6. QED
    BY <1>2, <2>1, <2>2, <2>3, <2>4, <2>5 DEF TypeOK
<1>7. \A r \in Requests : req[r] = Idle /\ req[r].pc = "idle"
  BY <1>2, IdleIs
<1>8. TasksSound
  BY <1>7, IdleIs DEF TasksSound
<1>9. LockSound
  <2>1. \A p \in Prints : lock[p] = <<>>
    BY <1>2
  <2>2. \A p \in Prints : 1..Len(lock[p]) = {}
    BY <2>1
  <2>3. QED
    BY <1>7, <2>2 DEF LockSound, Queued, Waiting
<1>10. OneRow
  BY <1>4, <1>5, <1>7 DEF OneRow, Rows, At
<1>11. TurnsSound
  <2>1. \A s \in Ids : InFlight(s) = {} /\ ~Contains(reconciled, s) /\ asked[s] = {}
    BY <1>2, <1>7 DEF InFlight, Contains
  <2>2. QED
    BY <2>1 DEF TurnsSound, SessionSound
<1>12. SettingsSound
  BY <1>4, <1>5 DEF SettingsSound, Rows
<1>13. QED
  BY <1>6, <1>8, <1>9, <1>10, <1>11, <1>12 DEF IInv

LEMMA StepSound == IInv /\ [Next]_vars => IInv'
<1>1. IInv /\ Next => IInv'
  <2>. SUFFICES ASSUME IInv, Next PROVE IInv'
    OBVIOUS
  <2>1. TypeOK /\ TasksSound /\ LockSound /\ OneRow /\ TurnsSound /\ SettingsSound
    BY DEF IInv
  <2>2. TypeOK' /\ TasksSound'
    BY <2>1, NextTyped
  <2>3. LockSound' /\ OneRow'
    BY <2>1, <2>2, NextKeepsLocks
  <2>4. TurnsSound'
    BY <2>1, NextKeepsTurns
  <2>5. SettingsSound'
    BY <2>1, NextKeepsSettings
  <2>6. QED
    BY <2>2, <2>3, <2>4, <2>5 DEF IInv
<1>2. IInv /\ UNCHANGED vars => IInv'
  BY DEF vars, IInv, TypeOK, TasksSound, LockSound, Queued, OneRow, RowOf, Rows, At,
     TurnsSound, SessionSound, InFlight, SettingsSound
<1>3. QED
  BY <1>1, <1>2

\* The inductive invariant: what requests know, the queues of the creation
\* locks, the rows, and the turns and settings of unspoiled sessions.
THEOREM SessionsInvariant == Spec => []IInv
<1>. QED
  BY InitSound, StepSound, PTL DEF Spec

\* session.py, find_or_create_by_fingerprint: however first requests of one
\* conversation interleave, its fingerprint never has two sessions.
OneSession == \A s1, s2 \in Rows :
  db[s1].print = db[s2].print /\ db[s1].print # None => s1 = s2

THEOREM OneSessionAlways == Spec => []OneSession
<1>1. IInv => OneSession
  BY DEF IInv, OneRow, OneSession
<1>. QED
  BY <1>1, SessionsInvariant, PTL

\* session.py, _reconcile_turn_number: a user turn that runs alone is numbered
\* above every traced turn of its session, whatever crashes lost.
THEOREM AloneTurnsAdvanceAlways == Spec => []AloneTurnsAdvance
<1>1. IInv => AloneTurnsAdvance
  <2>. SUFFICES ASSUME IInv, NEW r \in Requests,
                       req[r].pc \in {"merge", "load", "store", "serve"}, req[r].q.user,
                       req[r].sid # None, ~req[r].isNew, req[r].sid \notin spoiled
                PROVE  req[r].turn > traced[req[r].sid]
    BY DEF AloneTurnsAdvance
  <2>1. TypeOK /\ TasksSound /\ TurnsSound
    BY DEF IInv
  <2>2. PICK s \in Ids : s = req[r].sid
    BY <2>1, ReqIs DEF Task
  <2>3. TurnSound(req[r], db[s], traced[s])
    BY <2>1, <2>2, OwnSession
  <2>4. QED
    BY <2>2, <2>3 DEF TurnSound, Later
<1>. QED
  BY <1>1, SessionsInvariant, PTL

\* chat_overlay.py: denied settings are neither stored nor used, and those a
\* client asked for stay, unless requests of the session overlapped.
THEOREM OverridesAreKept == Spec => []OverridesKept
<1>1. IInv => OverridesKept
  <2>. SUFFICES ASSUME IInv PROVE OverridesKept
    OBVIOUS
  <2>1. TasksSound /\ TurnsSound /\ SettingsSound
    BY DEF IInv
  <2>2. \A s \in Rows : s \notin spoiled => asked[s] \ Denied \subseteq db[s].cfg
    BY <2>1 DEF TurnsSound, SessionSound, Rows
  <2>3. \A r \in Requests : At(r, "serve") => req[r].cfg \cap Denied = {}
    BY <2>1 DEF TasksSound, TaskSound, At
  <2>4. QED
    BY <2>1, <2>2, <2>3 DEF OverridesKept, SettingsSound
<1>. QED
  BY <1>1, SessionsInvariant, PTL

-----------------------------------------------------------------------------
(* The registry is implemented.                                            *)

\* The refinement mapping, as Sessions instantiates it.
Conv == Prints \cup ExplicitIds

Bound == [k \in Prints \cup ExplicitIds |->
            IF k \in ExplicitIds THEN IF db[k] = None THEN None ELSE k
            ELSE IF RowOf(k) = {} THEN None ELSE CHOOSE s \in RowOf(k) : TRUE]

Answer == [r \in Requests |->
             IF req[r].sid = None THEN None
             ELSE [sid |-> req[r].sid, isNew |-> req[r].isNew]]

LEMMA JoinMaps ==
  ASSUME NEW r \in Requests, NEW k \in Conv, Answer[r] = None, Bound[k] # None,
         Answer' = [Answer EXCEPT ![r] = [sid |-> Bound[k], isNew |-> FALSE]],
         Bound' = Bound
  PROVE  Registry!RegistryNext
<1>1. Registry!Join(r, k)
  BY DEF Registry!Join, Registry!Tell, Bound, Answer, Conv
<1>2. QED
  BY <1>1 DEF Registry!RegistryNext, Conv

LEMMA OpenMaps ==
  ASSUME NEW r \in Requests, NEW k \in Conv, Answer[r] = None, Bound[k] = None,
         NEW s \in Ids, \A j \in Conv : Bound[j] # s,
         Answer' = [Answer EXCEPT ![r] = [sid |-> s, isNew |-> TRUE]],
         Bound' = [Bound EXCEPT ![k] = s]
  PROVE  Registry!RegistryNext
<1>1. Registry!Open(r, k)
  BY DEF Registry!Open, Registry!Tell, Bound, Answer, Conv
<1>2. QED
  BY <1>1 DEF Registry!RegistryNext, Conv

LEMMA OpenAloneMaps ==
  ASSUME NEW r \in Requests, Answer[r] = None,
         NEW s \in Ids, \A j \in Conv : Bound[j] # s,
         Answer' = [Answer EXCEPT ![r] = [sid |-> s, isNew |-> TRUE]],
         Bound' = Bound
  PROVE  Registry!RegistryNext
<1>1. Registry!OpenAlone(r)
  BY DEF Registry!OpenAlone, Registry!Tell, Bound, Answer, Conv
<1>2. QED
  BY <1>1 DEF Registry!RegistryNext

LEMMA ForgetMaps ==
  ASSUME NEW R \in SUBSET Requests,
         Answer' = [r \in Requests |-> IF r \in R THEN None ELSE Answer[r]],
         Bound' = Bound
  PROVE  Registry!RegistryNext
<1>1. Registry!Forget
  BY DEF Registry!Forget, Bound, Answer, Conv
<1>2. QED
  BY <1>1 DEF Registry!RegistryNext

LEMMA DropMaps ==
  ASSUME NEW K \in SUBSET Conv,
         Bound' = [k \in Conv |-> IF k \in K THEN None ELSE Bound[k]],
         Answer' = Answer
  PROVE  Registry!RegistryNext
<1>1. Registry!Drop
  BY DEF Registry!Drop, Bound, Answer, Conv
<1>2. QED
  BY <1>1 DEF Registry!RegistryNext

\* Session s is the one of conversation k.
Has(k, s) == s \in Rows /\ IF k \in ExplicitIds THEN s = k ELSE db[s].print = k

BoundSound ==
  /\ Bound \in [Conv -> Ids \cup {None}]
  /\ \A k \in Conv, s \in Ids : Bound[k] = s <=> Has(k, s)

LEMMA BoundIs == IInv => BoundSound
<1>. SUFFICES ASSUME IInv PROVE BoundSound
  OBVIOUS
<1>1. OneRow
  BY DEF IInv
<1>2. ASSUME NEW k \in Conv
      PROVE  /\ Bound[k] \in Ids \cup {None}
             /\ \A s \in Ids : Bound[k] = s <=> Has(k, s)
  <2>1. CASE k \in ExplicitIds
    <3>1. Bound[k] = IF db[k] = None THEN None ELSE k
      BY <2>1 DEF Bound, Conv
    <3>2. QED
      BY <2>1, <3>1, ConstantsAre DEF Has, Rows
  <2>2. CASE k \notin ExplicitIds
    <3>1. k \in Prints /\ k # None
      BY <2>2, ConstantsAre DEF Conv
    <3>2. Bound[k] = IF RowOf(k) = {} THEN None ELSE CHOOSE s \in RowOf(k) : TRUE
      BY <2>2, <3>1 DEF Bound
    <3>3. \A s : s \in RowOf(k) <=> Has(k, s)
      BY <2>2 DEF RowOf, Has
    <3>4. \A s1, s2 \in RowOf(k) : s1 = s2
      BY <1>1, <3>1 DEF OneRow, RowOf
    <3>5. RowOf(k) \subseteq Ids
      BY DEF RowOf, Rows
    <3>. HIDE DEF Bound
    <3>6. CASE RowOf(k) = {}
      BY <3>2, <3>3, <3>6, ConstantsAre
    <3>7. CASE RowOf(k) # {}
      <4>1. Bound[k] \in RowOf(k)
        BY <3>2, <3>7
      <4>2. QED
        BY <3>3, <3>4, <3>5, <4>1
    <3>8. QED
      BY <3>6, <3>7
  <2>3. QED
    BY <2>1, <2>2
<1>3. Bound = [k \in Conv |-> Bound[k]]
  BY DEF Bound, Conv
<1>. HIDE DEF Bound
<1>4. Bound \in [Conv -> Ids \cup {None}]
  BY <1>2, <1>3
<1>5. QED
  BY <1>2, <1>4 DEF BoundSound

LEMMA AnswerIs ==
  ASSUME TypeOK, NEW r \in Requests, NEW t, Becomes(r, t)
  PROVE  /\ Answer' = [Answer EXCEPT ![r] = IF t.sid = None THEN None
                                            ELSE [sid |-> t.sid, isNew |-> t.isNew]]
         /\ req[r].sid = None => Answer[r] = None
         /\ t.sid = req[r].sid /\ (t.sid = None \/ t.isNew = req[r].isNew)
              => Answer' = Answer
<1>. DEFINE A(u) == IF u.sid = None THEN None ELSE [sid |-> u.sid, isNew |-> u.isNew]
<1>1. /\ req'[r] = t /\ \A x \in Requests \ {r} : req'[x] = req[x]
  BY OthersKept
<1>2. Answer = [x \in Requests |-> A(req[x])] /\ Answer' = [x \in Requests |-> A(req'[x])]
  BY DEF Answer
<1>3. /\ t.sid = req[r].sid /\ (t.sid = None \/ t.isNew = req[r].isNew)
           => A(t) = A(req[r])
      /\ req[r].sid = None => A(req[r]) = None
      /\ A(t) = IF t.sid = None THEN None ELSE [sid |-> t.sid, isNew |-> t.isNew]
  OBVIOUS
<1>. HIDE DEF A
<1>4. Answer' = [Answer EXCEPT ![r] = A(t)] /\ Answer[r] = A(req[r])
  BY <1>1, <1>2
<1>5. A(t) = A(req[r]) => Answer' = Answer
  BY <1>1, <1>2
<1>6. QED
  BY <1>3, <1>4, <1>5

\* Conversations whose sessions stay keep them.
LEMMA BoundKept ==
  ASSUME BoundSound, BoundSound', \A k \in Conv, s \in Ids : Has(k, s)' <=> Has(k, s)
  PROVE  Bound' = Bound
<1>1. ASSUME NEW k \in Conv
      PROVE  Bound'[k] = Bound[k]
  <2>1. PICK u : u = Bound[k] /\ u \in Ids \cup {None}
    BY DEF BoundSound
  <2>2. PICK v : v = Bound'[k] /\ v \in Ids \cup {None}
    BY DEF BoundSound
  <2>3. u \in Ids => v = u
    BY <2>1, <2>2 DEF BoundSound
  <2>4. v \in Ids => v = u
    BY <2>1, <2>2 DEF BoundSound
  <2>5. QED
    BY <2>1, <2>2, <2>3, <2>4
<1>2. QED
  BY <1>1 DEF BoundSound

LEMMA RowsKeptBound ==
  ASSUME BoundSound, BoundSound', RowsKept
  PROVE  Bound' = Bound
<1>1. \A k \in Conv, s \in Ids : Has(k, s)' <=> Has(k, s)
  BY DEF RowsKept, Has, Rows
<1>2. QED
  BY <1>1, BoundKept

\* One conversation gets a session that was nobody's.
LEMMA BoundOpened ==
  ASSUME BoundSound, BoundSound', NEW s \in Ids, NEW k \in Conv, db[s] = None,
         Bound[k] = None,
         \A j \in Conv, x \in Ids : Has(j, x)' <=> Has(j, x) \/ (j = k /\ x = s)
  PROVE  Bound' = [Bound EXCEPT ![k] = s] /\ \A j \in Conv : Bound[j] # s
<1>1. \A j \in Conv : Bound[j] # s
  BY DEF BoundSound, Has, Rows
<1>2. Bound'[k] = s
  BY DEF BoundSound
<1>3. ASSUME NEW j \in Conv, j # k
      PROVE  Bound'[j] = Bound[j]
  <2>1. PICK u : u = Bound[j] /\ u \in Ids \cup {None}
    BY DEF BoundSound
  <2>2. PICK v : v = Bound'[j] /\ v \in Ids \cup {None}
    BY DEF BoundSound
  <2>3. u \in Ids => v = u
    BY <2>1, <2>2 DEF BoundSound
  <2>4. v \in Ids => v = u
    BY <1>3, <2>1, <2>2 DEF BoundSound
  <2>5. QED
    BY <2>1, <2>2, <2>3, <2>4
<1>4. QED
  BY <1>1, <1>2, <1>3 DEF BoundSound

Maps == Registry!RegistryNext \/ (Bound' = Bound /\ Answer' = Answer)

\* A request that keeps its answer, while the rows stay, changes nothing.
LEMMA WorkMaps ==
  ASSUME TypeOK, BoundSound, BoundSound', RowsKept, NEW r \in Requests,
         \E t : /\ Becomes(r, t) /\ t.sid = req[r].sid
                /\ t.sid = None \/ t.isNew = req[r].isNew
  PROVE  Maps
BY AnswerIs, RowsKeptBound DEF Maps

LEMMA FoundMaps ==
  ASSUME TypeOK, TasksSound, BoundSound, BoundSound', RowsKept, NEW r \in Requests,
         NEW s \in Rows, req[r].pc \in {"byId", "byPrint", "locked"}, Found(r, s),
         NEW k \in Conv, Has(k, s)
  PROVE  Maps
<1>1. PICK t : Becomes(r, t) /\ t.sid = s /\ ~t.isNew /\ t.isNew \in BOOLEAN
  BY FoundIs DEF Becomes, Task
<1>2. req[r].sid = None
  BY ReqIs DEF TaskSound, Before
<1>3. s \in Ids /\ s # None
  BY ConstantsAre DEF Rows
<1>4. Bound[k] = s
  BY <1>3 DEF BoundSound
<1>5. Answer[r] = None /\ Answer' = [Answer EXCEPT ![r] = [sid |-> Bound[k], isNew |-> FALSE]]
  BY <1>1, <1>2, <1>3, <1>4, AnswerIs
<1>6. Bound' = Bound
  BY RowsKeptBound
<1>7. QED
  BY <1>3, <1>4, <1>5, <1>6, JoinMaps DEF Maps

LEMMA FindsMap ==
  ASSUME TypeOK, TasksSound, BoundSound, BoundSound', NEW r \in Requests,
         FindById(r) \/ FindByPrint(r) \/ FindLocked(r)
  PROVE  Maps
<1>1. RowsKept
  BY RowsUnchanged DEF FindById, FindByPrint, FindLocked, dbVars
<1>2. CASE \E p : Went(r, p)
  BY <1>1, <1>2, WorkMaps DEF Went, Same
<1>3. CASE FindById(r) /\ req[r].q.id \in Rows /\ Found(r, req[r].q.id)
  <2>1. req[r].pc = "byId" /\ HasId(req[r].q) /\ req[r].q \in Queries
    BY <1>3, FindByIdIs, ReqIs DEF TaskSound
  <2>2. PICK k \in ExplicitIds : k = req[r].q.id
    BY <2>1, QueryIs
  <2>3. k \in Conv /\ Has(k, k)
    BY <1>3, <2>2 DEF Conv, Has
  <2>4. QED
    BY <1>1, <1>3, <2>1, <2>2, <2>3, FoundMaps
<1>4. CASE \E p \in Prints, s \in Rows : db[s].print = p /\ Found(r, s)
                                        /\ req[r].pc \in {"byPrint", "locked"}
  <2>1. PICK p \in Prints, s \in Rows : db[s].print = p /\ Found(r, s)
                                        /\ req[r].pc \in {"byPrint", "locked"}
    BY <1>4
  <2>2. p \in Conv /\ Has(p, s)
    BY <2>1, SessionNames DEF Conv, Has
  <2>3. QED
    BY <1>1, <2>1, <2>2, FoundMaps
<1>5. QED
  BY <1>2, <1>3, <1>4, FindByIdIs, FindByPrintIs, FindLockedIs

LEMMA CreateMaps ==
  ASSUME TypeOK, TasksSound, OneRow, BoundSound, BoundSound', NEW r \in Requests, Create(r)
  PROVE  Maps
<1>1. PICK q \in Queries :
        /\ q = req[r].q /\ req[r].pc = "create"
        /\ \/ /\ HasId(q) /\ q.id \in ExplicitIds /\ db[q.id] = None
              /\ Created(r, q.id, None)
           \/ /\ HasId(q) /\ Went(r, "serve") /\ UNCHANGED db
           \/ /\ ~HasId(q) /\ minted + 1 \in 1..MaxMinted
              /\ Created(r, minted + 1, IF Anonymous(q) THEN None ELSE Fingerprint(q))
  BY CreateIs
<1>2. CASE HasId(q) /\ Went(r, "serve") /\ UNCHANGED db
  BY <1>2, RowsUnchanged, WorkMaps DEF Went, Same
<1>3. ASSUME NEW s \in Ids, NEW p \in Prints \cup {None}, Created(r, s, p), db[s] = None,
             NEW k \in Conv \cup {None},
             k # None => Bound[k] = None,
             s \in ExplicitIds => k = s /\ p = None,
             s \notin ExplicitIds => k = p /\ k \notin ExplicitIds
      PROVE  Maps
  <2>1. PICK t : Becomes(r, t) /\ t.sid = s /\ t.isNew
    BY <1>1, <1>3, CreatedIs
  <2>2. t.isNew \in BOOLEAN
    BY <2>1 DEF Becomes, Task
  <2>3. db'[s] # None /\ db'[s].print = p /\ \A x \in Ids \ {s} : db'[x] = db[x]
    BY <1>1, <1>3, CreatedIs
  <2>4. req[r].sid = None /\ s # None
    BY <1>1, ReqIs, ConstantsAre DEF TaskSound, Before
  <2>5. Answer[r] = None /\ Answer' = [Answer EXCEPT ![r] = [sid |-> s, isNew |-> TRUE]]
    BY <2>1, <2>2, <2>4, AnswerIs
  <2>6. \A j \in Conv : j # None
    BY SessionBounds DEF Conv
  <2>7. \A j \in Conv, x \in Ids : Has(j, x)' <=> Has(j, x) \/ (j = k /\ x = s)
    <3>1. ASSUME NEW j \in Conv, NEW x \in Ids, x # s
          PROVE  Has(j, x)' <=> Has(j, x)
      BY <2>3, <3>1 DEF Has, Rows
    <3>2. ASSUME NEW j \in Conv
          PROVE  ~Has(j, s) /\ (Has(j, s)' <=> j = k)
      BY <1>3, <2>3, <2>6 DEF Has, Rows
    <3>3. QED
      BY <3>1, <3>2
  <2>8. CASE k # None
    <3>1. Bound' = [Bound EXCEPT ![k] = s] /\ \A j \in Conv : Bound[j] # s
      BY <1>3, <2>7, <2>8, BoundOpened
    <3>2. QED
      BY <1>3, <2>5, <2>8, <3>1, OpenMaps DEF Maps
  <2>9. CASE k = None
    <3>1. Bound' = Bound
      BY <2>6, <2>7, <2>9, BoundKept
    <3>2. \A j \in Conv : Bound[j] # s
      BY <1>3 DEF BoundSound, Has, Rows
    <3>3. QED
      BY <2>5, <3>1, <3>2, OpenAloneMaps DEF Maps
  <2>10. QED
    BY <2>8, <2>9
<1>4. ASSUME NEW k \in Conv, \A s \in Ids : ~Has(k, s)
      PROVE  Bound[k] = None
  BY <1>4 DEF BoundSound
<1>5. CASE HasId(q) /\ q.id \in ExplicitIds /\ db[q.id] = None /\ Created(r, q.id, None)
  <2>1. PICK k \in ExplicitIds : k = q.id
    BY <1>5
  <2>2. k \in Conv /\ k \in Ids /\ \A s \in Ids : ~Has(k, s)
    BY <1>5, <2>1, ConstantsAre DEF Conv, Has, Rows
  <2>3. Bound[k] = None
    BY <1>4, <2>2
  <2>4. QED
    BY <1>3, <1>5, <2>1, <2>2, <2>3
<1>6. CASE /\ ~HasId(q) /\ minted + 1 \in 1..MaxMinted
           /\ Created(r, minted + 1, IF Anonymous(q) THEN None ELSE Fingerprint(q))
  <2>1. PICK s \in Ids : s = minted + 1 /\ s \notin ExplicitIds
    BY <1>6, SessionNames, ConstantsAre
  <2>2. db[s] = None
    <3>1. minted \in Nat
      BY SessionBounds DEF TypeOK
    <3>2. ~(s <= minted)
      BY <2>1, <3>1
    <3>3. QED
      BY <2>1, <3>2 DEF OneRow, Rows
  <2>3. PICK p \in Prints \cup {None} :
          /\ Created(r, s, p)
          /\ p # None => HasPrint(q) /\ p = Fingerprint(q)
    BY <1>1, <1>6, <2>1, QueryIs DEF Anonymous, HasPrint
  <2>4. p \notin ExplicitIds /\ p \in Conv \cup {None}
    BY SessionNames, SessionBounds DEF Conv
  <2>5. p # None => Bound[p] = None
    <3>1. SUFFICES ASSUME p # None PROVE Bound[p] = None
      OBVIOUS
    <3>2. RowOf(p) = {}
      BY <1>1, <2>3, <3>1 DEF OneRow, At
    <3>3. \A x \in Ids : ~Has(p, x)
      BY <2>4, <3>2 DEF Has, RowOf
    <3>4. QED
      BY <1>4, <2>4, <3>1, <3>3
  <2>6. QED
    BY <1>3, <2>1, <2>2, <2>3, <2>4, <2>5
<1>7. QED
  BY <1>1, <1>2, <1>5, <1>6

LEMMA WorksMap ==
  ASSUME TypeOK, TasksSound, SettingsSound, BoundSound, BoundSound', NEW r \in Requests,
         \/ ReadTrace(r) \/ Behind(r) \/ Advance(r) \/ Touch(r) \/ ReadTurn(r)
         \/ MergeRead(r) \/ MergeStore(r) \/ LoadSettings(r)
         \/ ReconcileFails(r) \/ ResolveFails(r)
  PROVE  Maps
<1>1. RowsKept
  <2>1. CASE Advance(r) \/ Touch(r)
    BY <2>1, AdvanceIs, TouchIs, TouchedIs
  <2>2. CASE MergeStore(r)
    BY <2>2, MergeStoreIs
  <2>3. CASE ~(Advance(r) \/ Touch(r) \/ MergeStore(r))
    BY <2>3, RowsUnchanged DEF ReadTrace, Behind, ReadTurn, MergeRead,
       LoadSettings, ReconcileFails, ResolveFails, dbVars
  <2>4. QED
    BY <2>1, <2>2, <2>3
<1>2. \E t : Becomes(r, t) /\ t.sid = req[r].sid /\ t.isNew = req[r].isNew
  <2>1. CASE ReadTrace(r)
    BY <2>1, ReadTraceIs
  <2>2. CASE Behind(r)
    BY <2>2, BehindIs
  <2>3. CASE Advance(r)
    BY <2>3, AdvanceIs
  <2>4. CASE Touch(r)
    BY <2>4, TouchIs DEF Went, Same
  <2>5. CASE ReadTurn(r)
    BY <2>5, ReadTurnIs
  <2>6. CASE MergeRead(r) \/ LoadSettings(r)
    BY <2>6, MergeReadIs
  <2>7. CASE MergeStore(r)
    BY <2>7, MergeStoreIs
  <2>8. CASE ReconcileFails(r)
    BY <2>8, ReconcileFailsIs DEF Went, Same
  <2>9. CASE ResolveFails(r)
    BY <2>9, ResolveFailsIs
  <2>10. QED
    BY <2>1, <2>2, <2>3, <2>4, <2>5, <2>6, <2>7, <2>8, <2>9
<1>3. QED
  BY <1>1, <1>2, WorkMaps

\* A request that ends is forgotten; a crash forgets them all.
LEMMA EndsMap ==
  ASSUME TypeOK, TasksSound, BoundSound, BoundSound',
         Crash \/ \E r \in Requests : Finish(r)
  PROVE  Maps
<1>1. CASE Crash
  <2>1. RowsKept /\ \A r \in Requests : req'[r] = Idle
    BY <1>1, CrashIs
  <2>2. Bound' = Bound
    BY <2>1, RowsKeptBound
  <2>3. Answer' = [r \in Requests |-> None]
    BY <2>1, IdleIs DEF Answer
  <2>4. Answer' = [r \in Requests |-> IF r \in Requests THEN None ELSE Answer[r]]
    BY <2>3
  <2>5. QED
    BY <2>2, <2>4, ForgetMaps DEF Maps
<1>2. ASSUME NEW r \in Requests, Finish(r)
      PROVE  Maps
  <2>1. Becomes(r, Idle) /\ RowsKept
    BY <1>2, IdleIs, RowsUnchanged DEF Finish, At, Becomes, dbVars
  <2>2. Bound' = Bound
    BY <2>1, RowsKeptBound
  <2>3. Answer' = [Answer EXCEPT ![r] = None]
    BY <2>1, AnswerIs, IdleIs
  <2>4. Answer = [x \in Requests |-> Answer[x]]
    BY DEF Answer
  <2>. HIDE DEF Answer
  <2>5. Answer' = [x \in Requests |-> IF x \in {r} THEN None ELSE Answer[x]]
    BY <2>3, <2>4
  <2>6. QED
    BY <2>2, <2>5, ForgetMaps DEF Maps
<1>3. QED
  BY <1>1, <1>2

LEMMA CleanupMaps ==
  ASSUME TypeOK, TasksSound, BoundSound, BoundSound', Expire \/ DeleteExpired \/ CleanupFails
  PROVE  Maps
<1>1. Answer' = Answer
  BY DEF Answer, Expire, DeleteExpired, CleanupFails
<1>2. CASE Expire \/ CleanupFails
  BY <1>1, <1>2, ExpireIs, RowsUnchanged, RowsKeptBound DEF Maps, CleanupFails, dbVars
<1>3. CASE DeleteExpired
  <2>1. \A k \in Conv, s \in Ids : Has(k, s)' => Has(k, s)
    BY <1>3, DeleteIs DEF Has, Rows
  <2>2. ASSUME NEW k \in Conv
        PROVE  Bound'[k] = Bound[k] \/ Bound'[k] = None
    <3>1. PICK v : v = Bound'[k] /\ v \in Ids \cup {None}
      BY DEF BoundSound
    <3>2. v \in Ids => Bound[k] = v
      BY <2>1, <3>1 DEF BoundSound
    <3>3. QED
      BY <3>1, <3>2
  <2>3. PICK K \in SUBSET Conv : K = {k \in Conv : Bound'[k] = None}
    OBVIOUS
  <2>4. Bound' = [k \in Conv |-> Bound'[k]]
    BY DEF BoundSound
  <2>5. Bound' = [k \in Conv |-> IF k \in K THEN None ELSE Bound[k]]
    BY <2>2, <2>3, <2>4
  <2>6. QED
    BY <1>1, <2>5, DropMaps DEF Maps
<1>4. QED
  BY <1>2, <1>3

LEMMA NextMaps ==
  ASSUME IInv, BoundSound, BoundSound', Next
  PROVE  Maps
<1>1. TypeOK /\ TasksSound /\ OneRow /\ SettingsSound
  BY DEF IInv
<1>2. ASSUME NEW r \in Requests, NEW q \in Queries, Arrive(r, q)
      PROVE  Maps
  <2>1. req[r].sid = None
    BY <1>1, <1>2, ArriveIs, ReqIs DEF TaskSound
  <2>2. PICK t : Becomes(r, t) /\ t.sid = None
    BY <1>1, <1>2, ArriveIs
  <2>3. RowsKept
    BY <1>2, RowsUnchanged DEF Arrive, dbVars
  <2>4. QED
    BY <1>1, <2>1, <2>2, <2>3, WorkMaps
<1>3. QED
  BY <1>1, <1>2, FindsMap, CreateMaps, WorksMap, EndsMap, CleanupMaps DEF Next, Step

LEMMA InitMaps == Init => Registry!RegistryInit
<1>. SUFFICES ASSUME Init PROVE Registry!RegistryInit
  OBVIOUS
<1>1. IInv /\ BoundSound
  BY InitSound, BoundIs
<1>2. Answer = [r \in Requests |-> None]
  BY IdleIs DEF Answer, Init
<1>3. \A s \in Rows : s \in ExplicitIds
  BY DEF Rows, Init
<1>4. ASSUME NEW j \in Conv, NEW k \in Conv, Bound[j] = Bound[k], Bound[j] # None
      PROVE  j = k
  <2>1. PICK s \in Ids : s = Bound[j]
    BY <1>1, <1>4 DEF BoundSound
  <2>2. Has(j, s) /\ Has(k, s)
    BY <1>1, <1>4, <2>1 DEF BoundSound
  <2>3. db[s].print = None
    BY <1>1, <1>3, <2>2 DEF Has, IInv, OneRow
  <2>4. \A i \in Prints : i # None
    BY ConstantsAre
  <2>5. QED
    BY <2>2, <2>3, <2>4 DEF Has, Conv
<1>5. Bound \in [Conv -> Ids \cup {None}]
  BY <1>1 DEF BoundSound
<1>6. /\ Bound \in [Conv -> Ids \cup {None}]
      /\ \A j, k \in Conv : Bound[j] = Bound[k] /\ Bound[j] # None => j = k
      /\ Answer = [r \in Requests |-> None]
  BY <1>2, <1>4, <1>5
<1>7. QED
  BY <1>6 DEF Registry!RegistryInit, Bound, Answer, Conv

LEMMA StepMaps ==
  IInv /\ BoundSound /\ BoundSound' /\ [Next]_vars =>
    [Registry!RegistryNext]_(Registry!registryVars)
<1>1. ASSUME IInv, BoundSound, BoundSound', Next
      PROVE  [Registry!RegistryNext]_(Registry!registryVars)
  <2>1. Maps
    BY <1>1, NextMaps
  <2>2. Bound' = Bound /\ Answer' = Answer => UNCHANGED Registry!registryVars
    BY DEF Bound, Answer, Registry!registryVars
  <2>3. QED
    BY <2>1, <2>2 DEF Maps
<1>2. UNCHANGED vars => UNCHANGED Registry!registryVars
  BY DEF vars, Registry!registryVars, RowOf, Rows
<1>3. QED
  BY <1>1, <1>2

\* session.py, resolve_session: whatever its requests, locks, failures and
\* restarts do, resolution gives each conversation one session at a time, and
\* tells one request that the session is new.
THEOREM SessionsImplementRegistry == Spec => ImplementsRegistry
<1>. QED
  BY InitMaps, StepMaps, SessionsInvariant, BoundIs, PTL
     DEF Spec, ImplementsRegistry, Registry!RegistrySpec
=============================================================================
