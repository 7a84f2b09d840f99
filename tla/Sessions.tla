------------------------------- MODULE Sessions -------------------------------
(***************************************************************************)
(* Session resolution of archolith_proxy: requests are attributed to the   *)
(* session rows of the graph database, turn numbers are counted there and  *)
(* repaired from the traces after a restart, per-session settings are      *)
(* merged, and the hourly cleanup expires and deletes rows meanwhile.      *)
(*                                                                         *)
(* A request is a task; every await of the code that reaches the database  *)
(* or the trace store ends one action.                                     *)
(***************************************************************************)
EXTENDS Integers, Sequences, SequencesExt

CONSTANTS Queries,      \* the requests clients send, see Query
          ExplicitIds,  \* session ids that clients put in a header
          Prints,       \* fingerprints of conversations
          Denied,       \* setting names of SESSION_CONFIG_DENYLIST
          MaxMinted,    \* bound: sessions created with a random id
          MaxArrivals,  \* bound: requests
          MaxCrashes,   \* bound: crashes of the process
          MaxMarks,     \* _RECONCILED_SESSIONS_MAX
          MaxLost,      \* bound: increments of a session a crash loses
          MaxPast,      \* bound: turns of a session in an earlier process
          None

ASSUME SessionBounds ==
  /\ MaxMinted \in Nat /\ MaxArrivals \in Nat /\ MaxCrashes \in Nat
  /\ MaxPast \in Nat /\ MaxLost \in Nat
  /\ MaxMarks \in Nat \ {0}
  /\ None \notin ExplicitIds \cup Prints \cup (1..MaxMinted)

\* Ids and fingerprints are told apart, and a random id is nobody else's.
ASSUME SessionNames ==
  /\ ExplicitIds \cap (Prints \cup (1..MaxMinted)) = {}
  /\ None \notin [print : Prints \cup {None}, turn : Nat, expired : BOOLEAN,
                  cfg : SUBSET UNION {q.cfg : q \in Queries}]
  /\ \A q \in Queries : /\ q.id \in ExplicitIds \cup {None}
                        /\ q.print = None \/ q.print.stable \in Prints
                        /\ q.user \in BOOLEAN

Requests == 1..MaxArrivals \* numbered in the order they arrive
Ids == ExplicitIds \cup (1..MaxMinted)

VARIABLES db,         \* session id -> its row, or None
          aged,       \* ids that expired and were not touched since
          lock,       \* fingerprint -> holder and waiters of its creation lock
          reconciled, \* ids reconciled by this process, least recent first
          traced,     \* highest turn in the traces, which are also on disk; -1 for none
          req,        \* the requests
          cleanup,    \* where the hourly loop is
          minted, arrivals, crashes,  \* counters of the bounds
          spoiled,    \* history: ids used by overlapping requests, see Found
          asked       \* history: id -> settings its clients asked for

dbVars == <<db, aged>>
countVars == <<minted, arrivals, crashes>>
vars == <<db, aged, lock, reconciled, traced, req, cleanup,
          minted, arrivals, crashes, spoiled, asked>>

(* ------------------------------- requests ------------------------------ *)

\* A query names its session by header (id), by what it says first (print),
\* or not at all; user: its last message is the user's; cfg: names of the
\* settings in its X-Session-Config; consent: traces may be recorded.
\* The volatile part of the system prompt is cut out of the fingerprint.
Fingerprint(q) == q.print.stable

HasId(q) == q.id # None
HasPrint(q) == ~HasId(q) /\ q.print # None
Anonymous(q) == ~HasId(q) /\ q.print = None

Applied(q) == q.cfg \ Denied

Idle == [pc |-> "idle", q |-> None, sid |-> None, isNew |-> FALSE, left |-> 0,
         turn |-> 0, cfg |-> {}]
Rows == {s \in Ids : db[s] # None}
RowOf(p) == {s \in Rows : db[s].print = p}
At(r, p) == req[r].pc = p
Goto(r, p) == req' = [req EXCEPT ![r].pc = p]
InFlight(s) == {r \in Requests : req[r].pc # "idle" /\ req[r].sid = s}
Recording(q) == q.consent

\* r lets go of the lock it holds, if any; only the holder leaves the queue.
Release(r) ==
  lock' = [p \in Prints |-> IF lock[p] # <<>> /\ Head(lock[p]) = r
                            THEN Tail(lock[p]) ELSE lock[p]]

\* resolve_session reached _reconcile_turn_number with session s: marked ones
\* skip it, others are marked before anything is done.
Marks(s) ==
  LET others == IF Contains(reconciled, s)
                  THEN RemoveAt(reconciled, CHOOSE n \in 1..Len(reconciled) :
                                              reconciled[n] = s)
                  ELSE reconciled
      moved  == Append(others, s)
  IN  IF Len(moved) > MaxMarks THEN Tail(moved) ELSE moved

AfterReconcile(q) == IF q.user THEN "touch" ELSE "turn"

Found(r, s) ==
  /\ req' = [req EXCEPT ![r].sid = s,
                        ![r].pc = IF Contains(reconciled, s)
                                  THEN AfterReconcile(req[r].q) ELSE "trace"]
  /\ reconciled' = Marks(s)
  /\ spoiled' = IF InFlight(s) = {} THEN spoiled ELSE spoiled \cup {s}

NewRow(s, p) ==
  /\ db' = [db EXCEPT ![s] = [print |-> p, turn |-> 0, expired |-> FALSE, cfg |-> {}]]
  /\ aged' = aged \ {s}
  /\ asked' = [asked EXCEPT ![s] = {}]

Created(r, s, p) ==
  /\ NewRow(s, p)
  /\ req' = [req EXCEPT ![r].sid = s, ![r].isNew = TRUE, ![r].pc = "turn"]
  /\ UNCHANGED <<reconciled, spoiled>>

Mint == minted' = minted + 1

Touched(s) ==
  /\ aged' = aged \ {s}
  /\ db' = IF db[s] = None THEN db ELSE [db EXCEPT ![s].turn = @ + 1]

(* ------------------------------- actions ------------------------------- *)

\* The first start finds what an earlier process left: sessions with the
\* traces of their turns, of which the rows may lack the last ones.
Init ==
  /\ \E past \in SUBSET ExplicitIds, turn \in 0..MaxPast :
       /\ db = [s \in Ids |-> IF s \in past
                THEN [print |-> None, turn |-> turn, expired |-> FALSE, cfg |-> {}]
                ELSE None]
       /\ traced = [s \in Ids |-> IF s \in past THEN MaxPast ELSE -1]
  /\ aged = {}
  /\ lock = [p \in Prints |-> <<>>]
  /\ reconciled = <<>>
  /\ req = [r \in Requests |-> Idle]
  /\ cleanup = "sleep"
  /\ minted = 0 /\ arrivals = 0 /\ crashes = 0
  /\ spoiled = {}
  /\ asked = [s \in Ids |-> {}]

Arrive(r, q) ==
  /\ r = arrivals + 1
  /\ arrivals' = r
  /\ req' = [req EXCEPT ![r] = [Idle EXCEPT !.q = q,
       !.pc = IF HasId(q) THEN "byId" ELSE IF HasPrint(q) THEN "byPrint" ELSE "create"]]
  /\ UNCHANGED <<dbVars, lock, reconciled, traced, cleanup,
                 minted, crashes, spoiled, asked>>

FindById(r) ==
  /\ At(r, "byId")
  /\ LET s == req[r].q.id
     IN IF db[s] # None THEN Found(r, s)
        ELSE Goto(r, "create") /\ UNCHANGED <<reconciled, spoiled>>
  /\ UNCHANGED <<dbVars, lock, traced, cleanup, countVars, asked>>

\* The fast path of find_or_create_by_fingerprint, and the queueing at the lock.
FindByPrint(r) ==
  /\ At(r, "byPrint")
  /\ LET p == Fingerprint(req[r].q)
     IN \/ \E s \in RowOf(p) : Found(r, s) /\ UNCHANGED lock
        \/ /\ RowOf(p) = {}
           /\ lock' = [lock EXCEPT ![p] = Append(@, r)]
           /\ Goto(r, "locked")
           /\ UNCHANGED <<reconciled, spoiled>>
  /\ UNCHANGED <<dbVars, traced, cleanup, countVars, asked>>

\* Mutant of FindLocked: there is no second look.
CreateOnceLocked(r) ==
  /\ At(r, "locked") /\ Head(lock[Fingerprint(req[r].q)]) = r
  /\ Goto(r, "create")
  /\ UNCHANGED <<dbVars, lock, reconciled, traced, cleanup, countVars, spoiled, asked>>

\* The second look, once the lock is held.
FindLocked(r) ==
  /\ At(r, "locked")
  /\ LET p == Fingerprint(req[r].q)
     IN /\ Head(lock[p]) = r
        /\ \/ \E s \in RowOf(p) : Found(r, s) /\ Release(r)
           \/ /\ RowOf(p) = {}
              /\ Goto(r, "create")
              /\ UNCHANGED <<lock, reconciled, spoiled>>
  /\ UNCHANGED <<dbVars, traced, cleanup, countVars, asked>>

\* An id that another request created meanwhile breaks the primary key: the
\* exception leaves resolve_session and the request goes on without a session.
Create(r) ==
  /\ At(r, "create")
  /\ LET q == req[r].q
     IN \/ /\ HasId(q) /\ db[q.id] = None
           /\ Created(r, q.id, None)
           /\ UNCHANGED <<lock, countVars>>
        \/ /\ HasId(q) /\ db[q.id] # None
           /\ Goto(r, "serve")
           /\ UNCHANGED <<dbVars, lock, reconciled, countVars, spoiled, asked>>
        \/ /\ ~HasId(q) /\ minted < MaxMinted
           /\ Created(r, minted + 1, IF Anonymous(q) THEN None ELSE Fingerprint(q))
           /\ Release(r)
           /\ Mint /\ UNCHANGED <<arrivals, crashes>>
  /\ UNCHANGED <<traced, cleanup>>

ReadTrace(r) ==
  /\ At(r, "trace")
  /\ LET top == traced[req[r].sid]
     IN req' = [req EXCEPT ![r].left = top,
                           ![r].pc = IF top = -1 THEN AfterReconcile(req[r].q) ELSE "behind"]
  /\ UNCHANGED <<dbVars, lock, reconciled, traced, cleanup, countVars, spoiled, asked>>

TurnOf(s) == IF db[s] = None THEN 0 ELSE db[s].turn

\* Mutant of Behind: a row one turn behind counts as up to date.
BehindByMore(r) ==
  /\ At(r, "behind")
  /\ LET delta == req[r].left - TurnOf(req[r].sid) - 1
     IN req' = [req EXCEPT ![r].left = delta,
                           ![r].pc = IF delta > 0 THEN "advance" ELSE AfterReconcile(req[r].q)]
  /\ UNCHANGED <<dbVars, lock, reconciled, traced, cleanup, countVars, spoiled, asked>>

\* How many turns the database is behind the traces.
Behind(r) ==
  /\ At(r, "behind")
  /\ LET delta == req[r].left - TurnOf(req[r].sid)
     IN req' = [req EXCEPT ![r].left = delta,
                           ![r].pc = IF delta > 0 THEN "advance" ELSE AfterReconcile(req[r].q)]
  /\ UNCHANGED <<dbVars, lock, reconciled, traced, cleanup, countVars, spoiled, asked>>

Advance(r) ==
  /\ At(r, "advance")
  /\ Touched(req[r].sid)
  /\ req' = [req EXCEPT ![r].left = @ - 1,
                        ![r].pc = IF req[r].left = 1 THEN AfterReconcile(req[r].q) ELSE @]
  /\ UNCHANGED <<lock, reconciled, traced, cleanup, countVars, spoiled, asked>>

\* An exception inside the reconciliation is swallowed; the mark stays.
ReconcileFails(r) ==
  /\ req[r].pc \in {"trace", "behind", "advance"}
  /\ Goto(r, AfterReconcile(req[r].q))
  /\ spoiled' = spoiled \cup {req[r].sid}
  /\ UNCHANGED <<dbVars, lock, reconciled, traced, cleanup, countVars, asked>>

Touch(r) ==
  /\ At(r, "touch")
  /\ Touched(req[r].sid)
  /\ Goto(r, "turn")
  /\ UNCHANGED <<lock, reconciled, traced, cleanup, countVars, spoiled, asked>>

ReadTurn(r) ==
  /\ At(r, "turn")
  /\ req' = [req EXCEPT ![r].turn = TurnOf(req[r].sid),
                        ![r].pc = IF Applied(req[r].q) = {} THEN "load" ELSE "merge"]
  /\ UNCHANGED <<dbVars, lock, reconciled, traced, cleanup, countVars, spoiled, asked>>

SettingsOf(s) == IF db[s] = None THEN {} ELSE db[s].cfg

\* Mutant of MergeRead: the stored settings are replaced, not merged.
MergeReadNothing(r) ==
  /\ At(r, "merge")
  /\ Goto(r, "store")
  /\ UNCHANGED <<dbVars, lock, reconciled, traced, cleanup, countVars, spoiled, asked>>

\* merge_session_config_overrides reads the stored settings ...
MergeRead(r) ==
  /\ At(r, "merge")
  /\ req' = [req EXCEPT ![r].cfg = SettingsOf(req[r].sid), ![r].pc = "store"]
  /\ UNCHANGED <<dbVars, lock, reconciled, traced, cleanup, countVars, spoiled, asked>>

\* ... and writes them back with the request's own, an await later.
MergeStore(r) ==
  /\ At(r, "store")
  /\ LET s == req[r].sid
         merged == req[r].cfg \cup Applied(req[r].q)
     IN /\ db' = IF db[s] = None THEN db ELSE [db EXCEPT ![s].cfg = merged]
        /\ req' = [req EXCEPT ![r].cfg = merged, ![r].pc = "serve"]
        /\ asked' = [asked EXCEPT ![s] = @ \cup req[r].q.cfg]
  /\ UNCHANGED <<aged, lock, reconciled, traced, cleanup, countVars, spoiled>>

LoadSettings(r) ==
  /\ At(r, "load")
  /\ req' = [req EXCEPT ![r].cfg = SettingsOf(req[r].sid), ![r].pc = "serve"]
  /\ UNCHANGED <<dbVars, lock, reconciled, traced, cleanup, countVars, spoiled, asked>>

\* Mutant of ResolveFails: the lock is not let go.
FailsHoldingLock(r) ==
  /\ \/ req[r].pc \in {"byId", "byPrint", "create", "touch", "turn", "merge", "store", "load"}
     \/ At(r, "locked") /\ Head(lock[Fingerprint(req[r].q)]) = r
  /\ req' = [req EXCEPT ![r].pc = "serve", ![r].cfg = {}]
  /\ UNCHANGED <<dbVars, lock, reconciled, traced, cleanup, countVars, spoiled, asked>>

\* Any other exception ends the resolution where it is: a lock held is let go,
\* and the request is served without a session, turn or settings it lacks.
ResolveFails(r) ==
  /\ \/ req[r].pc \in {"byId", "byPrint", "create", "touch", "turn", "merge", "store", "load"}
     \/ At(r, "locked") /\ Head(lock[Fingerprint(req[r].q)]) = r
  /\ req' = [req EXCEPT ![r].pc = "serve", ![r].cfg = {}]
  /\ Release(r)
  /\ spoiled' = IF req[r].sid = None THEN spoiled ELSE spoiled \cup {req[r].sid}
  /\ UNCHANGED <<dbVars, reconciled, traced, cleanup, countVars, asked>>

\* The answer is sent and the turn's trace recorded.
Finish(r) ==
  /\ At(r, "serve")
  /\ req' = [req EXCEPT ![r] = Idle]
  /\ LET s == req[r].sid
     IN traced' = IF s = None \/ ~Recording(req[r].q) THEN traced
                  ELSE [traced EXCEPT ![s] = IF @ > req[r].turn THEN @ ELSE req[r].turn]
  /\ UNCHANGED <<dbVars, lock, reconciled, cleanup, countVars, spoiled, asked>>

(* ---------------------- time, cleanup and restarts ---------------------- *)

\* expire_sessions, an hour later: the time to live of sessions nobody uses has
\* run out.  The deletion follows only when some session expired.
Expire ==
  /\ cleanup = "sleep"
  /\ \E old \in SUBSET {s \in Rows : ~db[s].expired /\ InFlight(s) = {}} :
       /\ old # {}
       /\ db' = [s \in Ids |-> IF s \in old THEN [db[s] EXCEPT !.expired = TRUE] ELSE db[s]]
       /\ aged' = aged \cup old
  /\ cleanup' = "delete"
  /\ UNCHANGED <<lock, reconciled, traced, req, countVars, spoiled, asked>>

Dead == {s \in Rows : db[s].expired}

\* delete_expired_sessions: every row marked expired, whenever it was marked.
DeleteExpired ==
  /\ cleanup = "delete"
  /\ db' = [s \in Ids |-> IF s \in Dead THEN None ELSE db[s]]
  /\ aged' = aged \ Dead
  /\ spoiled' = spoiled \cup Dead
  /\ cleanup' = "sleep"
  /\ UNCHANGED <<lock, reconciled, traced, req, countVars, asked>>

CleanupFails ==
  /\ cleanup = "delete"
  /\ cleanup' = "sleep"
  /\ UNCHANGED <<dbVars, lock, reconciled, traced, req, countVars, spoiled, asked>>

\* The process dies and starts again: the write-ahead log may lack the last
\* increments, and the traces are loaded from their files.
Crash ==
  /\ crashes < MaxCrashes
  /\ crashes' = crashes + 1
  /\ \E lost \in [Rows -> 0..MaxLost] :
       db' = [s \in Ids |-> IF s \in Rows
                THEN [db[s] EXCEPT !.turn = IF lost[s] < @ THEN @ - lost[s] ELSE 0]
                ELSE None]
  /\ req' = [r \in Requests |-> Idle]
  /\ lock' = [p \in Prints |-> <<>>]
  /\ reconciled' = <<>>
  /\ cleanup' = "sleep"
  /\ spoiled' = {}
  /\ asked' = [s \in Ids |-> IF s \in Rows THEN db[s].cfg ELSE {}]
  /\ UNCHANGED <<aged, traced, minted, arrivals>>

Step(r) ==
  \/ FindById(r) \/ FindByPrint(r) \/ FindLocked(r) \/ Create(r)
  \/ ReadTrace(r) \/ Behind(r) \/ Advance(r) \/ Touch(r) \/ ReadTurn(r)
  \/ MergeRead(r) \/ MergeStore(r) \/ LoadSettings(r) \/ Finish(r)

Next ==
  \/ \E r \in Requests : \/ \E q \in Queries : Arrive(r, q)
                         \/ Step(r) \/ ReconcileFails(r) \/ ResolveFails(r)
  \/ Expire \/ DeleteExpired \/ CleanupFails \/ Crash

\* Database calls return or raise, so a request that can move does.
Fairness == \A r \in Requests : WF_vars(Step(r))

Spec == Init /\ [][Next]_vars /\ Fairness

(* ------------------------------ properties ------------------------------ *)

\* The rows and the requests implement the registry: a conversation has one
\* session, found or created in one step, and one request is told it is new.
Registry == INSTANCE SessionRegistry WITH
  Conversations <- Prints \cup ExplicitIds,
  SessionIds <- Ids,
  bound <- [k \in Prints \cup ExplicitIds |->
              IF k \in ExplicitIds THEN IF db[k] = None THEN None ELSE k
              ELSE IF RowOf(k) = {} THEN None ELSE CHOOSE s \in RowOf(k) : TRUE],
  answer <- [r \in Requests |->
               IF req[r].sid = None THEN None
               ELSE [sid |-> req[r].sid, isNew |-> req[r].isNew]]

\* session.py, resolve_session: concurrent first requests of a conversation
\* end in one session, of which one of them is told that it is new.
ImplementsRegistry == Registry!RegistrySpec

\* session.py, _reconcile_turn_number: a user turn of a known session is
\* numbered above every turn in the traces, also after a restart that lost the
\* last increments, unless requests of the session overlapped in this process,
\* the database failed them or the row was deleted.
AloneTurnsAdvance ==
  \A r \in Requests :
    /\ req[r].pc \in {"merge", "load", "store", "serve"} /\ req[r].q.user
    /\ req[r].sid # None /\ ~req[r].isNew /\ req[r].sid \notin spoiled
    => req[r].turn > traced[req[r].sid]

\* chat_overlay.py: no denied setting is ever stored or used, and a setting a
\* client asked for stays stored, unless requests of the session overlapped.
OverridesKept ==
  /\ \A s \in Rows : /\ db[s].cfg \cap Denied = {}
                     /\ s \notin spoiled => asked[s] \ Denied \subseteq db[s].cfg
  /\ \A r \in Requests : At(r, "serve") => req[r].cfg \cap Denied = {}

\* Every request gets past its resolution: no lock is kept by one that left.
RequestsEnd == \A r \in Requests : (req[r].pc # "idle") ~> (req[r].pc = "idle")

\* README.md: graph sessions expire after SESSION_TTL_HOURS: only a session
\* that has been idle for that long is deleted.
OnlyIdleDeleted ==
  [][\A s \in Ids : db[s] # None /\ db'[s] = None => s \in aged]_vars
=============================================================================
