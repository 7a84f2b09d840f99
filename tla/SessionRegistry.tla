--------------------------- MODULE SessionRegistry ---------------------------
(***************************************************************************)
(* What session resolution promises (proxy/session.py, resolve_session): a *)
(* conversation has at most one session at a time, a request learns the    *)
(* session of its conversation in one indivisible step, and exactly one    *)
(* request is told that the session is new.  Sessions refines this module. *)
(***************************************************************************)
CONSTANTS Requests,      \* requests of the clients
          Conversations, \* what identifies a session: a fingerprint or an explicit id
          SessionIds,    \* identifiers of sessions
          None

VARIABLES bound,  \* conversation -> its session, or None
          answer  \* request -> what it was told, or None

registryVars == <<bound, answer>>

\* The registry outlives the process: it starts with the sessions it has.
RegistryInit ==
  /\ bound \in [Conversations -> SessionIds \cup {None}]
  /\ \A j, k \in Conversations : bound[j] = bound[k] /\ bound[j] # None => j = k
  /\ answer = [r \in Requests |-> None]

Tell(r, s, new) == answer' = [answer EXCEPT ![r] = [sid |-> s, isNew |-> new]]

\* The conversation has a session: the request is told which.
Join(r, k) ==
  /\ answer[r] = None /\ bound[k] # None
  /\ Tell(r, bound[k], FALSE)
  /\ UNCHANGED bound

\* It has none: the request opens one.
Open(r, k) ==
  /\ answer[r] = None /\ bound[k] = None
  /\ \E s \in SessionIds :
       /\ \A j \in Conversations : bound[j] # s
       /\ bound' = [bound EXCEPT ![k] = s]
       /\ Tell(r, s, TRUE)

\* A request that cannot be attributed gets a session of its own.
OpenAlone(r) ==
  /\ answer[r] = None
  /\ \E s \in SessionIds :
       /\ \A j \in Conversations : bound[j] # s
       /\ Tell(r, s, TRUE)
  /\ UNCHANGED bound

\* Requests end, or die with the process.
Forget == \E R \in SUBSET Requests :
  /\ answer' = [r \in Requests |-> IF r \in R THEN None ELSE answer[r]]
  /\ UNCHANGED bound

\* Sessions past their time to live are deleted.
Drop == \E K \in SUBSET Conversations :
  /\ bound' = [k \in Conversations |-> IF k \in K THEN None ELSE bound[k]]
  /\ UNCHANGED answer

RegistryNext ==
  \/ \E r \in Requests, k \in Conversations : Join(r, k) \/ Open(r, k)
  \/ \E r \in Requests : OpenAlone(r)
  \/ Forget
  \/ Drop

RegistrySpec == RegistryInit /\ [][RegistryNext]_registryVars
=============================================================================
