--------------------------- MODULE ARCWorkingSet ----------------------------
(***************************************************************************)
(* The Adaptive Replacement Cache of                                       *)
(* archolith_proxy/curator/working_set.py that bounds the curator's        *)
(* per-session caches.  Its keys are session ids.  The four OrderedDicts   *)
(* are four sets here, and one sequence keeps the order in which the keys  *)
(* entered the list they are in, which is the order popitem follows.       *)
(***************************************************************************)
EXTENDS Integers, Sequences, FiniteSets

CONSTANTS
  Keys,        \* session ids
  Capacity,    \* curator_workingset_max_sessions
  NoKey        \* record_access returns None

ASSUME ArcAssumption ==
  /\ IsFiniteSet(Keys)
  /\ Capacity \in Nat \ {0}
  /\ NoKey \notin Keys

VARIABLES
  p,         \* adaptive target size of t1
  t1,        \* resident, seen once
  t2,        \* resident, seen at least twice
  b1,        \* ghosts evicted from t1
  b2,        \* ghosts evicted from t2
  order,     \* all listed keys, the one that entered its list first in front
  evicted    \* what the last record_access returned

arcVars == <<p, t1, t2, b1, b2, order, evicted>>

Resident == t1 \cup t2
Listed   == t1 \cup t2 \cup b1 \cup b2

ArcInit ==
  /\ p = 0
  /\ t1 = {} /\ t2 = {} /\ b1 = {} /\ b2 = {}
  /\ order = <<>>
  /\ evicted = NoKey

-----------------------------------------------------------------------------
\* The key popitem(last=False) takes from a list: none when it is empty.
Oldest(list) ==
  {v \in list : \E i \in 1..Len(order) :
                   order[i] = v /\ \A j \in 1..(i - 1) : order[j] \notin list}

\* _replace: the lists after one resident page became a ghost, per possible
\* victim, given the adapted target and the ghosts left.
Replace(key, target, ghosts1, ghosts2) ==
  IF /\ t1 # {}
     /\ \/ Cardinality(t1) > target
        \/ key \in ghosts2 /\ Cardinality(t1) = target
        \/ t2 = {}
    THEN {[out |-> v, t1 |-> t1 \ {v}, t2 |-> t2,
           b1 |-> ghosts1 \cup {v}, b2 |-> ghosts2] : v \in Oldest(t1)}
  ELSE IF t2 # {}
    THEN {[out |-> v, t1 |-> t1, t2 |-> t2 \ {v},
           b1 |-> ghosts1, b2 |-> ghosts2 \cup {v}] : v \in Oldest(t2)}
  ELSE {[out |-> NoKey, t1 |-> t1, t2 |-> t2, b1 |-> ghosts1, b2 |-> ghosts2]}

\* Every insertion goes to the end of its list; the victim of the call enters
\* its ghost list before the key enters its own.
Reorder(key) ==
  order' = SelectSeq(order, LAMBDA k : k \in Listed' \ {key, evicted'})
             \o (IF evicted' \in Listed' THEN <<evicted'>> ELSE <<>>)
             \o <<key>>

\* Case I: a resident key becomes the most recent of t2.
Hit(key) ==
  /\ key \in Resident
  /\ t1' = t1 \ {key}
  /\ t2' = t2 \cup {key}
  /\ evicted' = NoKey
  /\ UNCHANGED <<p, b1, b2>>

\* How far a hit in a ghost list of n keys moves the target, the other having m.
Delta(n, m) == IF n >= m THEN 1 ELSE m \div n

\* The target within its range.
Grown(d)  == IF p + d > Capacity THEN Capacity ELSE p + d
Lowered(d) == IF p - d < 0 THEN 0 ELSE p - d

\* Case II: a ghost of t1 returns; the target grows.
GhostHit1(key) ==
  /\ key \in b1
  /\ p' = Grown(Delta(Cardinality(b1), Cardinality(b2)))
  /\ \E r \in Replace(key, p', b1, b2) :
       /\ t1' = r.t1
       /\ t2' = r.t2 \cup {key}
       /\ b1' = r.b1 \ {key}
       /\ b2' = r.b2
       /\ evicted' = r.out

\* Case III: a ghost of t2 returns; the target shrinks.
GhostHit2(key) ==
  /\ key \in b2
  /\ p' = Lowered(Delta(Cardinality(b2), Cardinality(b1)))
  /\ \E r \in Replace(key, p', b1, b2) :
       /\ t1' = r.t1
       /\ t2' = r.t2 \cup {key}
       /\ b1' = r.b1
       /\ b2' = r.b2 \ {key}
       /\ evicted' = r.out

\* Case IV, a key in no list, enters t1 over what an outcome r left of the lists.
Admit(key, r) ==
  /\ t1' = r.t1 \cup {key}
  /\ t2' = r.t2
  /\ b1' = r.b1
  /\ b2' = r.b2
  /\ evicted' = r.out

\* t1 and b1 together are full: the oldest ghost goes and a page is replaced,
\* or, without a ghost, the oldest page of t1 goes without leaving one.
MissFullL1(key) ==
  /\ key \notin Listed
  /\ Cardinality(t1) + Cardinality(b1) = Capacity
  /\ IF Cardinality(t1) < Capacity
       THEN \E g \in Oldest(b1) :
              \E r \in Replace(key, p, b1 \ {g}, b2) : Admit(key, r)
       ELSE \E v \in Oldest(t1) :
              Admit(key, [out |-> v, t1 |-> t1 \ {v}, t2 |-> t2,
                          b1 |-> b1, b2 |-> b2])
  /\ UNCHANGED p

\* Mutant of MustReplace: an off-by-one leaves room for one page too many.
MustReplaceLate(total) == total > Capacity

\* So many keys are listed that a new one needs a page replaced.
MustReplace(total) == total >= Capacity

\* They are not: a page is replaced once Capacity keys are listed, after the
\* oldest ghost of t2 is dropped from a full directory.
Miss(key) ==
  LET total == Cardinality(t1) + Cardinality(t2)
                 + Cardinality(b1) + Cardinality(b2)
      left2 == IF total = 2 * Capacity /\ b2 # {}
                 THEN {b2 \ {g} : g \in Oldest(b2)} ELSE {b2}
  IN /\ key \notin Listed
     /\ Cardinality(t1) + Cardinality(b1) # Capacity
     /\ IF MustReplace(total)
          THEN \E ghosts2 \in left2 :
                 \E r \in Replace(key, p, b1, ghosts2) : Admit(key, r)
          ELSE Admit(key, [out |-> NoKey, t1 |-> t1, t2 |-> t2,
                           b1 |-> b1, b2 |-> b2])
     /\ UNCHANGED p

\* record_access.
RecordAccess(key) ==
  /\ \/ Hit(key) \/ GhostHit1(key) \/ GhostHit2(key)
     \/ MissFullL1(key) \/ Miss(key)
  /\ Reorder(key)

\* remove, of each of some keys.
Forget(keys) ==
  /\ t1' = t1 \ keys
  /\ t2' = t2 \ keys
  /\ b1' = b1 \ keys
  /\ b2' = b2 \ keys
  /\ order' = SelectSeq(order, LAMBDA k : k \notin keys)
  /\ evicted' = NoKey
  /\ UNCHANGED p

ArcNext == \E key \in Keys : RecordAccess(key) \/ Forget({key})

ArcSpec == ArcInit /\ [][ArcNext]_arcVars

-----------------------------------------------------------------------------
\* No key is in two lists.
Disjoint ==
  /\ t1 \cap t2 = {} /\ t1 \cap b1 = {} /\ t1 \cap b2 = {}
  /\ t2 \cap b1 = {} /\ t2 \cap b2 = {} /\ b1 \cap b2 = {}

\* The bounds that make the working set "bound the session caches": at most
\* Capacity resident sessions, at most as many in t1 with its ghosts, and at
\* most twice as many listed, through every adaptation and removal.
Bounds ==
  /\ Disjoint
  /\ Cardinality(t1) + Cardinality(t2) <= Capacity
  /\ Cardinality(t1) + Cardinality(b1) <= Capacity
  /\ Cardinality(t1) + Cardinality(t2) + Cardinality(b1) + Cardinality(b2)
       <= 2 * Capacity
=============================================================================
