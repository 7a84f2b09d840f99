---------------------------- MODULE AnswersProofs ----------------------------
(***************************************************************************)
(* Proofs about what a request is answered from: the ARC working set, the   *)
(* curator's caches that it bounds and their sidecar (CuratorState), the    *)
(* exchanges that answer the proxy's own tools (Rounds), the tools that     *)
(* read and list files (Tools), the ledger of forced recalls (Recall), and  *)
(* the lines of a streamed answer (Streams), each for any values of its     *)
(* constants.                                                               *)
(***************************************************************************)
EXTENDS CuratorState, Recall, Streams, Rounds, Tools, ListsProofs, FiniteSetTheorems, FunctionTheorems

-----------------------------------------------------------------------------
(* The bounds of the working set.                                          *)

\* The lists hold keys and the target stays within the capacity.
ListsOfKeys ==
  /\ p \in 0..Capacity
  /\ t1 \in SUBSET Keys /\ t2 \in SUBSET Keys
  /\ b1 \in SUBSET Keys /\ b2 \in SUBSET Keys

ArcInv == ListsOfKeys /\ Bounds

-----------------------------------------------------------------------------
\* How many keys a list holds after an insertion or a removal.
LEMMA ListSize ==
  ASSUME NEW A \in SUBSET Keys
  PROVE  /\ Cardinality(A) \in Nat
         /\ A = {} <=> Cardinality(A) = 0
         /\ \A v \in A : Cardinality(A \ {v}) = Cardinality(A) - 1
         /\ \A v \in Keys \ A : Cardinality(A \cup {v}) = Cardinality(A) + 1
         /\ \A B \in SUBSET A : Cardinality(B) <= Cardinality(A)
<1>1. IsFiniteSet(A)
  BY ArcAssumption, FS_Subset
<1>2. Cardinality(A) \in Nat
  BY <1>1, FS_CardinalityType
<1>3. A = {} <=> Cardinality(A) = 0
  BY <1>1, FS_EmptySet
<1>4. ASSUME NEW v \in A
      PROVE  Cardinality(A \ {v}) = Cardinality(A) - 1
  BY <1>1, FS_RemoveElement
<1>5. ASSUME NEW v \in Keys \ A
      PROVE  Cardinality(A \cup {v}) = Cardinality(A) + 1
  BY <1>1, FS_AddElement
<1>6. ASSUME NEW B \in SUBSET A
      PROVE  Cardinality(B) <= Cardinality(A)
  BY <1>1, FS_Subset
<1>7. QED
  BY <1>2, <1>3, <1>4, <1>5, <1>6

\* The victim popitem takes is in the list.
LEMMA OldestInList ==
  ASSUME NEW list, NEW v \in Oldest(list)
  PROVE  v \in list
BY DEF Oldest

\* Four lists of keys, no key in two.
FourLists(x1, x2, g1, g2) ==
  /\ x1 \in SUBSET Keys /\ x2 \in SUBSET Keys
  /\ g1 \in SUBSET Keys /\ g2 \in SUBSET Keys
  /\ x1 \cap x2 = {} /\ x1 \cap g1 = {} /\ x1 \cap g2 = {}
  /\ x2 \cap g1 = {} /\ x2 \cap g2 = {} /\ g1 \cap g2 = {}

\* _replace moves one page to the ghosts of its list, if there is a page.
LEMMA ReplaceProperties ==
  ASSUME NEW key \in Keys \ Resident, NEW target,
         NEW g1, NEW g2, FourLists(t1, t2, g1, g2),
         NEW r \in Replace(key, target, g1, g2)
  PROVE  /\ FourLists(r.t1, r.t2, r.b1, r.b2)
         /\ key \notin r.t1 \cup r.t2
         /\ key \in r.b1 <=> key \in g1
         /\ key \in r.b2 <=> key \in g2
         /\ Cardinality(r.t1) + Cardinality(r.b1) = Cardinality(t1) + Cardinality(g1)
         /\ Cardinality(r.t2) + Cardinality(r.b2) = Cardinality(t2) + Cardinality(g2)
         /\ Cardinality(r.t1) + Cardinality(r.t2) =
              IF Resident = {} THEN 0 ELSE Cardinality(t1) + Cardinality(t2) - 1
<1>1. CASE \E v \in Oldest(t1) :
             r = [out |-> v, t1 |-> t1 \ {v}, t2 |-> t2,
                  b1 |-> g1 \cup {v}, b2 |-> g2]
  <2>1. PICK v \in t1 :
          r = [out |-> v, t1 |-> t1 \ {v}, t2 |-> t2,
               b1 |-> g1 \cup {v}, b2 |-> g2]
    BY <1>1, OldestInList
  <2>2. r.t1 = t1 \ {v} /\ r.t2 = t2 /\ r.b1 = g1 \cup {v} /\ r.b2 = g2
    BY <2>1
  <2>3. v \in Keys \ g1 /\ v # key
    BY <2>1 DEF FourLists, Resident
  <2>4. /\ Cardinality(r.t1) = Cardinality(t1) - 1
        /\ Cardinality(r.b1) = Cardinality(g1) + 1
        /\ Cardinality(t1) \in Nat /\ Cardinality(t2) \in Nat
        /\ Cardinality(g1) \in Nat /\ Cardinality(g2) \in Nat
    BY <2>1, <2>2, <2>3, ListSize DEF FourLists
  <2>5. FourLists(r.t1, r.t2, r.b1, r.b2) /\ key \notin r.t1 \cup r.t2
    BY <2>1, <2>2, <2>3 DEF FourLists, Resident
  <2>6. Resident # {}
    BY <2>1 DEF Resident
  <2>7. QED
    BY <2>2, <2>3, <2>4, <2>5, <2>6
<1>2. CASE \E v \in Oldest(t2) :
             r = [out |-> v, t1 |-> t1, t2 |-> t2 \ {v},
                  b1 |-> g1, b2 |-> g2 \cup {v}]
  <2>1. PICK v \in t2 :
          r = [out |-> v, t1 |-> t1, t2 |-> t2 \ {v},
               b1 |-> g1, b2 |-> g2 \cup {v}]
    BY <1>2, OldestInList
  <2>2. r.t1 = t1 /\ r.t2 = t2 \ {v} /\ r.b1 = g1 /\ r.b2 = g2 \cup {v}
    BY <2>1
  <2>3. v \in Keys \ g2 /\ v # key
    BY <2>1 DEF FourLists, Resident
  <2>4. /\ Cardinality(r.t2) = Cardinality(t2) - 1
        /\ Cardinality(r.b2) = Cardinality(g2) + 1
        /\ Cardinality(t1) \in Nat /\ Cardinality(t2) \in Nat
        /\ Cardinality(g1) \in Nat /\ Cardinality(g2) \in Nat
    BY <2>1, <2>2, <2>3, ListSize DEF FourLists
  <2>5. FourLists(r.t1, r.t2, r.b1, r.b2) /\ key \notin r.t1 \cup r.t2
    BY <2>1, <2>2, <2>3 DEF FourLists, Resident
  <2>6. Resident # {}
    BY <2>1 DEF Resident
  <2>7. QED
    BY <2>2, <2>3, <2>4, <2>5, <2>6
<1>3. CASE /\ Resident = {}
           /\ r = [out |-> NoKey, t1 |-> t1, t2 |-> t2, b1 |-> g1, b2 |-> g2]
  <2>1. t1 = {} /\ t2 = {}
    BY <1>3 DEF Resident
  <2>2. Cardinality(t1) = 0 /\ Cardinality(t2) = 0
    BY <2>1, FS_EmptySet
  <2>3. Cardinality(g1) \in Nat /\ Cardinality(g2) \in Nat
    BY ListSize DEF FourLists
  <2>4. r.t1 = t1 /\ r.t2 = t2 /\ r.b1 = g1 /\ r.b2 = g2
    BY <1>3
  <2>5. FourLists(r.t1, r.t2, r.b1, r.b2) /\ key \notin r.t1 \cup r.t2
    BY <2>4 DEF Resident
  <2>6. QED
    BY <1>3, <2>2, <2>3, <2>4, <2>5
<1>4. QED
  BY <1>1, <1>2, <1>3 DEF Replace, Resident

-----------------------------------------------------------------------------
LEMMA InitArcInv == ArcInit => ArcInv
<1>. SUFFICES ASSUME ArcInit PROVE ArcInv
  OBVIOUS
<1>1. ListsOfKeys /\ Disjoint
  BY ArcAssumption DEF ArcInit, ListsOfKeys, Disjoint
<1>2. Cardinality(t1) = 0 /\ Cardinality(t2) = 0
      /\ Cardinality(b1) = 0 /\ Cardinality(b2) = 0
  BY FS_EmptySet DEF ArcInit
<1>3. QED
  BY <1>1, <1>2, ArcAssumption DEF ArcInv, Bounds

\* The sizes of the lists, and what ArcInv says of them.
LEMMA SizesOfLists ==
  ASSUME ArcInv
  PROVE  /\ FourLists(t1, t2, b1, b2)
         /\ Cardinality(t1) \in Nat /\ Cardinality(t2) \in Nat
         /\ Cardinality(b1) \in Nat /\ Cardinality(b2) \in Nat
BY ListSize DEF ArcInv, ListsOfKeys, Bounds, Disjoint, FourLists

LEMMA HitInv ==
  ASSUME ArcInv, NEW key \in Keys, Hit(key)
  PROVE  ArcInv'
<1>1. /\ key \in t1 \/ key \in t2
      /\ t1' = t1 \ {key} /\ t2' = t2 \cup {key}
      /\ p' = p /\ b1' = b1 /\ b2' = b2
  BY DEF Hit, Resident
<1>2. ListsOfKeys' /\ Disjoint'
  BY <1>1 DEF ArcInv, ListsOfKeys, Bounds, Disjoint
<1>3. CASE key \in t1
  <2>1. key \in Keys \ t2
    BY <1>3 DEF ArcInv, Bounds, Disjoint
  <2>2. /\ Cardinality(t1') = Cardinality(t1) - 1
        /\ Cardinality(t2') = Cardinality(t2) + 1
    BY <1>1, <1>3, <2>1, ListSize DEF ArcInv, ListsOfKeys
  <2>3. QED
    BY <1>1, <1>2, <2>2, SizesOfLists, ArcAssumption DEF ArcInv, Bounds
<1>4. CASE key \in t2
  <2>1. t1' = t1 /\ t2' = t2
    BY <1>1, <1>4 DEF ArcInv, Bounds, Disjoint
  <2>2. QED
    BY <1>1, <1>2, <2>1 DEF ArcInv, Bounds
<1>5. QED
  BY <1>1, <1>3, <1>4

\* A ghost that returns leaves its list for t2, in the place _replace made.
LEMMA GhostInv ==
  ASSUME ArcInv, NEW key \in b1 \cup b2, p' \in 0..Capacity,
         NEW r \in Replace(key, p', b1, b2),
         t1' = r.t1, t2' = r.t2 \cup {key},
         b1' = r.b1 \ {key}, b2' = r.b2 \ {key}
  PROVE  ArcInv'
<1>1. FourLists(t1, t2, b1, b2) /\ key \in Keys \ Resident
  BY SizesOfLists DEF ArcInv, ListsOfKeys, Bounds, Disjoint, Resident
<1>2. /\ FourLists(r.t1, r.t2, r.b1, r.b2)
      /\ key \notin r.t1 \cup r.t2
      /\ key \in r.b1 <=> key \in b1
      /\ key \in r.b2 <=> key \in b2
      /\ Cardinality(r.t1) + Cardinality(r.b1) = Cardinality(t1) + Cardinality(b1)
      /\ Cardinality(r.t2) + Cardinality(r.b2) = Cardinality(t2) + Cardinality(b2)
      /\ Cardinality(r.t1) + Cardinality(r.t2) =
           IF Resident = {} THEN 0 ELSE Cardinality(t1) + Cardinality(t2) - 1
  BY <1>1, ReplaceProperties
<1>3. ListsOfKeys' /\ Disjoint'
  BY <1>1, <1>2 DEF FourLists, ListsOfKeys, Disjoint
<1>4. /\ Cardinality(r.t1) \in Nat /\ Cardinality(r.t2) \in Nat
      /\ Cardinality(r.b1) \in Nat /\ Cardinality(r.b2) \in Nat
      /\ Cardinality(t2') = Cardinality(r.t2) + 1
  BY <1>1, <1>2, ListSize DEF FourLists
<1>5. \/ /\ Cardinality(b1') = Cardinality(r.b1) - 1
         /\ Cardinality(b2') = Cardinality(r.b2)
      \/ /\ Cardinality(b1') = Cardinality(r.b1)
         /\ Cardinality(b2') = Cardinality(r.b2) - 1
  <2>1. CASE key \in b1
    <3>1. key \in r.b1 /\ r.b2 \ {key} = r.b2
      BY <1>2, <2>1 DEF FourLists
    <3>2. QED
      BY <1>2, <3>1, ListSize DEF FourLists
  <2>2. CASE key \in b2
    <3>1. key \in r.b2 /\ r.b1 \ {key} = r.b1
      BY <1>2, <2>2 DEF FourLists
    <3>2. QED
      BY <1>2, <3>1, ListSize DEF FourLists
  <2>3. QED
    BY <2>1, <2>2
<1>6. Cardinality(t1') + Cardinality(t2') <= Capacity
  BY <1>2, <1>4, SizesOfLists, ArcAssumption DEF ArcInv, Bounds
<1>7. Cardinality(t1') + Cardinality(b1') <= Capacity
  BY <1>2, <1>4, <1>5, SizesOfLists, ArcAssumption DEF ArcInv, Bounds
<1>8. Cardinality(t1') + Cardinality(t2') + Cardinality(b1') + Cardinality(b2')
        <= 2 * Capacity
  BY <1>2, <1>4, <1>5, SizesOfLists, ArcAssumption DEF ArcInv, Bounds
<1>9. QED
  BY <1>3, <1>6, <1>7, <1>8 DEF ArcInv, Bounds

LEMMA GhostHit1Inv ==
  ASSUME ArcInv, NEW key \in Keys, GhostHit1(key)
  PROVE  ArcInv'
<1>. DEFINE grown == p + Delta(Cardinality(b1), Cardinality(b2))
<1>1. PICK r \in Replace(key, p', b1, b2) :
        /\ t1' = r.t1 /\ t2' = r.t2 \cup {key}
        /\ b1' = r.b1 \ {key} /\ b2' = r.b2
  BY DEF GhostHit1
<1>2. key \in b1 /\ p' = IF grown > Capacity THEN Capacity ELSE grown
  BY DEF GhostHit1, Grown
<1>3. p' \in 0..Capacity
  <2>1. /\ Cardinality(b1) \in Nat /\ Cardinality(b2) \in Nat
        /\ Cardinality(b1) > 0
    BY <1>2, ListSize, SizesOfLists DEF ArcInv, ListsOfKeys
  <2>2. Delta(Cardinality(b1), Cardinality(b2)) \in Nat
    BY <2>1 DEF Delta
  <2>. HIDE DEF grown
  <2>3. grown \in Nat
    BY <2>2 DEF grown, ArcInv, ListsOfKeys
  <2>4. QED
    BY <1>2, <2>3, ArcAssumption
<1>4. b2' = r.b2 \ {key}
  <2>1. FourLists(t1, t2, b1, b2) /\ key \in Keys \ Resident /\ key \notin b2
    BY <1>2, SizesOfLists DEF FourLists, Resident
  <2>2. key \notin r.b2
    BY <2>1, ReplaceProperties
  <2>3. QED
    BY <1>1, <2>2
<1>5. QED
  BY <1>1, <1>2, <1>3, <1>4, GhostInv

LEMMA GhostHit2Inv ==
  ASSUME ArcInv, NEW key \in Keys, GhostHit2(key)
  PROVE  ArcInv'
<1>. DEFINE shrunk == p - Delta(Cardinality(b2), Cardinality(b1))
<1>1. PICK r \in Replace(key, p', b1, b2) :
        /\ t1' = r.t1 /\ t2' = r.t2 \cup {key}
        /\ b1' = r.b1 /\ b2' = r.b2 \ {key}
  BY DEF GhostHit2
<1>2. key \in b2 /\ p' = IF shrunk < 0 THEN 0 ELSE shrunk
  BY DEF GhostHit2, Lowered
<1>3. p' \in 0..Capacity
  <2>1. /\ Cardinality(b1) \in Nat /\ Cardinality(b2) \in Nat
        /\ Cardinality(b2) > 0
    BY <1>2, ListSize, SizesOfLists DEF ArcInv, ListsOfKeys
  <2>2. Delta(Cardinality(b2), Cardinality(b1)) \in Nat
    BY <2>1 DEF Delta
  <2>. HIDE DEF shrunk
  <2>3. shrunk \in Int /\ shrunk <= p
    BY <2>2 DEF shrunk, ArcInv, ListsOfKeys
  <2>4. QED
    BY <1>2, <2>3, ArcAssumption DEF ArcInv, ListsOfKeys
<1>4. b1' = r.b1 \ {key}
  <2>1. FourLists(t1, t2, b1, b2) /\ key \in Keys \ Resident /\ key \notin b1
    BY <1>2, SizesOfLists DEF FourLists, Resident
  <2>2. key \notin r.b1
    BY <2>1, ReplaceProperties
  <2>3. QED
    BY <1>1, <2>2
<1>5. QED
  BY <1>1, <1>2, <1>3, <1>4, GhostInv

\* A new key enters t1 over four lists with room for it.
LEMMA AdmitInv ==
  ASSUME ArcInv, NEW key \in Keys, p' = p, NEW r, Admit(key, r),
         FourLists(r.t1, r.t2, r.b1, r.b2),
         key \notin r.t1 \cup r.t2 \cup r.b1 \cup r.b2,
         Cardinality(r.t1) + Cardinality(r.t2) < Capacity,
         Cardinality(r.t1) + Cardinality(r.b1) < Capacity,
         Cardinality(r.t1) + Cardinality(r.t2)
           + Cardinality(r.b1) + Cardinality(r.b2) < 2 * Capacity
  PROVE  ArcInv'
<1>1. t1' = r.t1 \cup {key} /\ t2' = r.t2 /\ b1' = r.b1 /\ b2' = r.b2
  BY DEF Admit
<1>2. ListsOfKeys' /\ Disjoint'
  BY <1>1 DEF FourLists, ArcInv, ListsOfKeys, Disjoint
<1>3. /\ Cardinality(r.t1) \in Nat /\ Cardinality(r.t2) \in Nat
      /\ Cardinality(r.b1) \in Nat /\ Cardinality(r.b2) \in Nat
      /\ Cardinality(t1') = Cardinality(r.t1) + 1
  BY <1>1, ListSize DEF FourLists
<1>4. QED
  BY <1>1, <1>2, <1>3, ArcAssumption DEF ArcInv, Bounds

LEMMA MissFullL1Inv ==
  ASSUME ArcInv, NEW key \in Keys, MissFullL1(key)
  PROVE  ArcInv'
<1>1. /\ key \notin Listed /\ p' = p
      /\ Cardinality(t1) + Cardinality(b1) = Capacity
  BY DEF MissFullL1
<1>2. CASE Cardinality(t1) < Capacity
  <2>1. PICK g \in b1 :
          \E r \in Replace(key, p, b1 \ {g}, b2) : Admit(key, r)
    BY <1>2, OldestInList DEF MissFullL1
  <2>2. PICK r \in Replace(key, p, b1 \ {g}, b2) : Admit(key, r)
    BY <2>1
  <2>3. FourLists(t1, t2, b1 \ {g}, b2) /\ key \in Keys \ Resident
    BY <1>1, SizesOfLists DEF FourLists, Resident, Listed
  <2>4. /\ Cardinality(b1 \ {g}) = Cardinality(b1) - 1
        /\ Cardinality(t1) \in Nat /\ Cardinality(t2) \in Nat
        /\ Cardinality(b1) \in Nat /\ Cardinality(b2) \in Nat
    BY SizesOfLists, ListSize DEF FourLists
  <2>5. /\ FourLists(r.t1, r.t2, r.b1, r.b2)
        /\ key \notin r.t1 \cup r.t2
        /\ key \in r.b1 <=> key \in b1 \ {g}
        /\ key \in r.b2 <=> key \in b2
        /\ Cardinality(r.t1) + Cardinality(r.b1)
             = Cardinality(t1) + Cardinality(b1 \ {g})
        /\ Cardinality(r.t2) + Cardinality(r.b2)
             = Cardinality(t2) + Cardinality(b2)
        /\ Cardinality(r.t1) + Cardinality(r.t2) =
             IF Resident = {} THEN 0 ELSE Cardinality(t1) + Cardinality(t2) - 1
    BY <2>2, <2>3, ReplaceProperties
  <2>6. key \notin r.t1 \cup r.t2 \cup r.b1 \cup r.b2
    BY <1>1, <2>5 DEF Listed
  <2>7. /\ Cardinality(r.t1) \in Nat /\ Cardinality(r.t2) \in Nat
        /\ Cardinality(r.b1) \in Nat /\ Cardinality(r.b2) \in Nat
    BY <2>5, ListSize DEF FourLists
  <2>8. /\ Cardinality(r.t1) + Cardinality(r.t2) < Capacity
        /\ Cardinality(r.t1) + Cardinality(r.b1) < Capacity
        /\ Cardinality(r.t1) + Cardinality(r.t2)
             + Cardinality(r.b1) + Cardinality(r.b2) < 2 * Capacity
    BY <1>1, <2>4, <2>5, <2>7, ArcAssumption DEF ArcInv, Bounds
  <2>9. QED
    BY <1>1, <2>2, <2>5, <2>6, <2>8, AdmitInv
<1>3. CASE ~(Cardinality(t1) < Capacity)
  <2>1. PICK v \in t1 :
          Admit(key, [out |-> v, t1 |-> t1 \ {v}, t2 |-> t2,
                      b1 |-> b1, b2 |-> b2])
    BY <1>3, OldestInList DEF MissFullL1
  <2>. DEFINE r == [out |-> v, t1 |-> t1 \ {v}, t2 |-> t2, b1 |-> b1, b2 |-> b2]
  <2>2. r.t1 = t1 \ {v} /\ r.t2 = t2 /\ r.b1 = b1 /\ r.b2 = b2
    OBVIOUS
  <2>3. /\ FourLists(r.t1, r.t2, r.b1, r.b2)
        /\ key \notin r.t1 \cup r.t2 \cup r.b1 \cup r.b2
    BY <1>1, <2>2, SizesOfLists DEF FourLists, Listed
  <2>4. Cardinality(r.t1) = Cardinality(t1) - 1
    BY <2>1, <2>2, ListSize DEF ArcInv, ListsOfKeys
  <2>. HIDE DEF r
  <2>5. /\ Cardinality(r.t1) + Cardinality(r.t2) < Capacity
        /\ Cardinality(r.t1) + Cardinality(r.b1) < Capacity
        /\ Cardinality(r.t1) + Cardinality(r.t2)
             + Cardinality(r.b1) + Cardinality(r.b2) < 2 * Capacity
    BY <1>1, <1>3, <2>2, <2>4, SizesOfLists, ArcAssumption DEF ArcInv, Bounds
  <2>6. Admit(key, r)
    BY <2>1 DEF r
  <2>7. QED
    BY <1>1, <2>3, <2>5, <2>6, AdmitInv
<1>4. QED
  BY <1>2, <1>3

LEMMA MissInv ==
  ASSUME ArcInv, NEW key \in Keys, Miss(key)
  PROVE  ArcInv'
<1>. DEFINE total == Cardinality(t1) + Cardinality(t2)
                       + Cardinality(b1) + Cardinality(b2)
            left2 == IF total = 2 * Capacity /\ b2 # {}
                       THEN {b2 \ {g} : g \in Oldest(b2)} ELSE {b2}
            Room(r) ==
              /\ Cardinality(r.t1) + Cardinality(r.t2) < Capacity
              /\ Cardinality(r.t1) + Cardinality(r.b1) < Capacity
              /\ Cardinality(r.t1) + Cardinality(r.t2)
                   + Cardinality(r.b1) + Cardinality(r.b2) < 2 * Capacity
<1>1. /\ key \notin Listed /\ p' = p
      /\ Cardinality(t1) + Cardinality(b1) < Capacity
  BY SizesOfLists, ArcAssumption DEF Miss, ArcInv, Bounds
<1>2. FourLists(t1, t2, b1, b2) /\ key \in Keys \ Resident
  BY <1>1, SizesOfLists DEF Listed, Resident
<1>3. CASE total >= Capacity
  <2>1. PICK ghosts2 \in left2 :
          \E r \in Replace(key, p, b1, ghosts2) : Admit(key, r)
    BY <1>3 DEF Miss, MustReplace
  <2>2. PICK r \in Replace(key, p, b1, ghosts2) : Admit(key, r)
    BY <2>1
  <2>3. /\ ghosts2 \subseteq b2
        /\ Cardinality(ghosts2) \in Nat
        /\ Cardinality(ghosts2) <= Cardinality(b2)
        /\ total = 2 * Capacity => Cardinality(ghosts2) < Cardinality(b2)
    <3>1. CASE total = 2 * Capacity /\ b2 # {}
      <4>1. PICK g \in b2 : ghosts2 = b2 \ {g}
        BY <2>1, <3>1, OldestInList
      <4>2. QED
        BY <4>1, ListSize, SizesOfLists DEF FourLists
    <3>2. CASE ~(total = 2 * Capacity /\ b2 # {})
      <4>1. ghosts2 = b2
        BY <2>1, <3>2
      <4>2. b2 = {} => total < 2 * Capacity
        <5>1. b2 = {} => Cardinality(b2) = 0
          BY FS_EmptySet
        <5>2. QED
          BY <1>1, <5>1, SizesOfLists, ArcAssumption DEF ArcInv, Bounds
      <4>3. total \in Nat
        BY SizesOfLists
      <4>. HIDE DEF total
      <4>4. QED
        BY <3>2, <4>1, <4>2, <4>3, SizesOfLists, ArcAssumption
    <3>3. QED
      BY <3>1, <3>2
  <2>4. FourLists(t1, t2, b1, ghosts2)
    BY <1>2, <2>3 DEF FourLists
  <2>5. /\ FourLists(r.t1, r.t2, r.b1, r.b2)
        /\ key \notin r.t1 \cup r.t2
        /\ key \in r.b1 <=> key \in b1
        /\ key \in r.b2 <=> key \in ghosts2
        /\ Cardinality(r.t1) + Cardinality(r.b1)
             = Cardinality(t1) + Cardinality(b1)
        /\ Cardinality(r.t2) + Cardinality(r.b2)
             = Cardinality(t2) + Cardinality(ghosts2)
        /\ Cardinality(r.t1) + Cardinality(r.t2) =
             IF Resident = {} THEN 0 ELSE Cardinality(t1) + Cardinality(t2) - 1
    BY <1>2, <2>2, <2>4, ReplaceProperties
  <2>6. key \notin r.t1 \cup r.t2 \cup r.b1 \cup r.b2
    BY <1>1, <2>3, <2>5 DEF Listed
  <2>7. /\ Cardinality(r.t1) \in Nat /\ Cardinality(r.t2) \in Nat
        /\ Cardinality(r.b1) \in Nat /\ Cardinality(r.b2) \in Nat
    BY <2>5, ListSize DEF FourLists
  <2>8. Cardinality(t1) + Cardinality(t2) + Cardinality(b1) + Cardinality(ghosts2)
          < 2 * Capacity
    <3>1. total \in Nat /\ total <= 2 * Capacity
      BY SizesOfLists DEF ArcInv, Bounds
    <3>2. QED
      BY <2>3, <3>1, SizesOfLists, ArcAssumption
  <2>9. Room(r)
    BY <1>1, <2>3, <2>5, <2>7, <2>8, SizesOfLists, ArcAssumption DEF ArcInv, Bounds
  <2>10. QED
    BY <1>1, <2>2, <2>5, <2>6, <2>9, AdmitInv
<1>4. CASE ~(total >= Capacity)
  <2>. DEFINE r == [out |-> NoKey, t1 |-> t1, t2 |-> t2, b1 |-> b1, b2 |-> b2]
  <2>1. Admit(key, r)
    BY <1>4 DEF Miss, MustReplace
  <2>2. r.t1 = t1 /\ r.t2 = t2 /\ r.b1 = b1 /\ r.b2 = b2
    OBVIOUS
  <2>. HIDE DEF r
  <2>3. Room(r)
    BY <1>1, <1>4, <2>2, SizesOfLists, ArcAssumption
  <2>4. /\ FourLists(r.t1, r.t2, r.b1, r.b2)
        /\ key \notin r.t1 \cup r.t2 \cup r.b1 \cup r.b2
    BY <1>1, <1>2, <2>2 DEF Listed
  <2>5. QED
    BY <1>1, <2>1, <2>3, <2>4, AdmitInv
<1>5. QED
  BY <1>3, <1>4

LEMMA ForgetInv ==
  ASSUME ArcInv, NEW keys, Forget(keys)
  PROVE  ArcInv'
<1>1. /\ t1' \subseteq t1 /\ t2' \subseteq t2 /\ b1' \subseteq b1
      /\ b2' \subseteq b2 /\ p' = p
  BY DEF Forget
<1>2. ListsOfKeys' /\ Disjoint'
  BY <1>1 DEF ArcInv, ListsOfKeys, Bounds, Disjoint
<1>3. /\ Cardinality(t1') <= Cardinality(t1)
      /\ Cardinality(t2') <= Cardinality(t2)
      /\ Cardinality(b1') <= Cardinality(b1)
      /\ Cardinality(b2') <= Cardinality(b2)
      /\ Cardinality(t1') \in Nat /\ Cardinality(t2') \in Nat
      /\ Cardinality(b1') \in Nat /\ Cardinality(b2') \in Nat
  BY <1>1, <1>2, ListSize DEF ArcInv, ListsOfKeys
<1>4. QED
  BY <1>2, <1>3, SizesOfLists, ArcAssumption DEF ArcInv, Bounds

\* ArcInv holds in every reachable state.
THEOREM ArcInvariant == ArcSpec => []ArcInv
<1>1. ASSUME ArcInv, [ArcNext]_arcVars PROVE ArcInv'
  <2>1. CASE \E key \in Keys : RecordAccess(key)
    BY <1>1, <2>1, HitInv, GhostHit1Inv, GhostHit2Inv, MissFullL1Inv, MissInv
       DEF RecordAccess
  <2>2. CASE \E key \in Keys : Forget({key})
    BY <1>1, <2>2, ForgetInv
  <2>3. CASE UNCHANGED arcVars
    BY <1>1, <2>3 DEF arcVars, ArcInv, ListsOfKeys, Bounds, Disjoint
  <2>4. QED
    BY <1>1, <2>1, <2>2, <2>3 DEF ArcNext
<1>2. QED
  BY <1>1, InitArcInv, PTL DEF ArcSpec

\* For every capacity: never more than Capacity resident sessions, never more
\* than twice as many listed, and never a session in two lists.
THEOREM WorkingSetBounded == ArcSpec => []Bounds
<1>1. ArcInv => Bounds
  BY DEF ArcInv
<1>2. QED
  BY <1>1, ArcInvariant, PTL

-----------------------------------------------------------------------------
(* The curator's caches, their sidecar, and the writes on their way to it.  *)

Tables == [Kinds -> [Keys -> Nat]]
Events == [kind : Kinds \cup {"delete"}, sess : Keys, val : Nat]

LEMMA EmptyIsTables == Empty \in Tables /\ \A k \in Kinds, s \in Keys : Empty[k][s] = Nothing
BY DEF Empty, Tables, Nothing

\* What is cleared, and what is written, cell by cell.
LEMMA Clears ==
  ASSUME NEW store \in Tables, NEW gone
  PROVE  /\ Without(store, gone) \in Tables
         /\ \A k \in Kinds, s \in Keys :
              Without(store, gone)[k][s] = IF s \in gone THEN Nothing ELSE store[k][s]
BY DEF Without, Tables, Nothing

LEMMA Writes ==
  ASSUME NEW store \in Tables, NEW kind \in Kinds, NEW sess \in Keys, NEW v \in Nat
  PROVE  /\ With(store, kind, sess, v) \in Tables
         /\ \A k \in Kinds, s \in Keys :
              With(store, kind, sess, v)[k][s] =
                IF k = kind /\ s = sess THEN v ELSE store[k][s]
<1>1. PICK row, new : row = store[kind] /\ new = With(store, kind, sess, v)
  OBVIOUS
<1>2. row \in [Keys -> Nat]
  BY <1>1 DEF Tables
<1>3. new = [store EXCEPT ![kind] = [row EXCEPT ![sess] = v]]
  BY <1>1 DEF With
<1>4. PICK changed : changed = [row EXCEPT ![sess] = v]
  OBVIOUS
<1>5. changed \in [Keys -> Nat] /\ \A s \in Keys : changed[s] = IF s = sess THEN v ELSE row[s]
  BY <1>2, <1>4
<1>6. new \in Tables /\ \A k \in Kinds : new[k] = IF k = kind THEN changed ELSE store[k]
  BY <1>3, <1>4, <1>5 DEF Tables
<1>7. QED
  BY <1>1, <1>5, <1>6

LEMMA SameTables ==
  ASSUME NEW a \in Tables, NEW b \in Tables, \A k \in Kinds, s \in Keys : a[k][s] = b[k][s]
  PROVE  a = b
<1>1. ASSUME NEW k \in Kinds PROVE a[k] = b[k]
  BY <1>1 DEF Tables
<1>2. QED
  BY <1>1 DEF Tables

LEMMA Applies ==
  ASSUME NEW store \in Tables, NEW e \in Events
  PROVE  ApplyEvent(store, e) \in Tables
BY Clears, Writes DEF ApplyEvent, Events

\* The recursion of ApplyAll has a solution.
Applied(store, es, f, n) == IF n = 0 THEN store ELSE ApplyEvent(f[n - 1], es[n])

LEMMA ApplyDefined ==
  ASSUME NEW store, NEW es \in Seq(Events)
  PROVE  \E f : /\ f = [n \in 0..Len(es) |-> Applied(store, es, f, n)]
                /\ ApplyAll(store, es) = f[Len(es)]
<1>. DEFINE Solves(f, m) == f = [n \in 0..m |-> Applied(store, es, f, n)]
            after[n \in 0..Len(es)] ==
              IF n = 0 THEN store ELSE ApplyEvent(after[n - 1], es[n])
            I == {m \in Nat : \E f : Solves(f, m)}
<1>1. 0 \in I
  <2>1. Solves([n \in 0..0 |-> store], 0)
    BY DEF Applied
  <2>2. QED
    BY <2>1
<1>2. ASSUME NEW m \in Nat, m \in I
      PROVE  m + 1 \in I
  <2>1. PICK f : Solves(f, m)
    BY <1>2
  <2>2. PICK g : g = [n \in 0..(m + 1) |-> IF n = m + 1 THEN Applied(store, es, f, n) ELSE f[n]]
    OBVIOUS
  <2>3. ASSUME NEW n \in 0..(m + 1)
        PROVE  g[n] = Applied(store, es, g, n)
    <3>1. ASSUME n = m + 1 PROVE g[n] = Applied(store, es, f, n)
      BY <2>2, <3>1
    <3>2. ASSUME n # m + 1 PROVE g[n] = Applied(store, es, f, n)
      <4>1. n \in 0..m
        BY <3>2
      <4>2. g[n] = f[n]
        BY <2>2, <3>2
      <4>3. f[n] = Applied(store, es, f, n)
        BY <2>1, <4>1
      <4>4. QED
        BY <4>2, <4>3
    <3>3. CASE n = 0
      BY <3>1, <3>2, <3>3 DEF Applied
    <3>4. CASE n # 0
      <4>1. n - 1 \in 0..m /\ n - 1 # m + 1 /\ n - 1 \in 0..(m + 1)
        BY <3>4
      <4>2. g[n - 1] = f[n - 1]
        BY <2>2, <4>1
      <4>3. QED
        BY <3>1, <3>2, <3>4, <4>2 DEF Applied
    <3>5. QED
      BY <3>3, <3>4
  <2>4. Solves(g, m + 1)
    BY <2>2, <2>3
  <2>5. QED
    BY <2>4
<1>3. Len(es) \in I
  <2>. HIDE DEF I
  <2>1. Nat \subseteq I
    BY <1>1, <1>2, SetInduction
  <2>2. QED
    BY <2>1
<1>4. PICK f : Solves(f, Len(es))
  BY <1>3
<1>5. \E g : g = [n \in 0..Len(es) |->
                    IF n = 0 THEN store ELSE ApplyEvent(g[n - 1], es[n])]
  BY <1>4 DEF Applied
<1>6. Solves(after, Len(es))
  BY <1>5 DEF Applied
<1>7. ApplyAll(store, es) = after[Len(es)]
  BY DEF ApplyAll
<1>8. QED
  BY <1>6, <1>7

\* No event, and one more event.
LEMMA ApplyNone == \A store : ApplyAll(store, <<>>) = store
<1>. SUFFICES ASSUME NEW store PROVE ApplyAll(store, <<>>) = store
  OBVIOUS
<1>p. PICK es : es = <<>>
  OBVIOUS
<1>1. es \in Seq(Events) /\ Len(es) = 0
  BY <1>p, EmptySeq
<1>2. PICK f : f = [n \in 0..Len(es) |-> Applied(store, es, f, n)] /\ ApplyAll(store, es) = f[Len(es)]
  BY <1>1, ApplyDefined
<1>3. f[0] = Applied(store, es, f, 0)
  BY <1>1, <1>2
<1>4. QED
  BY <1>1, <1>p, <1>2, <1>3 DEF Applied

LEMMA ApplyMore ==
  ASSUME NEW store, NEW es \in Seq(Events), NEW e \in Events
  PROVE  ApplyAll(store, Append(es, e)) = ApplyEvent(ApplyAll(store, es), e)
<1>1. PICK f : f = [n \in 0..Len(es) |-> Applied(store, es, f, n)] /\ ApplyAll(store, es) = f[Len(es)]
  BY ApplyDefined
<1>p. PICK t, m : t = Append(es, e) /\ m = Len(es)
  OBVIOUS
<1>2. /\ t \in Seq(Events) /\ Len(t) = m + 1 /\ m \in Nat /\ t[m + 1] = e
      /\ \A i \in 1..m : t[i] = es[i]
  BY <1>p, AppendProperties, LenProperties
<1>3. PICK g : g = [n \in 0..Len(t) |-> Applied(store, t, g, n)] /\ ApplyAll(store, t) = g[Len(t)]
  BY <1>2, ApplyDefined
<1>4. /\ \A n \in 0..m : f[n] = Applied(store, es, f, n)
      /\ \A n \in 0..(m + 1) : g[n] = Applied(store, t, g, n)
  BY <1>p, <1>1, <1>2, <1>3
<1>. DEFINE I == {n \in Nat : n <= m => g[n] = f[n]}
<1>5. 0 \in I
  <2>1. 0 \in 0..m /\ 0 \in 0..(m + 1)
    BY <1>2
  <2>2. g[0] = Applied(store, t, g, 0) /\ f[0] = Applied(store, es, f, 0)
    BY <1>4, <2>1
  <2>3. g[0] = f[0]
    BY <2>2 DEF Applied
  <2>4. QED
    BY <2>3
<1>6. ASSUME NEW n \in Nat, n \in I PROVE n + 1 \in I
  <2>1. SUFFICES ASSUME n + 1 <= m PROVE g[n + 1] = f[n + 1]
    OBVIOUS
  <2>2. /\ n + 1 \in 0..m /\ n + 1 \in 0..(m + 1) /\ n + 1 \in 1..m /\ n + 1 # 0
        /\ (n + 1) - 1 = n /\ g[n] = f[n]
    <3>1. /\ n + 1 \in 0..m /\ n + 1 \in 0..(m + 1) /\ n + 1 \in 1..m /\ n + 1 # 0
          /\ (n + 1) - 1 = n /\ n <= m
      BY <1>2, <2>1
    <3>2. QED
      BY <1>6, <3>1
  <2>3. t[n + 1] = es[n + 1]
    BY <1>2, <2>2
  <2>4. g[n + 1] = Applied(store, t, g, n + 1) /\ f[n + 1] = Applied(store, es, f, n + 1)
    BY <1>4, <2>2
  <2>5. QED
    BY <2>2, <2>3, <2>4 DEF Applied
<1>7. g[m] = f[m]
  <2>. HIDE DEF I
  <2>1. Nat \subseteq I
    BY <1>5, <1>6, SetInduction
  <2>2. QED
    BY <1>2, <2>1 DEF I
<1>8. g[m + 1] = ApplyEvent(g[m], e)
  <2>1. m + 1 \in 0..(m + 1) /\ m + 1 # 0 /\ (m + 1) - 1 = m
    BY <1>2
  <2>2. g[m + 1] = Applied(store, t, g, m + 1)
    BY <1>4, <2>1
  <2>3. QED
    BY <1>2, <2>1, <2>2 DEF Applied
<1>9. QED
  BY <1>p, <1>1, <1>2, <1>3, <1>7, <1>8

LEMMA AppliedTables ==
  ASSUME NEW store \in Tables, NEW es \in Seq(Events)
  PROVE  ApplyAll(store, es) \in Tables
<1>. DEFINE I == {s \in Seq(Events) : ApplyAll(store, s) \in Tables}
<1>1. <<>> \in I
  BY ApplyNone
<1>2. ASSUME NEW s \in Seq(Events), NEW e \in Events, s \in I PROVE Append(s, e) \in I
  BY <1>2, ApplyMore, Applies, AppendProperties
<1>3. Seq(Events) \subseteq I
  <2>. HIDE DEF I
  <2>1. QED
    BY <1>1, <1>2, SeqInduction
<1>4. QED
  BY <1>3

\* Events in two lots.
LEMMA ApplyConcat ==
  ASSUME NEW store, NEW a \in Seq(Events), NEW b \in Seq(Events)
  PROVE  ApplyAll(store, a \o b) = ApplyAll(ApplyAll(store, a), b)
<1>. DEFINE I == {s \in Seq(Events) : ApplyAll(store, a \o s) = ApplyAll(ApplyAll(store, a), s)}
<1>1. <<>> \in I
  <2>1. a \o <<>> = a
    BY ConcatEmptySeq
  <2>2. ApplyAll(ApplyAll(store, a), <<>>) = ApplyAll(store, a)
    BY ApplyNone
  <2>3. <<>> \in Seq(Events)
    BY EmptySeq
  <2>4. QED
    BY <2>1, <2>2, <2>3
<1>2. ASSUME NEW s \in Seq(Events), NEW e \in Events, s \in I PROVE Append(s, e) \in I
  <2>1. Append(s, e) \in Seq(Events) /\ a \o s \in Seq(Events)
    BY AppendProperties, ConcatProperties
  <2>2. a \o Append(s, e) = Append(a \o s, e)
    BY AppendConcat
  <2>3. ApplyAll(store, Append(a \o s, e)) = ApplyEvent(ApplyAll(store, a \o s), e)
    BY <2>1, ApplyMore
  <2>4. ApplyAll(ApplyAll(store, a), Append(s, e)) = ApplyEvent(ApplyAll(ApplyAll(store, a), s), e)
    BY ApplyMore
  <2>5. QED
    BY <1>2, <2>1, <2>2, <2>3, <2>4
<1>3. Seq(Events) \subseteq I
  <2>. HIDE DEF I
  <2>1. QED
    BY <1>1, <1>2, SeqInduction
<1>4. QED
  BY <1>3

\* Sequences of all the elements of a set.
LEMMA SeqsCover ==
  ASSUME NEW S, IsFiniteSet(S), NEW f \in SetToSeqs(S)
  PROVE  f \in Seq(S) /\ Len(f) \in Nat /\ \A x \in S : \E i \in 1..Len(f) : f[i] = x
<1>p. PICK n : n = Cardinality(S)
  OBVIOUS
<1>1. n \in Nat
  BY <1>p, FS_CardinalityType
<1>2. f \in [1..n -> S] /\ \A i, j \in 1..n : i # j => f[i] # f[j]
  BY <1>p DEF SetToSeqs
<1>3. f \in Injection(1..n, S)
  BY <1>2 DEF Injection, IsInjective
<1>4. Cardinality(1..n) = Cardinality(S)
  BY <1>1, <1>p, FS_Interval
<1>5. f \in Surjection(1..n, S)
  BY <1>3, <1>4, FS_Injection
<1>6. \A x \in S : \E i \in 1..n : f[i] = x
  BY <1>5 DEF Surjection
<1>7. f \in Seq(S) /\ Len(f) = n
  BY <1>1, <1>2
<1>8. QED
  BY <1>1, <1>6, <1>7

\* The values that events write.
Stored(es) == {es[i].val : i \in {j \in 1..Len(es) : es[j].kind # "delete"}}

LEMMA StoredMore ==
  ASSUME NEW es \in Seq(Events), NEW e \in Events
  PROVE  /\ Stored(Append(es, e)) = Stored(es) \cup (IF e.kind = "delete" THEN {} ELSE {e.val})
         /\ Stored(es) \subseteq Nat
<1>p. PICK t, m : t = Append(es, e) /\ m = Len(es)
  OBVIOUS
<1>1. /\ t \in Seq(Events) /\ Len(t) = m + 1 /\ m \in Nat /\ t[m + 1] = e
      /\ \A i \in 1..m : t[i] = es[i] /\ es[i] \in Events
  BY <1>p, AppendProperties, LenProperties, ElementOfSeq
<1>2. 1..(m + 1) = 1..m \cup {m + 1} /\ m + 1 \notin 1..m
  BY <1>1
<1>3. Stored(es) \subseteq Nat
  BY <1>1, <1>p DEF Stored, Events
<1>4. ASSUME NEW v \in Stored(t) PROVE v \in Stored(es) \cup (IF e.kind = "delete" THEN {} ELSE {e.val})
  <2>1. PICK i \in 1..(m + 1) : t[i].kind # "delete" /\ v = t[i].val
    BY <1>1 DEF Stored
  <2>2. CASE i = m + 1
    BY <1>1, <2>1, <2>2
  <2>3. CASE i \in 1..m
    BY <1>1, <1>p, <2>1, <2>3 DEF Stored
  <2>4. QED
    BY <1>2, <2>2, <2>3
<1>5. ASSUME NEW v \in Stored(es) PROVE v \in Stored(t)
  <2>1. PICK i \in 1..m : es[i].kind # "delete" /\ v = es[i].val
    BY <1>p DEF Stored
  <2>2. i \in 1..(m + 1) /\ t[i] = es[i]
    BY <1>1, <1>2
  <2>3. QED
    BY <1>1, <2>1, <2>2 DEF Stored
<1>6. e.kind # "delete" => e.val \in Stored(t)
  BY <1>1, <1>2 DEF Stored
<1>7. QED
  BY <1>p, <1>3, <1>4, <1>5, <1>6

LEMMA StoredNone == Stored(<<>>) = {}
BY DEF Stored

\* A row is emptied, left alone, or gets a value that one of the events writes.
LEMMA AppliedValues ==
  ASSUME NEW store \in Tables, NEW es \in Seq(Events)
  PROVE  \A k \in Kinds, s \in Keys :
           ApplyAll(store, es)[k][s] \in {Nothing, store[k][s]} \cup Stored(es)
<1>. DEFINE Within(t) == \A k \in Kinds, s \in Keys :
                           ApplyAll(store, t)[k][s] \in {Nothing, store[k][s]} \cup Stored(t)
            I == {t \in Seq(Events) : Within(t)}
<1>1. <<>> \in I
  BY ApplyNone, EmptySeq
<1>2. ASSUME NEW t \in Seq(Events), NEW e \in Events, t \in I PROVE Append(t, e) \in I
  <2>p. PICK was, now, new : was = ApplyAll(store, t) /\ now = ApplyAll(store, new) /\ new = Append(t, e)
    OBVIOUS
  <2>1. new \in Seq(Events) /\ now = ApplyEvent(was, e) /\ was \in Tables
    BY <2>p, ApplyMore, AppendProperties, AppliedTables
  <2>2. Stored(new) = Stored(t) \cup (IF e.kind = "delete" THEN {} ELSE {e.val})
    BY <2>p, StoredMore
  <2>3. ASSUME NEW k \in Kinds, NEW s \in Keys
        PROVE  now[k][s] \in {Nothing, was[k][s]} \cup (IF e.kind = "delete" THEN {} ELSE {e.val})
    <3>1. CASE e.kind = "delete"
      BY <2>1, <3>1, Clears DEF ApplyEvent
    <3>2. CASE e.kind # "delete"
      <4>p. PICK kind, sess, v : kind = e.kind /\ sess = e.sess /\ v = e.val
        OBVIOUS
      <4>1. kind \in Kinds /\ sess \in Keys /\ v \in Nat
        BY <3>2, <4>p DEF Events
      <4>2. now = With(was, kind, sess, v)
        BY <2>1, <3>2, <4>p DEF ApplyEvent
      <4>3. was \in Tables
        BY <2>1
      <4>4. With(was, kind, sess, v)[k][s] = IF k = kind /\ s = sess THEN v ELSE was[k][s]
        BY <4>1, <4>3, Writes
      <4>5. QED
        BY <3>2, <4>p, <4>2, <4>4
    <3>3. QED
      BY <3>1, <3>2
  <2>4. ASSUME NEW k \in Kinds, NEW s \in Keys
        PROVE  now[k][s] \in {Nothing, store[k][s]} \cup Stored(new)
    <3>1. was[k][s] \in {Nothing, store[k][s]} \cup Stored(t)
      BY <1>2, <2>p
    <3>2. QED
      BY <2>2, <2>3, <3>1
  <2>5. QED
    BY <2>p, <2>1, <2>4
<1>3. Seq(Events) \subseteq I
  <2>. HIDE DEF I
  <2>1. QED
    BY <1>1, <1>2, SeqInduction
<1>4. QED
  BY <1>3

\* Deletions clear the rows of their sessions.
AllDeletions(es) == \A i \in 1..Len(es) : es[i].kind = "delete"
Deleted(es) == {es[i].sess : i \in 1..Len(es)}

LEMMA DeletionsApplied ==
  ASSUME NEW store \in Tables, NEW es \in Seq(Events), AllDeletions(es)
  PROVE  ApplyAll(store, es) = Without(store, Deleted(es))
<1>. DEFINE I == {t \in Seq(Events) : AllDeletions(t) => ApplyAll(store, t) = Without(store, Deleted(t))}
<1>1. <<>> \in I
  <2>1. Deleted(<<>>) = {}
    BY DEF Deleted
  <2>2. \A k \in Kinds, s \in Keys : Without(store, {})[k][s] = store[k][s]
    BY Clears
  <2>3. Without(store, {}) = store
    BY <2>2, Clears, SameTables
  <2>4. QED
    BY <2>1, <2>3, ApplyNone, EmptySeq
<1>2. ASSUME NEW t \in Seq(Events), NEW e \in Events, t \in I PROVE Append(t, e) \in I
  <2>p. PICK new, m : new = Append(t, e) /\ m = Len(t)
    OBVIOUS
  <2>1. /\ new \in Seq(Events) /\ Len(new) = m + 1 /\ m \in Nat /\ new[m + 1] = e
        /\ \A i \in 1..m : new[i] = t[i]
    BY <2>p, AppendProperties, LenProperties
  <2>2. m + 1 \in 1..(m + 1) /\ \A i \in 1..(m + 1) : i = m + 1 \/ i \in 1..m
    BY <2>1
  <2>3. SUFFICES ASSUME AllDeletions(new) PROVE ApplyAll(store, new) = Without(store, Deleted(new))
    BY <2>p, <2>1
  <2>4. e.kind = "delete" /\ AllDeletions(t)
    <3>1. \A i \in 1..m : i \in 1..(m + 1)
      BY <2>1
    <3>2. QED
      BY <2>1, <2>2, <2>3, <2>p, <3>1 DEF AllDeletions
  <2>5. Deleted(new) = Deleted(t) \cup {e.sess}
    <3>1. ASSUME NEW x \in Deleted(new) PROVE x \in Deleted(t) \cup {e.sess}
      <4>1. PICK i \in 1..(m + 1) : x = new[i].sess
        BY <2>1 DEF Deleted
      <4>2. QED
        BY <2>1, <2>2, <2>p, <4>1 DEF Deleted
    <3>2. ASSUME NEW x \in Deleted(t) PROVE x \in Deleted(new)
      <4>1. PICK i \in 1..m : x = t[i].sess
        BY <2>p DEF Deleted
      <4>2. i \in 1..(m + 1) /\ new[i] = t[i]
        BY <2>1
      <4>3. QED
        BY <2>1, <4>1, <4>2 DEF Deleted
    <3>3. e.sess \in Deleted(new)
      BY <2>1, <2>2 DEF Deleted
    <3>4. QED
      BY <3>1, <3>2, <3>3
  <2>6. ApplyAll(store, new) = Without(Without(store, Deleted(t)), {e.sess})
    BY <1>2, <2>p, <2>4, ApplyMore DEF ApplyEvent
  <2>q. PICK a, b, c : /\ a = Without(store, Deleted(t)) /\ b = Without(a, {e.sess})
                       /\ c = Without(store, Deleted(new))
    OBVIOUS
  <2>7. a \in Tables /\ b \in Tables /\ c \in Tables
    BY <2>q, Clears
  <2>8. ASSUME NEW k \in Kinds, NEW s \in Keys PROVE b[k][s] = c[k][s]
    <3>1. a[k][s] = IF s \in Deleted(t) THEN Nothing ELSE store[k][s]
      BY <2>q, Clears
    <3>2. b[k][s] = IF s \in {e.sess} THEN Nothing ELSE a[k][s]
      BY <2>q, <2>7, Clears
    <3>3. c[k][s] = IF s \in Deleted(new) THEN Nothing ELSE store[k][s]
      BY <2>q, Clears
    <3>4. QED
      BY <2>5, <3>1, <3>2, <3>3
  <2>9. QED
    BY <2>6, <2>7, <2>8, <2>q, SameTables
<1>3. Seq(Events) \subseteq I
  <2>. HIDE DEF I
  <2>1. QED
    BY <1>1, <1>2, SeqInduction
<1>4. QED
  BY <1>3

-----------------------------------------------------------------------------
(* What the working set keeps resident.                                    *)

\* Only the page that _replace takes out is no longer resident.
LEMMA ReplaceKeeps ==
  ASSUME NEW key, NEW target, NEW g1, NEW g2, NEW r \in Replace(key, target, g1, g2)
  PROVE  \A x \in Resident : x = r.out \/ x \in r.t1 \cup r.t2
<1>1. \/ \E v : r = [out |-> v, t1 |-> t1 \ {v}, t2 |-> t2, b1 |-> g1 \cup {v}, b2 |-> g2]
      \/ \E v : r = [out |-> v, t1 |-> t1, t2 |-> t2 \ {v}, b1 |-> g1, b2 |-> g2 \cup {v}]
      \/ r = [out |-> NoKey, t1 |-> t1, t2 |-> t2, b1 |-> g1, b2 |-> g2]
  BY DEF Replace
<1>2. CASE \E v : r = [out |-> v, t1 |-> t1 \ {v}, t2 |-> t2, b1 |-> g1 \cup {v}, b2 |-> g2]
  <2>1. PICK v : r = [out |-> v, t1 |-> t1 \ {v}, t2 |-> t2, b1 |-> g1 \cup {v}, b2 |-> g2]
    BY <1>2
  <2>2. r.out = v /\ r.t1 = t1 \ {v} /\ r.t2 = t2
    BY <2>1
  <2>3. QED
    BY <2>2 DEF Resident
<1>3. CASE \E v : r = [out |-> v, t1 |-> t1, t2 |-> t2 \ {v}, b1 |-> g1, b2 |-> g2 \cup {v}]
  <2>1. PICK v : r = [out |-> v, t1 |-> t1, t2 |-> t2 \ {v}, b1 |-> g1, b2 |-> g2 \cup {v}]
    BY <1>3
  <2>2. r.out = v /\ r.t1 = t1 /\ r.t2 = t2 \ {v}
    BY <2>1
  <2>3. QED
    BY <2>2 DEF Resident
<1>4. CASE r = [out |-> NoKey, t1 |-> t1, t2 |-> t2, b1 |-> g1, b2 |-> g2]
  <2>1. r.t1 = t1 /\ r.t2 = t2
    BY <1>4
  <2>2. QED
    BY <2>1 DEF Resident
<1>5. QED
  BY <1>1, <1>2, <1>3, <1>4

\* An access makes its key resident, and takes nothing but its victim out.
LEMMA AccessKeeps ==
  ASSUME NEW key, RecordAccess(key)
  PROVE  key \in Resident' /\ \A x \in Resident : x = evicted' \/ x \in Resident'
<1>1. CASE Hit(key)
  BY <1>1 DEF Hit, Resident
<1>2. ASSUME NEW target, NEW g1, NEW g2, NEW r \in Replace(key, target, g1, g2),
             r.t1 \cup r.t2 \cup {key} = Resident', evicted' = r.out
      PROVE  key \in Resident' /\ \A x \in Resident : x = evicted' \/ x \in Resident'
  <2>1. \A x \in Resident : x = r.out \/ x \in r.t1 \cup r.t2
    BY ReplaceKeeps
  <2>2. QED
    BY <1>2, <2>1
<1>3. ASSUME NEW r, Admit(key, r)
      PROVE  r.t1 \cup r.t2 \cup {key} = Resident' /\ evicted' = r.out
  BY <1>3 DEF Admit, Resident
<1>4. CASE GhostHit1(key)
  <2>1. PICK r \in Replace(key, p', b1, b2) : t1' = r.t1 /\ t2' = r.t2 \cup {key} /\ evicted' = r.out
    BY <1>4 DEF GhostHit1
  <2>2. r.t1 \cup r.t2 \cup {key} = Resident'
    BY <2>1 DEF Resident
  <2>3. QED
    BY <1>2, <2>1, <2>2
<1>5. CASE GhostHit2(key)
  <2>1. PICK r \in Replace(key, p', b1, b2) : t1' = r.t1 /\ t2' = r.t2 \cup {key} /\ evicted' = r.out
    BY <1>5 DEF GhostHit2
  <2>2. r.t1 \cup r.t2 \cup {key} = Resident'
    BY <2>1 DEF Resident
  <2>3. QED
    BY <1>2, <2>1, <2>2
<1>6. CASE MissFullL1(key)
  <2>1. \/ \E g1 : \E r \in Replace(key, p, g1, b2) : Admit(key, r)
        \/ \E v : Admit(key, [out |-> v, t1 |-> t1 \ {v}, t2 |-> t2, b1 |-> b1, b2 |-> b2])
    BY <1>6 DEF MissFullL1
  <2>2. CASE \E g1 : \E r \in Replace(key, p, g1, b2) : Admit(key, r)
    <3>1. PICK g1 : \E r \in Replace(key, p, g1, b2) : Admit(key, r)
      BY <2>2
    <3>2. PICK r \in Replace(key, p, g1, b2) : Admit(key, r)
      BY <3>1
    <3>3. QED
      BY <1>2, <1>3, <3>2
  <2>3. CASE \E v : Admit(key, [out |-> v, t1 |-> t1 \ {v}, t2 |-> t2, b1 |-> b1, b2 |-> b2])
    <3>1. PICK v : Admit(key, [out |-> v, t1 |-> t1 \ {v}, t2 |-> t2, b1 |-> b1, b2 |-> b2])
      BY <2>3
    <3>2. t1' = (t1 \ {v}) \cup {key} /\ t2' = t2 /\ evicted' = v
      BY <3>1 DEF Admit
    <3>3. QED
      BY <3>2 DEF Resident
  <2>4. QED
    BY <2>1, <2>2, <2>3
<1>7. CASE Miss(key)
  <2>1. \/ \E g2 : \E r \in Replace(key, p, b1, g2) : Admit(key, r)
        \/ Admit(key, [out |-> NoKey, t1 |-> t1, t2 |-> t2, b1 |-> b1, b2 |-> b2])
    BY <1>7 DEF Miss
  <2>2. CASE \E g2 : \E r \in Replace(key, p, b1, g2) : Admit(key, r)
    <3>1. PICK g2 : \E r \in Replace(key, p, b1, g2) : Admit(key, r)
      BY <2>2
    <3>2. PICK r \in Replace(key, p, b1, g2) : Admit(key, r)
      BY <3>1
    <3>3. QED
      BY <1>2, <1>3, <3>2
  <2>3. CASE Admit(key, [out |-> NoKey, t1 |-> t1, t2 |-> t2, b1 |-> b1, b2 |-> b2])
    <3>1. t1' = t1 \cup {key} /\ t2' = t2
      BY <2>3 DEF Admit
    <3>2. QED
      BY <3>1 DEF Resident
  <2>4. QED
    BY <2>1, <2>2, <2>3
<1>8. QED
  BY <1>1, <1>4, <1>5, <1>6, <1>7 DEF RecordAccess

\* A cache that becomes c when a session is touched keeps what c has for the
\* residents, and may lose the rest.
LEMMA TouchKeeps ==
  ASSUME NEW s \in Keys, NEW c \in Tables, Touch(s, c),
         NEW rest, Holders(c) \subseteq Resident \cup rest \cup {s}
  PROVE  /\ cache' \in Tables
         /\ Holders(cache') \subseteq Resident' \cup rest
         /\ \A k \in Kinds, x \in Keys : cache'[k][x] \in {Nothing, c[k][x]}
<1>p. PICK new : new = cache'
  OBVIOUS
<1>1. new = Without(c, {evicted'} \ {s}) /\ RecordAccess(s)
  BY <1>p DEF Touch
<1>2. /\ new \in Tables
      /\ \A k \in Kinds, x \in Keys : new[k][x] = IF x \in {evicted'} \ {s} THEN Nothing ELSE c[k][x]
  BY <1>1, Clears
<1>3. s \in Resident' /\ \A x \in Resident : x = evicted' \/ x \in Resident'
  BY <1>1, AccessKeeps
<1>4. ASSUME NEW x \in Holders(new) PROVE x \in Resident' \cup rest
  <2>1. PICK k \in Kinds : x \in Keys /\ new[k][x] # Nothing
    BY DEF Holders
  <2>2. x \notin {evicted'} \ {s} /\ c[k][x] # Nothing
    BY <1>2, <2>1
  <2>3. x \in Resident \cup rest \cup {s}
    BY <2>1, <2>2 DEF Holders
  <2>4. QED
    BY <1>3, <2>2, <2>3
<1>5. QED
  BY <1>p, <1>2, <1>4

-----------------------------------------------------------------------------
(* The order of the writes on their way: every event still to be written    *)
(* writes a later value than any table has, and than those before it.       *)

Rising(es) ==
  \A i \in 1..Len(es), j \in 1..Len(es) :
    i < j /\ es[i].kind # "delete" /\ es[j].kind # "delete" => es[i].val < es[j].val

Lasting(old, new) ==
  \A k \in Kinds, s \in Keys : new[k][s] # Nothing => new[k][s] >= old[k][s]
Below(store, values) == \A k \in Kinds, s \in Keys, v \in values : store[k][s] < v
AtMost(store, w) == \A k \in Kinds, s \in Keys : store[k][s] <= w

Ordered(d, dur, b, q, w) ==
  /\ Rising(q)
  /\ \A v \in Stored(b), u \in Stored(q) : v < u
  /\ \A v \in Stored(b) \cup Stored(q) : v <= w
  /\ Below(d, Stored(b) \cup Stored(q)) /\ Below(dur, Stored(b) \cup Stored(q))
  /\ AtMost(d, w) /\ AtMost(dur, w)
  /\ Lasting(dur, d)

\* A part of a list stores some of its values, at some of its places.
LEMMA PartOf ==
  ASSUME NEW es \in Seq(Events), NEW m \in 1..(Len(es) + 1), NEW n \in 0..Len(es)
  PROVE  LET part == SubSeq(es, m, n)
         IN  /\ part \in Seq(Events) /\ Len(part) \in Nat /\ (m <= n => Len(part) = n - m + 1)
             /\ \A i \in 1..Len(part) : /\ part[i] = es[m + i - 1]
                                        /\ m + i - 1 \in m..n /\ m + i - 1 \in 1..Len(es)
             /\ Stored(part) \subseteq Stored(es)
<1>p. PICK part, len : part = SubSeq(es, m, n) /\ len = Len(es)
  OBVIOUS
<1>1. len \in Nat /\ m \in 1..(len + 1) /\ n \in 0..len /\ \A i \in m..n : es[i] \in Events
  BY <1>p, ElementOfSeq, LenProperties
<1>2. /\ part \in Seq(Events) /\ Len(part) = IF m <= n THEN n - m + 1 ELSE 0
      /\ \A i \in 1..(n - m + 1) : part[i] = es[m + i - 1]
  BY <1>1, <1>p, SubSeqProperties
<1>3. Len(part) \in Nat
  BY <1>1, <1>2
<1>4. ASSUME NEW i \in 1..Len(part)
      PROVE  part[i] = es[m + i - 1] /\ m + i - 1 \in m..n /\ m + i - 1 \in 1..len
  <2>1. i \in 1..(n - m + 1)
    BY <1>1, <1>2
  <2>2. m + i - 1 \in m..n /\ m + i - 1 \in 1..len
    BY <1>1, <2>1
  <2>3. QED
    BY <1>2, <2>1, <2>2
<1>5. Stored(part) \subseteq Stored(es)
  BY <1>p, <1>4 DEF Stored
<1>6. QED
  BY <1>p, <1>2, <1>3, <1>4, <1>5

\* Part of a batch is written; the rest of it, if any, is given up.
LEMMA OrderApplied ==
  ASSUME NEW d \in Tables, NEW dur \in Tables, NEW b \in Seq(Events), NEW q \in Seq(Events),
         NEW w \in Nat, Ordered(d, dur, b, q, w), NEW n \in 0..Len(b),
         NEW new, new = ApplyAll(d, SubSeq(b, 1, n))
  PROVE  /\ new \in Tables
         /\ Ordered(new, dur, <<>>, q, w) /\ Ordered(new, new, <<>>, q, w)
         /\ Lasting(dur, new)
<1>p. PICK part : part = SubSeq(b, 1, n)
  OBVIOUS
<1>1. part \in Seq(Events) /\ Stored(part) \subseteq Stored(b)
  BY <1>p, PartOf
<1>2. new \in Tables
  BY <1>1, <1>p, AppliedTables
<1>3. \A k \in Kinds, s \in Keys : new[k][s] \in {Nothing, d[k][s]} \cup Stored(b)
  BY <1>1, <1>p, AppliedValues
<1>4. \A k \in Kinds, s \in Keys : d[k][s] \in Nat /\ dur[k][s] \in Nat /\ new[k][s] \in Nat
  BY <1>2 DEF Tables
<1>5. Stored(b) \subseteq Nat /\ Stored(q) \subseteq Nat
  <2>1. \A i \in 1..Len(b) : b[i] \in Events
    BY ElementOfSeq
  <2>2. \A i \in 1..Len(q) : q[i] \in Events
    BY ElementOfSeq
  <2>3. QED
    BY <2>1, <2>2 DEF Stored, Events
<1>6. /\ Rising(q)
      /\ \A v \in Stored(b), u \in Stored(q) : v < u
      /\ \A v \in Stored(b) \cup Stored(q) : v <= w
      /\ \A k \in Kinds, s \in Keys, v \in Stored(b) \cup Stored(q) : d[k][s] < v /\ dur[k][s] < v
      /\ \A k \in Kinds, s \in Keys : d[k][s] <= w /\ dur[k][s] <= w
      /\ \A k \in Kinds, s \in Keys : d[k][s] # Nothing => d[k][s] >= dur[k][s]
  BY DEF Ordered, Below, AtMost, Lasting
<1>7. ASSUME NEW k \in Kinds, NEW s \in Keys
      PROVE  /\ new[k][s] <= w /\ \A u \in Stored(q) : new[k][s] < u
             /\ new[k][s] # Nothing => new[k][s] >= dur[k][s]
  <2>1. CASE new[k][s] = Nothing
    <3>1. \A u \in Stored(q) : 0 < u
      BY <1>4, <1>5, <1>6
    <3>2. QED
      BY <2>1, <3>1 DEF Nothing
  <2>2. CASE new[k][s] = d[k][s]
    BY <1>6, <2>2
  <2>3. CASE new[k][s] \in Stored(b)
    BY <1>4, <1>5, <1>6, <2>3
  <2>4. QED
    BY <1>3, <2>1, <2>2, <2>3
<1>8. Lasting(dur, new) /\ AtMost(new, w) /\ Below(new, Stored(q))
  BY <1>7 DEF Lasting, AtMost, Below
<1>9. Lasting(new, new)
  BY <1>4 DEF Lasting
<1>10. Stored(<<>>) \cup Stored(q) = Stored(q)
  BY StoredNone
<1>11. AtMost(dur, w) /\ Below(dur, Stored(q)) /\ \A v \in Stored(q) : v <= w
  BY <1>6 DEF AtMost, Below
<1>12. QED
  BY <1>2, <1>6, <1>8, <1>9, <1>10, <1>11, StoredNone DEF Ordered

\* A batch is taken from the front of the queue.
LEMMA OrderTaken ==
  ASSUME NEW d, NEW dur, NEW q \in Seq(Events), NEW w, Ordered(d, dur, <<>>, q, w), NEW n \in 0..Len(q)
  PROVE  Ordered(d, dur, SubSeq(q, 1, n), SubSeq(q, n + 1, Len(q)), w)
<1>p. PICK len, a, z : len = Len(q) /\ a = SubSeq(q, 1, n) /\ z = SubSeq(q, n + 1, len)
  OBVIOUS
<1>1. len \in Nat /\ n \in 0..len /\ 1 \in 1..(len + 1) /\ n + 1 \in 1..(len + 1) /\ len \in 0..len
  BY <1>p, LenProperties
<1>2. /\ Stored(a) \subseteq Stored(q) /\ Len(a) \in Nat
      /\ \A i \in 1..Len(a) : a[i] = q[1 + i - 1] /\ 1 + i - 1 \in 1..n /\ 1 + i - 1 \in 1..len
  BY <1>1, <1>p, PartOf
<1>3. /\ Stored(z) \subseteq Stored(q) /\ Len(z) \in Nat
      /\ \A i \in 1..Len(z) : /\ z[i] = q[n + 1 + i - 1]
                              /\ n + 1 + i - 1 \in (n + 1)..len /\ n + 1 + i - 1 \in 1..len
  BY <1>1, <1>p, PartOf
<1>4. Rising(q)
  BY DEF Ordered
<1>5. ASSUME NEW i \in 1..Len(z), NEW j \in 1..Len(z), i < j, z[i].kind # "delete", z[j].kind # "delete"
      PROVE  z[i].val < z[j].val
  <2>1. n + 1 + i - 1 < n + 1 + j - 1
    BY <1>1, <1>3, <1>5
  <2>2. QED
    BY <1>3, <1>4, <1>5, <1>p, <2>1 DEF Rising
<1>6. ASSUME NEW v \in Stored(a), NEW u \in Stored(z)
      PROVE  v < u
  <2>1. PICK i \in 1..Len(a) : a[i].kind # "delete" /\ v = a[i].val
    BY DEF Stored
  <2>2. PICK j \in 1..Len(z) : z[j].kind # "delete" /\ u = z[j].val
    BY DEF Stored
  <2>3. 1 + i - 1 < n + 1 + j - 1
    BY <1>1, <1>2, <1>3
  <2>4. QED
    BY <1>2, <1>3, <1>4, <1>p, <2>1, <2>2, <2>3 DEF Rising
<1>7. Stored(<<>>) \cup Stored(q) = Stored(q) /\ Stored(a) \cup Stored(z) \subseteq Stored(q)
  BY <1>2, <1>3, StoredNone
<1>8. Rising(z)
  BY <1>5 DEF Rising
<1>9. QED
  BY <1>6, <1>7, <1>8, <1>p DEF Ordered, Below

\* One more event: of the next value, or a deletion.
LEMMA OrderGrows ==
  ASSUME NEW d, NEW dur, NEW b \in Seq(Events), NEW q \in Seq(Events), NEW w \in Nat,
         d \in Tables, dur \in Tables,
         Ordered(d, dur, b, q, w), NEW e \in Events
  PROVE  /\ e.kind = "delete" => Ordered(d, dur, b, Append(q, e), w)
         /\ e.val = w + 1 => Ordered(d, dur, b, q, w + 1) /\ Ordered(d, dur, b, Append(q, e), w + 1)
<1>p. PICK new, m : new = Append(q, e) /\ m = Len(q)
  OBVIOUS
<1>1. /\ new \in Seq(Events) /\ Len(new) = m + 1 /\ m \in Nat /\ new[m + 1] = e
      /\ \A i \in 1..m : new[i] = q[i] /\ q[i] \in Events
  BY <1>p, AppendProperties, LenProperties, ElementOfSeq
<1>2. Stored(new) = Stored(q) \cup (IF e.kind = "delete" THEN {} ELSE {e.val})
  BY <1>p, StoredMore
<1>3. /\ Rising(q) /\ \A v \in Stored(b), u \in Stored(q) : v < u
      /\ \A v \in Stored(b) \cup Stored(q) : v <= w
      /\ \A k \in Kinds, s \in Keys, v \in Stored(b) \cup Stored(q) : d[k][s] < v /\ dur[k][s] < v
      /\ \A k \in Kinds, s \in Keys : d[k][s] <= w /\ dur[k][s] <= w
      /\ Lasting(dur, d)
  BY DEF Ordered, Below, AtMost
<1>4. /\ \A k \in Kinds, s \in Keys : d[k][s] \in Nat /\ dur[k][s] \in Nat
      /\ Stored(b) \cup Stored(q) \subseteq Nat
  <2>1. \A i \in 1..Len(b) : b[i] \in Events
    BY ElementOfSeq
  <2>2. Stored(b) \subseteq Nat
    BY <2>1 DEF Stored, Events
  <2>3. Stored(q) \subseteq Nat
    BY <1>1, <1>p DEF Stored, Events
  <2>4. QED
    BY <2>2, <2>3 DEF Tables
<1>5. ASSUME NEW i \in 1..m, q[i].kind # "delete" PROVE q[i].val \in Stored(q)
  BY <1>5, <1>p DEF Stored
<1>6. ASSUME e.kind = "delete" PROVE Ordered(d, dur, b, new, w)
  <2>1. Rising(new)
    <3>1. \A i \in 1..(m + 1) : i = m + 1 \/ i \in 1..m
      BY <1>1
    <3>2. QED
      BY <1>1, <1>3, <1>6, <1>p, <3>1 DEF Rising
  <2>2. Stored(new) = Stored(q)
    BY <1>2, <1>6
  <2>3. QED
    BY <1>3, <1>6, <1>p, <2>1, <2>2 DEF Ordered, Below, AtMost
<1>7. ASSUME e.val = w + 1
      PROVE  Ordered(d, dur, b, q, w + 1) /\ Ordered(d, dur, b, new, w + 1)
  <2>1. Rising(new)
    <3>1. ASSUME NEW i \in 1..(m + 1), NEW j \in 1..(m + 1), i < j,
                 new[i].kind # "delete", new[j].kind # "delete"
          PROVE  new[i].val < new[j].val
      <4>1. i \in 1..m /\ (j = m + 1 \/ j \in 1..m)
        BY <1>1, <3>1
      <4>2. CASE j = m + 1
        <5>1. q[i].val \in Stored(q) /\ new[i] = q[i]
          BY <1>1, <1>5, <3>1, <4>1
        <5>2. q[i].val <= w /\ q[i].val \in Nat
          BY <1>3, <1>4, <5>1
        <5>3. QED
          BY <1>1, <1>7, <4>2, <5>1, <5>2
      <4>3. CASE j \in 1..m
        BY <1>1, <1>3, <1>p, <3>1, <4>1, <4>3 DEF Rising
      <4>4. QED
        BY <4>1, <4>2, <4>3
    <3>2. QED
      BY <1>1, <3>1 DEF Rising
  <2>2. Stored(new) \subseteq Stored(q) \cup {w + 1}
    BY <1>2, <1>7
  <2>3. /\ \A v \in Stored(b) \cup Stored(q) : v <= w + 1 /\ v < w + 1
        /\ \A k \in Kinds, s \in Keys : d[k][s] <= w + 1 /\ dur[k][s] <= w + 1
        /\ \A k \in Kinds, s \in Keys : d[k][s] < w + 1 /\ dur[k][s] < w + 1
        /\ w + 1 <= w + 1
    BY <1>3, <1>4
  <2>4. Ordered(d, dur, b, q, w + 1)
    BY <1>3, <2>3 DEF Ordered, Below, AtMost
  <2>5. /\ \A v \in Stored(b), u \in Stored(new) : v < u
        /\ \A v \in Stored(b) \cup Stored(new) : v <= w + 1
        /\ \A k \in Kinds, s \in Keys, v \in Stored(b) \cup Stored(new) : d[k][s] < v /\ dur[k][s] < v
    BY <1>3, <2>2, <2>3
  <2>6. Ordered(d, dur, b, new, w + 1)
    BY <1>3, <2>1, <2>3, <2>5 DEF Ordered, Below, AtMost
  <2>7. QED
    BY <2>4, <2>6
<1>8. QED
  BY <1>p, <1>6, <1>7

\* Deletions, and those of them that fit, change nothing of it.
LEMMA OrderPruned ==
  ASSUME NEW d \in Tables, NEW dur \in Tables, NEW b \in Seq(Events), NEW q \in Seq(Events),
         NEW w \in Nat, Ordered(d, dur, b, q, w), NEW es \in Seq(Events), AllDeletions(es)
  PROVE  Ordered(d, dur, b, q \o es, w)
<1>. DEFINE I == {x \in Seq(Events) : AllDeletions(x) => Ordered(d, dur, b, q \o x, w)}
<1>1. <<>> \in I
  BY ConcatEmptySeq, EmptySeq
<1>2. ASSUME NEW x \in Seq(Events), NEW e \in Events, x \in I PROVE Append(x, e) \in I
  <2>1. Append(x, e) \in Seq(Events) /\ q \o x \in Seq(Events)
    BY AppendProperties, ConcatProperties
  <2>2. SUFFICES ASSUME AllDeletions(Append(x, e)) PROVE Ordered(d, dur, b, q \o Append(x, e), w)
    BY <2>1
  <2>3. AllDeletions(x) /\ e.kind = "delete"
    <3>p. PICK new, m : new = Append(x, e) /\ m = Len(x)
      OBVIOUS
    <3>1. /\ Len(new) = m + 1 /\ m \in Nat /\ new[m + 1] = e /\ \A i \in 1..m : new[i] = x[i]
      BY <3>p, AppendProperties, LenProperties
    <3>2. m + 1 \in 1..(m + 1) /\ \A i \in 1..m : i \in 1..(m + 1)
      BY <3>1
    <3>3. QED
      BY <2>2, <3>1, <3>2, <3>p DEF AllDeletions
  <2>4. q \o Append(x, e) = Append(q \o x, e)
    BY AppendConcat
  <2>5. Ordered(d, dur, b, q \o x, w)
    BY <1>2, <2>3
  <2>6. Ordered(d, dur, b, Append(q \o x, e), w)
    BY <2>1, <2>3, <2>5, OrderGrows
  <2>7. QED
    BY <2>4, <2>6
<1>3. Seq(Events) \subseteq I
  <2>. HIDE DEF I
  <2>1. QED
    BY <1>1, <1>2, SeqInduction
<1>4. QED
  BY <1>3

-----------------------------------------------------------------------------
(* The rows that events touch.                                             *)

Hits(e, k, s) == e.sess = s /\ e.kind \in {k, "delete"}

LEMMA AffectedPairs ==
  ASSUME NEW es, NEW k \in Kinds, NEW s \in Keys
  PROVE  <<k, s>> \in Affected(es) <=> \E i \in 1..Len(es) : Hits(es[i], k, s)
BY DEF Affected, Hits

LEMMA AffectedNone == \A k \in Kinds, s \in Keys : <<k, s>> \notin Affected(<<>>)
<1>p. PICK es : es = <<>>
  OBVIOUS
<1>1. Len(es) = 0
  BY <1>p, EmptySeq
<1>2. ASSUME NEW k \in Kinds, NEW s \in Keys PROVE <<k, s>> \notin Affected(es)
  <2>1. 1..Len(es) = {}
    BY <1>1
  <2>2. QED
    BY <2>1, AffectedPairs
<1>3. QED
  BY <1>p, <1>2

LEMMA AffectedMore ==
  ASSUME NEW es \in Seq(Events), NEW e \in Events, NEW k \in Kinds, NEW s \in Keys
  PROVE  <<k, s>> \in Affected(Append(es, e)) <=> <<k, s>> \in Affected(es) \/ Hits(e, k, s)
<1>p. PICK t, m : t = Append(es, e) /\ m = Len(es)
  OBVIOUS
<1>1. /\ Len(t) = m + 1 /\ m \in Nat /\ t[m + 1] = e
      /\ \A i \in 1..m : t[i] = es[i]
  BY <1>p, AppendProperties, LenProperties
<1>2. m + 1 \in 1..(m + 1) /\ \A i \in 1..(m + 1) : i = m + 1 \/ i \in 1..m
  BY <1>1
<1>3. \A i \in 1..m : i \in 1..(m + 1)
  BY <1>1
<1>4. (\E i \in 1..Len(t) : Hits(t[i], k, s)) <=> (\E i \in 1..m : Hits(es[i], k, s)) \/ Hits(e, k, s)
  BY <1>1, <1>2, <1>3
<1>5. QED
  BY <1>4, <1>p, AffectedPairs

LEMMA AffectedConcat ==
  ASSUME NEW a \in Seq(Events), NEW b \in Seq(Events), NEW k \in Kinds, NEW s \in Keys
  PROVE  <<k, s>> \in Affected(a \o b) <=> <<k, s>> \in Affected(a) \/ <<k, s>> \in Affected(b)
<1>. DEFINE I == {x \in Seq(Events) :
                    <<k, s>> \in Affected(a \o x) <=> <<k, s>> \in Affected(a) \/ <<k, s>> \in Affected(x)}
<1>1. <<>> \in I
  BY AffectedNone, ConcatEmptySeq, EmptySeq
<1>2. ASSUME NEW x \in Seq(Events), NEW e \in Events, x \in I PROVE Append(x, e) \in I
  <2>1. Append(x, e) \in Seq(Events) /\ a \o x \in Seq(Events) /\ a \o Append(x, e) = Append(a \o x, e)
    BY AppendProperties, ConcatProperties, AppendConcat
  <2>2. <<k, s>> \in Affected(Append(a \o x, e)) <=> <<k, s>> \in Affected(a \o x) \/ Hits(e, k, s)
    BY <2>1, AffectedMore
  <2>3. <<k, s>> \in Affected(Append(x, e)) <=> <<k, s>> \in Affected(x) \/ Hits(e, k, s)
    BY AffectedMore
  <2>4. QED
    BY <1>2, <2>1, <2>2, <2>3
<1>3. Seq(Events) \subseteq I
  <2>. HIDE DEF I
  <2>1. QED
    BY <1>1, <1>2, SeqInduction
<1>4. QED
  BY <1>3

\* What one event leaves in a row.
LEMMA EventOnRow ==
  ASSUME NEW store \in Tables, NEW e \in Events, NEW k \in Kinds, NEW s \in Keys
  PROVE  ApplyEvent(store, e)[k][s] = IF ~Hits(e, k, s) THEN store[k][s]
                                      ELSE IF e.kind = "delete" THEN Nothing ELSE e.val
<1>p. PICK kind, sess, v : kind = e.kind /\ sess = e.sess /\ v = e.val
  OBVIOUS
<1>1. CASE kind = "delete"
  BY <1>1, <1>p, Clears DEF ApplyEvent, Hits
<1>2. CASE kind # "delete"
  <2>1. kind \in Kinds /\ sess \in Keys /\ v \in Nat
    BY <1>2, <1>p DEF Events
  <2>2. With(store, kind, sess, v)[k][s] = IF k = kind /\ s = sess THEN v ELSE store[k][s]
    BY <2>1, Writes
  <2>3. QED
    BY <1>2, <1>p, <2>2 DEF ApplyEvent, Hits
<1>3. QED
  BY <1>1, <1>2

\* A row that events touch is the same after them whatever was in the tables,
\* and a row they do not touch stays.
LEMMA RowsApart ==
  ASSUME NEW x \in Tables, NEW y \in Tables, NEW es \in Seq(Events), NEW k \in Kinds, NEW s \in Keys,
         x[k][s] = y[k][s] \/ <<k, s>> \in Affected(es)
  PROVE  ApplyAll(x, es)[k][s] = ApplyAll(y, es)[k][s]
<1>. DEFINE I == {t \in Seq(Events) : x[k][s] = y[k][s] \/ <<k, s>> \in Affected(t)
                                        => ApplyAll(x, t)[k][s] = ApplyAll(y, t)[k][s]}
<1>1. <<>> \in I
  BY AffectedNone, ApplyNone, EmptySeq
<1>2. ASSUME NEW t \in Seq(Events), NEW e \in Events, t \in I PROVE Append(t, e) \in I
  <2>1. Append(t, e) \in Seq(Events) /\ ApplyAll(x, t) \in Tables /\ ApplyAll(y, t) \in Tables
    BY AppendProperties, AppliedTables
  <2>2. /\ ApplyAll(x, Append(t, e)) = ApplyEvent(ApplyAll(x, t), e)
        /\ ApplyAll(y, Append(t, e)) = ApplyEvent(ApplyAll(y, t), e)
    BY ApplyMore
  <2>3. /\ ApplyEvent(ApplyAll(x, t), e)[k][s] = IF ~Hits(e, k, s) THEN ApplyAll(x, t)[k][s]
                                                 ELSE IF e.kind = "delete" THEN Nothing ELSE e.val
        /\ ApplyEvent(ApplyAll(y, t), e)[k][s] = IF ~Hits(e, k, s) THEN ApplyAll(y, t)[k][s]
                                                 ELSE IF e.kind = "delete" THEN Nothing ELSE e.val
    BY <2>1, EventOnRow
  <2>4. <<k, s>> \in Affected(Append(t, e)) <=> <<k, s>> \in Affected(t) \/ Hits(e, k, s)
    BY AffectedMore
  <2>5. QED
    BY <1>2, <2>1, <2>2, <2>3, <2>4
<1>3. Seq(Events) \subseteq I
  <2>. HIDE DEF I
  <2>1. QED
    BY <1>1, <1>2, SeqInduction
<1>4. QED
  BY <1>3

LEMMA RowStays ==
  ASSUME NEW x \in Tables, NEW es \in Seq(Events), NEW k \in Kinds, NEW s \in Keys,
         <<k, s>> \notin Affected(es)
  PROVE  ApplyAll(x, es)[k][s] = x[k][s]
<1>. DEFINE I == {t \in Seq(Events) : <<k, s>> \notin Affected(t) => ApplyAll(x, t)[k][s] = x[k][s]}
<1>1. <<>> \in I
  BY ApplyNone, EmptySeq
<1>2. ASSUME NEW t \in Seq(Events), NEW e \in Events, t \in I PROVE Append(t, e) \in I
  <2>1. Append(t, e) \in Seq(Events) /\ ApplyAll(x, t) \in Tables
    BY AppendProperties, AppliedTables
  <2>2. ApplyAll(x, Append(t, e)) = ApplyEvent(ApplyAll(x, t), e)
    BY ApplyMore
  <2>3. ~Hits(e, k, s) => ApplyEvent(ApplyAll(x, t), e)[k][s] = ApplyAll(x, t)[k][s]
    BY <2>1, EventOnRow
  <2>4. <<k, s>> \in Affected(Append(t, e)) <=> <<k, s>> \in Affected(t) \/ Hits(e, k, s)
    BY AffectedMore
  <2>5. QED
    BY <1>2, <2>1, <2>2, <2>3, <2>4
<1>3. Seq(Events) \subseteq I
  <2>. HIDE DEF I
  <2>1. QED
    BY <1>1, <1>2, SeqInduction
<1>4. QED
  BY <1>3

\* Deletions touch the rows of their sessions, and empty them.
LEMMA AffectedByDeletions ==
  ASSUME NEW es \in Seq(Events), AllDeletions(es), NEW k \in Kinds, NEW s \in Keys
  PROVE  /\ <<k, s>> \in Affected(es) <=> s \in Deleted(es)
         /\ \A x \in Tables : s \in Deleted(es) => ApplyAll(x, es)[k][s] = Nothing
<1>1. <<k, s>> \in Affected(es) <=> \E i \in 1..Len(es) : Hits(es[i], k, s)
  BY AffectedPairs
<1>2. \A i \in 1..Len(es) : Hits(es[i], k, s) <=> es[i].sess = s
  BY DEF AllDeletions, Hits
<1>3. ASSUME NEW x \in Tables, s \in Deleted(es) PROVE ApplyAll(x, es)[k][s] = Nothing
  BY <1>3, DeletionsApplied, Clears
<1>4. QED
  BY <1>1, <1>2, <1>3 DEF Deleted

\* The tables and the events on their way make up the values of new, except
\* in the gaps.
Agree(store, b, q, new, gaps) ==
  \A k \in Kinds, s \in Keys :
    <<k, s>> \notin gaps => ApplyAll(ApplyAll(store, b), q)[k][s] = new[k][s]

\* Events that bring the rows they touch to the values of new, and values that
\* differ at most where events touch them.
Brings(part, new) ==
  \A x \in Tables, k \in Kinds, s \in Keys :
    <<k, s>> \in Affected(part) => ApplyAll(x, part)[k][s] = new[k][s]
DiffersBy(was, new, es) ==
  \A k \in Kinds, s \in Keys : <<k, s>> \notin Affected(es) => new[k][s] = was[k][s]

\* Some of the events es are queued, and the values they touch change to new.
LEMMA AgreeQueued ==
  ASSUME NEW store \in Tables, NEW b \in Seq(Events), NEW q \in Seq(Events),
         NEW was, NEW new, NEW gaps, Agree(store, b, q, was, gaps),
         NEW es, NEW part \in Seq(Events), Brings(part, new), DiffersBy(was, new, es)
  PROVE  Agree(store, b, q \o part, new, (gaps \cup Affected(es)) \ Affected(part))
<1>p. PICK mid, all : mid = ApplyAll(store, b) /\ all = ApplyAll(mid, q)
  OBVIOUS
<1>1. all \in Tables
  BY <1>p, AppliedTables
<1>2. ApplyAll(mid, q \o part) = ApplyAll(all, part)
  BY <1>p, ApplyConcat
<1>3. ASSUME NEW k \in Kinds, NEW s \in Keys, <<k, s>> \notin (gaps \cup Affected(es)) \ Affected(part)
      PROVE  ApplyAll(all, part)[k][s] = new[k][s]
  <2>1. CASE <<k, s>> \in Affected(part)
    BY <1>1, <2>1 DEF Brings
  <2>2. CASE <<k, s>> \notin Affected(part)
    <3>1. ApplyAll(all, part)[k][s] = all[k][s]
      BY <1>1, <2>2, RowStays
    <3>2. all[k][s] = was[k][s] /\ new[k][s] = was[k][s]
      BY <1>3, <1>p, <2>2 DEF Agree, DiffersBy
    <3>3. QED
      BY <3>1, <3>2
  <2>3. QED
    BY <2>1, <2>2
<1>4. QED
  BY <1>2, <1>3, <1>p DEF Agree

\* The rest of a batch is given up: alone, or with the queue.
LEMMA AgreeCut ==
  ASSUME NEW store \in Tables, NEW b \in Seq(Events), NEW q \in Seq(Events), NEW n \in 0..Len(b),
         NEW was, NEW gaps, Agree(store, b, q, was, gaps), NEW some, some = ApplyAll(store, SubSeq(b, 1, n))
  PROVE  /\ Agree(some, <<>>, q, was, gaps \cup (Affected(b) \ Affected(q)))
         /\ Agree(some, <<>>, <<>>, was, gaps \cup Affected(SubSeq(b, n + 1, Len(b)) \o q))
<1>p. PICK len, part, rest, all, end : /\ len = Len(b) /\ part = SubSeq(b, 1, n) /\ rest = SubSeq(b, n + 1, len)
                                       /\ all = ApplyAll(store, b) /\ end = ApplyAll(all, q)
  OBVIOUS
<1>1. /\ len \in Nat /\ n \in 0..len /\ 1 \in 1..(len + 1) /\ n + 1 \in 1..(len + 1)
      /\ len \in 0..len /\ 1 - 1 = 0 /\ len \in n..len
  BY <1>p, LenProperties
<1>2. part \in Seq(Events) /\ rest \in Seq(Events)
  BY <1>1, <1>p, PartOf
<1>3. part \o rest = b
  <2>1. SubSeq(b, 1, n) \o SubSeq(b, n + 1, len) = SubSeq(b, 1, len)
    <3>1. 1 \in 1..Len(b) + 1 /\ n \in (1 - 1)..Len(b) /\ len \in n..Len(b)
      BY <1>1, <1>p
    <3>2. QED
      BY <3>1, ConcatAdjacentSubSeq
  <2>2. SubSeq(b, 1, len) = b
    BY <1>p, SubSeqFull
  <2>3. QED
    BY <1>p, <2>1, <2>2
<1>4. some \in Tables /\ all \in Tables /\ all = ApplyAll(some, rest)
  <2>1. some \in Tables /\ all \in Tables
    BY <1>2, <1>p, AppliedTables
  <2>2. ApplyAll(store, part \o rest) = ApplyAll(ApplyAll(store, part), rest)
    BY <1>2, ApplyConcat
  <2>3. QED
    BY <1>3, <1>p, <2>1, <2>2
<1>5. ASSUME NEW k \in Kinds, NEW s \in Keys, <<k, s>> \notin gaps,
             <<k, s>> \in Affected(q) \/ <<k, s>> \notin Affected(rest)
      PROVE  ApplyAll(some, q)[k][s] = was[k][s]
  <2>1. end[k][s] = was[k][s]
    BY <1>5, <1>p DEF Agree
  <2>2. some[k][s] = all[k][s] \/ <<k, s>> \in Affected(q)
    BY <1>2, <1>4, <1>5, RowStays
  <2>3. ApplyAll(some, q)[k][s] = end[k][s]
    BY <1>4, <1>p, <2>2, RowsApart
  <2>4. QED
    BY <2>1, <2>3
<1>6. ASSUME NEW k \in Kinds, NEW s \in Keys
      PROVE  <<k, s>> \in Affected(rest) => <<k, s>> \in Affected(b)
  BY <1>2, <1>3, AffectedConcat
<1>7. ApplyAll(some, <<>>) = some
  BY ApplyNone
<1>8. Agree(some, <<>>, q, was, gaps \cup (Affected(b) \ Affected(q)))
  BY <1>5, <1>6, <1>7 DEF Agree
<1>9. ASSUME NEW k \in Kinds, NEW s \in Keys, <<k, s>> \notin gaps \cup Affected(rest \o q)
      PROVE  some[k][s] = was[k][s]
  <2>1. <<k, s>> \notin Affected(rest) /\ <<k, s>> \notin Affected(q)
    BY <1>2, <1>9, AffectedConcat
  <2>2. ApplyAll(some, q)[k][s] = some[k][s]
    BY <1>4, <2>1, RowStays
  <2>3. QED
    BY <1>5, <1>9, <2>1, <2>2
<1>10. Agree(some, <<>>, <<>>, was, gaps \cup Affected(rest \o q))
  BY <1>7, <1>9 DEF Agree
<1>11. QED
  BY <1>8, <1>10, <1>p

\* None of the batch is executed.
LEMMA AgreeKept ==
  ASSUME NEW store \in Tables, NEW b \in Seq(Events), NEW q \in Seq(Events),
         NEW was, NEW gaps, Agree(store, b, q, was, gaps)
  PROVE  /\ Agree(store, <<>>, q, was, gaps \cup (Affected(b) \ Affected(q)))
         /\ Agree(store, <<>>, <<>>, was, gaps \cup Affected(b \o q))
<1>p. PICK n, m : n = Len(b) /\ m = 0
  OBVIOUS
<1>1. n \in Nat /\ m \in 0..Len(b)
  BY <1>p, LenProperties
<1>2. SubSeq(b, 1, m) = <<>> /\ SubSeq(b, m + 1, Len(b)) = b
  BY <1>p, SubSeqEmpty, SubSeqFull
<1>3. store = ApplyAll(store, SubSeq(b, 1, m))
  BY <1>2, ApplyNone
<1>4. /\ Agree(store, <<>>, q, was, gaps \cup (Affected(b) \ Affected(q)))
      /\ Agree(store, <<>>, <<>>, was, gaps \cup Affected(SubSeq(b, m + 1, Len(b)) \o q))
  BY <1>1, <1>3, AgreeCut
<1>5. QED
  BY <1>2, <1>4

-----------------------------------------------------------------------------
(* The steps of the caches and of the sidecar.                             *)

StateTypes ==
  /\ cache \in Tables /\ db \in Tables /\ durable \in Tables /\ truth \in Tables
  /\ writes \in Nat /\ todo \in Seq(Keys)
  /\ queue \in Seq(Events) /\ batch \in Seq(Events)

\* What is on its way turns what is committed into what was last written,
\* except where that was lost; and, as the next commit takes along what failed
\* batches left behind, also what the connection sees.
Mirrored ==
  /\ Agree(durable, batch, queue, truth, lost)
  /\ Agree(db, batch, queue, truth, lost)
  /\ phase = "down" => queue = <<>> /\ batch = <<>> /\ db = durable

SidecarInv == Mirrored /\ Ordered(db, durable, batch, queue, writes)

StateInv == StateTypes /\ MemoryIsSound /\ SidecarInv

LEMMA StateStart == StateInit => StateInv
<1>. SUFFICES ASSUME StateInit PROVE StateInv
  OBVIOUS
<1>1. /\ phase = "down" /\ writes = 0 /\ cache = Empty /\ todo = <<>> /\ queue = <<>>
      /\ batch = <<>> /\ db = Empty /\ durable = Empty /\ truth = Empty /\ lost = {}
  BY DEF StateInit
<1>2. StateTypes
  BY <1>1, EmptyIsTables, EmptySeq DEF StateTypes
<1>3. MemoryIsSound
  BY <1>1, EmptyIsTables DEF MemoryIsSound
<1>4. Mirrored
  BY <1>1, ApplyNone DEF Mirrored, Agree
<1>5. Rising(<<>>)
  BY DEF Rising
<1>6. Ordered(Empty, Empty, <<>>, <<>>, 0)
  BY <1>5, EmptyIsTables, StoredNone DEF Ordered, Below, AtMost, Lasting, Nothing
<1>7. QED
  BY <1>1, <1>2, <1>3, <1>4, <1>6 DEF StateInv, SidecarInv

\* The events that fit are queued in their order, and what only the others
\* touch is lost.
LEMMA Enqueued ==
  ASSUME queue \in Seq(Events), NEW es \in Seq(Events), EnqueueAll(es)
  PROVE  \E m \in 0..Len(es) :
           /\ queue' = queue \o SubSeq(es, 1, m)
           /\ lost' = (lost \cup Affected(es)) \ Affected(SubSeq(es, 1, m))
<1>p. PICK room, n, kept : /\ room = MaxQueue - Len(queue) /\ n = Len(es)
                           /\ kept = IF room < n THEN room ELSE n
  OBVIOUS
<1>1. n \in Nat /\ room \in Int
  BY <1>p, LenProperties, StateAssumption
<1>2. /\ queue' = queue \o SubSeq(es, 1, kept)
      /\ lost' = (lost \cup Affected(es)) \ Affected(SubSeq(es, 1, kept))
  BY <1>p DEF EnqueueAll
<1>3. CASE kept \in 0..n
  <2>1. kept \in 0..Len(es)
    BY <1>3, <1>p
  <2>2. WITNESS kept \in 0..Len(es)
  <2>3. QED
    BY <1>2
<1>4. CASE kept < 0
  <2>1. SubSeq(es, 1, kept) = SubSeq(es, 1, 0)
    BY <1>1, <1>4, <1>p, SubSeqEmpty
  <2>2. 0 \in 0..Len(es)
    BY <1>1, <1>p
  <2>3. /\ queue' = queue \o SubSeq(es, 1, 0)
        /\ lost' = (lost \cup Affected(es)) \ Affected(SubSeq(es, 1, 0))
    BY <1>2, <2>1
  <2>4. QED
    BY <2>2, <2>3
<1>5. kept \in 0..n \/ kept < 0
  BY <1>1, <1>p
<1>6. QED
  BY <1>3, <1>4, <1>5

\* A touch keeps the memory sound.
LEMMA TouchSound ==
  ASSUME StateTypes, MemoryIsSound, phase # "down",
         NEW s \in Keys, NEW c \in Tables, Touch(s, c), truth' \in Tables,
         Holders(c) \subseteq Resident \cup ToSet(todo') \cup {s},
         \A k \in Kinds, x \in Keys : <<k, x>> \notin stale' => c[k][x] \in {Nothing, truth'[k][x]}
  PROVE  cache' \in Tables /\ MemoryIsSound'
<1>1. /\ cache' \in Tables
      /\ Holders(cache') \subseteq Resident' \cup ToSet(todo')
      /\ \A k \in Kinds, x \in Keys : cache'[k][x] \in {Nothing, c[k][x]}
  BY TouchKeeps
<1>2. QED
  BY <1>1 DEF MemoryIsSound

\* What a write brings to the queue: the event, or nothing, and then the row is
\* lost; and it is lost too when the sidecar is being stopped.
LEMMA PutQueues ==
  ASSUME StateInv, NEW k \in Kinds, NEW s \in Keys, Put(k, s),
         NEW e, e = [kind |-> k, sess |-> s, val |-> writes + 1]
  PROVE  \E part \in {<<>>, <<e>>} :
           queue' = queue \o part /\ lost' = (lost \cup Affected(<<e>>)) \ Affected(part)
<1>1. queue \in Seq(Events) /\ writes \in Nat
  BY DEF StateInv, StateTypes
<1>2. e \in Events
  BY <1>1 DEF Events, Kinds
<1>p. PICK one, q : one = <<e>> /\ q = queue
  OBVIOUS
<1>3. one \in Seq(Events) /\ Len(one) = 1 /\ one[1] = e
  BY <1>2, <1>p
<1>4. CASE phase = "up"
  <2>1. EnqueueAll(one)
    BY <1>4, <1>p DEF Put
  <2>2. PICK m \in 0..Len(one) : /\ queue' = queue \o SubSeq(one, 1, m)
                                 /\ lost' = (lost \cup Affected(one)) \ Affected(SubSeq(one, 1, m))
    BY <1>1, <1>3, <2>1, Enqueued
  <2>3. SubSeq(one, 1, 0) = <<>> /\ SubSeq(one, 1, Len(one)) = one
    BY <1>3, SubSeqEmpty, SubSeqFull
  <2>4. m = 0 \/ m = Len(one)
    BY <1>3
  <2>5. SubSeq(one, 1, m) \in {<<>>, one}
    BY <2>3, <2>4
  <2>6. QED
    BY <1>p, <2>2, <2>5
<1>5. CASE phase # "up"
  <2>1. queue' = q /\ lost' = lost \cup {<<k, s>>}
    BY <1>5, <1>p DEF Put
  <2>2. q \o <<>> = q
    BY <1>1, <1>p, ConcatEmptySeq
  <2>3. Affected(one) = {<<k, s>>}
    <3>1. 1..Len(one) = {1} /\ one[1].sess = s /\ one[1].kind = k /\ k # "delete"
      BY <1>3 DEF Kinds
    <3>2. Affected(one) = {x \in Kinds \X Keys : s = x[2] /\ k \in {x[1], "delete"}}
      BY <3>1 DEF Affected
    <3>3. \A x \in Kinds \X Keys : s = x[2] /\ k \in {x[1], "delete"} <=> x = <<k, s>>
      BY <3>1
    <3>4. QED
      BY <3>2, <3>3
  <2>4. \A none : none = <<>> => Affected(none) = {}
    <3>1. ASSUME NEW none, none = <<>> PROVE Affected(none) = {}
      <4>1. Len(none) = 0
        BY <3>1, EmptySeq
      <4>2. 1..Len(none) = {}
        BY <4>1
      <4>3. QED
        BY <4>2 DEF Affected
    <3>2. QED
      BY <3>1
  <2>5. queue' = queue \o <<>> /\ lost' = (lost \cup Affected(<<e>>)) \ Affected(<<>>)
    BY <1>p, <2>1, <2>2, <2>3, <2>4
  <2>6. QED
    BY <2>5
<1>6. QED
  BY <1>4, <1>5

LEMMA PutInv ==
  ASSUME StateInv, NEW k \in Kinds, NEW s \in Keys, Put(k, s)
  PROVE  StateInv'
<1>p. PICK v, e, was, new, q, one :
        /\ v = writes + 1 /\ e = [kind |-> k, sess |-> s, val |-> v] /\ one = <<e>>
        /\ was = cache /\ new = truth' /\ q = queue
  OBVIOUS
<1>1. /\ phase # "down" /\ writes' = v /\ new = With(truth, k, s, v)
      /\ stale' = stale \ {<<k, s>>} /\ Touch(s, With(was, k, s, v))
      /\ UNCHANGED <<phase, starts, todo, batch, db, durable>>
  BY <1>p DEF Put
<1>2. /\ StateTypes /\ MemoryIsSound /\ Mirrored /\ Ordered(db, durable, batch, queue, writes)
      /\ was \in Tables /\ truth \in Tables /\ db \in Tables /\ durable \in Tables
      /\ q \in Seq(Events) /\ batch \in Seq(Events) /\ writes \in Nat /\ v \in Nat
  BY <1>p DEF StateInv, SidecarInv, StateTypes
<1>3. e \in Events /\ one \in Seq(Events) /\ e.val = v /\ e.kind = k /\ e.sess = s /\ k # "delete"
  BY <1>p, <1>2 DEF Events, Kinds
<1>4. PICK c : c = With(was, k, s, v)
  OBVIOUS
<1>5. /\ new \in Tables /\ c \in Tables
      /\ \A j \in Kinds, x \in Keys : /\ new[j][x] = IF j = k /\ x = s THEN v ELSE truth[j][x]
                                      /\ c[j][x] = IF j = k /\ x = s THEN v ELSE was[j][x]
  <2>1. ASSUME NEW store \in Tables
        PROVE  /\ With(store, k, s, v) \in Tables
               /\ \A j \in Kinds, x \in Keys :
                    With(store, k, s, v)[j][x] = IF j = k /\ x = s THEN v ELSE store[j][x]
    <3>1. v \in Nat
      BY <1>2
    <3>2. QED
      BY <3>1, Writes
  <2>2. With(was, k, s, v) \in Tables /\ With(truth, k, s, v) \in Tables
    BY <1>2, <2>1
  <2>3. \A j \in Kinds, x \in Keys :
          /\ With(was, k, s, v)[j][x] = IF j = k /\ x = s THEN v ELSE was[j][x]
          /\ With(truth, k, s, v)[j][x] = IF j = k /\ x = s THEN v ELSE truth[j][x]
    BY <1>2, <2>1
  <2>4. QED
    BY <1>1, <1>4, <2>2, <2>3
<1>6. /\ \A j \in Kinds, x \in Keys : <<j, x>> \notin stale => was[j][x] \in {Nothing, truth[j][x]}
      /\ Holders(was) \subseteq Resident \cup ToSet(todo)
  BY <1>1, <1>2, <1>p DEF MemoryIsSound
<1>7. ASSUME NEW j \in Kinds, NEW x \in Keys, <<j, x>> \notin stale'
      PROVE  c[j][x] \in {Nothing, new[j][x]}
  <2>1. CASE j = k /\ x = s
    BY <1>5, <2>1
  <2>2. CASE ~(j = k /\ x = s)
    <3>1. <<j, x>> # <<k, s>>
      BY <2>2
    <3>2. <<j, x>> \notin stale
      BY <1>1, <1>7, <3>1
    <3>3. QED
      BY <1>5, <1>6, <2>2, <3>2
  <2>3. QED
    BY <2>1, <2>2
<1>8. Holders(c) \subseteq Holders(was) \cup {s}
  BY <1>5 DEF Holders
<1>9. cache' \in Tables /\ MemoryIsSound'
  <2>1. Holders(c) \subseteq Resident \cup ToSet(todo') \cup {s}
    BY <1>1, <1>6, <1>8
  <2>2. Touch(s, c) /\ phase # "down" /\ truth' \in Tables
    BY <1>1, <1>4, <1>5, <1>p
  <2>3. QED
    BY <1>2, <1>5, <1>7, <1>p, <2>1, <2>2, TouchSound
<1>10. PICK part \in {<<>>, <<e>>} :
         queue' = q \o part /\ lost' = (lost \cup Affected(<<e>>)) \ Affected(part)
  BY <1>p, PutQueues
<1>11. \/ part = <<>> /\ queue' = q
       \/ part = one /\ queue' = Append(q, e)
  <2>1. q \o <<>> = q /\ q \o <<e>> = Append(q, e)
    BY <1>2, <1>3, ConcatEmptySeq, AppendIsConcat
  <2>2. QED
    BY <1>10, <1>p, <2>1
<1>12. queue' \in Seq(Events) /\ Ordered(db, durable, batch, queue', v)
  <2>1. Ordered(db, durable, batch, q, v) /\ Ordered(db, durable, batch, Append(q, e), v)
    BY <1>2, <1>3, <1>p, OrderGrows
  <2>2. Append(q, e) \in Seq(Events)
    BY <1>2, <1>3, AppendProperties
  <2>3. QED
    BY <1>2, <1>11, <2>1, <2>2
<1>13. Mirrored'
  <2>0. part \in Seq(Events)
    BY <1>3, <1>11, EmptySeq
  <2>1. ASSUME NEW j \in Kinds, NEW x \in Keys
        PROVE  <<j, x>> \in Affected(one) <=> j = k /\ x = s
    <3>1. Len(one) = 1 /\ one[1] = e
      BY <1>p
    <3>2. 1..Len(one) = {1}
      BY <3>1
    <3>3. <<j, x>> \in Affected(one) <=> Hits(e, j, x)
      BY <3>1, <3>2, AffectedPairs
    <3>4. QED
      BY <1>3, <3>3 DEF Hits
  <2>2. ASSUME NEW store \in Tables PROVE ApplyAll(store, one) = ApplyEvent(store, e)
    <3>1. ApplyAll(store, Append(<<>>, e)) = ApplyEvent(ApplyAll(store, <<>>), e)
      BY <1>3, EmptySeq, ApplyMore
    <3>2. Append(<<>>, e) = one
      BY <1>p
    <3>3. QED
      BY <3>1, <3>2, ApplyNone
  <2>3. ASSUME NEW store \in Tables, NEW j \in Kinds, NEW x \in Keys, <<j, x>> \in Affected(part)
        PROVE  ApplyAll(store, part)[j][x] = new[j][x]
    <3>1. part = one
      BY <1>11, <2>3, AffectedNone
    <3>2. j = k /\ x = s
      BY <2>1, <2>3, <3>1
    <3>3. Hits(e, j, x) /\ e.kind # "delete"
      BY <1>3, <3>2 DEF Hits
    <3>4. ApplyEvent(store, e)[j][x] = v
      BY <1>3, <3>3, EventOnRow
    <3>5. QED
      BY <1>5, <2>2, <3>1, <3>2, <3>4
  <2>4. ASSUME NEW j \in Kinds, NEW x \in Keys, <<j, x>> \notin Affected(one)
        PROVE  new[j][x] = truth[j][x]
    BY <1>5, <2>1, <2>4
  <2>5. Agree(durable, batch, q, truth, lost) /\ Agree(db, batch, q, truth, lost)
    BY <1>2, <1>p DEF Mirrored
  <2>6. Brings(part, new)
    BY <2>3 DEF Brings
  <2>7. DiffersBy(truth, new, one)
    BY <2>4 DEF DiffersBy
  <2>8. Agree(durable, batch, q \o part, new, (lost \cup Affected(one)) \ Affected(part))
    BY <1>2, <2>0, <2>5, <2>6, <2>7, AgreeQueued
  <2>9. Agree(db, batch, q \o part, new, (lost \cup Affected(one)) \ Affected(part))
    BY <1>2, <2>0, <2>5, <2>6, <2>7, AgreeQueued
  <2>10. QED
    BY <1>1, <1>10, <1>p, <2>8, <2>9 DEF Mirrored
<1>14. StateTypes'
  BY <1>1, <1>2, <1>5, <1>9, <1>12, <1>p DEF StateTypes
<1>15. QED
  BY <1>1, <1>9, <1>12, <1>13, <1>14 DEF StateInv, SidecarInv

\* Steps that leave the sidecar alone.
LEMMA SidecarRests ==
  ASSUME StateInv, UNCHANGED <<writes, queue, batch, db, durable, truth, lost>>, phase' # "down"
  PROVE  SidecarInv'
BY DEF StateInv, SidecarInv, Mirrored

\* Steps that leave the memory alone.
LEMMA MemoryRests ==
  ASSUME StateInv, UNCHANGED <<arcVars, cache, todo, truth, stale>>, phase = "down" => phase' = "down"
  PROVE  MemoryIsSound'
BY DEF StateInv, MemoryIsSound, arcVars, Resident

LEMMA GetInv ==
  ASSUME StateInv, NEW k \in Kinds, NEW s \in Keys, Get(k, s)
  PROVE  StateInv'
<1>1. /\ phase \in {"up", "stopping"} /\ Touch(s, cache)
      /\ UNCHANGED <<phase, starts, writes, todo, queue, batch, db, durable, truth, lost, stale>>
  BY DEF Get
<1>2. StateTypes /\ MemoryIsSound /\ cache \in Tables /\ truth \in Tables
  BY DEF StateInv, StateTypes
<1>p. PICK c : c = cache
  OBVIOUS
<1>3. /\ \A j \in Kinds, x \in Keys : <<j, x>> \notin stale' => c[j][x] \in {Nothing, truth'[j][x]}
      /\ Holders(c) \subseteq Resident \cup ToSet(todo')
  BY <1>1, <1>2, <1>p DEF MemoryIsSound
<1>4. cache' \in Tables /\ MemoryIsSound'
  BY <1>1, <1>2, <1>3, <1>p, TouchSound
<1>5. QED
  BY <1>1, <1>2, <1>4, SidecarRests DEF StateInv, StateTypes

LEMMA RestoreInv ==
  ASSUME StateInv, Restore
  PROVE  StateInv'
<1>1. /\ phase = "restoring" /\ todo # <<>> /\ Touch(Head(todo), cache) /\ todo' = Tail(todo)
      /\ UNCHANGED <<phase, starts, writes, queue, batch, db, durable, truth, lost, stale>>
  BY DEF Restore
<1>2. StateTypes /\ MemoryIsSound /\ cache \in Tables /\ truth \in Tables /\ todo \in Seq(Keys)
  BY DEF StateInv, StateTypes
<1>p. PICK c, s, all, rest : c = cache /\ s = Head(todo) /\ all = todo /\ rest = Tail(todo)
  OBVIOUS
<1>3. /\ s \in Keys /\ rest \in Seq(Keys) /\ Len(all) \in Nat
      /\ Len(rest) = Len(all) - 1 /\ \A i \in 1..Len(rest) : rest[i] = all[i + 1]
  BY <1>1, <1>2, <1>p, HeadTailProperties, LenProperties
<1>4. ToSet(all) \subseteq ToSet(rest) \cup {s}
  <2>1. ASSUME NEW x \in ToSet(all) PROVE x \in ToSet(rest) \cup {s}
    <3>1. PICK i \in 1..Len(all) : x = all[i]
      BY <1>2, <1>p, LenProperties DEF ToSet
    <3>2. CASE i = 1
      BY <1>p, <3>1, <3>2
    <3>3. CASE i # 1
      <4>1. i - 1 \in 1..Len(rest) /\ rest[i - 1] = all[i]
        BY <1>3, <3>3
      <4>2. QED
        BY <1>3, <3>1, <4>1, LenProperties DEF ToSet
    <3>4. QED
      BY <3>2, <3>3
  <2>2. QED
    BY <2>1
<1>5. /\ \A j \in Kinds, x \in Keys : <<j, x>> \notin stale' => c[j][x] \in {Nothing, truth'[j][x]}
      /\ Holders(c) \subseteq Resident \cup ToSet(todo') \cup {s}
  BY <1>1, <1>2, <1>4, <1>p DEF MemoryIsSound
<1>6. cache' \in Tables /\ MemoryIsSound'
  BY <1>1, <1>2, <1>3, <1>5, <1>p, TouchSound
<1>7. QED
  BY <1>1, <1>2, <1>3, <1>6, <1>p, SidecarRests DEF StateInv, StateTypes

\* Each session that is gone is deleted twice, and no other.
LEMMA TwiceDeleted ==
  ASSUME NEW gone \in SUBSET Keys, NEW ids \in SetToSeqs(gone),
         NEW es, es = [i \in 1..2 * Len(ids) |-> Deletion(ids[(i + 1) \div 2])]
  PROVE  es \in Seq(Events) /\ AllDeletions(es) /\ Deleted(es) = gone
<1>p. PICK n : n = Len(ids)
  OBVIOUS
<1>1. ids \in Seq(gone) /\ n \in Nat /\ \A x \in gone : \E i \in 1..n : ids[i] = x
  BY <1>p, SeqsCover, ArcAssumption, FS_Subset
<1>2. 2 * n \in Nat /\ es = [i \in 1..2 * n |-> Deletion(ids[(i + 1) \div 2])]
  BY <1>1, <1>p
<1>3. ASSUME NEW i \in 1..2 * n
      PROVE  /\ (i + 1) \div 2 \in 1..n /\ ids[(i + 1) \div 2] \in gone
             /\ es[i] = Deletion(ids[(i + 1) \div 2])
  <2>1. (i + 1) \div 2 \in 1..n
    BY <1>1
  <2>2. ids[(i + 1) \div 2] \in gone
    BY <1>1, <1>p, <2>1, ElementOfSeq
  <2>3. es[i] = Deletion(ids[(i + 1) \div 2])
    BY <1>2
  <2>4. QED
    BY <2>1, <2>2, <2>3
<1>4. ASSUME NEW x \in Keys
      PROVE  Deletion(x) \in Events /\ Deletion(x).kind = "delete" /\ Deletion(x).sess = x
  BY DEF Deletion, Events, Nothing
<1>5. ASSUME NEW i \in 1..2 * n PROVE es[i] \in Events /\ es[i].kind = "delete" /\ es[i].sess \in gone
  <2>1. PICK x \in gone : es[i] = Deletion(x)
    BY <1>3
  <2>2. QED
    BY <1>4, <2>1
<1>6. es \in Seq(Events) /\ Len(es) = 2 * n
  <2>1. PICK len \in Nat : len = 2 * n
    BY <1>2
  <2>2. es = [i \in 1..len |-> Deletion(ids[(i + 1) \div 2])]
    BY <1>2, <2>1
  <2>3. \A i \in 1..len : es[i] \in Events
    BY <1>5, <2>1
  <2>4. es \in [1..len -> Events]
    BY <2>2, <2>3
  <2>5. es \in Seq(Events) /\ Len(es) = len
    BY <2>4, ListOf, Zenon
  <2>7. QED
    BY <2>1, <2>5
<1>7. AllDeletions(es)
  BY <1>5, <1>6 DEF AllDeletions
<1>8. ASSUME NEW x \in gone PROVE x \in Deleted(es)
  <2>1. PICK i \in 1..n : ids[i] = x
    BY <1>1
  <2>2. 2 * i \in 1..2 * n /\ (2 * i + 1) \div 2 = i
    BY <1>1
  <2>3. es[2 * i] = Deletion(x)
    BY <1>3, <2>1, <2>2
  <2>4. QED
    BY <1>4, <1>6, <2>2, <2>3 DEF Deleted
<1>9. Deleted(es) \subseteq gone
  BY <1>5, <1>6 DEF Deleted
<1>10. QED
  BY <1>6, <1>7, <1>8, <1>9

LEMMA PruneInv ==
  ASSUME StateInv, NEW gone \in SUBSET Keys, Prune(gone)
  PROVE  StateInv'
<1>1. /\ phase = "up" /\ cache' = Cleared(gone) /\ truth' = Without(truth, gone) /\ Forget(gone)
      /\ stale' = stale \ (Kinds \X gone)
      /\ UNCHANGED <<phase, starts, writes, todo, batch, db, durable>>
  BY DEF Prune
<1>2. PICK ids \in SetToSeqs(gone) :
        EnqueueAll([i \in 1..2 * Len(ids) |-> Deletion(ids[(i + 1) \div 2])])
  BY DEF Prune
<1>3. PICK es : es = [i \in 1..2 * Len(ids) |-> Deletion(ids[(i + 1) \div 2])]
  OBVIOUS
<1>4. es \in Seq(Events) /\ AllDeletions(es) /\ Deleted(es) = gone
  BY <1>3, TwiceDeleted
<1>p. PICK c, q, was, new : c = cache /\ q = queue /\ was = truth /\ new = truth'
  OBVIOUS
<1>5. /\ StateTypes /\ MemoryIsSound /\ Mirrored /\ Ordered(db, durable, batch, q, writes)
      /\ c \in Tables /\ was \in Tables /\ db \in Tables /\ durable \in Tables
      /\ q \in Seq(Events) /\ batch \in Seq(Events) /\ writes \in Nat
  BY <1>p DEF StateInv, SidecarInv, StateTypes
<1>6. PICK m \in 0..Len(es) : queue' = q \o SubSeq(es, 1, m) /\ lost' = (lost \cup Affected(es)) \ Affected(SubSeq(es, 1, m))
  <2>1. EnqueueAll(es) /\ queue \in Seq(Events)
    BY <1>2, <1>3, <1>5, <1>p
  <2>2. QED
    BY <1>4, <1>p, <2>1, Enqueued
<1>7. PICK part : part = SubSeq(es, 1, m)
  OBVIOUS
<1>8. part \in Seq(Events) /\ AllDeletions(part) /\ Deleted(part) \subseteq gone
  <2>1. 1 \in 1..(Len(es) + 1)
    BY <1>4, LenProperties
  <2>2. /\ part \in Seq(Events)
        /\ \A i \in 1..Len(part) : part[i] = es[1 + i - 1] /\ 1 + i - 1 \in 1..Len(es)
    BY <1>4, <1>7, <2>1, PartOf
  <2>3. QED
    BY <1>4, <2>2 DEF AllDeletions, Deleted
<1>9. queue' \in Seq(Events) /\ Ordered(db, durable, batch, queue', writes)
  BY <1>5, <1>6, <1>7, <1>8, ConcatProperties, OrderPruned
<1>10. /\ Cleared(gone) \in Tables /\ new \in Tables
       /\ \A k \in Kinds, s \in Keys :
            /\ Cleared(gone)[k][s] = IF s \in gone THEN Nothing ELSE c[k][s]
            /\ new[k][s] = IF s \in gone THEN Nothing ELSE was[k][s]
  BY <1>1, <1>5, <1>p, Clears DEF Cleared
<1>11. MemoryIsSound'
  <2>1. \A k \in Kinds, s \in Keys : <<k, s>> \notin stale => c[k][s] \in {Nothing, was[k][s]}
    BY <1>5, <1>p DEF MemoryIsSound
  <2>2. Holders(c) \subseteq Resident \cup ToSet(todo)
    BY <1>1, <1>5, <1>p DEF MemoryIsSound
  <2>3. ASSUME NEW k \in Kinds, NEW s \in Keys, <<k, s>> \notin stale'
        PROVE  cache'[k][s] \in {Nothing, truth'[k][s]}
    <3>1. CASE s \in gone
      BY <1>1, <1>10, <3>1
    <3>2. CASE s \notin gone
      <4>1. <<k, s>> \notin stale
        BY <1>1, <2>3, <3>2
      <4>2. QED
        BY <1>1, <1>10, <1>p, <2>1, <3>2, <4>1
    <3>3. QED
      BY <3>1, <3>2
  <2>4. Holders(cache') \subseteq Holders(c) \ gone
    BY <1>1, <1>10 DEF Holders
  <2>5. Resident' = Resident \ gone
    BY <1>1 DEF Forget, Resident
  <2>6. QED
    BY <1>1, <2>2, <2>3, <2>4, <2>5 DEF MemoryIsSound
<1>12. Mirrored'
  <2>1. ASSUME NEW k \in Kinds, NEW s \in Keys
        PROVE  /\ \A x \in Tables : <<k, s>> \in Affected(part) => ApplyAll(x, part)[k][s] = new[k][s]
               /\ <<k, s>> \notin Affected(es) => new[k][s] = was[k][s]
    <3>1. <<k, s>> \in Affected(part) => s \in Deleted(part)
      BY <1>8, AffectedByDeletions
    <3>2. \A x \in Tables : s \in Deleted(part) => ApplyAll(x, part)[k][s] = Nothing
      BY <1>8, AffectedByDeletions
    <3>3. <<k, s>> \notin Affected(es) => s \notin gone
      BY <1>4, AffectedByDeletions
    <3>4. QED
      BY <1>8, <1>10, <3>1, <3>2, <3>3
  <2>2. Agree(durable, batch, q, was, lost) /\ Agree(db, batch, q, was, lost)
    BY <1>5, <1>p DEF Mirrored
  <2>3. Brings(part, new)
    BY <2>1 DEF Brings
  <2>4. DiffersBy(was, new, es)
    BY <2>1 DEF DiffersBy
  <2>5. Agree(durable, batch, q \o part, new, (lost \cup Affected(es)) \ Affected(part))
    BY <1>5, <1>8, <2>2, <2>3, <2>4, AgreeQueued
  <2>6. Agree(db, batch, q \o part, new, (lost \cup Affected(es)) \ Affected(part))
    BY <1>5, <1>8, <2>2, <2>3, <2>4, AgreeQueued
  <2>7. QED
    BY <1>1, <1>6, <1>7, <1>p, <2>5, <2>6 DEF Mirrored
<1>13. StateTypes'
  BY <1>1, <1>5, <1>9, <1>10, <1>p DEF StateTypes
<1>14. QED
  BY <1>1, <1>9, <1>11, <1>12, <1>13 DEF StateInv, SidecarInv

LEMMA TakeBatchInv ==
  ASSUME StateInv, TakeBatch
  PROVE  StateInv'
<1>p. PICK q, len, n, a, z : /\ q = queue /\ len = Len(queue) /\ n = Taken
                             /\ a = SubSeq(q, 1, n) /\ z = SubSeq(q, n + 1, len)
  OBVIOUS
<1>1. /\ phase \in {"up", "stopping"} /\ batch = <<>> /\ q # <<>> /\ batch' = a /\ queue' = z
      /\ UNCHANGED <<arcVars, phase, starts, writes, cache, todo, db, durable, truth, lost, stale>>
  BY <1>p DEF TakeBatch
<1>2. /\ StateTypes /\ MemoryIsSound /\ Mirrored /\ Ordered(db, durable, <<>>, q, writes)
      /\ q \in Seq(Events) /\ durable \in Tables
  BY <1>1, <1>p DEF StateInv, SidecarInv, StateTypes
<1>3. len \in Nat /\ n \in 0..len
  <2>1. len \in Nat /\ len = Len(q)
    BY <1>2, <1>p, LenProperties
  <2>2. QED
    BY <1>p, <2>1, StateAssumption DEF Taken
<1>4. /\ 1 \in 1..(len + 1) /\ n + 1 \in 1..(len + 1) /\ len \in 0..len
      /\ 1 - 1 = 0 /\ len \in n..len /\ n \in 0..len
  BY <1>3
<1>5. a \in Seq(Events) /\ z \in Seq(Events)
  BY <1>2, <1>4, <1>p, PartOf
<1>6. a \o z = q
  <2>1. SubSeq(q, 1, n) \o SubSeq(q, n + 1, len) = SubSeq(q, 1, len)
    <3>1. 1 \in 1..Len(q) + 1 /\ n \in (1 - 1)..Len(q) /\ len \in n..Len(q)
      BY <1>4, <1>p
    <3>2. QED
      BY <1>2, <3>1, ConcatAdjacentSubSeq
  <2>2. SubSeq(q, 1, len) = q
    BY <1>2, <1>p, SubSeqFull
  <2>3. QED
    BY <1>p, <2>1, <2>2
<1>7. Ordered(db, durable, a, z, writes)
  <2>1. n \in 0..Len(q) /\ z = SubSeq(q, n + 1, Len(q))
    BY <1>3, <1>p
  <2>2. QED
    BY <1>2, <1>p, <2>1, OrderTaken
<1>8. ASSUME NEW x PROVE ApplyAll(ApplyAll(x, a), z) = ApplyAll(ApplyAll(x, <<>>), q)
  <2>1. ApplyAll(x, a \o z) = ApplyAll(ApplyAll(x, a), z)
    BY <1>5, ApplyConcat
  <2>2. QED
    BY <1>6, <2>1, ApplyNone
<1>9. Mirrored'
  <2>1. Agree(durable, <<>>, q, truth, lost) /\ Agree(db, <<>>, q, truth, lost)
    BY <1>1, <1>2, <1>p DEF Mirrored
  <2>2. Agree(durable, a, z, truth, lost) /\ Agree(db, a, z, truth, lost)
    BY <1>8, <2>1 DEF Agree
  <2>3. QED
    BY <1>1, <2>2 DEF Mirrored
<1>10. StateTypes'
  BY <1>1, <1>2, <1>5 DEF StateTypes
<1>11. QED
  BY <1>1, <1>7, <1>9, <1>10, MemoryRests DEF StateInv, SidecarInv

\* The events of a batch that are executed, and what they leave in the tables.
LEMMA Executed ==
  ASSUME StateInv, NEW n \in 0..Len(batch), NEW new, new = ApplyAll(db, SubSeq(batch, 1, n))
  PROVE  /\ new \in Tables /\ Ordered(new, durable, <<>>, queue, writes)
         /\ Ordered(new, new, <<>>, queue, writes) /\ Lasting(durable, new)
<1>1. /\ db \in Tables /\ durable \in Tables /\ batch \in Seq(Events) /\ queue \in Seq(Events)
      /\ writes \in Nat /\ Ordered(db, durable, batch, queue, writes)
  BY DEF StateInv, StateTypes, SidecarInv
<1>2. QED
  BY <1>1, OrderApplied

LEMMA FlushBatchInv ==
  ASSUME StateInv, FlushBatch
  PROVE  StateInv' /\ Lasting(durable, durable')
<1>p. PICK b, n, new : b = batch /\ n = Len(batch) /\ new = ApplyAll(db, batch)
  OBVIOUS
<1>1. /\ b # <<>> /\ db' = new /\ durable' = new /\ batch' = <<>>
      /\ UNCHANGED <<arcVars, phase, starts, writes, cache, todo, queue, truth, lost, stale>>
  BY <1>p DEF FlushBatch
<1>2. StateTypes /\ Mirrored /\ b \in Seq(Events)
  BY <1>p DEF StateInv, StateTypes, SidecarInv
<1>3. n \in 0..n /\ SubSeq(b, 1, n) = b
  BY <1>2, <1>p, SubSeqFull, LenProperties
<1>4. new \in Tables /\ Ordered(new, new, <<>>, queue, writes) /\ Lasting(durable, new)
  BY <1>3, <1>p, Executed
<1>5. Mirrored'
  <2>1. ApplyAll(new, <<>>) = new
    BY ApplyNone
  <2>2. Agree(new, <<>>, queue, truth, lost)
    BY <1>2, <1>p, <2>1 DEF Mirrored, Agree
  <2>3. phase # "down"
    BY <1>1, <1>2, <1>p DEF Mirrored
  <2>4. QED
    BY <1>1, <2>2, <2>3 DEF Mirrored
<1>6. StateTypes'
  BY <1>1, <1>2, <1>4, EmptySeq DEF StateTypes
<1>7. QED
  BY <1>1, <1>4, <1>5, <1>6, MemoryRests DEF StateInv, SidecarInv

LEMMA FlushFailsInv ==
  ASSUME StateInv, NEW n \in 0..BatchMax, FlushFails(n)
  PROVE  StateInv'
<1>p. PICK b, new : b = batch /\ new = ApplyAll(db, SubSeq(batch, 1, n))
  OBVIOUS
<1>1. /\ b # <<>> /\ n \in 0..Len(b) /\ db' = new /\ batch' = <<>>
      /\ lost' = lost \cup (Affected(b) \ Affected(queue))
      /\ UNCHANGED <<arcVars, phase, starts, writes, cache, todo, queue, durable, truth, stale>>
  BY <1>p DEF FlushFails
<1>2. StateTypes /\ Mirrored
  BY DEF StateInv, SidecarInv
<1>3. new \in Tables /\ Ordered(new, durable, <<>>, queue, writes)
  BY <1>1, <1>p, Executed
<1>4. Mirrored'
  <2>p. PICK gaps : gaps = lost \cup (Affected(b) \ Affected(queue))
    OBVIOUS
  <2>1. /\ db \in Tables /\ durable \in Tables /\ b \in Seq(Events) /\ queue \in Seq(Events)
        /\ Agree(durable, b, queue, truth, lost) /\ Agree(db, b, queue, truth, lost)
    BY <1>2, <1>p DEF StateTypes, Mirrored
  <2>2. Agree(new, <<>>, queue, truth, gaps)
    BY <1>1, <1>p, <2>1, <2>p, AgreeCut
  <2>3. Agree(durable, <<>>, queue, truth, gaps)
    BY <2>1, <2>p, AgreeKept
  <2>4. phase # "down"
    BY <1>1, <1>2, <1>p DEF Mirrored
  <2>5. QED
    BY <1>1, <2>2, <2>3, <2>4, <2>p DEF Mirrored
<1>5. StateTypes'
  BY <1>1, <1>2, <1>3, EmptySeq DEF StateTypes
<1>6. QED
  BY <1>1, <1>3, <1>4, <1>5, MemoryRests DEF StateInv, SidecarInv

\* The process ends, and leaves this in the database.
LEMMA DownInv ==
  ASSUME StateInv, NEW left \in Tables, GoDown(left),
         \E q : Ordered(left, left, <<>>, q, writes), Agree(left, <<>>, <<>>, truth, lost')
  PROVE  StateInv'
<1>1. /\ phase' = "down" /\ cache' = Empty /\ todo' = <<>> /\ queue' = <<>> /\ batch' = <<>>
      /\ db' = left /\ durable' = left /\ UNCHANGED <<starts, writes, truth>>
  BY DEF GoDown
<1>2. StateTypes'
  BY <1>1, EmptyIsTables, EmptySeq DEF StateInv, StateTypes
<1>3. MemoryIsSound'
  BY <1>1, EmptyIsTables DEF MemoryIsSound
<1>4. Mirrored'
  BY <1>1 DEF Mirrored
<1>5. Ordered(left, left, <<>>, <<>>, writes)
  <2>1. Rising(<<>>)
    BY DEF Rising
  <2>2. QED
    BY <2>1, StoredNone DEF Ordered, Below
<1>6. QED
  BY <1>1, <1>2, <1>3, <1>4, <1>5 DEF StateInv, SidecarInv

LEMMA StopFlushedInv ==
  ASSUME StateInv, StopFlushed
  PROVE  StateInv' /\ Lasting(durable, durable')
<1>1. /\ queue = <<>> /\ batch = <<>> /\ GoDown(db) /\ UNCHANGED lost /\ durable' = db
  BY DEF StopFlushed, GoDown
<1>2. StateTypes /\ Mirrored /\ Ordered(db, durable, batch, queue, writes)
  BY DEF StateInv, SidecarInv
<1>3. PICK new : new = ApplyAll(db, SubSeq(batch, 1, 0))
  OBVIOUS
<1>4. new = db
  <2>1. SubSeq(batch, 1, 0) = <<>>
    BY SubSeqEmpty
  <2>2. QED
    BY <1>3, <2>1, ApplyNone
<1>5. db \in Tables /\ Ordered(db, db, <<>>, queue, writes) /\ Lasting(durable, db)
  <2>1. 0 \in 0..Len(batch)
    BY <1>2, LenProperties DEF StateTypes
  <2>2. QED
    BY <1>3, <1>4, <2>1, Executed
<1>6. Agree(db, <<>>, <<>>, truth, lost')
  BY <1>1, <1>2 DEF Mirrored
<1>7. QED
  BY <1>1, <1>5, <1>6, DownInv

LEMMA StopTimeoutInv ==
  ASSUME StateInv, NEW n \in 0..BatchMax, StopTimeout(n)
  PROVE  StateInv' /\ Lasting(durable, durable')
<1>p. PICK new : new = ApplyAll(db, SubSeq(batch, 1, n))
  OBVIOUS
<1>1. /\ n \in 0..Len(batch) /\ GoDown(new) /\ durable' = new
      /\ lost' = lost \cup Affected(SubSeq(batch, n + 1, Len(batch)) \o queue)
  BY <1>p DEF StopTimeout, GoDown
<1>2. new \in Tables /\ Ordered(new, new, <<>>, queue, writes) /\ Lasting(durable, new)
  BY <1>1, <1>p, Executed
<1>3. /\ db \in Tables /\ batch \in Seq(Events) /\ queue \in Seq(Events)
      /\ Agree(db, batch, queue, truth, lost)
  BY DEF StateInv, StateTypes, SidecarInv, Mirrored
<1>4. Agree(new, <<>>, <<>>, truth, lost')
  BY <1>1, <1>3, <1>p, AgreeCut
<1>5. QED
  BY <1>1, <1>2, <1>4, DownInv

LEMMA CrashInv ==
  ASSUME StateInv, Crash
  PROVE  StateInv' /\ durable' = durable
<1>1. GoDown(durable) /\ durable' = durable /\ lost' = lost \cup Affected(batch \o queue)
  BY DEF Crash, GoDown
<1>3. StateTypes /\ Mirrored /\ Ordered(db, durable, batch, queue, writes) /\ durable \in Tables
  BY DEF StateInv, SidecarInv, StateTypes
<1>4. Ordered(durable, durable, <<>>, <<>>, writes)
  <2>1. Rising(<<>>)
    BY DEF Rising
  <2>2. \A k \in Kinds, s \in Keys : durable[k][s] \in Nat
    BY <1>3 DEF Tables
  <2>3. Lasting(durable, durable)
    BY <2>2 DEF Lasting
  <2>4. QED
    BY <1>3, <2>1, <2>3, StoredNone DEF Ordered, Below
<1>5. Agree(durable, <<>>, <<>>, truth, lost')
  <2>1. /\ batch \in Seq(Events) /\ queue \in Seq(Events)
        /\ Agree(durable, batch, queue, truth, lost)
    BY <1>3 DEF StateTypes, Mirrored
  <2>2. QED
    BY <1>1, <1>3, <2>1, AgreeKept
<1>6. QED
  BY <1>1, <1>3, <1>4, <1>5, DownInv

LEMMA StartInv ==
  ASSUME StateInv, Start
  PROVE  StateInv'
<1>p. PICK d, B, S : /\ d = durable
                     /\ B = {s \in Keys : durable["briefing"][s] # Nothing}
                     /\ S = {s \in Keys : durable["snapshot"][s] # Nothing}
  OBVIOUS
<1>1. /\ phase = "down" /\ phase' = "restoring" /\ cache' = d /\ stale' = lost
      /\ UNCHANGED <<arcVars, writes, queue, batch, db, durable, truth, lost>>
  BY <1>p DEF Start
<1>2. PICK first \in SetToSeqs(B), then \in SetToSeqs(S) : todo' = first \o then
  BY <1>p DEF Start
<1>3. /\ StateTypes /\ Mirrored /\ Ordered(db, durable, batch, queue, writes) /\ d \in Tables
      /\ queue = <<>> /\ batch = <<>> /\ db = durable
  BY <1>1, <1>p DEF StateInv, SidecarInv, Mirrored, StateTypes
<1>4. IsFiniteSet(B) /\ IsFiniteSet(S) /\ B \subseteq Keys /\ S \subseteq Keys
  BY <1>p, ArcAssumption, FS_Subset
<1>5. /\ first \in Seq(B) /\ Len(first) \in Nat /\ \A x \in B : \E i \in 1..Len(first) : first[i] = x
      /\ then \in Seq(S) /\ Len(then) \in Nat /\ \A x \in S : \E i \in 1..Len(then) : then[i] = x
  BY <1>4, SeqsCover
<1>6. first \in Seq(Keys) /\ then \in Seq(Keys)
  BY <1>4, <1>5, SeqMonotonic
<1>7. PICK all, m, n : all = first \o then /\ m = Len(first) /\ n = Len(then)
  OBVIOUS
<1>8. /\ all \in Seq(Keys) /\ Len(all) = m + n
      /\ \A i \in 1..(m + n) : all[i] = IF i <= m THEN first[i] ELSE then[i - m]
  BY <1>6, <1>7, ConcatProperties
<1>9. B \cup S \subseteq ToSet(all)
  <2>1. ToSet(all) = {all[i] : i \in 1..(m + n)}
    BY <1>8, LenProperties DEF ToSet
  <2>2. ASSUME NEW x \in B PROVE x \in ToSet(all)
    <3>1. PICK i \in 1..m : first[i] = x
      BY <1>5, <1>7
    <3>2. i \in 1..(m + n) /\ i <= m
      BY <1>5, <1>7
    <3>3. all[i] = x
      BY <1>8, <3>1, <3>2
    <3>4. QED
      BY <2>1, <3>2, <3>3
  <2>3. ASSUME NEW x \in S PROVE x \in ToSet(all)
    <3>1. PICK i \in 1..n : then[i] = x
      BY <1>5, <1>7
    <3>2. PICK j : j = m + i
      OBVIOUS
    <3>3. j \in 1..(m + n) /\ ~(j <= m) /\ j - m = i
      BY <1>5, <1>7, <3>2
    <3>4. all[j] = then[j - m]
      BY <1>8, <3>3
    <3>5. QED
      BY <2>1, <3>1, <3>3, <3>4
  <2>4. QED
    BY <2>2, <2>3
<1>10. Holders(d) \subseteq B \cup S
  BY <1>p DEF Holders, Kinds
<1>11. MemoryIsSound'
  <2>1. Agree(durable, <<>>, <<>>, truth, lost)
    BY <1>3 DEF Mirrored
  <2>2. \A k \in Kinds, s \in Keys : <<k, s>> \notin lost => d[k][s] = truth[k][s]
    BY <1>p, <2>1, ApplyNone DEF Agree
  <2>3. QED
    BY <1>1, <1>2, <1>7, <1>9, <1>10, <2>2 DEF MemoryIsSound
<1>12. StateTypes'
  BY <1>1, <1>2, <1>3, <1>7, <1>8 DEF StateTypes
<1>13. Mirrored'
  BY <1>1, <1>3 DEF Mirrored
<1>14. QED
  BY <1>1, <1>3, <1>11, <1>12, <1>13 DEF StateInv, SidecarInv

LEMMA PhaseInv ==
  ASSUME StateInv, BeginStop \/ Restored
  PROVE  StateInv'
<1>1. /\ phase # "down" /\ phase' # "down"
      /\ UNCHANGED <<arcVars, starts, writes, cache, todo, queue, batch, db, durable, truth, lost, stale>>
  BY DEF BeginStop, Restored
<1>2. StateTypes'
  BY <1>1 DEF StateInv, StateTypes
<1>3. QED
  BY <1>1, <1>2, MemoryRests, SidecarRests DEF StateInv

LEMMA StateKept == StateInv /\ [StateNext]_stateVars => StateInv'
<1>. SUFFICES ASSUME StateInv, [StateNext]_stateVars PROVE StateInv'
  OBVIOUS
<1>1. ASSUME NEW k \in Kinds, NEW s \in Keys, Put(k, s) PROVE StateInv'
  BY <1>1, PutInv
<1>2. ASSUME NEW k \in Kinds, NEW s \in Keys, Get(k, s) PROVE StateInv'
  BY <1>2, GetInv
<1>3. ASSUME NEW gone \in SUBSET Keys, Prune(gone) PROVE StateInv'
  BY <1>3, PruneInv
<1>4. CASE TakeBatch
  BY <1>4, TakeBatchInv
<1>5. CASE FlushBatch
  BY <1>5, FlushBatchInv
<1>6. ASSUME NEW n \in 0..BatchMax, FlushFails(n) PROVE StateInv'
  BY <1>6, FlushFailsInv
<1>7. ASSUME NEW n \in 0..BatchMax, StopTimeout(n) PROVE StateInv'
  BY <1>7, StopTimeoutInv
<1>8. CASE BeginStop \/ Restored
  BY <1>8, PhaseInv
<1>9. CASE StopFlushed
  BY <1>9, StopFlushedInv
<1>10. CASE Crash
  BY <1>10, CrashInv
<1>11. CASE Start
  BY <1>11, StartInv
<1>12. CASE Restore
  BY <1>12, RestoreInv
<1>13. CASE UNCHANGED stateVars
  <2>1. UNCHANGED <<arcVars, phase, starts, writes, cache, todo, queue, batch, db, durable, truth, lost, stale>>
    BY <1>13 DEF stateVars
  <2>2. StateTypes' /\ Mirrored' /\ Ordered(db', durable', batch', queue', writes')
    BY <2>1 DEF StateInv, StateTypes, SidecarInv, Mirrored
  <2>3. QED
    BY <2>1, <2>2, MemoryRests DEF StateInv, SidecarInv
<1>14. QED
  BY <1>1, <1>2, <1>3, <1>4, <1>5, <1>6, <1>7, <1>8, <1>9, <1>10, <1>11, <1>12, <1>13 DEF StateNext

\* What is cached for a session is the last value written for it over crashes
\* and restarts, and a deleted one does not return, except where that write or
\* deletion was lost before the last start; and only residents of the working
\* set have data, or sessions restore_caches has still to seed: for any number
\* of sessions, any capacity and any queue (state.py, persistence.py).
THEOREM MemoryIsSoundAlways == StateSpec => []MemoryIsSound
<1>1. StateInv => MemoryIsSound
  BY DEF StateInv
<1>2. QED
  BY <1>1, StateStart, StateKept, PTL DEF StateSpec

\* The committed tables and what is on its way to them make up all that was
\* written and not deleted since the sidecar was new, except for the rows whose
\* last write or deletion was dropped, failed, discarded or died with the
\* process, for any sizes of the queue and of its batches (persistence.py).
THEOREM SidecarMirrors == StateSpec => []MirrorComplete
<1>1. ASSUME StateInv PROVE MirrorComplete
  <2>1. batch \in Seq(Events) /\ queue \in Seq(Events) /\ Mirrored
    BY <1>1 DEF StateInv, StateTypes, SidecarInv
  <2>2. ApplyAll(durable, batch \o queue) = ApplyAll(ApplyAll(durable, batch), queue)
    BY <2>1, ApplyConcat
  <2>3. QED
    BY <2>1, <2>2 DEF Mirrored, MirrorComplete, Agree
<1>2. QED
  BY <1>1, StateStart, StateKept, PTL DEF StateSpec

\* The committed tables change only for later ones.
LEMMA Lasts == StateInv /\ [StateNext]_stateVars => Lasting(durable, durable')
<1>. SUFFICES ASSUME StateInv, [StateNext]_stateVars PROVE Lasting(durable, durable')
  OBVIOUS
<1>1. Lasting(durable, durable)
  <2>1. \A k \in Kinds, s \in Keys : durable[k][s] \in Nat
    BY DEF StateInv, StateTypes, Tables
  <2>2. QED
    BY <2>1 DEF Lasting
<1>2. CASE durable' = durable
  BY <1>1, <1>2
<1>3. CASE FlushBatch \/ StopFlushed
  BY <1>3, FlushBatchInv, StopFlushedInv
<1>4. ASSUME NEW n \in 0..BatchMax, StopTimeout(n) PROVE Lasting(durable, durable')
  BY <1>4, StopTimeoutInv
<1>5. ASSUME NEW k \in Kinds, NEW s \in Keys, Put(k, s) \/ Get(k, s) PROVE durable' = durable
  BY <1>5 DEF Put, Get
<1>6. ASSUME NEW gone \in SUBSET Keys, Prune(gone) PROVE durable' = durable
  BY <1>6 DEF Prune
<1>7. ASSUME NEW n \in 0..BatchMax, FlushFails(n) PROVE durable' = durable
  BY <1>7 DEF FlushFails
<1>8. ASSUME TakeBatch \/ BeginStop \/ Start \/ Restore \/ Restored PROVE durable' = durable
  BY <1>8 DEF TakeBatch, BeginStop, Start, Restore, Restored
<1>9. ASSUME Crash PROVE durable' = durable
  BY <1>9, CrashInv
<1>10. ASSUME UNCHANGED stateVars PROVE durable' = durable
  BY <1>10 DEF stateVars
<1>11. QED
  BY <1>2, <1>3, <1>4, <1>5, <1>6, <1>7, <1>8, <1>9, <1>10 DEF StateNext

\* A committed row is never replaced by one written earlier, even by what a
\* failed batch or a stop that ran out of time left behind (_flush_batch, stop).
THEOREM RowsOnlyAdvance == StateSpec => RowsNeverRegress
<1>1. StateInv /\ [StateNext]_stateVars =>
        [\A k \in Kinds, s \in Keys :
           durable'[k][s] # Nothing => durable'[k][s] >= durable[k][s]]_stateVars
  BY Lasts DEF Lasting
<1>2. QED
  BY <1>1, StateStart, StateKept, PTL DEF StateSpec, RowsNeverRegress

-----------------------------------------------------------------------------
(* The exchanges of a request.                                             *)

\* An answer of exchange e: its calls are numbered, and each is of one tool.
CallsIn(e) == [tool : RoundTools, good : BOOLEAN, id : {<<e, i>> : i \in Nat}]
AnswerIn(a, e) ==
  /\ IsAnswer(a)
  /\ a.calls \in Seq(CallsIn(e))
  /\ \A i \in 1..Len(a.calls) : a.calls[i].id = <<e, i>>

\* A result of one of an answer's calls.
IdsOf(a) == {c.id : c \in Range(a.calls)}
ResultFor(a, r) == ~IsAnswer(r) /\ r.answers \in IdsOf(a)

LEMMA AnAnswer ==
  ASSUME NEW e \in Nat, NEW a, AnswerIn(a, e)
  PROVE  /\ Range(a.calls) = {a.calls[i] : i \in 1..Len(a.calls)}
         /\ Range(a.calls) \subseteq CallsIn(e)
         /\ IdsOf(a) \subseteq {<<e, i>> : i \in Nat}
<1>p. PICK cs, n : cs = a.calls /\ n = Len(cs)
  OBVIOUS
<1>1. cs \in Seq(CallsIn(e)) /\ n \in Nat /\ DOMAIN cs = 1..n
  BY <1>p, LenProperties DEF AnswerIn
<1>2. Range(cs) = {cs[i] : i \in 1..n}
  BY <1>1 DEF Range
<1>3. \A i \in 1..n : cs[i] \in CallsIn(e)
  BY <1>1, <1>p, ElementOfSeq
<1>4. Range(cs) \subseteq CallsIn(e)
  BY <1>2, <1>3
<1>5. IdsOf(a) \subseteq {<<e, i>> : i \in Nat}
  BY <1>4, <1>p DEF IdsOf, CallsIn
<1>6. QED
  BY <1>2, <1>4, <1>5, <1>p

\* What a model says in an exchange is an answer of it.
LEMMA Said ==
  ASSUME exchange \in Nat, NEW a \in Sayable
  PROVE  AnswerIn(a, exchange)
<1>p. PICK e : e = exchange
  OBVIOUS
<1>1. PICK cs \in BoundedSeq(Calls, MaxCalls), text \in BOOLEAN :
        a = Message([i \in DOMAIN cs |-> [tool |-> cs[i].tool, good |-> cs[i].good, id |-> <<e, i>>]],
                    text)
  BY <1>p DEF Sayable
<1>2. PICK uttered : uttered = [i \in DOMAIN cs |->
                            [tool |-> cs[i].tool, good |-> cs[i].good, id |-> <<e, i>>]]
  OBVIOUS
<1>3. PICK n \in Nat : cs \in [1..n -> Calls]
  BY RoundsAssumption DEF BoundedSeq, SeqOf
<1>4. DOMAIN uttered = 1..n
  BY <1>2, <1>3
<1>5. ASSUME NEW i \in 1..n PROVE uttered[i] \in CallsIn(e) /\ uttered[i].id = <<e, i>>
  <2>1. cs[i].tool \in RoundTools /\ cs[i].good \in BOOLEAN
    BY <1>3 DEF Calls, RoundTools
  <2>2. uttered[i] = [tool |-> cs[i].tool, good |-> cs[i].good, id |-> <<e, i>>]
    BY <1>2, <1>3
  <2>3. <<e, i>> \in {<<e, j>> : j \in Nat}
    BY <1>3
  <2>4. QED
    BY <2>1, <2>2, <2>3 DEF CallsIn
<1>6. uttered \in [1..n -> CallsIn(e)]
  BY <1>2, <1>4, <1>5
<1>7. uttered \in Seq(CallsIn(e))
  BY <1>3, <1>6, SeqDef
<1>8. Len(uttered) = n
  BY <1>3, <1>4, <1>7, LenProperties
<1>9. a.calls = uttered /\ IsAnswer(a)
  BY <1>1, <1>2 DEF Message, IsAnswer
<1>10. QED
  BY <1>5, <1>7, <1>8, <1>9, <1>p DEF AnswerIn

\* The calls of some tools are calls of the answer, and none of them is missing.
LEMMA Chosen ==
  ASSUME NEW e \in Nat, NEW a, AnswerIn(a, e), NEW tools
  PROVE  /\ CallsOfTools(a, tools) # <<>> => CallsOfTools(a, tools)[1].id \in IdsOf(a)
         /\ CallsOfTools(a, tools) = <<>> => \A c \in Range(a.calls) : c.tool \notin tools
<1>p. PICK cs, T, chosen : /\ cs = a.calls /\ T = {c \in Range(a.calls) : c.tool \in tools}
                           /\ chosen = CallsOfTools(a, tools)
  OBVIOUS
<1>1. chosen = Only(cs, T) /\ cs \in Seq(CallsIn(e))
  BY <1>p DEF CallsOfTools, AnswerIn
<1>2. chosen \in Seq(CallsIn(e) \cap T)
  BY <1>1, OnlyType
<1>3. ASSUME chosen # <<>> PROVE chosen[1].id \in IdsOf(a)
  <2>1. Len(chosen) # 0 /\ Len(chosen) \in Nat
    BY <1>2, <1>3, EmptySeq, LenProperties
  <2>2. 1 \in 1..Len(chosen)
    BY <2>1
  <2>3. chosen[1] \in CallsIn(e) \cap T
    BY <1>2, <2>2, ElementOfSeq
  <2>4. chosen[1] \in Range(a.calls)
    BY <1>p, <2>3
  <2>5. QED
    BY <2>4 DEF IdsOf
<1>4. ASSUME chosen = <<>>, NEW c \in Range(a.calls) PROVE c.tool \notin tools
  <2>1. SUFFICES ASSUME c \in T PROVE FALSE
    BY <1>p
  <2>2. PICK i \in 1..Len(cs) : c = cs[i]
    BY <1>p, AnAnswer
  <2>3. \E k \in 1..Len(Only(cs, T)) : Only(cs, T)[k] = cs[i]
    BY <1>1, <2>1, <2>2, OnlyComplete
  <2>4. Len(chosen) = 0
    BY <1>4
  <2>5. QED
    BY <1>1, <2>3, <2>4
<1>5. QED
  BY <1>3, <1>4, <1>p

LEMMA AResult ==
  ASSUME NEW a, NEW call, NEW sections, call.id \in IdsOf(a)
  PROVE  ResultFor(a, ResultOf(call, sections))
BY DEF ResultFor, ResultOf, IsAnswer

\* What each stage has sent.
Recalled == \E r : ResultFor(reply, r) /\ thread = <<reply, r>>
RecalledAgain ==
  \E r, a, s : ResultFor(reply, r) /\ AnswerIn(a, 2) /\ ResultFor(a, s) /\ thread = <<reply, r>> \o <<a, s>>
Serves(list, a) == list = <<a>> \o [i \in DOMAIN a.calls |-> ResultOf(a.calls[i], {})]
Served == Serves(thread, reply)

Offers ==
  /\ stage \in {"recalled", "recalled again"} => "recall" \notin offered
  /\ stage = "worked" => "work" \notin offered

RoundInv ==
  /\ exchange \in Nat
  /\ stage \notin {"call", "shown"} => AnswerIn(reply, 1)
  /\ stage \in {"call", "recall"} => exchange = 1
  /\ stage = "recalled" => exchange = 2 /\ Recalled
  /\ stage = "recalled again" => RecalledAgain
  /\ stage = "worked" => Recalled /\ \A c \in Range(reply.calls) : c.tool = "work"
  /\ stage = "served" => Served
  /\ Offers

LEMMA RoundStart == RoundInit => RoundInv
BY DEF RoundInit, RoundInv, Offers

\* Steps to a stage that awaits no answer.
LEMMA AtRest ==
  ASSUME RoundInv, exchange' \in Nat, NEW where \in {"work", "read", "respond", "shown"}, stage' = where,
         where = "shown" \/ (reply' = reply /\ stage \notin {"call", "shown"})
  PROVE  RoundInv'
BY DEF RoundInv, Offers

LEMMA StartRecallInv ==
  ASSUME RoundInv, StartRecall
  PROVE  RoundInv'
<1>p. PICK recalls, a : recalls = CallsOfTools(reply, {"recall"}) /\ a = reply
  OBVIOUS
<1>1. stage = "recall" /\ reply' = a /\ exchange = 1 /\ AnswerIn(a, 1)
  BY <1>p DEF StartRecall, RoundInv
<1>2. CASE Keep("work")
  BY <1>1, <1>2, <1>p, AtRest DEF Keep, RoundInv
<1>3. CASE recalls # <<>> /\ Send("recalled", <<a, ResultOf(recalls[1], {})>>, injected \ {"recall"})
  <2>1. PICK r : r = ResultOf(recalls[1], {})
    OBVIOUS
  <2>2. recalls[1].id \in IdsOf(a)
    BY <1>1, <1>3, <1>p, Chosen
  <2>3. ResultFor(a, r)
    BY <2>1, <2>2, AResult
  <2>4. /\ stage' = "recalled" /\ thread' = <<a, r>> /\ exchange' = 2
        /\ "recall" \notin offered'
    BY <1>1, <1>3, <2>1 DEF Send
  <2>5. Recalled'
    BY <1>1, <2>3, <2>4 DEF Recalled
  <2>6. QED
    BY <1>1, <2>4, <2>5 DEF RoundInv, Offers
<1>4. QED
  BY <1>2, <1>3, <1>p DEF StartRecall

LEMMA AnswerRecalledInv ==
  ASSUME RoundInv, NEW a \in Sayable, AnswerRecalled(a)
  PROVE  RoundInv'
<1>p. PICK recalls, first : recalls = CallsOfTools(a, {"recall"}) /\ first = reply
  OBVIOUS
<1>1. stage \in {"recalled", "recalled again"}
  BY DEF AnswerRecalled
<1>2. CASE Show(Stripped(a, OwnTools))
  BY <1>1, <1>2, AtRest DEF Show, Keep, RoundInv
<1>3. CASE /\ stage = "recalled" /\ recalls # <<>>
           /\ Send("recalled again", thread \o <<a, ResultOf(recalls[1], {})>>, offered)
           /\ UNCHANGED reply
  <2>1. PICK s : s = ResultOf(recalls[1], {})
    OBVIOUS
  <2>2. exchange = 2 /\ AnswerIn(first, 1) /\ "recall" \notin offered
    BY <1>3, <1>p DEF RoundInv, Offers
  <2>3. PICK r : ResultFor(first, r) /\ thread = <<first, r>>
    BY <1>3, <1>p DEF RoundInv, Recalled
  <2>4. AnswerIn(a, 2)
    <3>1. exchange \in Nat
      BY <2>2
    <3>2. QED
      BY <2>2, <3>1, Said
  <2>5. recalls[1].id \in IdsOf(a)
    BY <1>3, <1>p, <2>4, Chosen
  <2>6. ResultFor(a, s)
    BY <2>1, <2>5, AResult
  <2>7. /\ stage' = "recalled again" /\ thread' = thread \o <<a, s>> /\ offered' = offered
        /\ exchange' = exchange + 1 /\ reply' = first
    BY <1>3, <1>p, <2>1 DEF Send
  <2>8. thread' = <<first, r>> \o <<a, s>> /\ exchange' \in Nat
    <3>1. thread' = <<first, r>> \o <<a, s>>
      BY <2>3, <2>7
    <3>2. exchange' \in Nat
      <4>1. exchange = 2
        BY <2>2
      <4>2. exchange' = exchange + 1
        BY <2>7
      <4>3. QED
        BY <4>1, <4>2
    <3>3. QED
      BY <3>1, <3>2
  <2>9. RecalledAgain'
    BY <2>3, <2>4, <2>6, <2>7, <2>8 DEF RecalledAgain
  <2>10. QED
    BY <2>2, <2>7, <2>8, <2>9 DEF RoundInv, Offers
<1>4. QED
  BY <1>2, <1>3, <1>p DEF AnswerRecalled

LEMMA StartWorkInv ==
  ASSUME RoundInv, NEW ready \in BOOLEAN, NEW failing \in SUBSET SummarySources, StartWork(ready, failing)
  PROVE  RoundInv'
<1>p. PICK works, a, summary :
        works = CallsOfTools(reply, {"work"}) /\ a = reply /\ summary = Summary(ready, failing)
  OBVIOUS
<1>1. stage = "work" /\ exchange \in Nat /\ AnswerIn(a, 1)
  BY <1>p DEF StartWork, RoundInv
<1>2. CASE Keep("read") /\ UNCHANGED <<injected, reply, shown>>
  BY <1>1, <1>2, <1>p, AtRest DEF Keep, RoundInv
<1>3. CASE Show(Stripped(reply, OwnTools))
  BY <1>1, <1>3, AtRest DEF Show, Keep, RoundInv
<1>4. CASE /\ works # <<>> /\ ~Mixed(a) /\ reply' = a
           /\ Send("worked", <<a, ResultOf(works[1], summary)>>, injected \ {"work"})
  <2>1. PICK r : r = ResultOf(works[1], summary)
    OBVIOUS
  <2>2. works[1].id \in IdsOf(a)
    BY <1>1, <1>4, <1>p, Chosen
  <2>3. ResultFor(a, r)
    BY <2>1, <2>2, AResult
  <2>4. /\ stage' = "worked" /\ thread' = <<a, r>> /\ exchange' \in Nat
        /\ "work" \notin offered'
    BY <1>1, <1>4, <2>1 DEF Send
  <2>5. Recalled'
    BY <1>4, <2>3, <2>4 DEF Recalled
  <2>6. \A c \in Range(a.calls) : c.tool = "work"
    <3>1. \A c \in Range(a.calls) : c.tool \in RoundTools
      <4>1. Range(a.calls) \subseteq CallsIn(1)
        BY <1>1, AnAnswer
      <4>2. QED
        BY <4>1 DEF CallsIn
    <3>2. CallsOfTools(a, RoundTools \ {"work"}) = <<>>
      BY <1>4 DEF Mixed
    <3>3. \A c \in Range(a.calls) : c.tool \notin RoundTools \ {"work"}
      BY <1>1, <3>2, Chosen
    <3>4. QED
      BY <3>1, <3>3
  <2>7. QED
    BY <1>1, <1>4, <2>4, <2>5, <2>6 DEF RoundInv, Offers
<1>5. QED
  BY <1>2, <1>3, <1>4, <1>p DEF StartWork

LEMMA StartReadInv ==
  ASSUME RoundInv, NEW served \in BOOLEAN, StartRead(served)
  PROVE  RoundInv'
<1>1. stage = "read" /\ reply' = reply /\ exchange \in Nat /\ AnswerIn(reply, 1)
  BY DEF StartRead, RoundInv
<1>2. CASE Keep("respond")
  BY <1>1, <1>2, AtRest DEF Keep, RoundInv
<1>3. CASE Send("served", <<reply>> \o [i \in DOMAIN reply.calls |-> ResultOf(reply.calls[i], {})],
                injected)
  <2>1. stage' = "served" /\ Served' /\ exchange' \in Nat
    BY <1>1, <1>3 DEF Send, Served, Serves
  <2>2. QED
    BY <1>1, <2>1 DEF RoundInv, Offers
<1>4. QED
  BY <1>2, <1>3 DEF StartRead

LEMMA RoundKept == RoundInv /\ [RoundNext]_roundVars => RoundInv'
<1>. SUFFICES ASSUME RoundInv, [RoundNext]_roundVars PROVE RoundInv'
  OBVIOUS
<1>1. ASSUME NEW a \in Sayable, Answer(a) PROVE RoundInv'
  <2>1. AnswerIn(a, 1) /\ exchange = 1
    BY <1>1, Said DEF Answer, RoundInv
  <2>2. stage' = "recall" /\ reply' = a /\ exchange' = 1
    BY <1>1, <2>1 DEF Answer, Keep
  <2>3. QED
    BY <2>1, <2>2 DEF RoundInv, Offers
<1>2. ASSUME NEW a \in Sayable, AnswerRecalled(a) PROVE RoundInv'
  BY <1>2, AnswerRecalledInv
<1>3. ASSUME NEW a \in Sayable, AnswerWorked(a) \/ AnswerServed(a) PROVE RoundInv'
  BY <1>3, AtRest DEF AnswerWorked, AnswerServed, Show, Keep, RoundInv
<1>4. CASE StartRecall
  BY <1>4, StartRecallInv
<1>5. CASE RecallFails
  BY <1>5, AtRest DEF RecallFails, Keep, RoundInv
<1>6. ASSUME NEW ready \in BOOLEAN, NEW failing \in SUBSET SummarySources, StartWork(ready, failing)
      PROVE  RoundInv'
  BY <1>6, StartWorkInv
<1>7. CASE WorkFails \/ Respond
  BY <1>7, AtRest DEF WorkFails, Respond, Show, Keep, RoundInv
<1>8. CASE WorkRaises \/ ServedFails
  BY <1>8, AtRest DEF WorkRaises, ServedFails, Keep, RoundInv
<1>9. ASSUME NEW served \in BOOLEAN, StartRead(served) PROVE RoundInv'
  BY <1>9, StartReadInv
<1>10. ASSUME NEW tools \in SUBSET OwnTools, NextRequest(tools) PROVE RoundInv'
  BY <1>10 DEF NextRequest, RoundInv, Offers
<1>11. CASE UNCHANGED roundVars
  BY <1>11 DEF roundVars, RoundInv, Offers, Recalled, RecalledAgain, Served
<1>12. QED
  BY <1>1, <1>2, <1>3, <1>4, <1>5, <1>6, <1>7, <1>8, <1>9, <1>10, <1>11 DEF RoundNext

\* Each result of a list answers a call of the last answer before it, and no
\* other result answers the same call.
Paired(list) ==
  \A i \in DOMAIN list : ~IsAnswer(list[i]) =>
    /\ \E j \in 1..(i - 1) :
         /\ IsAnswer(list[j])
         /\ \A k \in (j + 1)..(i - 1) : ~IsAnswer(list[k])
         /\ list[i].answers \in IdsOf(list[j])
    /\ \A k \in DOMAIN list \ {i} : ~IsAnswer(list[k]) => list[k].answers # list[i].answers

\* Each answer of a list has a result of one of its calls.
Followed(list) ==
  \A j \in DOMAIN list : IsAnswer(list[j]) =>
    (\E e \in Nat : AnswerIn(list[j], e)) /\ \E i \in DOMAIN list : ResultFor(list[j], list[i])

LEMMA PairedRecall ==
  ASSUME NEW a, AnswerIn(a, 1), NEW r, ResultFor(a, r), NEW list, list = <<a, r>>
  PROVE  Paired(list) /\ Followed(list)
<1>1. DOMAIN list = 1..2 /\ list[1] = a /\ list[2] = r
  OBVIOUS
<1>2. IsAnswer(a) /\ ~IsAnswer(r) /\ r.answers \in IdsOf(a)
  BY DEF AnswerIn, ResultFor
<1>3. \A i \in 1..2 : ~IsAnswer(list[i]) => i = 2
  BY <1>1, <1>2
<1>4. 1 \in 1..(2 - 1) /\ \A k \in (1 + 1)..(2 - 1) : FALSE
  OBVIOUS
<1>5. Paired(list)
  BY <1>1, <1>2, <1>3, <1>4 DEF Paired
<1>6. Followed(list)
  BY <1>1, <1>2 DEF Followed
<1>7. QED
  BY <1>5, <1>6

LEMMA PairedRecalls ==
  ASSUME NEW a, AnswerIn(a, 1), NEW r, ResultFor(a, r), NEW b, AnswerIn(b, 2), NEW s, ResultFor(b, s),
         NEW list, list = <<a, r>> \o <<b, s>>
  PROVE  Paired(list) /\ Followed(list)
<1>1. DOMAIN list = 1..4 /\ list[1] = a /\ list[2] = r /\ list[3] = b /\ list[4] = s
  <2>1. PICK S, u, w : S = {a, r, b, s} /\ u = <<a, r>> /\ w = <<b, s>>
    OBVIOUS
  <2>2. u \in Seq(S) /\ w \in Seq(S) /\ Len(u) = 2 /\ Len(w) = 2
    BY <2>1
  <2>3. /\ list \in Seq(S) /\ Len(list) = 4
        /\ \A i \in 1..4 : list[i] = IF i <= 2 THEN u[i] ELSE w[i - 2]
    BY <2>1, <2>2, ConcatProperties
  <2>4. DOMAIN list = 1..4
    BY <2>3, LenProperties
  <2>5. QED
    BY <2>1, <2>3, <2>4
<1>2. /\ IsAnswer(a) /\ ~IsAnswer(r) /\ r.answers \in IdsOf(a)
      /\ IsAnswer(b) /\ ~IsAnswer(s) /\ s.answers \in IdsOf(b)
  BY DEF AnswerIn, ResultFor
<1>3. r.answers # s.answers
  <2>1. /\ IdsOf(a) \subseteq {<<1, i>> : i \in Nat}
        /\ IdsOf(b) \subseteq {<<2, i>> : i \in Nat}
    BY AnAnswer
  <2>2. QED
    BY <1>2, <2>1
<1>4. \A i \in 1..4 : ~IsAnswer(list[i]) => i \in {2, 4}
  BY <1>1, <1>2
<1>5. /\ 1 \in 1..(2 - 1) /\ \A k \in (1 + 1)..(2 - 1) : FALSE
      /\ 3 \in 1..(4 - 1) /\ \A k \in (3 + 1)..(4 - 1) : FALSE
  OBVIOUS
<1>6. \E j \in 1..(2 - 1) : /\ IsAnswer(list[j])
                            /\ \A k \in (j + 1)..(2 - 1) : ~IsAnswer(list[k])
                            /\ list[2].answers \in IdsOf(list[j])
  BY <1>1, <1>2, <1>5
<1>7. \E j \in 1..(4 - 1) : /\ IsAnswer(list[j])
                            /\ \A k \in (j + 1)..(4 - 1) : ~IsAnswer(list[k])
                            /\ list[4].answers \in IdsOf(list[j])
  BY <1>1, <1>2, <1>5
<1>8. Paired(list)
  BY <1>1, <1>3, <1>4, <1>6, <1>7 DEF Paired
<1>9. ASSUME NEW j \in 1..4, IsAnswer(list[j])
      PROVE  (\E e \in Nat : AnswerIn(list[j], e)) /\ \E i \in 1..4 : ResultFor(list[j], list[i])
  <2>1. j = 1 \/ j = 3
    <3>1. j \in {1, 2, 3, 4}
      OBVIOUS
    <3>2. QED
      BY <1>1, <1>2, <1>9, <3>1
  <2>2. CASE j = 1
    BY <1>1, <2>2
  <2>3. CASE j = 3
    BY <1>1, <2>3
  <2>4. QED
    BY <2>1, <2>2, <2>3
<1>10. Followed(list)
  BY <1>1, <1>9 DEF Followed
<1>11. QED
  BY <1>8, <1>10

\* The files served: one result for each call, in their order.
LEMMA PairedReads ==
  ASSUME NEW a, AnswerIn(a, 1), NEW list, Serves(list, a)
  PROVE  /\ Paired(list) /\ list[1] = a
         /\ \A c \in Range(a.calls) : \E i \in DOMAIN list : ~IsAnswer(list[i]) /\ list[i].answers = c.id
         /\ \A j \in DOMAIN list : IsAnswer(list[j]) => j = 1
<1>p. PICK cs, n, rs : cs = a.calls /\ n = Len(cs) /\ rs = [i \in DOMAIN cs |-> ResultOf(cs[i], {})]
  OBVIOUS
<1>1. /\ n \in Nat /\ DOMAIN cs = 1..n /\ IsAnswer(a)
      /\ \A i \in 1..n : cs[i].id = <<1, i>>
  BY <1>p, LenProperties DEF AnswerIn
<1>r. Range(a.calls) = {cs[i] : i \in 1..n}
  <2>1. Range(a.calls) = {a.calls[i] : i \in 1..Len(a.calls)}
    <3>1. 1 \in Nat
      OBVIOUS
    <3>2. QED
      BY <3>1, AnAnswer
  <2>2. QED
    BY <1>p, <2>1
<1>2. \A i \in 1..n : ~IsAnswer(rs[i]) /\ rs[i].answers = <<1, i>>
  BY <1>1, <1>p DEF ResultOf, IsAnswer
<1>3. /\ DOMAIN list = 1..(n + 1) /\ list[1] = a
      /\ \A i \in 2..(n + 1) : list[i] = rs[i - 1]
  <2>1. PICK S, u : S = {a} \cup {rs[i] : i \in 1..n} /\ u = <<a>>
    OBVIOUS
  <2>2. rs \in [1..n -> S]
    BY <1>1, <1>p, <2>1
  <2>3. rs \in Seq(S)
    BY <1>1, <2>2, SeqDef
  <2>4. Len(rs) = n
    <3>1. DOMAIN rs = 1..n
      BY <1>1, <1>p
    <3>2. QED
      BY <1>1, <2>3, <3>1, LenProperties
  <2>5. u \in Seq(S) /\ Len(u) = 1 /\ u[1] = a
    BY <2>1
  <2>6. list = u \o rs
    BY <1>p, <2>1 DEF Serves
  <2>7. /\ list \in Seq(S) /\ Len(list) = Len(u) + Len(rs)
        /\ \A i \in 1..(Len(u) + Len(rs)) : list[i] = IF i <= Len(u) THEN u[i] ELSE rs[i - Len(u)]
    <3>1. u \in Seq(S) /\ rs \in Seq(S)
      BY <2>3, <2>5
    <3>2. /\ u \o rs \in Seq(S) /\ Len(u \o rs) = Len(u) + Len(rs)
          /\ \A i \in 1..(Len(u) + Len(rs)) :
               (u \o rs)[i] = IF i <= Len(u) THEN u[i] ELSE rs[i - Len(u)]
      BY <3>1, ConcatProperties, Zenon
    <3>3. QED
      BY <2>6, <3>2, Zenon
  <2>8. DOMAIN list = 1..(n + 1)
    <3>1. Len(list) = n + 1
      BY <1>1, <2>4, <2>5, <2>7
    <3>2. QED
      BY <2>7, <3>1, LenProperties
  <2>9. ASSUME NEW i \in 1..(n + 1) PROVE list[i] = IF i <= 1 THEN u[i] ELSE rs[i - 1]
    <3>1. Len(u) + Len(rs) = n + 1
      BY <1>1, <2>4, <2>5
    <3>2. QED
      BY <2>5, <2>7, <3>1
  <2>10. list[1] = a
    <3>1. 1 \in 1..(n + 1)
      BY <1>1
    <3>2. QED
      BY <2>5, <2>9, <3>1
  <2>11. ASSUME NEW i \in 2..(n + 1) PROVE list[i] = rs[i - 1]
    <3>1. i \in 1..(n + 1) /\ ~(i <= 1)
      BY <1>1
    <3>2. QED
      BY <2>9, <3>1
  <2>12. QED
    BY <2>8, <2>10, <2>11
<1>4. \A i \in 1..(n + 1) : ~IsAnswer(list[i]) => i \in 2..(n + 1)
  BY <1>1, <1>3
<1>5. ASSUME NEW i \in 2..(n + 1)
      PROVE  i - 1 \in 1..n /\ ~IsAnswer(list[i]) /\ list[i].answers = <<1, i - 1>>
  <2>1. PICK j : j = i - 1
    OBVIOUS
  <2>2. j \in 1..n
    BY <1>1, <2>1
  <2>3. QED
    BY <1>2, <1>3, <2>1, <2>2
<1>6. ASSUME NEW i \in 2..(n + 1)
      PROVE  \E j \in 1..(i - 1) : /\ IsAnswer(list[j])
                                   /\ \A k \in (j + 1)..(i - 1) : ~IsAnswer(list[k])
                                   /\ list[i].answers \in IdsOf(list[j])
  <2>1. 1 \in 1..(i - 1) /\ \A k \in (1 + 1)..(i - 1) : k \in 2..(n + 1)
    BY <1>1
  <2>2. PICK k : k = i - 1
    OBVIOUS
  <2>3. k \in 1..n /\ list[i].answers = <<1, k>>
    BY <1>5, <2>2
  <2>4. cs[k] \in Range(a.calls) /\ cs[k].id = <<1, k>>
    BY <1>1, <1>r, <2>3
  <2>5. list[i].answers \in IdsOf(list[1])
    BY <1>3, <2>3, <2>4 DEF IdsOf
  <2>6. IsAnswer(list[1]) /\ \A m \in (1 + 1)..(i - 1) : ~IsAnswer(list[m])
    BY <1>1, <1>3, <1>5, <2>1
  <2>7. QED
    BY <2>1, <2>5, <2>6
<1>7. ASSUME NEW i \in 2..(n + 1), NEW k \in 1..(n + 1), k # i, ~IsAnswer(list[k])
      PROVE  list[k].answers # list[i].answers
  <2>1. k \in 2..(n + 1)
    BY <1>4, <1>7
  <2>2. list[k].answers = <<1, k - 1>> /\ list[i].answers = <<1, i - 1>>
    BY <1>5, <2>1
  <2>3. PICK x, y, u, v : x = k - 1 /\ y = i - 1 /\ u = list[k].answers /\ v = list[i].answers
    OBVIOUS
  <2>4. x # y
    BY <1>1, <1>7, <2>3
  <2>5. u = <<1, x>> /\ v = <<1, y>>
    BY <2>2, <2>3
  <2>6. u # v
    BY <2>4, <2>5
  <2>7. QED
    BY <2>3, <2>6
<1>8. Paired(list)
  BY <1>3, <1>4, <1>6, <1>7 DEF Paired
<1>9. ASSUME NEW c \in Range(a.calls)
      PROVE  \E i \in DOMAIN list : ~IsAnswer(list[i]) /\ list[i].answers = c.id
  <2>1. PICK i \in 1..n : c = cs[i]
    BY <1>r
  <2>2. PICK k : k = i + 1
    OBVIOUS
  <2>3. k \in 2..(n + 1) /\ k - 1 = i
    BY <1>1, <2>2
  <2>4. list[k].answers = <<1, i>> /\ ~IsAnswer(list[k])
    BY <1>5, <2>3
  <2>5. QED
    <3>1. k \in DOMAIN list
      BY <1>1, <1>3, <2>3
    <3>2. c.id = <<1, i>>
      BY <1>1, <2>1
    <3>3. QED
      BY <2>4, <3>1, <3>2
<1>10. ASSUME NEW j \in DOMAIN list, IsAnswer(list[j]) PROVE j = 1
  <2>1. j = 1 \/ j \in 2..(n + 1)
    BY <1>1, <1>3
  <2>2. QED
    BY <1>5, <1>10, <2>1
<1>11. QED
  BY <1>3, <1>8, <1>9, <1>10

\* The only call of an answer is the one its result answers.
LEMMA OneCall ==
  ASSUME NEW e \in Nat, NEW a, AnswerIn(a, e), NEW r, ResultFor(a, r), ~(Len(a.calls) > 1)
  PROVE  \A c \in Range(a.calls) : r.answers = c.id
<1>p. PICK cs, n : cs = a.calls /\ n = Len(cs)
  OBVIOUS
<1>1. n \in Nat /\ Range(a.calls) = {cs[i] : i \in 1..n}
  BY <1>p, AnAnswer, LenProperties DEF AnswerIn
<1>2. \A i \in 1..n, k \in 1..n : i = k
  BY <1>1, <1>p
<1>3. PICK c \in Range(a.calls) : r.answers = c.id
  BY DEF ResultFor, IdsOf
<1>4. \A d \in Range(a.calls) : d = c
  BY <1>1, <1>2
<1>5. QED
  BY <1>3, <1>4

\* In a conversation sent again, for any number of calls in the answers, no
\* result is doubled or out of place, the tool just answered for is not offered
\* again, and what is left without a result are only calls of an answer with
\* several: none where files are served, further calls for the summary with a
\* summary, and with a recall whatever the model called beside it
\* (build_resend_messages and the handlers of recall.py, synthetic_tools.py and
\* tool_intercept.py).
THEOREM ResendsKeepPairs == RoundSpec => []ResendsArePaired
<1>1. ASSUME RoundInv PROVE ResendsArePaired
  <2>1. SUFFICES ASSUME Sending PROVE ResendsArePaired
    BY DEF ResendsArePaired
  <2>2. AnswerIn(reply, 1) /\ Offers
    BY <1>1, <2>1 DEF RoundInv, Sending
  <2>3. ASSUME Recalled PROVE Paired(thread) /\ Followed(thread) /\ thread[1] = reply
    BY <2>2, <2>3, PairedRecall DEF Recalled
  <2>4. ASSUME RecalledAgain PROVE Paired(thread) /\ Followed(thread)
    BY <2>2, <2>4, PairedRecalls DEF RecalledAgain
  <2>5. ASSUME Served
        PROVE  /\ Paired(thread) /\ Unanswered(1) = {}
               /\ \A j \in DOMAIN thread : IsAnswer(thread[j]) => j = 1
    <3>1. Serves(thread, reply)
      BY <2>5 DEF Served
    <3>2. /\ Paired(thread) /\ thread[1] = reply
          /\ \A c \in Range(reply.calls) :
               \E i \in DOMAIN thread : ~IsAnswer(thread[i]) /\ thread[i].answers = c.id
          /\ \A j \in DOMAIN thread : IsAnswer(thread[j]) => j = 1
      BY <2>2, <3>1, PairedReads
    <3>3. QED
      BY <3>2 DEF AnswersCall, Unanswered
  <2>6. Paired(thread)
    BY <1>1, <2>1, <2>3, <2>4, <2>5 DEF RoundInv, Sending
  <2>7. ASSUME NEW j \in DOMAIN thread, IsAnswer(thread[j]), Unanswered(j) # {}
        PROVE  Len(thread[j].calls) > 1
    <3>1. CASE stage = "served"
      <4>1. Served
        BY <1>1, <3>1 DEF RoundInv
      <4>2. QED
        BY <2>5, <2>7, <4>1
    <3>2. CASE stage # "served"
      <4>1. Followed(thread)
        BY <1>1, <2>1, <2>3, <2>4, <3>2 DEF RoundInv, Sending
      <4>2. PICK e \in Nat, i \in DOMAIN thread : AnswerIn(thread[j], e) /\ ResultFor(thread[j], thread[i])
        BY <2>7, <4>1 DEF Followed
      <4>3. PICK c \in Range(thread[j].calls) : ~AnswersCall(i, c)
        BY <2>7 DEF Unanswered
      <4>4. thread[i].answers # c.id
        BY <4>2, <4>3 DEF AnswersCall, ResultFor
      <4>5. QED
        BY <4>2, <4>4, OneCall
    <3>3. QED
      BY <3>1, <3>2
  <2>8. ASSUME stage = "worked" PROVE \A c \in Unanswered(1) : c.tool = "work"
    BY <1>1, <2>3, <2>8 DEF RoundInv, Unanswered
  <2>9. stage = "served" => Unanswered(1) = {}
    BY <1>1, <2>5 DEF RoundInv
  <2>10. QED
    BY <2>2, <2>6, <2>7, <2>8, <2>9 DEF ResendsArePaired, Paired, IdsOf, Offers
<1>2. QED
  BY <1>1, RoundStart, RoundKept, PTL DEF RoundSpec

-----------------------------------------------------------------------------
(* The files a curator reaches.                                            *)


\* Caching what the agent read leaves the others as they are; what is
\* prefetched must be inside.
LEMMA CacheInside ==
  ASSUME StaysInside, NEW path, NEW text, NEW prefetched, NEW outlined,
         Cache(path, text, prefetched, outlined), roots' = roots,
         prefetched => roots # Unknown /\ Inside(path), seen'.tool # "dir"
  PROVE  StaysInside'
<1>1. PICK row : row = [text |-> text, prefetched |-> prefetched]
  OBVIOUS
<1>2. rows' = Entered(rows, path, row) /\ row.prefetched = prefetched
  BY <1>1 DEF Cache
<1>r. PICK table, new : table = rows /\ new = rows'
  OBVIOUS
<1>e. /\ DOMAIN new = DOMAIN table \cup {path} /\ new[path] = row
      /\ \A q \in DOMAIN table \ {path} : new[q] = table[q]
  <2>1. new = Entered(table, path, row)
    BY <1>2, <1>r
  <2>2. QED
    BY <2>1 DEF Entered
<1>3. ASSUME NEW q \in DOMAIN rows', rows'[q].prefetched PROVE roots # Unknown /\ Inside(q)
  <2>1. CASE q = path
    <3>1. rows'[q] = row
      BY <1>e, <1>r, <2>1
    <3>2. prefetched
      BY <1>2, <1>3, <3>1
    <3>3. QED
      BY <2>1, <3>2
  <2>2. CASE q # path
    <3>1. q \in DOMAIN rows /\ rows'[q] = rows[q]
      BY <1>3, <1>e, <1>r, <2>2
    <3>2. QED
      BY <1>3, <3>1 DEF StaysInside
  <2>3. QED
    BY <2>1, <2>2
<1>4. ASSUME NEW q \in DOMAIN rows', rows'[q].prefetched PROVE roots' # Unknown /\ Inside(q)'
  BY <1>3, <1>4 DEF Inside
<1>5. QED
  BY <1>4 DEF StaysInside

\* Steps that only answer.
LEMMA ReportInside ==
  ASSUME StaysInside, NEW answer, Reports(answer), answer.tool = "dir" => Inside(answer.target)
  PROVE  StaysInside'
BY DEF StaysInside, Reports, Inside

LEMMA RefusalInside ==
  ASSUME StaysInside, Refuses
  PROVE  StaysInside'
<1>1. Silence.tool # "dir"
  BY DEF Silence
<1>2. QED
  BY <1>1, ReportInside DEF Refuses

LEMMA LoadInside ==
  ASSUME StaysInside, NEW path, roots # Unknown, Inside(path), Load(path)
  PROVE  StaysInside'
<1>1. CASE Refuses
  BY <1>1, RefusalInside
<1>2. ASSUME NEW text, NEW focus, NEW outlined, Cache(path, text, TRUE, outlined),
             seen' = Prefetched(path, text, focus), roots' = roots
      PROVE  StaysInside'
  <2>1. Prefetched(path, text, focus).tool = "text"
    BY DEF Prefetched, Shown
  <2>2. seen'.tool # "dir"
    BY <1>2, <2>1
  <2>3. QED
    BY <1>2, <2>2, CacheInside
<1>3. QED
  BY <1>1, <1>2 DEF Load

LEMMA ToolKept == StaysInside /\ [ToolNext]_toolVars => StaysInside'
<1>. SUFFICES ASSUME StaysInside, [ToolNext]_toolVars PROVE StaysInside'
  OBVIOUS
<1>1. ASSUME NEW path, NEW text, NEW ok, Captured(path, text, ok) PROVE StaysInside'
  <2>1. Cache(path, text, FALSE, ok) /\ roots' = roots /\ seen'.tool # "dir"
    BY <1>1 DEF Captured, Silence
  <2>2. QED
    BY <2>1, CacheInside
<1>2. ASSUME NEW workspace, Learn(workspace) PROVE StaysInside'
  BY <1>2 DEF Learn, StaysInside, Silence
<1>3. ASSUME NEW r, Prefetch(r) PROVE StaysInside'
  <2>1. CASE Refuses
    BY <2>1, RefusalInside
  <2>2. ASSUME roots # Unknown, NEW path, Validated(path), Load(path) PROVE StaysInside'
    BY <2>2, LoadInside DEF Validated
  <2>3. QED
    BY <1>3, <2>1, <2>2 DEF Prefetch
<1>4. ASSUME NEW r, ListDir(r) PROVE StaysInside'
  <2>1. CASE Refuses
    BY <2>1, RefusalInside
  <2>2. ASSUME Inside(TargetOf(r)), NEW listed, NEW more,
               Reports([tool |-> "dir", target |-> TargetOf(r), listed |-> listed, more |-> more])
        PROVE  StaysInside'
    <3>1. PICK answer : answer = [tool |-> "dir", target |-> TargetOf(r), listed |-> listed, more |-> more]
      OBVIOUS
    <3>2. Inside(answer.target) /\ Reports(answer)
      BY <2>2, <3>1
    <3>3. QED
      BY <3>2, ReportInside
  <2>3. QED
    BY <1>4, <2>1, <2>2 DEF ListDir
<1>5. ASSUME NEW path, NEW text, NEW from, NEW to, Reports(Shown(path, text, from, to, {}))
      PROVE  StaysInside'
  <2>1. Shown(path, text, from, to, {}).tool # "dir"
    BY DEF Shown
  <2>2. QED
    BY <1>5, <2>1, ReportInside
<1>6. ASSUME NEW path, GetFile(path) PROVE StaysInside'
  BY <1>5, <1>6, RefusalInside DEF GetFile
<1>7. ASSUME NEW path, NEW from, NEW to, GetFileLines(path, from, to) PROVE StaysInside'
  BY <1>5, <1>7, RefusalInside DEF GetFileLines
<1>8. ASSUME NEW path, GetOutline(path) PROVE StaysInside'
  <2>1. CASE Refuses
    BY <2>1, RefusalInside
  <2>2. ASSUME NEW found, NEW symbols,
               Reports([tool |-> "outline", path |-> found, symbols |-> symbols])
        PROVE  StaysInside'
    <3>1. PICK answer : answer = [tool |-> "outline", path |-> found, symbols |-> symbols]
      OBVIOUS
    <3>2. answer.tool # "dir" /\ Reports(answer)
      BY <2>2, <3>1
    <3>3. QED
      BY <3>2, ReportInside
  <2>3. QED
    BY <1>8, <2>1, <2>2 DEF GetOutline
<1>9. ASSUME NEW pool, NEW embedded, Search(pool, embedded) PROVE StaysInside'
  <2>1. PICK answer : answer.tool = "facts" /\ Reports(answer)
    BY <1>9 DEF Search
  <2>2. QED
    BY <2>1, ReportInside
<1>10. CASE UNCHANGED toolVars
  BY <1>10 DEF toolVars, StaysInside, Inside
<1>11. QED
  BY <1>1, <1>2, <1>3, <1>4, <1>6, <1>7, <1>8, <1>9, <1>10 DEF ToolNext

\* What the curator's tools prefetch and list lies in the workspace, for any
\* disk, links and workspaces, and any paths asked for, also those looked for
\* beside files the agent read elsewhere (prefetch_file and list_dir).
THEOREM ToolsStayInside == ToolSpec => []StaysInside
<1>1. ToolInit => StaysInside
  BY DEF ToolInit, StaysInside, NoMap, Silence
<1>2. QED
  BY <1>1, ToolKept, PTL DEF ToolSpec

-----------------------------------------------------------------------------
(* The ledger of forced recalls.                                           *)

Entries == [sess : RecallSessions, files : Seq(Nat)]

\* The ledger as a set of entries, one of a session at most.
Alone(entries) == \A e, f \in entries : e.sess = f.sess => e = f
OwnIn(entries, s) == {e \in entries : e.sess = s}

\* A recall under way was asked for files that had not all been answered, and
\* what was answered is on the ledger.
Asking(a) == a.sess \in RecallSessions /\ a.files \in Seq(Nat) /\ ~a.again

RecallInv ==
  /\ ledger \in Seq(Entries) /\ Alone(Range(ledger))
  /\ DOMAIN asks = RecallSlots
  /\ \A i \in RecallSlots : asks[i] # NoRecall => Asking(asks[i])
  /\ \A s \in RecallSessions : answered[s] \subseteq Range(Seen(s))

\* The elements of a list.
LEMMA Elements ==
  ASSUME NEW S, NEW q \in Seq(S)
  PROVE  Range(q) = {q[i] : i \in 1..Len(q)} /\ Range(q) \subseteq S
<1>1. DOMAIN q = 1..Len(q) /\ Len(q) \in Nat
  BY LenProperties
<1>2. \A i \in 1..Len(q) : q[i] \in S
  BY ElementOfSeq
<1>3. QED
  BY <1>1, <1>2 DEF Range

LEMMA Joint ==
  ASSUME NEW S, NEW a \in Seq(S), NEW b \in Seq(S)
  PROVE  a \o b \in Seq(S) /\ Range(a \o b) = Range(a) \cup Range(b)
<1>p. PICK c, m, n : c = a \o b /\ m = Len(a) /\ n = Len(b)
  OBVIOUS
<1>1. m \in Nat /\ n \in Nat
  BY <1>p, LenProperties
<1>2. /\ c \in Seq(S) /\ Len(c) = m + n
      /\ \A i \in 1..(m + n) : c[i] = IF i <= m THEN a[i] ELSE b[i - m]
  BY <1>p, ConcatProperties
<1>3. /\ Range(a) = {a[i] : i \in 1..m} /\ Range(b) = {b[i] : i \in 1..n}
      /\ Range(c) = {c[i] : i \in 1..(m + n)}
  <2>1. Range(a) = {a[i] : i \in 1..Len(a)} /\ Range(b) = {b[i] : i \in 1..Len(b)}
    BY Elements
  <2>2. Range(c) = {c[i] : i \in 1..Len(c)}
    BY <1>2, Elements
  <2>3. QED
    BY <1>2, <1>p, <2>1, <2>2
<1>4. ASSUME NEW x \in Range(c) PROVE x \in Range(a) \cup Range(b)
  <2>1. PICK i \in 1..(m + n) : x = c[i]
    BY <1>3
  <2>2. CASE i <= m
    <3>1. i \in 1..m /\ x = a[i]
      BY <1>1, <1>2, <2>1, <2>2
    <3>2. QED
      BY <1>3, <3>1
  <2>3. CASE ~(i <= m)
    <3>1. PICK j : j = i - m
      OBVIOUS
    <3>2. j \in 1..n
      BY <1>1, <2>3, <3>1
    <3>3. x = b[j]
      BY <1>2, <2>1, <2>3, <3>1
    <3>4. QED
      BY <1>3, <3>2, <3>3
  <2>4. QED
    BY <2>2, <2>3
<1>5. ASSUME NEW x \in Range(a) PROVE x \in Range(c)
  <2>1. PICK i \in 1..m : x = a[i]
    BY <1>3
  <2>2. i \in 1..(m + n) /\ i <= m
    BY <1>1
  <2>3. x = c[i]
    BY <1>2, <2>1, <2>2
  <2>4. QED
    BY <1>3, <2>2, <2>3
<1>6. ASSUME NEW x \in Range(b) PROVE x \in Range(c)
  <2>1. PICK i \in 1..n : x = b[i]
    BY <1>3
  <2>2. PICK j : j = m + i
    OBVIOUS
  <2>3. j \in 1..(m + n) /\ ~(j <= m) /\ j - m = i
    BY <1>1, <2>2
  <2>4. x = c[j]
    BY <1>2, <2>1, <2>3
  <2>5. QED
    BY <1>3, <2>3, <2>4
<1>7. QED
  BY <1>2, <1>4, <1>5, <1>6, <1>p

LEMMA Selection ==
  ASSUME NEW S, NEW q \in Seq(S), NEW T
  PROVE  Only(q, T) \in Seq(S) /\ Range(Only(q, T)) = Range(q) \cap T
<1>p. PICK r : r = Only(q, T)
  OBVIOUS
<1>s. PICK Q : Q = Range(q)
  OBVIOUS
<1>1. q \in Seq(Q)
  <2>1. PICK n : n = Len(q)
    OBVIOUS
  <2>2. n \in Nat /\ q \in [1..n -> S]
    BY <2>1, LenProperties
  <2>3. Q = {q[i] : i \in 1..n}
    BY <1>s, <2>1, Elements
  <2>4. q \in [1..n -> Q]
    BY <2>2, <2>3
  <2>5. QED
    BY <2>2, <2>4, SeqDef
<1>2. r \in Seq(Q \cap T)
  BY <1>1, <1>p, OnlyType
<1>3. Range(r) \subseteq Q \cap T
  BY <1>2, Elements
<1>4. r \in Seq(S)
  <2>1. Q \cap T \subseteq S
    BY <1>s, Elements
  <2>2. QED
    BY <1>2, <2>1, SeqMonotonic
<1>5. ASSUME NEW x \in Q \cap T PROVE x \in Range(r)
  <2>1. PICK i \in 1..Len(q) : x = q[i]
    BY <1>s, Elements
  <2>2. PICK k \in 1..Len(r) : r[k] = q[i]
    BY <1>p, <2>1, OnlyComplete
  <2>3. Range(r) = {r[j] : j \in 1..Len(r)}
    BY <1>4, Elements
  <2>4. QED
    BY <2>1, <2>2, <2>3
<1>6. QED
  BY <1>3, <1>4, <1>5, <1>p, <1>s

LEMMA TheNewest ==
  ASSUME NEW S, NEW q \in Seq(S), NEW n \in Nat \ {0}
  PROVE  Newest(q, n) \in Seq(S) /\ Range(Newest(q, n)) \subseteq Range(q)
<1>p. PICK m, from, r : m = Len(q) /\ from = (IF m < n THEN 1 ELSE m - n + 1) /\ r = SubSeq(q, from, m)
  OBVIOUS
<1>1. m \in Nat
  BY <1>p, LenProperties
<1>2. from \in 1..(m + 1)
  BY <1>1, <1>p
<1>3. r \in Seq(S) /\ Len(r) = m - from + 1 /\ \A i \in 1..(m - from + 1) : r[i] = q[from + i - 1]
  <2>1. \A i \in from..m : i \in 1..Len(q)
    BY <1>1, <1>2, <1>p
  <2>2. \A i \in from..m : q[i] \in S
    BY <2>1, ElementOfSeq
  <2>3. m \in Int /\ from \in Int
    BY <1>1, <1>2
  <2>4. /\ r \in Seq(S) /\ Len(r) = IF from <= m THEN m - from + 1 ELSE 0
        /\ \A i \in 1..(m - from + 1) : r[i] = q[from + i - 1]
    BY <1>p, <2>2, <2>3, SubSeqProperties
  <2>5. QED
    BY <1>1, <1>2, <2>4
<1>4. Range(r) = {r[i] : i \in 1..(m - from + 1)} /\ Range(q) = {q[i] : i \in 1..m}
  <2>1. Range(q) = {q[i] : i \in 1..Len(q)}
    BY Elements
  <2>2. Range(r) = {r[i] : i \in 1..Len(r)}
    BY <1>3, Elements
  <2>3. QED
    BY <1>3, <1>p, <2>1, <2>2
<1>5. ASSUME NEW i \in 1..(m - from + 1) PROVE r[i] \in Range(q)
  <2>1. PICK j : j = from + i - 1
    OBVIOUS
  <2>2. j \in 1..m
    BY <1>1, <1>2, <2>1
  <2>3. r[i] = q[j]
    BY <1>3, <2>1
  <2>4. QED
    BY <1>4, <2>2, <2>3
<1>6. r = Newest(q, n)
  BY <1>p DEF Newest
<1>7. QED
  BY <1>3, <1>4, <1>5, <1>6

LEMMA FiniteRange ==
  ASSUME NEW S, NEW q \in Seq(S)
  PROVE  IsFiniteSet(Range(q))
<1>p. PICK n, R : n = Len(q) /\ R = Range(q)
  OBVIOUS
<1>1. n \in Nat /\ q \in [1..n -> S] /\ DOMAIN q = 1..n
  BY <1>p, LenProperties
<1>2. R = {q[i] : i \in 1..n}
  BY <1>p, Elements
<1>3. q \in [1..n -> R] /\ \A x \in R : \E i \in 1..n : q[i] = x
  BY <1>1, <1>2
<1>4. q \in Surjection(1..n, R)
  BY <1>3 DEF Surjection
<1>5. ExistsSurjection(1..n, R)
  BY <1>4 DEF ExistsSurjection
<1>6. QED
  BY <1>1, <1>5, <1>p, FS_NatSurjection

\* What a trigger names are files.
LEMMA TriggersName == \A files \in Triggers : files \in Seq(Nat)
<1>1. ASSUME NEW c \in Conversations, NEW files \in Repeated(c) PROVE files \in Seq(Nat)
  <2>1. PICK many : many = {f \in FilesRead(c) : Reads(c, f) >= 2}
    OBVIOUS
  <2>2. PICK q \in SetToSeqs(many) : files = SubSeq(q, 1, IF Len(q) < TopFiles THEN Len(q) ELSE TopFiles)
    BY <2>1 DEF Repeated
  <2>3. c \in Seq(Nat \cup {Phrase})
    BY RecallAssumption
  <2>4. Range(c) \subseteq Nat \cup {Phrase} /\ IsFiniteSet(Range(c))
    BY <2>3, Elements, FiniteRange
  <2>5. many \subseteq Nat /\ IsFiniteSet(many)
    <3>1. many \subseteq Range(c) /\ Phrase \notin many
      BY <2>1 DEF FilesRead
    <3>2. QED
      BY <2>4, <3>1, FS_Subset
  <2>6. q \in Seq(many) /\ Len(q) \in Nat
    BY <2>5, SeqsCover
  <2>7. q \in Seq(Nat)
    BY <2>5, <2>6, SeqMonotonic
  <2>8. PICK n : n = IF Len(q) < TopFiles THEN Len(q) ELSE TopFiles
    OBVIOUS
  <2>9. n \in Int /\ \A i \in 1..n : i \in 1..Len(q)
    BY <2>6, <2>8, RecallAssumption
  <2>10. \A i \in 1..n : q[i] \in Nat
    BY <2>7, <2>9, ElementOfSeq
  <2>11. SubSeq(q, 1, n) \in Seq(Nat)
    <3>1. 1 \in Int
      OBVIOUS
    <3>2. QED
      BY <2>9, <2>10, <3>1, SubSeqProperties
  <2>12. QED
    BY <2>2, <2>8, <2>11
<1>2. <<>> \in Seq(Nat)
  BY EmptySeq
<1>3. QED
  BY <1>1, <1>2 DEF Triggers

LEMMA RecallStart == RecallInit => RecallInv
<1>. SUFFICES ASSUME RecallInit PROVE RecallInv
  OBVIOUS
<1>1. ledger = <<>> /\ asks = [i \in RecallSlots |-> NoRecall] /\ answered = [s \in RecallSessions |-> {}]
  BY DEF RecallInit
<1>2. ledger \in Seq(Entries) /\ Range(ledger) = {}
  <2>1. PICK q : q = ledger
    OBVIOUS
  <2>2. q \in Seq(Entries) /\ Len(q) = 0
    BY <1>1, <2>1, EmptySeq
  <2>3. Range(q) = {q[i] : i \in 1..Len(q)}
    BY <2>2, Elements
  <2>4. QED
    BY <2>1, <2>2, <2>3
<1>3. QED
  BY <1>1, <1>2 DEF RecallInv, Alone

\* What is seen of a session depends on the entries alone.
SeenIn(entries, s) == IF OwnIn(entries, s) = {} THEN <<>> ELSE (CHOOSE e \in OwnIn(entries, s) : TRUE).files

LEMMA SeenIs == \A s : Own(s) = OwnIn(Range(ledger), s) /\ Seen(s) = SeenIn(Range(ledger), s)
BY DEF Own, OwnIn, Seen, SeenIn

LEMMA SeenFiles ==
  ASSUME RecallInv, NEW s
  PROVE  Seen(s) \in Seq(Nat)
<1>1. Own(s) \subseteq Entries
  BY Elements DEF RecallInv, Own
<1>2. CASE Own(s) = {}
  BY <1>2, EmptySeq DEF Seen
<1>3. CASE Own(s) # {}
  <2>1. PICK e : e = CHOOSE x \in Own(s) : TRUE
    OBVIOUS
  <2>2. e \in Own(s)
    BY <1>3, <2>1
  <2>3. e.files \in Seq(Nat)
    BY <1>1, <2>2 DEF Entries
  <2>4. QED
    BY <1>3, <2>1, <2>3 DEF Seen
<1>4. QED
  BY <1>2, <1>3

\* The session used moves to the end of the ledger, which has the same entries.
LEMMA TouchedKeeps ==
  ASSUME RecallInv, NEW s
  PROVE  Touched(s) \in Seq(Entries) /\ Range(Touched(s)) = Range(ledger)
<1>p. PICK q, R, T, a, b : /\ q = ledger /\ R = Range(ledger) /\ T = Own(s)
                           /\ a = Only(ledger, R \ T) /\ b = Only(ledger, T)
  OBVIOUS
<1>1. q \in Seq(Entries) /\ T \subseteq R
  BY <1>p DEF RecallInv, Own
<1>2. /\ a \in Seq(Entries) /\ Range(a) = R \cap (R \ T)
      /\ b \in Seq(Entries) /\ Range(b) = R \cap T
  BY <1>1, <1>p, Selection
<1>3. a \o b \in Seq(Entries) /\ Range(a \o b) = Range(a) \cup Range(b)
  BY <1>2, Joint
<1>4. Touched(s) = a \o b
  BY <1>p DEF Touched, Others
<1>5. QED
  BY <1>1, <1>2, <1>3, <1>4, <1>p

LEMMA AskInv ==
  ASSUME RecallInv, NEW i \in RecallSlots, NEW s \in RecallSessions, NEW files \in Triggers, Ask(i, s, files)
  PROVE  RecallInv'
<1>p. PICK a : a = [sess |-> s, files |-> files, again |-> files # <<>> /\ Range(files) \subseteq answered[s]]
  OBVIOUS
<1>1. /\ ledger' = (IF files = <<>> THEN ledger ELSE Touched(s)) /\ answered' = answered
      /\ asks' = IF Debounced(s, files) THEN asks ELSE [asks EXCEPT ![i] = a]
  BY <1>p DEF Ask
<1>2. ledger' \in Seq(Entries) /\ Range(ledger') = Range(ledger)
  BY <1>1, TouchedKeeps DEF RecallInv
<1>3. ASSUME ~Debounced(s, files) PROVE Asking(a)
  <2>1. files = <<>> \/ ~(Range(files) \subseteq Range(Seen(s)))
    BY <1>3 DEF Debounced
  <2>2. answered[s] \subseteq Range(Seen(s))
    BY DEF RecallInv
  <2>3. ~(files # <<>> /\ Range(files) \subseteq answered[s])
    BY <2>1, <2>2
  <2>4. files \in Seq(Nat)
    BY TriggersName
  <2>5. a.again = FALSE /\ a.sess = s /\ a.files = files
    BY <1>p, <2>3
  <2>6. QED
    BY <2>4, <2>5 DEF Asking
<1>4. /\ DOMAIN asks' = RecallSlots
      /\ \A j \in RecallSlots : asks'[j] # NoRecall => Asking(asks'[j])
  BY <1>1, <1>3 DEF RecallInv
<1>5. \A x \in RecallSessions : answered'[x] \subseteq Range(Seen(x)')
  <2>1. PICK old, new : old = Range(ledger) /\ new = Range(ledger')
    OBVIOUS
  <2>2. \A x : Seen(x) = SeenIn(old, x) /\ Seen(x)' = SeenIn(new, x)
    BY <2>1, SeenIs DEF Seen, SeenIn, Own, OwnIn
  <2>3. QED
    BY <1>1, <1>2, <2>1, <2>2 DEF RecallInv
<1>6. QED
  BY <1>2, <1>4, <1>5 DEF RecallInv, Alone

\* Marking: the session's entry is the newest, and what it was answered for and
\* still holds is on it; what the others hold has not changed.
LEMMA MarkInv ==
  ASSUME RecallInv, NEW s \in RecallSessions, NEW files \in Seq(Nat), Mark(s, files)
  PROVE  /\ ledger' \in Seq(Entries) /\ Alone(Range(ledger'))
         /\ \A x \in RecallSessions : answered'[x] \subseteq Range(Seen(x)')
<1>1. CASE files = <<>>
  BY <1>1 DEF Mark, RecallInv, Seen, Own
<1>2. CASE files # <<>>
  <2>1. PICK known, all, kept, entry, others, new, own, cut :
          /\ known = Seen(s) /\ all = Reordered(Seen(s), files) /\ kept = Newest(all, LedgerFiles)
          /\ entry = [sess |-> s, files |-> kept] /\ others = Others(s)
          /\ new = Newest(Append(others, entry), LedgerSessions)
          /\ own = {e.sess : e \in Range(new)} /\ cut = Range(all) \ Range(kept)
    OBVIOUS
  <2>2. /\ ledger' = new
        /\ answered' = [x \in RecallSessions |->
             IF x \notin own THEN {}
             ELSE IF x = s THEN (answered[s] \cup Range(files)) \ cut ELSE answered[x]]
    BY <1>2, <2>1 DEF Mark
  <2>3. known \in Seq(Nat)
    BY <2>1, SeenFiles
  <2>4. all \in Seq(Nat) /\ Range(known) \cup Range(files) \subseteq Range(all)
    <3>1. PICK o : o = Only(known, Range(known) \ Range(files))
      OBVIOUS
    <3>2. o \in Seq(Nat) /\ Range(o) = Range(known) \cap (Range(known) \ Range(files))
      BY <2>3, <3>1, Selection
    <3>3. o \o files \in Seq(Nat) /\ Range(o \o files) = Range(o) \cup Range(files)
      BY <3>2, Joint
    <3>4. all = o \o files
      BY <2>1, <3>1 DEF Reordered
    <3>5. QED
      BY <3>2, <3>3, <3>4
  <2>5. kept \in Seq(Nat)
    BY <2>1, <2>4, TheNewest, RecallAssumption
  <2>6. entry \in Entries /\ entry.sess = s /\ entry.files = kept
    BY <2>1, <2>5 DEF Entries
  <2>7. others \in Seq(Entries) /\ Range(others) = {e \in Range(ledger) : e.sess # s}
    <3>1. others = Only(ledger, Range(ledger) \ Own(s)) /\ ledger \in Seq(Entries)
      BY <2>1 DEF Others, RecallInv
    <3>2. others \in Seq(Entries) /\ Range(others) = Range(ledger) \cap (Range(ledger) \ Own(s))
      BY <3>1, Selection
    <3>3. QED
      BY <3>2 DEF Own
  <2>8. new \in Seq(Entries) /\ Range(new) \subseteq Range(others) \cup {entry}
    <3>1. PICK long, one : long = Append(others, entry) /\ one = <<entry>>
      OBVIOUS
    <3>2. one \in Seq(Entries) /\ Len(one) = 1 /\ one[1] = entry /\ long = others \o one
      BY <2>6, <2>7, <3>1, AppendIsConcat
    <3>3. Range(one) = {entry}
      <4>1. Range(one) = {one[i] : i \in 1..Len(one)}
        BY <3>2, Elements
      <4>2. QED
        BY <3>2, <4>1
    <3>4. long \in Seq(Entries) /\ Range(long) = Range(others) \cup {entry}
      BY <2>7, <3>2, <3>3, Joint
    <3>5. QED
      BY <2>1, <3>1, <3>4, TheNewest, RecallAssumption
  <2>9. Alone(Range(new))
    <3>1. PICK n, o, l : n = Range(new) /\ o = Range(others) /\ l = Range(ledger)
      OBVIOUS
    <3>2. /\ n \subseteq o \cup {entry} /\ o = {e \in l : e.sess # s} /\ entry.sess = s
          /\ \A e, f \in l : e.sess = f.sess => e = f
      BY <2>6, <2>7, <2>8, <3>1 DEF Alone, RecallInv
    <3>3. \A e, f \in n : e.sess = f.sess => e = f
      BY <3>2
    <3>4. QED
      BY <3>1, <3>3 DEF Alone
  <2>10. ASSUME NEW x \in RecallSessions, x \in own, x = s PROVE SeenIn(Range(new), x) = kept
    <3>1. OwnIn(Range(new), x) = {entry}
      BY <2>1, <2>6, <2>7, <2>8, <2>10 DEF OwnIn
    <3>2. QED
      BY <2>6, <3>1 DEF SeenIn
  <2>11. ASSUME NEW x \in RecallSessions, x \in own, x # s PROVE SeenIn(Range(new), x) = Seen(x)
    <3>1. OwnIn(Range(new), x) = Own(x)
      <4>1. OwnIn(Range(new), x) # {} /\ OwnIn(Range(new), x) \subseteq Own(x)
        BY <2>1, <2>6, <2>7, <2>8, <2>11 DEF OwnIn, Own
      <4>2. \A e, f \in Own(x) : e = f
        BY DEF RecallInv, Alone, Own
      <4>3. QED
        BY <4>1, <4>2
    <3>2. QED
      BY <3>1 DEF SeenIn, Seen
  <2>12. ASSUME NEW x \in RecallSessions PROVE answered'[x] \subseteq Range(SeenIn(Range(new), x))
    <3>1. answered[x] \subseteq Range(Seen(x))
      BY DEF RecallInv
    <3>2. CASE x \notin own
      BY <2>2, <3>2
    <3>3. CASE x \in own /\ x = s
      <4>1. answered'[x] = (answered[s] \cup Range(files)) \ cut
        BY <2>2, <3>3
      <4>2. answered[s] \subseteq Range(known)
        BY <2>1, <3>1, <3>3
      <4>3. answered'[x] \subseteq Range(kept)
        BY <2>1, <2>4, <4>1, <4>2
      <4>4. QED
        BY <2>10, <3>3, <4>3
    <3>4. CASE x \in own /\ x # s
      BY <2>2, <2>11, <3>1, <3>4
    <3>5. QED
      BY <3>2, <3>3, <3>4
  <2>13. \A x : Seen(x)' = SeenIn(Range(new), x)
    BY <2>2 DEF Seen, SeenIn, Own, OwnIn
  <2>14. QED
    BY <2>2, <2>8, <2>9, <2>12, <2>13
<1>3. QED
  BY <1>1, <1>2

LEMMA RecallKept == RecallInv /\ [RecallNext]_recallVars => RecallInv'
<1>. SUFFICES ASSUME RecallInv, [RecallNext]_recallVars PROVE RecallInv'
  OBVIOUS
<1>1. ASSUME NEW i \in RecallSlots, NEW s \in RecallSessions, NEW files \in Triggers, Ask(i, s, files)
      PROVE  RecallInv'
  BY <1>1, AskInv
<1>2. ASSUME NEW i \in RecallSlots, Ends(i)
      PROVE  /\ asks[i] # NoRecall /\ DOMAIN asks' = RecallSlots
             /\ \A j \in RecallSlots : asks'[j] # NoRecall => Asking(asks'[j])
  BY <1>2 DEF Ends, RecallInv
<1>3. ASSUME UNCHANGED <<ledger, answered>>
      PROVE  /\ ledger' \in Seq(Entries) /\ Alone(Range(ledger'))
             /\ \A x \in RecallSessions : answered'[x] \subseteq Range(Seen(x)')
  BY <1>3 DEF RecallInv, Seen, Own
<1>4. ASSUME NEW i \in RecallSlots, Ends(i), UNCHANGED <<ledger, answered>> \/ Mark(asks[i].sess, asks[i].files)
      PROVE  RecallInv'
  <2>1. asks[i].sess \in RecallSessions /\ asks[i].files \in Seq(Nat)
    BY <1>2, <1>4 DEF RecallInv, Asking
  <2>2. /\ ledger' \in Seq(Entries) /\ Alone(Range(ledger'))
        /\ \A x \in RecallSessions : answered'[x] \subseteq Range(Seen(x)')
    BY <1>3, <1>4, <2>1, MarkInv
  <2>3. QED
    BY <1>2, <1>4, <2>2 DEF RecallInv
<1>5. ASSUME NEW i \in RecallSlots, NEW q \in ForcedQuestions, Answered(i, q) \/ AskRaises(i, q)
      PROVE  RecallInv'
  BY <1>4, <1>5 DEF Answered, AskRaises
<1>6. ASSUME NEW i \in RecallSlots, GraphFails(i) PROVE RecallInv'
  BY <1>4, <1>6 DEF GraphFails
<1>7. ASSUME UNCHANGED <<asks, ledger, answered>> PROVE RecallInv'
  BY <1>3, <1>7 DEF RecallInv
<1>8. ASSUME NEW q \in Questions, ToolAsks(q) PROVE RecallInv'
  BY <1>7, <1>8 DEF ToolAsks
<1>9. CASE UNCHANGED recallVars
  BY <1>7, <1>9 DEF recallVars
<1>10. QED
  BY <1>1, <1>5, <1>6, <1>8, <1>9 DEF RecallNext

\* No recall is forced for files that were all answered before it was asked and
\* that the ledger did not drop, for any sessions and any bounds of the ledger,
\* however many requests are under way (new_repeated_files, mark_files_recalled).
THEOREM RecallsAreNotRepeated == RecallSpec => []RecallNotRepeated
<1>1. RecallInv => RecallNotRepeated
  BY DEF RecallInv, RecallNotRepeated, Asking
<1>2. QED
  BY <1>1, RecallStart, RecallKept, PTL DEF RecallSpec
-----------------------------------------------------------------------------
(* What is read from the lines of a stream, line by line.                  *)

StreamDeltas == [index : Nat \ {0}, name : StreamTools \cup {NoName}, args : Seq(Nat)]
StreamCalls == [name : StreamTools \cup {NoName}, args : Seq(Nat)]
StreamLines == [text : Seq(Nat) \cup {NoText, Done}, deltas : {<<>>} \cup {<<d>> : d \in StreamDeltas},
                finish : {"", "stop", "tool_calls"}]

\* What one line adds to the text.
TextAt(l) == IF l.text \in {NoText, Done} THEN <<>> ELSE l.text

\* The delta of a call that has begun goes to that call; another begins one.
LEMMA AddedAllIs ==
  ASSUME NEW calls \in Seq(StreamCalls), NEW l \in StreamLines
  PROVE  /\ AddedAll(calls, l) \in Seq(StreamCalls)
         /\ l.deltas = <<>> => AddedAll(calls, l) = calls
         /\ l.deltas # <<>> => AddedAll(calls, l) # <<>>
<1>p. PICK n : n = Len(calls)
  OBVIOUS
<1>1. /\ n \in Nat /\ DOMAIN calls = 1..n /\ (calls = <<>> <=> n = 0)
      /\ \A i \in 1..n : calls[i] \in StreamCalls
  BY <1>p, LenProperties, ElementOfSeq, EmptySeq
<1>2. CASE l.deltas = <<>>
  BY <1>2 DEF AddedAll
<1>3. CASE l.deltas # <<>>
  <2>1. PICK d \in StreamDeltas : l.deltas = <<d>>
    BY <1>3 DEF StreamLines
  <2>2. AddedAll(calls, l) = Added(calls, d)
    BY <1>3, <2>1 DEF AddedAll
  <2>3. /\ d.index \in Nat /\ d.name \in StreamTools \cup {NoName} /\ d.args \in Seq(Nat)
    BY DEF StreamDeltas
  <2>4. CASE d.index \in 1..n
    <3>1. PICK c : c = Extended(calls[d.index], d)
      OBVIOUS
    <3>2. /\ calls[d.index].args \in Seq(Nat) /\ calls[d.index].name \in StreamTools \cup {NoName}
      BY <1>1, <2>4 DEF StreamCalls
    <3>3. calls[d.index].args \o d.args \in Seq(Nat)
      BY <3>2, <2>3, ConcatProperties
    <3>4. c \in StreamCalls
      BY <3>1, <3>2, <3>3, <2>3 DEF Extended, Called, StreamCalls
    <3>5. Added(calls, d) = [calls EXCEPT ![d.index] = c]
      BY <1>1, <2>4, <3>1 DEF Added
    <3>6. [calls EXCEPT ![d.index] = c] \in [1..n -> StreamCalls]
      BY <1>1, <3>4
    <3>7. Added(calls, d) \in Seq(StreamCalls) /\ Len(Added(calls, d)) = n
      BY <1>1, <3>5, <3>6, ListOf
    <3>8. Added(calls, d) # <<>>
      BY <3>7, <2>4, <1>1, EmptySeq
    <3>9. QED
      BY <1>3, <2>2, <3>7, <3>8
  <2>5. CASE d.index \notin 1..n
    <3>1. PICK c : c = Extended(Called(NoName, <<>>), d)
      OBVIOUS
    <3>2. <<>> \o d.args = d.args
      BY <2>3, ConcatEmptySeq
    <3>3. c \in StreamCalls
      BY <3>1, <3>2, <2>3 DEF Extended, Called, StreamCalls
    <3>4. Added(calls, d) = Append(calls, c)
      BY <1>1, <2>5, <3>1 DEF Added
    <3>5. Append(calls, c) \in Seq(StreamCalls) /\ Len(Append(calls, c)) = n + 1
      BY <3>3, <1>p, AppendProperties
    <3>6. Append(calls, c) # <<>>
      BY <3>5, <1>1, EmptySeq
    <3>7. QED
      BY <1>3, <2>2, <3>4, <3>5, <3>6
  <2>6. QED
    BY <2>4, <2>5
<1>4. QED
  BY <1>2, <1>3

LEMMA TextEmpty == TextOf(<<>>) = <<>>
<1>1. [i \in 1..Len(<<>>) |-> IF <<>>[i].text \in {NoText, Done} THEN <<>> ELSE <<>>[i].text] = <<>>
  OBVIOUS
<1>2. QED
  BY <1>1, FlattenEmpty DEF TextOf

\* The text of the lines before, and then that of the line.
LEMMA TextAppend ==
  ASSUME NEW ls \in Seq(StreamLines), NEW l \in StreamLines
  PROVE  /\ TextOf(ls) \in Seq(Nat) /\ TextAt(l) \in Seq(Nat)
         /\ TextOf(Append(ls, l)) = TextOf(ls) \o TextAt(l)
<1>p. PICK m, n, t, x, y :
         /\ m = Append(ls, l) /\ n = Len(ls) /\ t = TextAt(l)
         /\ x = [i \in 1..Len(ls) |-> TextAt(ls[i])]
         /\ y = [i \in 1..Len(m) |-> TextAt(m[i])]
  OBVIOUS
<1>1. \A k \in StreamLines : TextAt(k) \in Seq(Nat)
  <2>1. <<>> \in Seq(Nat)
    BY EmptySeq
  <2>2. QED
    BY <2>1 DEF StreamLines, TextAt
<1>2. /\ n \in Nat /\ \A i \in 1..n : ls[i] \in StreamLines
  BY <1>p, LenProperties, ElementOfSeq
<1>3. /\ m \in Seq(StreamLines) /\ Len(m) = n + 1 /\ m[n + 1] = l /\ \A i \in 1..n : m[i] = ls[i]
  BY <1>p, AppendProperties, LenProperties
<1>4. x \in [1..n -> Seq(Nat)]
  BY <1>1, <1>2, <1>p
<1>5. x \in Seq(Seq(Nat)) /\ Len(x) = n
  BY <1>2, <1>4, ListOf
<1>6. \A i \in 1..(n + 1) : m[i] \in StreamLines
  BY <1>3, ElementOfSeq
<1>7. y \in [1..(n + 1) -> Seq(Nat)]
  BY <1>1, <1>3, <1>6, <1>p
<1>8. y \in Seq(Seq(Nat)) /\ Len(y) = n + 1
  BY <1>2, <1>7, ListOf
<1>9. t \in Seq(Nat)
  BY <1>1, <1>p
<1>10. /\ Append(x, t) \in Seq(Seq(Nat)) /\ Len(Append(x, t)) = n + 1 /\ Append(x, t)[n + 1] = t
       /\ \A i \in 1..n : Append(x, t)[i] = x[i]
  BY <1>5, <1>9, AppendProperties
<1>11. \A i \in 1..(n + 1) : y[i] = Append(x, t)[i]
  <2>1. ASSUME NEW i \in 1..n PROVE y[i] = Append(x, t)[i]
    <3>1. i \in 1..(n + 1) /\ m[i] = ls[i]
      BY <1>2, <1>3
    <3>2. y[i] = TextAt(ls[i]) /\ x[i] = TextAt(ls[i])
      BY <3>1, <1>p, <1>3
    <3>3. QED
      BY <3>2, <1>10
  <2>2. y[n + 1] = t
    BY <1>p, <1>2, <1>3
  <2>3. QED
    BY <1>2, <1>10, <2>1, <2>2
<1>12. y = Append(x, t)
  BY <1>8, <1>10, <1>11, SeqEqual
<1>13. TextOf(ls) = FlattenSeq(x) /\ TextOf(m) = FlattenSeq(y)
  BY <1>p DEF TextOf, TextAt
<1>14. FlattenSeq(Append(x, t)) = FlattenSeq(x) \o t
  BY <1>5, <1>9, FlattenAppend
<1>15. FlattenSeq(x) \in Seq(Nat)
  BY <1>5, FlattenType
<1>16. QED
  BY <1>9, <1>12, <1>13, <1>14, <1>15, <1>p

\* The reason of the line, or that of the lines before.
LEMMA FinishEmpty == FinishOf(<<>>) = "stop"
BY DEF FinishOf

LEMMA FinishAppend ==
  ASSUME NEW ls \in Seq(StreamLines), NEW l \in StreamLines
  PROVE  FinishOf(Append(ls, l)) = IF l.finish # "" THEN l.finish ELSE FinishOf(ls)
<1>q. PICK m, n : m = Append(ls, l) /\ n = Len(ls)
  OBVIOUS
<1>1. /\ n \in Nat /\ m \in Seq(StreamLines) /\ Len(m) = n + 1 /\ m[n + 1] = l
      /\ \A i \in 1..n : m[i] = ls[i]
  BY <1>q, AppendProperties, LenProperties
<1>p. PICK A, B :
         /\ m = Append(ls, l) /\ n = Len(ls)
         /\ A = {i \in 1..Len(ls) : ls[i].finish # ""}
         /\ B = {i \in 1..Len(m) : m[i].finish # ""}
  BY <1>q
<1>2. /\ FinishOf(ls) = IF A = {} THEN "stop" ELSE ls[Max(A)].finish
      /\ FinishOf(m) = IF B = {} THEN "stop" ELSE m[Max(B)].finish
  BY <1>p DEF FinishOf
<1>3. /\ A \in SUBSET (1..n) /\ B \in SUBSET (1..(n + 1))
      /\ \A i \in 1..n : i \in A <=> i \in B
      /\ n + 1 \in B <=> l.finish # ""
  <2>1. /\ A = {i \in 1..n : ls[i].finish # ""}
        /\ B = {i \in 1..(n + 1) : m[i].finish # ""}
    BY <1>p, <1>1
  <2>2. ASSUME NEW i \in 1..n PROVE i \in A <=> i \in B
    <3>1. i \in 1..(n + 1) /\ m[i] = ls[i]
      BY <1>1
    <3>2. i \in A <=> ls[i].finish # ""
      BY <2>1
    <3>3. i \in B <=> m[i].finish # ""
      BY <2>1, <3>1
    <3>4. QED
      BY <3>1, <3>2, <3>3
  <2>3. n + 1 \in B <=> l.finish # ""
    <3>1. n + 1 \in 1..(n + 1)
      BY <1>1
    <3>2. n + 1 \in B <=> m[n + 1].finish # ""
      BY <2>1, <3>1
    <3>3. QED
      BY <1>1, <3>2
  <2>4. QED
    BY <2>1, <2>2, <2>3
<1>4. CASE l.finish # ""
  <2>1. n + 1 \in B
    BY <1>3, <1>4
  <2>2. Max(B) \in B /\ \A x \in B : x <= Max(B)
    <3>1. n + 1 \in Nat /\ B # {}
      BY <1>1, <2>1
    <3>2. QED
      BY <1>3, <3>1, LastIsIn
  <2>3. Max(B) = n + 1
    <3>1. Max(B) \in 1..(n + 1) /\ n + 1 <= Max(B)
      BY <1>3, <2>1, <2>2
    <3>2. QED
      BY <1>1, <3>1
  <2>4. QED
    BY <1>p, <1>1, <1>2, <1>4, <2>1, <2>3
<1>5. CASE l.finish = ""
  <2>1. A = B
    <3>1. n + 1 \notin B
      BY <1>3, <1>5
    <3>2. \A i \in 1..(n + 1) : i = n + 1 \/ i \in 1..n
      BY <1>1
    <3>3. n + 1 \notin A
      <4>1. n + 1 \notin 1..n
        BY <1>1
      <4>2. QED
        BY <1>3, <4>1
    <3>4. \A i : i \in A <=> i \in B
      BY <1>1, <1>3, <3>1, <3>2, <3>3
    <3>5. QED
      BY <3>4
  <2>2. CASE A = {}
    BY <1>p, <1>2, <1>5, <2>1, <2>2
  <2>3. CASE A # {}
    <3>1. Max(A) \in A
      BY <1>1, <1>3, <2>3, LastIsIn
    <3>2. m[Max(A)] = ls[Max(A)]
      BY <1>1, <1>3, <3>1
    <3>3. QED
      BY <1>p, <1>2, <1>5, <2>1, <2>3, <3>2
  <2>4. QED
    BY <2>2, <2>3
<1>6. QED
  BY <1>4, <1>5

\* One entry of the recursion of CallsRead, from the entry before it.
CallsEntry(ls, f, n) == IF n = 0 THEN <<>> ELSE AddedAll(f[n - 1], ls[n])

\* The recursion has a solution, so CallsRead is its last entry.
LEMMA CallsDefined ==
  ASSUME NEW ls \in Seq(StreamLines)
  PROVE  \E f : /\ f = [n \in 0..Len(ls) |-> CallsEntry(ls, f, n)]
                /\ CallsRead(ls) = f[Len(ls)]
<1>. DEFINE Solves(f, m) == f = [n \in 0..m |-> CallsEntry(ls, f, n)]
            calls[n \in 0..Len(ls)] == IF n = 0 THEN <<>> ELSE AddedAll(calls[n - 1], ls[n])
            I == {m \in Nat : \E f : Solves(f, m)}
<1>1. 0 \in I
  <2>1. Solves([n \in 0..0 |-> <<>>], 0)
    BY DEF CallsEntry
  <2>2. QED
    BY <2>1
<1>2. ASSUME NEW m \in Nat, m \in I
      PROVE  m + 1 \in I
  <2>1. PICK f : Solves(f, m)
    BY <1>2
  <2>2. PICK g : g = [n \in 0..(m + 1) |-> IF n = m + 1 THEN CallsEntry(ls, f, n) ELSE f[n]]
    OBVIOUS
  <2>3. ASSUME NEW n \in 0..(m + 1)
        PROVE  g[n] = CallsEntry(ls, g, n)
    <3>1. CASE n = 0
      BY <2>1, <2>2, <3>1 DEF CallsEntry
    <3>2. CASE n # 0
      <4>1. n - 1 \in 0..m /\ g[n - 1] = f[n - 1]
        BY <2>2, <3>2
      <4>2. CASE n = m + 1
        BY <2>2, <4>1, <4>2 DEF CallsEntry
      <4>3. CASE n # m + 1
        <5>1. n \in 0..m /\ g[n] = f[n]
          BY <2>2, <4>3
        <5>2. f[n] = CallsEntry(ls, f, n)
          BY <2>1, <5>1
        <5>3. QED
          BY <4>1, <5>1, <5>2 DEF CallsEntry
      <4>4. QED
        BY <4>2, <4>3
    <3>3. QED
      BY <3>1, <3>2
  <2>4. Solves(g, m + 1)
    BY <2>2, <2>3
  <2>5. QED
    BY <2>4
<1>3. Len(ls) \in I
  <2>. HIDE DEF I
  <2>1. Nat \subseteq I
    BY <1>1, <1>2, SetInduction
  <2>2. QED
    BY <2>1
<1>4. PICK f : Solves(f, Len(ls))
  BY <1>3
<1>5. \E g : g = [n \in 0..Len(ls) |-> IF n = 0 THEN <<>> ELSE AddedAll(g[n - 1], ls[n])]
  BY <1>4 DEF CallsEntry
<1>6. Solves(calls, Len(ls))
  BY <1>5 DEF CallsEntry
<1>7. CallsRead(ls) = calls[Len(ls)]
  BY DEF CallsRead
<1>8. QED
  BY <1>6, <1>7

LEMMA CallsEmpty == CallsRead(<<>>) = <<>>
<1>p. PICK ls : ls = <<>>
  OBVIOUS
<1>1. ls \in Seq(StreamLines) /\ Len(ls) = 0
  BY <1>p, EmptySeq
<1>2. PICK f : f = [n \in 0..Len(ls) |-> CallsEntry(ls, f, n)] /\ CallsRead(ls) = f[Len(ls)]
  BY <1>1, CallsDefined
<1>3. f[0] = CallsEntry(ls, f, 0)
  BY <1>1, <1>2
<1>4. QED
  BY <1>1, <1>p, <1>2, <1>3 DEF CallsEntry

\* The calls of the lines before, and the delta of the line added to them.
LEMMA CallsAppend ==
  ASSUME NEW ls \in Seq(StreamLines), NEW l \in StreamLines
  PROVE  CallsRead(Append(ls, l)) = AddedAll(CallsRead(ls), l)
<1>1. PICK f : f = [n \in 0..Len(ls) |-> CallsEntry(ls, f, n)] /\ CallsRead(ls) = f[Len(ls)]
  BY CallsDefined
<1>p. PICK t, m : t = Append(ls, l) /\ m = Len(ls)
  OBVIOUS
<1>2. /\ t \in Seq(StreamLines) /\ Len(t) = m + 1 /\ m \in Nat /\ t[m + 1] = l
      /\ \A i \in 1..m : t[i] = ls[i]
  BY <1>p, AppendProperties, LenProperties
<1>3. PICK g : g = [n \in 0..Len(t) |-> CallsEntry(t, g, n)] /\ CallsRead(t) = g[Len(t)]
  BY <1>2, CallsDefined
<1>4. /\ \A n \in 0..m : f[n] = CallsEntry(ls, f, n)
      /\ \A n \in 0..(m + 1) : g[n] = CallsEntry(t, g, n)
  BY <1>p, <1>1, <1>2, <1>3
<1>. DEFINE I == {n \in Nat : n <= m => g[n] = f[n]}
<1>5. 0 \in I
  BY <1>2, <1>4 DEF CallsEntry
<1>6. ASSUME NEW n \in Nat, n \in I PROVE n + 1 \in I
  <2>1. SUFFICES ASSUME n + 1 <= m PROVE g[n + 1] = f[n + 1]
    OBVIOUS
  <2>2. /\ n + 1 \in 0..m /\ n + 1 \in 0..(m + 1) /\ n + 1 \in 1..m /\ n + 1 # 0
        /\ (n + 1) - 1 = n /\ g[n] = f[n]
    BY <1>2, <1>6, <2>1
  <2>3. t[n + 1] = ls[n + 1]
    BY <1>2, <2>2
  <2>4. g[n + 1] = CallsEntry(t, g, n + 1) /\ f[n + 1] = CallsEntry(ls, f, n + 1)
    BY <1>4, <2>2
  <2>5. QED
    BY <2>2, <2>3, <2>4 DEF CallsEntry
<1>7. g[m] = f[m]
  <2>. HIDE DEF I
  <2>1. Nat \subseteq I
    BY <1>5, <1>6, SetInduction
  <2>2. QED
    BY <1>2, <2>1 DEF I
<1>8. g[m + 1] = AddedAll(g[m], l)
  <2>1. m + 1 \in 0..(m + 1) /\ m + 1 # 0 /\ (m + 1) - 1 = m
    BY <1>2
  <2>2. g[m + 1] = CallsEntry(t, g, m + 1)
    BY <1>4, <2>1
  <2>3. QED
    BY <1>2, <2>1, <2>2 DEF CallsEntry
<1>9. QED
  BY <1>p, <1>1, <1>2, <1>3, <1>7, <1>8

LEMMA CallsType ==
  ASSUME NEW ls \in Seq(StreamLines)
  PROVE  CallsRead(ls) \in Seq(StreamCalls)
<1>. DEFINE I == {s \in Seq(StreamLines) : CallsRead(s) \in Seq(StreamCalls)}
<1>1. <<>> \in I
  <2>1. \A R : <<>> \in Seq(R)
    BY EmptySeq
  <2>2. QED
    BY <2>1, CallsEmpty
<1>2. ASSUME NEW s \in Seq(StreamLines), NEW e \in StreamLines, s \in I PROVE Append(s, e) \in I
  <2>1. Append(s, e) \in Seq(StreamLines)
    BY AppendProperties
  <2>2. CallsRead(s) \in Seq(StreamCalls)
    BY <1>2
  <2>3. AddedAll(CallsRead(s), e) \in Seq(StreamCalls)
    BY <2>2, AddedAllIs
  <2>4. CallsRead(Append(s, e)) \in Seq(StreamCalls)
    BY <2>3, CallsAppend
  <2>5. QED
    BY <2>1, <2>4
<1>3. Seq(StreamLines) \subseteq I
  <2>. HIDE DEF I
  <2>1. QED
    BY <1>1, <1>2, SeqInduction
<1>4. QED
  BY <1>3
-----------------------------------------------------------------------------
(* What _non_streaming_to_sse makes of an answer reads as that answer.     *)

LEMMA BeginsAt ==
  ASSUME NEW calls \in Seq(StreamCalls), NEW l \in StreamLines, NEW d \in StreamDeltas,
         l.deltas = <<d>>, d.index = Len(calls) + 1
  PROVE  AddedAll(calls, l) = Append(calls, Called(d.name, d.args))
<1>p. PICK n : n = Len(calls)
  OBVIOUS
<1>1. n \in Nat /\ DOMAIN calls = 1..n
  BY <1>p, LenProperties
<1>2. d.index \notin DOMAIN calls
  BY <1>1, <1>p
<1>3. AddedAll(calls, l) = Append(calls, Extended(Called(NoName, <<>>), d))
  BY <1>2 DEF AddedAll, Added
<1>4. d.args \in Seq(Nat)
  BY DEF StreamDeltas
<1>5. <<>> \o d.args = d.args
  BY <1>4, ConcatEmptySeq
<1>6. Extended(Called(NoName, <<>>), d) = Called(d.name, d.args)
  BY <1>5 DEF Extended, Called
<1>7. QED
  BY <1>3, <1>6

LEMMA GoesAt ==
  ASSUME NEW calls \in Seq(StreamCalls), NEW l \in StreamLines, NEW d \in StreamDeltas,
         l.deltas = <<d>>, d.index \in 1..Len(calls)
  PROVE  /\ Len(AddedAll(calls, l)) = Len(calls)
         /\ AddedAll(calls, l)[d.index] = Extended(calls[d.index], d)
         /\ \A j \in 1..Len(calls) : j # d.index => AddedAll(calls, l)[j] = calls[j]
<1>p. PICK n, more, c, i :
        n = Len(calls) /\ more = AddedAll(calls, l) /\ i = d.index /\ c = Extended(calls[d.index], d)
  OBVIOUS
<1>1. n \in Nat /\ DOMAIN calls = 1..n /\ i \in 1..n
  BY <1>p, LenProperties
<1>2. more = [calls EXCEPT ![i] = c]
  <2>1. AddedAll(calls, l) = Added(calls, d)
    BY DEF AddedAll
  <2>2. Added(calls, d) = [calls EXCEPT ![d.index] = Extended(@, d)]
    BY <1>1, <1>p DEF Added
  <2>3. QED
    BY <2>1, <2>2, <1>p
<1>3. DOMAIN more = 1..n /\ more[i] = c /\ \A j \in 1..n : j # i => more[j] = calls[j]
  BY <1>1, <1>2
<1>4. more \in Seq(StreamCalls)
  BY <1>p, AddedAllIs
<1>5. Len(more) \in Nat /\ DOMAIN more = 1..Len(more)
  BY <1>4, LenProperties
<1>6. Len(more) = n
  BY <1>1, <1>3, <1>5
<1>7. QED
  BY <1>3, <1>6, <1>p

\* The calls of an answer have names.
NamedCalls == [name : StreamTools, args : Seq(Nat)]

\* The two lines of a call: its name, and its arguments.
NameLine(i, c) == Line(NoText, <<CallDelta(i, c.name, <<>>)>>, "")
ArgsLine(i, c) == Line(NoText, <<CallDelta(i, NoName, c.args)>>, "")

LEMMA CallLinesAre ==
  ASSUME NEW i \in Nat \ {0}, NEW c \in NamedCalls
  PROVE  /\ NameLine(i, c) \in StreamLines /\ ArgsLine(i, c) \in StreamLines
         /\ TextAt(NameLine(i, c)) = <<>> /\ TextAt(ArgsLine(i, c)) = <<>>
         /\ CallDelta(i, c.name, <<>>) \in StreamDeltas /\ CallDelta(i, NoName, c.args) \in StreamDeltas
         /\ CallLines(i, c) \in Seq(StreamLines)
         /\ CallLines(i, c) = IF c.args = <<>> THEN Append(<<>>, NameLine(i, c))
                              ELSE Append(Append(<<>>, NameLine(i, c)), ArgsLine(i, c))
<1>p. PICK l, k : l = NameLine(i, c) /\ k = ArgsLine(i, c)
  OBVIOUS
<1>1. c.name \in StreamTools /\ c.args \in Seq(Nat) /\ <<>> \in Seq(Nat)
  BY EmptySeq DEF NamedCalls
<1>2. CallDelta(i, c.name, <<>>) \in StreamDeltas /\ CallDelta(i, NoName, c.args) \in StreamDeltas
  BY <1>1 DEF CallDelta, StreamDeltas
<1>3. l \in StreamLines /\ k \in StreamLines
  BY <1>2, <1>p DEF NameLine, ArgsLine, Line, StreamLines
<1>4. TextAt(l) = <<>> /\ TextAt(k) = <<>>
  BY <1>p DEF NameLine, ArgsLine, Line, TextAt
<1>5. CallLines(i, c) = <<l>> \o (IF c.args = <<>> THEN <<>> ELSE <<k>>)
  BY <1>p DEF CallLines, NameLine, ArgsLine
<1>6. /\ <<>> \in Seq(StreamLines) /\ <<l>> = Append(<<>>, l) /\ <<l>> \in Seq(StreamLines)
      /\ <<k>> \in Seq(StreamLines)
  BY <1>3, EmptySeq
<1>7. <<l>> \o <<>> = <<l>>
  BY <1>6, ConcatEmptySeq
<1>8. <<l>> \o <<k>> = Append(<<l>>, k)
  BY <1>3, <1>6
<1>9. Append(<<l>>, k) \in Seq(StreamLines)
  BY <1>3, <1>6, AppendProperties
<1>10. CallLines(i, c) = IF c.args = <<>> THEN Append(<<>>, l) ELSE Append(Append(<<>>, l), k)
  BY <1>5, <1>6, <1>7, <1>8
<1>11. CallLines(i, c) \in Seq(StreamLines)
  BY <1>5, <1>6, <1>7, <1>8, <1>9
<1>12. QED
  BY <1>2, <1>3, <1>4, <1>10, <1>11, <1>p

\* What is read of lines, before a reason to finish.
ReadAs(ls, text, calls) ==
  ls \in Seq(StreamLines) /\ TextOf(ls) = text /\ CallsRead(ls) = calls

LEMMA ReadsMore ==
  ASSUME NEW ls, NEW text \in Seq(Nat), NEW calls, ReadAs(ls, text, calls),
         NEW l \in StreamLines, TextAt(l) = <<>>
  PROVE  ReadAs(Append(ls, l), text, AddedAll(calls, l))
<1>1. ls \in Seq(StreamLines) /\ TextOf(ls) = text /\ CallsRead(ls) = calls
  BY DEF ReadAs
<1>2. TextOf(Append(ls, l)) = text
  <2>1. TextOf(Append(ls, l)) = text \o <<>>
    BY <1>1, TextAppend
  <2>2. QED
    BY <2>1, ConcatEmptySeq
<1>3. CallsRead(Append(ls, l)) = AddedAll(calls, l)
  BY <1>1, CallsAppend
<1>4. Append(ls, l) \in Seq(StreamLines)
  BY <1>1, AppendProperties
<1>5. QED
  BY <1>2, <1>3, <1>4 DEF ReadAs

\* The lines of the next call add that call.
LEMMA CallIsRead ==
  ASSUME NEW ls, NEW text \in Seq(Nat), NEW calls \in Seq(NamedCalls), ReadAs(ls, text, calls),
         NEW c \in NamedCalls, NEW i, i = Len(calls) + 1
  PROVE  ReadAs(ls \o CallLines(i, c), text, Append(calls, c))
<1>p. PICK l, k, d, e, b, n :
        /\ l = NameLine(i, c) /\ k = ArgsLine(i, c) /\ n = Len(calls)
        /\ d = CallDelta(i, c.name, <<>>) /\ e = CallDelta(i, NoName, c.args)
        /\ b = Called(c.name, <<>>)
  OBVIOUS
<1>1. n \in Nat /\ i = n + 1 /\ i \in Nat \ {0}
  BY <1>p, LenProperties
<1>2. /\ l \in StreamLines /\ k \in StreamLines /\ TextAt(l) = <<>> /\ TextAt(k) = <<>>
      /\ d \in StreamDeltas /\ e \in StreamDeltas
      /\ CallLines(i, c) = IF c.args = <<>> THEN Append(<<>>, l) ELSE Append(Append(<<>>, l), k)
  BY <1>1, <1>p, CallLinesAre
<1>3. /\ l.deltas = <<d>> /\ d.index = i /\ d.name = c.name /\ d.args = <<>>
      /\ k.deltas = <<e>> /\ e.index = i /\ e.name = NoName /\ e.args = c.args
  BY <1>p DEF NameLine, ArgsLine, Line, CallDelta
<1>4. NamedCalls \subseteq StreamCalls
  BY DEF NamedCalls, StreamCalls
<1>5. calls \in Seq(StreamCalls)
  BY <1>4, SeqWider
<1>6. AddedAll(calls, l) = Append(calls, b)
  <2>1. d.index = Len(calls) + 1
    BY <1>1, <1>3, <1>p
  <2>2. AddedAll(calls, l) = Append(calls, Called(d.name, d.args))
    BY <1>2, <1>3, <1>5, <2>1, BeginsAt
  <2>3. QED
    BY <2>2, <1>3, <1>p
<1>7. c = Called(c.name, c.args) /\ c.args \in Seq(Nat) /\ c.name \in StreamTools
  BY DEF NamedCalls, Called
<1>8. ls \in Seq(StreamLines)
  BY DEF ReadAs
<1>9. ReadAs(Append(ls, l), text, Append(calls, b))
  BY <1>2, <1>6, ReadsMore
<1>10. ls \o Append(<<>>, l) = Append(ls, l)
  <2>1. <<>> \in Seq(StreamLines)
    BY EmptySeq
  <2>2. ls \o Append(<<>>, l) = Append(ls \o <<>>, l)
    BY <1>2, <1>8, <2>1, AppendConcat
  <2>3. QED
    BY <1>8, <2>2, ConcatEmptySeq
<1>11. CASE c.args = <<>>
  <2>1. b = c
    BY <1>7, <1>11, <1>p
  <2>2. CallLines(i, c) = Append(<<>>, l)
    BY <1>2, <1>11
  <2>3. QED
    BY <1>9, <1>10, <2>1, <2>2
<1>12. CASE c.args # <<>>
  <2>p. PICK m, more : m = Append(calls, b) /\ more = AddedAll(Append(calls, b), k)
    OBVIOUS
  <2>1. b \in StreamCalls /\ c \in StreamCalls /\ b.args = <<>> /\ b.name = c.name
    <3>1. <<>> \in Seq(Nat)
      BY EmptySeq
    <3>2. QED
      BY <1>7, <1>p, <1>4, <3>1 DEF Called, StreamCalls
  <2>2. /\ m \in Seq(StreamCalls) /\ Len(m) = n + 1 /\ m[n + 1] = b
        /\ \A j \in 1..n : m[j] = calls[j]
    BY <1>5, <1>p, <2>1, <2>p, AppendProperties
  <2>3. Extended(b, e) = c
    <3>1. <<>> \o c.args = c.args
      BY <1>7, ConcatEmptySeq
    <3>2. Extended(b, e) = Called(c.name, <<>> \o c.args)
      BY <1>3, <2>1 DEF Extended
    <3>3. QED
      BY <3>1, <3>2, <1>7
  <2>4. /\ Len(more) = n + 1 /\ more[n + 1] = c
        /\ \A j \in 1..(n + 1) : j # n + 1 => more[j] = m[j]
    <3>1. e.index \in 1..Len(m)
      BY <1>1, <1>3, <2>2
    <3>2. /\ Len(more) = Len(m) /\ more[e.index] = Extended(m[e.index], e)
          /\ \A j \in 1..Len(m) : j # e.index => more[j] = m[j]
      <4>1. more = AddedAll(m, k) /\ m \in Seq(StreamCalls)
        BY <2>2, <2>p
      <4>2. /\ Len(AddedAll(m, k)) = Len(m) /\ AddedAll(m, k)[e.index] = Extended(m[e.index], e)
            /\ \A j \in 1..Len(m) : j # e.index => AddedAll(m, k)[j] = m[j]
        BY <3>1, <4>1, <1>2, <1>3, GoesAt
      <4>3. QED
        BY <4>1, <4>2
    <3>3. QED
      BY <3>2, <1>1, <1>3, <2>2, <2>3
  <2>5. more \in Seq(StreamCalls)
    BY <2>2, <1>2, <2>p, AddedAllIs
  <2>6. /\ Append(calls, c) \in Seq(StreamCalls) /\ Len(Append(calls, c)) = n + 1
        /\ Append(calls, c)[n + 1] = c /\ \A j \in 1..n : Append(calls, c)[j] = calls[j]
    BY <1>5, <1>p, <2>1, AppendProperties
  <2>7. \A j \in 1..(n + 1) : more[j] = Append(calls, c)[j]
    <3>1. \A j \in 1..(n + 1) : j = n + 1 \/ (j \in 1..n /\ j # n + 1)
      BY <1>1
    <3>2. ASSUME NEW j \in 1..n, j # n + 1 PROVE more[j] = Append(calls, c)[j]
      <4>1. j \in 1..(n + 1)
        BY <1>1
      <4>2. QED
        BY <4>1, <3>2, <2>2, <2>4, <2>6
    <3>3. QED
      BY <3>1, <3>2, <2>4, <2>6
  <2>8. more = Append(calls, c)
    BY <2>4, <2>5, <2>6, <2>7, SeqEqual
  <2>9. ReadAs(Append(Append(ls, l), k), text, Append(calls, c))
    BY <1>9, <1>2, <2>8, <2>p, ReadsMore
  <2>10. CallLines(i, c) = Append(Append(<<>>, l), k)
    BY <1>2, <1>12
  <2>11. ls \o Append(Append(<<>>, l), k) = Append(Append(ls, l), k)
    <3>1. Append(<<>>, l) \in Seq(StreamLines)
      BY <1>2, EmptySeq, AppendProperties
    <3>2. ls \o Append(Append(<<>>, l), k) = Append(ls \o Append(<<>>, l), k)
      BY <1>2, <1>8, <3>1, AppendConcat
    <3>3. QED
      BY <3>2, <1>10
  <2>12. QED
    BY <2>9, <2>10, <2>11
<1>13. QED
  BY <1>11, <1>12
\* The lines of all calls of an answer.
CallBlock(cs) == FlattenSeq([i \in DOMAIN cs |-> CallLines(i, cs[i])])

LEMMA BlockEmpty == CallBlock(<<>>) = <<>>
<1>1. [i \in DOMAIN <<>> |-> CallLines(i, <<>>[i])] = <<>>
  OBVIOUS
<1>2. QED
  BY <1>1, FlattenEmpty DEF CallBlock

LEMMA BlockAppend ==
  ASSUME NEW cs \in Seq(NamedCalls), NEW c \in NamedCalls
  PROVE  /\ CallBlock(cs) \in Seq(StreamLines)
         /\ CallLines(Len(cs) + 1, c) \in Seq(StreamLines)
         /\ CallBlock(Append(cs, c)) = CallBlock(cs) \o CallLines(Len(cs) + 1, c)
<1>p. PICK m, n, t, x, y :
         /\ m = Append(cs, c) /\ n = Len(cs) /\ t = CallLines(Len(cs) + 1, c)
         /\ x = [i \in DOMAIN cs |-> CallLines(i, cs[i])]
         /\ y = [i \in DOMAIN m |-> CallLines(i, m[i])]
  OBVIOUS
<1>1. n \in Nat /\ DOMAIN cs = 1..n /\ \A i \in 1..n : cs[i] \in NamedCalls
  BY <1>p, LenProperties, ElementOfSeq
<1>2. /\ m \in Seq(NamedCalls) /\ Len(m) = n + 1 /\ m[n + 1] = c /\ \A i \in 1..n : m[i] = cs[i]
  BY <1>p, AppendProperties, LenProperties
<1>3. DOMAIN m = 1..(n + 1) /\ \A i \in 1..(n + 1) : m[i] \in NamedCalls
  BY <1>2, LenProperties, ElementOfSeq
<1>4. \A i \in Nat \ {0}, k \in NamedCalls : CallLines(i, k) \in Seq(StreamLines)
  BY CallLinesAre
<1>5. x \in [1..n -> Seq(StreamLines)]
  <2>1. \A i \in 1..n : CallLines(i, cs[i]) \in Seq(StreamLines)
    BY <1>1, <1>4
  <2>2. QED
    BY <2>1, <1>1, <1>p
<1>6. x \in Seq(Seq(StreamLines)) /\ Len(x) = n
  BY <1>1, <1>5, ListOf
<1>7. y \in [1..(n + 1) -> Seq(StreamLines)]
  <2>1. \A i \in 1..(n + 1) : CallLines(i, m[i]) \in Seq(StreamLines)
    BY <1>1, <1>3, <1>4
  <2>2. QED
    BY <2>1, <1>3, <1>p
<1>8. y \in Seq(Seq(StreamLines)) /\ Len(y) = n + 1
  BY <1>1, <1>7, ListOf
<1>9. t \in Seq(StreamLines)
  BY <1>1, <1>4, <1>p
<1>10. /\ Append(x, t) \in Seq(Seq(StreamLines)) /\ Len(Append(x, t)) = n + 1
       /\ Append(x, t)[n + 1] = t /\ \A i \in 1..n : Append(x, t)[i] = x[i]
  BY <1>6, <1>9, AppendProperties
<1>11. \A i \in 1..(n + 1) : y[i] = Append(x, t)[i]
  <2>1. ASSUME NEW i \in 1..n PROVE y[i] = Append(x, t)[i]
    <3>1. i \in 1..(n + 1) /\ m[i] = cs[i]
      BY <1>1, <1>2
    <3>2. y[i] = CallLines(i, cs[i]) /\ x[i] = CallLines(i, cs[i])
      BY <3>1, <1>p, <1>1, <1>3
    <3>3. QED
      BY <3>2, <1>10
  <2>2. y[n + 1] = t
    <3>1. n + 1 \in 1..(n + 1)
      BY <1>1
    <3>2. y[n + 1] = CallLines(n + 1, m[n + 1])
      BY <3>1, <1>p, <1>3
    <3>3. QED
      BY <3>2, <1>2, <1>p
  <2>3. QED
    BY <1>1, <1>10, <2>1, <2>2
<1>12. y = Append(x, t)
  BY <1>8, <1>10, <1>11, SeqEqual
<1>13. CallBlock(cs) = FlattenSeq(x) /\ CallBlock(m) = FlattenSeq(y)
  BY <1>p DEF CallBlock
<1>14. FlattenSeq(Append(x, t)) = FlattenSeq(x) \o t
  BY <1>6, <1>9, FlattenAppend
<1>15. FlattenSeq(x) \in Seq(StreamLines)
  BY <1>6, FlattenType
<1>16. QED
  BY <1>9, <1>12, <1>13, <1>14, <1>15, <1>p

LEMMA CallsAreRead ==
  ASSUME NEW cs \in Seq(NamedCalls), NEW ls, NEW text \in Seq(Nat), ReadAs(ls, text, <<>>)
  PROVE  CallBlock(cs) \in Seq(StreamLines) /\ ReadAs(ls \o CallBlock(cs), text, cs)
<1>0. ls \in Seq(StreamLines)
  BY DEF ReadAs
<1>. DEFINE Good(s) == CallBlock(s) \in Seq(StreamLines) /\ ReadAs(ls \o CallBlock(s), text, s)
            I == {s \in Seq(NamedCalls) : Good(s)}
<1>1. <<>> \in I
  <2>1. \A R : <<>> \in Seq(R)
    BY EmptySeq
  <2>2. ls \o <<>> = ls
    BY <1>0, ConcatEmptySeq
  <2>3. Good(<<>>)
    BY <2>1, <2>2, BlockEmpty
  <2>4. QED
    BY <2>1, <2>3
<1>2. ASSUME NEW s \in Seq(NamedCalls), NEW c \in NamedCalls, s \in I PROVE Append(s, c) \in I
  <2>p. PICK b, t, i : b = CallBlock(s) /\ i = Len(s) + 1 /\ t = CallLines(Len(s) + 1, c)
    OBVIOUS
  <2>1. Append(s, c) \in Seq(NamedCalls)
    BY AppendProperties
  <2>2. b \in Seq(StreamLines) /\ t \in Seq(StreamLines) /\ CallBlock(Append(s, c)) = b \o t
    BY <2>p, BlockAppend
  <2>3. ReadAs(ls \o b, text, s)
    BY <1>2, <2>p
  <2>4. ReadAs((ls \o b) \o CallLines(i, c), text, Append(s, c))
    BY <2>3, <2>p, CallIsRead
  <2>5. (ls \o b) \o t = ls \o (b \o t)
    <3>1. ls \in Seq(StreamLines) /\ b \in Seq(StreamLines) /\ t \in Seq(StreamLines)
      BY <1>0, <2>2
    <3>2. QED
      BY <3>1, ConcatAssociative, SMTT(30)
  <2>6. ReadAs(ls \o (b \o t), text, Append(s, c))
    BY <2>4, <2>5, <2>p
  <2>7. b \o t \in Seq(StreamLines)
    BY <2>2, ConcatProperties
  <2>8. Good(Append(s, c))
    BY <2>2, <2>6, <2>7
  <2>9. QED
    BY <2>1, <2>8
<1>3. Seq(NamedCalls) \subseteq I
  <2>. HIDE DEF I
  <2>1. QED
    BY <1>1, <1>2, SeqInduction
<1>4. QED
  BY <1>3

\* The whole answers.
WholeAnswers == [text : Seq(Nat), calls : Seq(NamedCalls), finish : {"stop", "tool_calls"}]

LEMMA AsLinesRead ==
  ASSUME NEW a \in WholeAnswers
  PROVE  AsLines(a) \in Seq(StreamLines) /\ Read(AsLines(a)) = a
<1>p. PICK l, k, f, d, head, block, before :
        /\ l = Line(NoText, <<>>, "") /\ k = Line(a.text, <<>>, "")
        /\ f = Line(NoText, <<>>, a.finish) /\ d = DoneLine
        /\ head = <<l>> \o (IF a.text = <<>> THEN <<>> ELSE <<k>>)
        /\ block = CallBlock(a.calls)
        /\ before = head \o block
  OBVIOUS
<1>1. /\ a.text \in Seq(Nat) /\ a.calls \in Seq(NamedCalls) /\ a.finish \in {"stop", "tool_calls"}
      /\ a = StreamAnswer(a.text, a.calls, a.finish)
  BY DEF WholeAnswers, StreamAnswer
<1>2. l \in StreamLines /\ k \in StreamLines /\ f \in StreamLines /\ d \in StreamLines
  BY <1>1, <1>p DEF Line, DoneLine, StreamLines
<1>3. /\ l.deltas = <<>> /\ k.deltas = <<>> /\ f.deltas = <<>> /\ d.deltas = <<>>
      /\ f.finish = a.finish /\ d.finish = ""
  BY <1>p DEF Line, DoneLine
<1>4. TextAt(l) = <<>> /\ TextAt(f) = <<>> /\ TextAt(d) = <<>> /\ TextAt(k) = a.text
  <2>1. a.text # NoText /\ a.text # Done
    BY <1>1, StreamsAssumption
  <2>2. QED
    BY <2>1, <1>p DEF Line, DoneLine, TextAt
<1>5. ReadAs(<<l>>, <<>>, <<>>)
  <2>1. <<>> \in Seq(StreamLines) /\ <<>> \in Seq(Nat) /\ <<>> \in Seq(StreamCalls)
    BY EmptySeq
  <2>2. ReadAs(<<>>, <<>>, <<>>)
    BY <2>1, TextEmpty, CallsEmpty DEF ReadAs
  <2>3. ReadAs(Append(<<>>, l), <<>>, AddedAll(<<>>, l))
    BY <2>1, <2>2, <1>2, <1>4, ReadsMore
  <2>4. AddedAll(<<>>, l) = <<>>
    BY <2>1, <1>2, <1>3, AddedAllIs
  <2>5. Append(<<>>, l) = <<l>>
    OBVIOUS
  <2>6. QED
    BY <2>3, <2>4, <2>5
<1>6. ReadAs(head, a.text, <<>>)
  <2>0. <<l>> \in Seq(StreamLines)
    BY <1>5 DEF ReadAs
  <2>1. CASE a.text = <<>>
    <3>1. head = <<l>>
      BY <2>0, <2>1, <1>p, ConcatEmptySeq
    <3>2. QED
      BY <3>1, <2>1, <1>5
  <2>2. CASE a.text # <<>>
    <3>1. head = <<l>> \o <<k>>
      BY <2>2, <1>p
    <3>2. <<l>> \o <<k>> = Append(<<l>>, k)
      BY <1>2, <2>0
    <3>3. TextOf(Append(<<l>>, k)) = a.text
      <4>1. TextOf(Append(<<l>>, k)) = <<>> \o a.text
        BY <1>2, <1>4, <1>5, <2>0, TextAppend DEF ReadAs
      <4>2. QED
        BY <4>1, <1>1, ConcatEmptySeq
    <3>4. CallsRead(Append(<<l>>, k)) = <<>>
      <4>1. CallsRead(Append(<<l>>, k)) = AddedAll(<<>>, k)
        BY <1>2, <1>5, <2>0, CallsAppend DEF ReadAs
      <4>2. <<>> \in Seq(StreamCalls)
        BY EmptySeq
      <4>3. AddedAll(<<>>, k) = <<>>
        BY <4>2, <1>2, <1>3, AddedAllIs
      <4>4. QED
        BY <4>1, <4>3
    <3>5. Append(<<l>>, k) \in Seq(StreamLines)
      BY <1>2, <2>0, AppendProperties
    <3>6. QED
      BY <3>1, <3>2, <3>3, <3>4, <3>5 DEF ReadAs
  <2>3. QED
    BY <2>1, <2>2
<1>7. ReadAs(before, a.text, a.calls)
  <2>1. ReadAs(head \o CallBlock(a.calls), a.text, a.calls)
    BY <1>1, <1>6, CallsAreRead
  <2>2. QED
    BY <2>1, <1>p
<1>8. before \in Seq(StreamLines)
  BY <1>7 DEF ReadAs
<1>9. AsLines(a) = Append(Append(before, f), d)
  <2>1. AsLines(a) = before \o <<f, d>>
    BY <1>p DEF AsLines, CallBlock
  <2>2. <<f>> \in Seq(StreamLines) /\ <<f, d>> = Append(<<f>>, d)
    BY <1>2
  <2>3. before \o Append(<<f>>, d) = Append(before \o <<f>>, d)
    BY <1>2, <1>8, <2>2, AppendConcat
  <2>4. before \o <<f>> = Append(before, f)
    BY <1>2, <1>8
  <2>5. QED
    BY <2>1, <2>2, <2>3, <2>4
<1>10. ReadAs(Append(before, f), a.text, a.calls) /\ FinishOf(Append(before, f)) = a.finish
  <2>0. a.calls \in Seq(StreamCalls)
    BY <1>7, <1>8, CallsType DEF ReadAs
  <2>1. ReadAs(Append(before, f), a.text, AddedAll(a.calls, f))
    BY <1>1, <1>2, <1>4, <1>7, ReadsMore
  <2>2. AddedAll(a.calls, f) = a.calls
    BY <2>0, <1>2, <1>3, AddedAllIs
  <2>3. f.finish # ""
    BY <1>1, <1>3
  <2>4. FinishOf(Append(before, f)) = a.finish
    BY <1>2, <1>3, <1>8, <2>3, FinishAppend
  <2>5. QED
    BY <2>1, <2>2, <2>4
<1>11. ReadAs(AsLines(a), a.text, a.calls) /\ FinishOf(AsLines(a)) = a.finish
  <2>0. a.calls \in Seq(StreamCalls) /\ Append(before, f) \in Seq(StreamLines)
    BY <1>7, <1>8, <1>10, CallsType DEF ReadAs
  <2>1. ReadAs(Append(Append(before, f), d), a.text, AddedAll(a.calls, d))
    BY <1>1, <1>2, <1>4, <1>10, ReadsMore
  <2>2. AddedAll(a.calls, d) = a.calls
    BY <2>0, <1>2, <1>3, AddedAllIs
  <2>3. FinishOf(Append(Append(before, f), d)) = a.finish
    BY <1>2, <1>3, <1>10, <2>0, FinishAppend
  <2>4. QED
    BY <2>1, <2>2, <2>3, <1>9
<1>12. QED
  BY <1>1, <1>11 DEF ReadAs, Read
-----------------------------------------------------------------------------
(* What the client got, and what was captured, of what upstream said.      *)

\* What upstream may have said so far.
SaidAnswers == [text : Seq(Nat), calls : Seq(NamedCalls), finish : {"", "stop", "tool_calls"}]

StreamTypes ==
  /\ said \in SaidAnswers /\ lines \in Nat /\ verdict \in {"open", "pass", "recall"}
  /\ held \in Seq(StreamLines) /\ relayed \in Seq(StreamLines)
  /\ joined \in Seq(StreamCalls) /\ over \in BOOLEAN
  /\ capture \in [lines : Seq(StreamLines), size : Nat, truncated : BOOLEAN]

\* Calls put together from their lines: the name may not have come before the
\* first piece of the arguments.
Follows(read, calls) ==
  /\ Len(read) = Len(calls)
  /\ \A i \in 1..Len(calls) :
       /\ read[i].args = calls[i].args
       /\ read[i].name = calls[i].name \/ calls[i].args = <<>>

\* A finished answer can be read from its lines.
Tells(ls, answer) ==
  /\ TextOf(ls) = answer.text
  /\ Follows(CallsRead(ls), answer.calls)
  /\ answer.finish = "" => DoneLine \notin ToSet(ls)
  /\ answer.finish # "" => /\ Read(ls) = answer
                           /\ answer.finish = IF answer.calls = <<>> THEN "stop" ELSE "tool_calls"

\* Captured lines have the text, or the beginning of it.
Kept(c, text) ==
  IF c.truncated THEN \E u \in Seq(Nat) : text = TextOf(c.lines) \o u ELSE TextOf(c.lines) = text

\* Between two lines: the decision so far, from the lines so far.
Decided(ls, v, kept, calls) ==
  /\ v = "pass" => kept = <<>>
  /\ v # "pass" => calls = CallsRead(ls)
  /\ v = "recall" => calls # <<>>

Running == ~over => Tells(relayed \o held, said) /\ Decided(relayed \o held, verdict, held, joined)

SentOnce ==
  again # <<>> /\ ~over =>
    /\ said.finish # ""
    /\ again = <<StreamAnswer(TextOf(capture.lines), said.calls, said.finish)>>

Ended == over => said.finish # "" /\ (verdict # "open" => Read(relayed) = said)

StreamInv == StreamTypes /\ Kept(capture, said.text) /\ Running /\ SentOnce /\ Ended

\* What a line adds to the answer so far, and its calls to those read before.
Adds(l, old, new) ==
  /\ new.text = old.text \o TextAt(l)
  /\ \A c \in Seq(StreamCalls) : Follows(c, old.calls) => Follows(AddedAll(c, l), new.calls)
  /\ new.finish = l.finish
  /\ new.finish # "" => /\ new.finish = IF new.calls = <<>> THEN "stop" ELSE "tool_calls"
                        /\ \A c \in Seq(StreamCalls) : Follows(c, new.calls) => c = new.calls

-----------------------------------------------------------------------------
LEMMA NotYet ==
  ASSUME NEW S, NEW s \in Seq(S), NEW e \in S, NEW d, d \notin ToSet(s), d # e
  PROVE  d \notin ToSet(Append(s, e))
<1>1. ToSet(Append(s, e)) = ToSet(s) \cup {e}
  BY SetOfAppend
<1>2. QED
  BY <1>1

\* The lines that tell an answer, and one more.
LEMMA TellsMore ==
  ASSUME NEW ls \in Seq(StreamLines), NEW l \in StreamLines, l.text # Done,
         NEW old \in SaidAnswers, NEW new \in SaidAnswers, Tells(ls, old), old.finish = "",
         Adds(l, old, new)
  PROVE  Tells(Append(ls, l), new)
<1>p. PICK m, calls : m = Append(ls, l) /\ calls = CallsRead(ls)
  OBVIOUS
<1>1. m \in Seq(StreamLines) /\ calls \in Seq(StreamCalls) /\ CallsRead(m) = AddedAll(calls, l)
  <2>1. Append(ls, l) \in Seq(StreamLines)
    BY AppendProperties
  <2>2. QED
    BY <2>1, <1>p, CallsType, CallsAppend
<1>2. TextOf(m) = new.text
  BY <1>p, TextAppend DEF Tells, Adds
<1>3. Follows(CallsRead(m), new.calls)
  BY <1>1, <1>p DEF Tells, Adds
<1>4. DoneLine \notin ToSet(m)
  <2>1. DoneLine # l
    <3>1. DoneLine.text = Done
      BY DEF DoneLine, Line
    <3>2. QED
      BY <3>1
  <2>2. DoneLine \notin ToSet(ls)
    BY DEF Tells
  <2>3. DoneLine \notin ToSet(Append(ls, l))
    BY <2>1, <2>2, NotYet
  <2>4. QED
    BY <2>3, <1>p
<1>5. ASSUME new.finish # ""
      PROVE  /\ Read(m) = new
             /\ new.finish = IF new.calls = <<>> THEN "stop" ELSE "tool_calls"
  <2>1. CallsRead(m) \in Seq(StreamCalls)
    BY <1>1, CallsType
  <2>2. CallsRead(m) = new.calls
    BY <1>3, <1>5, <2>1 DEF Adds
  <2>3. FinishOf(m) = new.finish
    <3>1. l.finish = new.finish
      BY DEF Adds
    <3>2. QED
      BY <3>1, <1>5, <1>p, FinishAppend
  <2>4. new = StreamAnswer(new.text, new.calls, new.finish)
    BY DEF SaidAnswers, StreamAnswer
  <2>5. new.finish = IF new.calls = <<>> THEN "stop" ELSE "tool_calls"
    BY <1>5 DEF Adds
  <2>6. QED
    BY <1>2, <2>2, <2>3, <2>4, <2>5 DEF Read
<1>6. QED
  BY <1>2, <1>3, <1>4, <1>5, <1>p DEF Tells

\* [DONE] adds nothing.
LEMMA TellsDone ==
  ASSUME NEW ls \in Seq(StreamLines), NEW answer, Tells(ls, answer), answer.finish # ""
  PROVE  Tells(Append(ls, DoneLine), answer)
<1>p. PICK l, calls : l = DoneLine /\ calls = CallsRead(ls)
  OBVIOUS
<1>0. <<>> \in Seq(Nat)
  BY EmptySeq
<1>1. l \in StreamLines /\ l.deltas = <<>> /\ l.finish = "" /\ TextAt(l) = <<>>
  BY <1>p DEF DoneLine, Line, StreamLines, TextAt
<1>2. TextOf(Append(ls, l)) = TextOf(ls)
  <2>1. TextOf(Append(ls, l)) = TextOf(ls) \o <<>> /\ TextOf(ls) \in Seq(Nat)
    BY <1>1, TextAppend
  <2>2. QED
    BY <2>1, ConcatEmptySeq
<1>3. CallsRead(Append(ls, l)) = CallsRead(ls)
  <2>1. calls \in Seq(StreamCalls) /\ CallsRead(Append(ls, l)) = AddedAll(calls, l)
    BY <1>1, <1>p, CallsType, CallsAppend
  <2>2. QED
    BY <2>1, <1>1, <1>p, AddedAllIs
<1>4. FinishOf(Append(ls, l)) = FinishOf(ls)
  BY <1>1, FinishAppend
<1>5. Read(Append(ls, l)) = Read(ls)
  BY <1>2, <1>3, <1>4 DEF Read
<1>6. QED
  BY <1>2, <1>3, <1>5, <1>p DEF Tells

\* From the line that does not fit on, nothing is captured.
LEMMA CutKeeps ==
  ASSUME NEW c \in [lines : Seq(StreamLines), size : Nat, truncated : BOOLEAN],
         NEW l \in StreamLines, NEW size \in Nat, NEW text \in Seq(Nat), Kept(c, text)
  PROVE  /\ Cut(c, l, size) \in [lines : Seq(StreamLines), size : Nat, truncated : BOOLEAN]
         /\ Kept(Cut(c, l, size), text \o TextAt(l))
<1>p. PICK ls, t : ls = c.lines /\ t = TextAt(l)
  OBVIOUS
<1>1. /\ ls \in Seq(StreamLines) /\ c.size \in Nat /\ c.truncated \in BOOLEAN
      /\ TextOf(ls) \in Seq(Nat) /\ t \in Seq(Nat) /\ TextOf(Append(ls, l)) = TextOf(ls) \o t
  <2>1. ls \in Seq(StreamLines) /\ c.size \in Nat /\ c.truncated \in BOOLEAN
    BY <1>p
  <2>2. QED
    BY <2>1, <1>p, TextAppend
<1>2. CASE c.truncated \/ c.size + size > MaxBuffer
  <2>p. PICK d : d = [c EXCEPT !.truncated = TRUE]
    OBVIOUS
  <2>1. Cut(c, l, size) = d
    BY <1>2, <2>p DEF Cut
  <2>2. /\ d \in [lines : Seq(StreamLines), size : Nat, truncated : BOOLEAN]
        /\ d.lines = ls /\ d.truncated = TRUE
    BY <2>p, <1>p
  <2>3. PICK u \in Seq(Nat) : text = TextOf(ls) \o u
    <3>1. CASE c.truncated
      BY <3>1, <1>p DEF Kept
    <3>2. CASE ~c.truncated
      <4>1. <<>> \in Seq(Nat) /\ text = TextOf(ls) \o <<>>
        BY <3>2, <1>1, <1>p, EmptySeq, ConcatEmptySeq DEF Kept
      <4>2. QED
        BY <4>1
    <3>3. QED
      BY <3>1, <3>2
  <2>4. text \o t = TextOf(ls) \o (u \o t) /\ u \o t \in Seq(Nat)
    <3>p. PICK s : s = TextOf(ls)
      OBVIOUS
    <3>1. s \in Seq(Nat) /\ t \in Seq(Nat) /\ text = s \o u
      BY <1>1, <2>3, <3>p
    <3>2. (s \o u) \o t = s \o (u \o t)
      BY <3>1, Assoc, ZenonT(60)
    <3>3. u \o t \in Seq(Nat)
      BY <3>1, ConcatProperties
    <3>4. QED
      BY <3>1, <3>2, <3>3, <3>p
  <2>5. Kept(d, text \o t)
    BY <2>2, <2>4 DEF Kept
  <2>6. QED
    BY <2>1, <2>2, <2>5, <1>p
<1>3. CASE ~(c.truncated \/ c.size + size > MaxBuffer)
  <2>p. PICK d, m : m = Append(ls, l) /\ d = Capture(m, c.size + size, FALSE)
    OBVIOUS
  <2>1. Cut(c, l, size) = d
    BY <1>3, <2>p, <1>p DEF Cut
  <2>2. m \in Seq(StreamLines) /\ c.size + size \in Nat
    BY <1>1, <2>p, AppendProperties
  <2>3. /\ d \in [lines : Seq(StreamLines), size : Nat, truncated : BOOLEAN]
        /\ d.lines = m /\ d.truncated = FALSE
    BY <2>2, <2>p DEF Capture
  <2>4. TextOf(ls) = text
    BY <1>3, <1>p DEF Kept
  <2>5. Kept(d, text \o t)
    BY <2>3, <2>4, <2>p, <1>1 DEF Kept
  <2>6. QED
    BY <2>1, <2>3, <2>5, <1>p
<1>4. QED
  BY <1>2, <1>3

\* A line goes behind those that were relayed or held, and is decided upon.
LEMMA ReceiveIs ==
  ASSUME StreamTypes, Decided(relayed \o held, verdict, held, joined),
         NEW l \in StreamLines, NEW size, NEW late \in BOOLEAN, Receive(l, size, late)
  PROVE  /\ relayed' \o held' = Append(relayed \o held, l)
         /\ relayed' \in Seq(StreamLines) /\ held' \in Seq(StreamLines)
         /\ joined' \in Seq(StreamCalls) /\ verdict' \in {"open", "pass", "recall"}
         /\ Decided(Append(relayed \o held, l), verdict', held', joined')
         /\ capture' = IF l.text = Done THEN capture ELSE Cut(capture, l, size)
<1>. DEFINE calls == IF verdict = "pass" THEN joined ELSE AddedAll(joined, l)
            heard == IF l.text = Done THEN "open" ELSE Decision(l, calls)
            decided == IF heard = "open" /\ late THEN "pass" ELSE heard
            through == verdict = "pass" \/ (verdict = "open" /\ decided = "pass")
<1>1. /\ capture' = IF l.text = Done THEN capture ELSE Cut(capture, l, size)
      /\ joined' = calls
      /\ verdict' = IF verdict = "open" THEN decided ELSE verdict
      /\ relayed' = IF through THEN relayed \o Append(held, l) ELSE relayed
      /\ held' = IF through THEN <<>> ELSE Append(held, l)
  BY Zenon DEF Receive
<1>2. /\ relayed \in Seq(StreamLines) /\ held \in Seq(StreamLines) /\ joined \in Seq(StreamCalls)
      /\ verdict \in {"open", "pass", "recall"} /\ <<>> \in Seq(StreamLines)
  BY EmptySeq DEF StreamTypes
<1>3. calls \in Seq(StreamCalls) /\ (joined # <<>> => calls # <<>>)
  <2>1. AddedAll(joined, l) \in Seq(StreamCalls) /\ (joined # <<>> => AddedAll(joined, l) # <<>>)
    BY <1>2, AddedAllIs
  <2>2. QED
    BY <1>2, <2>1
<1>4. /\ decided \in {"open", "pass", "recall"}
      /\ decided = "recall" /\ verdict # "pass" => calls # <<>>
  <2>1. heard \in {"open", "pass", "recall"}
    BY DEF Decision
  <2>2. heard = "recall" => l.deltas # <<>>
    BY DEF Decision
  <2>3. l.deltas # <<>> => AddedAll(joined, l) # <<>>
    BY <1>2, AddedAllIs
  <2>4. decided = "recall" => heard = "recall"
    BY Zenon
  <2>5. decided \in {"open", "pass", "recall"}
    BY <2>1
  <2>. HIDE DEF heard, decided
  <2>6. QED
    BY <2>2, <2>3, <2>4, <2>5
<1>. HIDE DEF calls, heard, decided
<1>5. Append(held, l) \in Seq(StreamLines)
  BY <1>2, AppendProperties
<1>6. relayed \o Append(held, l) = Append(relayed \o held, l)
  BY <1>2, AppendConcat
<1>7. relayed \o Append(held, l) \in Seq(StreamLines)
  BY <1>2, <1>5, ConcatProperties
<1>8. (relayed \o Append(held, l)) \o <<>> = relayed \o Append(held, l)
  BY <1>7, ConcatEmptySeq
<1>9. relayed' \o held' = Append(relayed \o held, l)
  <2>1. CASE through
    BY <2>1, <1>1, <1>6, <1>8
  <2>2. CASE ~through
    BY <2>2, <1>1, <1>6
  <2>3. QED
    BY <2>1, <2>2
<1>10. relayed' \in Seq(StreamLines) /\ held' \in Seq(StreamLines) /\ joined' \in Seq(StreamCalls)
  BY <1>1, <1>2, <1>3, <1>5, <1>7
<1>11. verdict' \in {"open", "pass", "recall"}
  BY <1>1, <1>2, <1>4
<1>12. verdict' = "pass" => held' = <<>>
  BY <1>1
<1>13. verdict' # "pass" => joined' = CallsRead(Append(relayed \o held, l))
  <2>1. SUFFICES ASSUME verdict' # "pass" PROVE joined' = CallsRead(Append(relayed \o held, l))
    OBVIOUS
  <2>2. verdict # "pass"
    BY <2>1, <1>1
  <2>3. joined = CallsRead(relayed \o held)
    BY <2>2 DEF Decided
  <2>4. joined' = AddedAll(joined, l)
    BY <2>2, <1>1 DEF calls
  <2>5. relayed \o held \in Seq(StreamLines)
    BY <1>2, ConcatProperties
  <2>6. QED
    BY <2>3, <2>4, <2>5, CallsAppend
<1>14. verdict' = "recall" => joined' # <<>>
  <2>1. SUFFICES ASSUME verdict' = "recall" PROVE joined' # <<>>
    OBVIOUS
  <2>2. CASE verdict = "open"
    BY <2>1, <2>2, <1>1, <1>4
  <2>3. CASE verdict # "open"
    <3>1. verdict = "recall"
      BY <2>1, <2>3, <1>1
    <3>2. joined # <<>>
      BY <3>1 DEF Decided
    <3>3. QED
      BY <3>2, <1>1, <1>3
  <2>4. QED
    BY <2>2, <2>3
<1>15. Decided(Append(relayed \o held, l), verdict', held', joined')
  BY <1>12, <1>13, <1>14 DEF Decided
<1>16. QED
  BY <1>1, <1>9, <1>10, <1>11, <1>15
-----------------------------------------------------------------------------
LEMMA SaysInv ==
  ASSUME StreamInv, NEW l \in StreamLines, l.text # Done, NEW answer \in SaidAnswers,
         Says(l, answer), Adds(l, said, answer)
  PROVE  StreamInv'
<1>1. said.finish = "" /\ said' = answer /\ lines' = lines + 1 /\ again' = again /\ over' = over
  BY DEF Says
<1>2. PICK size \in Sizes, late \in BOOLEAN : Receive(l, size, late)
  BY DEF Says
<1>p. PICK got, a : got = relayed \o held /\ a = said
  OBVIOUS
<1>3. over = FALSE /\ again = <<>>
  BY <1>1 DEF StreamInv, StreamTypes, Ended, SentOnce
<1>4. Tells(got, a) /\ Decided(relayed \o held, verdict, held, joined)
  BY <1>3, <1>p DEF StreamInv, Running
<1>5. /\ relayed' \o held' = Append(relayed \o held, l)
      /\ relayed' \in Seq(StreamLines) /\ held' \in Seq(StreamLines)
      /\ joined' \in Seq(StreamCalls) /\ verdict' \in {"open", "pass", "recall"}
      /\ Decided(Append(relayed \o held, l), verdict', held', joined')
      /\ capture' = IF l.text = Done THEN capture ELSE Cut(capture, l, size)
  <2>1. StreamTypes
    BY DEF StreamInv
  <2>2. QED
    BY <1>2, <1>4, <2>1, ReceiveIs
<1>6. /\ got \in Seq(StreamLines) /\ a \in SaidAnswers /\ a.text \in Seq(Nat) /\ lines \in Nat
      /\ size \in Nat
  <2>1. a \in SaidAnswers /\ relayed \in Seq(StreamLines) /\ held \in Seq(StreamLines) /\ lines \in Nat
    BY <1>p DEF StreamInv, StreamTypes
  <2>2. got \in Seq(StreamLines)
    BY <1>p, <2>1, ConcatProperties
  <2>3. size \in Nat
    BY StreamsAssumption
  <2>4. QED
    BY <2>1, <2>2, <2>3 DEF SaidAnswers
<1>7. /\ capture' \in [lines : Seq(StreamLines), size : Nat, truncated : BOOLEAN]
      /\ Kept(capture', answer.text)
  <2>p. PICK c, d : c = capture /\ d = Cut(capture, l, size)
    OBVIOUS
  <2>1. c \in [lines : Seq(StreamLines), size : Nat, truncated : BOOLEAN] /\ Kept(c, a.text)
    BY <1>p, <2>p DEF StreamInv, StreamTypes
  <2>2. /\ Cut(c, l, size) \in [lines : Seq(StreamLines), size : Nat, truncated : BOOLEAN]
        /\ Kept(Cut(c, l, size), a.text \o TextAt(l))
    BY <2>1, <1>6, CutKeeps
  <2>3. a.text \o TextAt(l) = answer.text
    BY <1>p DEF Adds
  <2>4. d \in [lines : Seq(StreamLines), size : Nat, truncated : BOOLEAN] /\ Kept(d, answer.text)
    BY <2>2, <2>3, <2>p
  <2>5. capture' = d
    BY <1>5, <2>p
  <2>6. QED
    BY <2>4, <2>5
<1>8. Tells(Append(got, l), answer)
  <2>1. Adds(l, a, answer) /\ a.finish = ""
    BY <1>1, <1>p
  <2>2. QED
    BY <2>1, <1>4, <1>6, TellsMore
<1>9. StreamTypes'
  <2>1. said' \in SaidAnswers /\ lines' \in Nat /\ over' \in BOOLEAN
    <3>1. said' \in SaidAnswers
      BY <1>1
    <3>2. lines + 1 \in Nat
      BY <1>6
    <3>3. lines' \in Nat
      BY <1>1, <3>2
    <3>4. over' = FALSE
      BY <1>1, <1>3
    <3>5. QED
      BY <3>1, <3>3, <3>4
  <2>2. QED
    BY <1>5, <1>7, <2>1 DEF StreamTypes
<1>10. Tells(relayed' \o held', said') /\ Decided(relayed' \o held', verdict', held', joined')
  BY <1>1, <1>5, <1>8, <1>p
<1>11. Running'
  BY <1>10 DEF Running
<1>12. SentOnce' /\ Ended' /\ Kept(capture', said'.text)
  BY <1>1, <1>3, <1>7 DEF SentOnce, Ended
<1>13. QED
  BY <1>9, <1>11, <1>12 DEF StreamInv

\* The answer so far, and its calls.
LEMMA SaidIs ==
  ASSUME StreamInv
  PROVE  /\ said \in SaidAnswers /\ said.text \in Seq(Nat) /\ said.calls \in Seq(NamedCalls)
         /\ said.finish \in {"", "stop", "tool_calls"}
         /\ Len(said.calls) \in Nat /\ DOMAIN said.calls = 1..Len(said.calls)
         /\ \A i \in 1..Len(said.calls) : said.calls[i] \in NamedCalls
         /\ lines \in Nat /\ Piece \in Seq(Nat) /\ <<>> \in Seq(Nat)
<1>1. said \in SaidAnswers /\ lines \in Nat
  BY DEF StreamInv, StreamTypes
<1>2. /\ said.text \in Seq(Nat) /\ said.calls \in Seq(NamedCalls)
      /\ said.finish \in {"", "stop", "tool_calls"}
  BY <1>1 DEF SaidAnswers
<1>3. Piece \in Seq(Nat) /\ <<>> \in Seq(Nat)
  BY <1>1, EmptySeq DEF Piece
<1>4. QED
  BY <1>1, <1>2, <1>3, LenProperties, ElementOfSeq

\* A line of content has no delta.
LEMMA ContentAdds ==
  ASSUME StreamInv, NEW text \in {NoText} \cup Seq(Nat), said.finish = "",
         NEW l, l = Line(text, <<>>, ""), NEW new \in SaidAnswers,
         new = [said EXCEPT !.text = @ \o TextAt(l)]
  PROVE  l \in StreamLines /\ l.text # Done /\ Adds(l, said, new)
<1>1. l.text = text /\ l.deltas = <<>> /\ l.finish = ""
  BY DEF Line
<1>2. l \in StreamLines
  BY DEF Line, StreamLines
<1>3. l.text # Done
  BY <1>1, StreamsAssumption
<1>4. new.text = said.text \o TextAt(l) /\ new.calls = said.calls /\ new.finish = said.finish
  BY SaidIs DEF SaidAnswers
<1>5. \A c \in Seq(StreamCalls) : AddedAll(c, l) = c
  BY <1>1, <1>2, AddedAllIs
<1>6. QED
  BY <1>1, <1>2, <1>3, <1>4, <1>5 DEF Adds

LEMMA SaysRoleInv ==
  ASSUME StreamInv, NEW text \in {NoText, <<>>}, SaysRole(text)
  PROVE  StreamInv'
<1>p. PICK l, a : l = Line(text, <<>>, "") /\ a = said
  OBVIOUS
<1>1. Says(l, a) /\ said.finish = ""
  BY <1>p DEF SaysRole, Says
<1>2. /\ said \in SaidAnswers /\ said.text \in Seq(Nat) /\ <<>> \in Seq(Nat)
      /\ said = StreamAnswer(said.text, said.calls, said.finish)
  BY SaidIs DEF SaidAnswers, StreamAnswer
<1>3. TextAt(l) = <<>>
  BY <1>p DEF TextAt, Line
<1>4. said.text \o TextAt(l) = said.text
  BY <1>2, <1>3, ConcatEmptySeq
<1>5. a = [said EXCEPT !.text = @ \o TextAt(l)]
  BY <1>2, <1>4, <1>p DEF StreamAnswer
<1>6. text \in {NoText} \cup Seq(Nat) /\ a \in SaidAnswers
  BY <1>2, <1>p
<1>7. l \in StreamLines /\ l.text # Done /\ Adds(l, said, a)
  BY <1>1, <1>5, <1>6, <1>p, ContentAdds
<1>8. QED
  BY <1>1, <1>6, <1>7, SaysInv

LEMMA SaysTextInv ==
  ASSUME StreamInv, SaysText
  PROVE  StreamInv'
<1>p. PICK l, a : l = Line(Piece, <<>>, "") /\ a = [said EXCEPT !.text = @ \o Piece]
  OBVIOUS
<1>1. Says(l, a) /\ said.finish = ""
  BY <1>p DEF SaysText, Says
<1>2. said \in SaidAnswers /\ said.text \in Seq(Nat) /\ Piece \in Seq(Nat)
  BY SaidIs
<1>3. TextAt(l) = Piece
  <2>1. Piece # NoText /\ Piece # Done
    BY <1>2, StreamsAssumption
  <2>2. QED
    BY <2>1, <1>p DEF TextAt, Line
<1>4. said.text \o Piece \in Seq(Nat)
  BY <1>2, ConcatProperties
<1>5. a \in SaidAnswers
  BY <1>2, <1>4, <1>p DEF SaidAnswers
<1>6. a = [said EXCEPT !.text = @ \o TextAt(l)] /\ Piece \in {NoText} \cup Seq(Nat)
  BY <1>2, <1>3, <1>p
<1>7. l \in StreamLines /\ l.text # Done /\ Adds(l, said, a)
  BY <1>1, <1>5, <1>6, <1>p, ContentAdds
<1>8. QED
  BY <1>1, <1>5, <1>7, SaysInv

LEMMA BeginsCallInv ==
  ASSUME StreamInv, NEW name \in StreamTools, NEW named \in BOOLEAN, BeginsCall(name, named)
  PROVE  StreamInv'
<1>p. PICK l, a, d, cs, n, b :
        /\ cs = said.calls /\ n = Len(said.calls) /\ b = Called(name, <<>>)
        /\ d = CallDelta(Len(said.calls) + 1, IF named THEN name ELSE NoName, <<>>)
        /\ l = Line(NoText, <<CallDelta(Len(said.calls) + 1, IF named THEN name ELSE NoName, <<>>)>>, "")
        /\ a = [said EXCEPT !.calls = Append(@, Called(name, <<>>))]
  OBVIOUS
<1>1. Says(l, a) /\ said.finish = ""
  BY <1>p DEF BeginsCall, Says
<1>2. said \in SaidAnswers /\ said.text \in Seq(Nat) /\ cs \in Seq(NamedCalls) /\ n \in Nat /\ <<>> \in Seq(Nat)
  BY SaidIs, <1>p
<1>3. d \in StreamDeltas /\ d.index = n + 1 /\ d.args = <<>>
  <2>1. (IF named THEN name ELSE NoName) \in StreamTools \cup {NoName}
    OBVIOUS
  <2>2. n + 1 \in Nat \ {0}
    BY <1>2
  <2>3. QED
    BY <1>2, <1>p, <2>1, <2>2 DEF CallDelta, StreamDeltas
<1>4. l \in StreamLines /\ l.deltas = <<d>> /\ l.finish = "" /\ l.text = NoText
  BY <1>3, <1>p DEF Line, StreamLines
<1>5. l.text # Done /\ TextAt(l) = <<>>
  BY <1>4, StreamsAssumption DEF TextAt
<1>6. b \in NamedCalls /\ b.args = <<>>
  BY <1>2, <1>p DEF Called, NamedCalls
<1>7. /\ Append(cs, b) \in Seq(NamedCalls) /\ Len(Append(cs, b)) = n + 1 /\ Append(cs, b)[n + 1] = b
      /\ \A i \in 1..n : Append(cs, b)[i] = cs[i]
  <2>p. PICK m : m = Append(cs, b)
    OBVIOUS
  <2>1. n = Len(cs)
    BY <1>p
  <2>2. m \in Seq(NamedCalls) /\ Len(m) = n + 1 /\ m[n + 1] = b /\ \A i \in 1..n : m[i] = cs[i]
    BY <1>2, <1>6, <2>1, <2>p, AppendProperties
  <2>3. QED
    BY <2>2, <2>p
<1>8. a.text = said.text /\ a.calls = Append(cs, b) /\ a.finish = said.finish /\ a \in SaidAnswers
  BY <1>2, <1>7, <1>p DEF SaidAnswers
<1>9. ASSUME NEW c \in Seq(StreamCalls), Follows(c, cs) PROVE Follows(AddedAll(c, l), Append(cs, b))
  <2>p. PICK e, m : e = Called(d.name, d.args) /\ m = Append(c, Called(d.name, d.args))
    OBVIOUS
  <2>1. Len(c) = n
    BY <1>9, <1>p DEF Follows
  <2>2. AddedAll(c, l) = m
    BY <2>1, <2>p, <1>3, <1>4, BeginsAt
  <2>3. e \in StreamCalls /\ e.args = <<>>
    BY <2>p, <1>3 DEF Called, StreamCalls, StreamDeltas
  <2>4. Len(m) = n + 1 /\ m[n + 1] = e /\ \A i \in 1..n : m[i] = c[i]
    BY <2>1, <2>3, <2>p, AppendProperties
  <2>5. \A i \in 1..(n + 1) : i = n + 1 \/ i \in 1..n
    BY <1>2
  <2>6. ASSUME NEW i \in 1..n
        PROVE  /\ m[i].args = Append(cs, b)[i].args
               /\ m[i].name = Append(cs, b)[i].name \/ Append(cs, b)[i].args = <<>>
    <3>1. c[i].args = cs[i].args /\ (c[i].name = cs[i].name \/ cs[i].args = <<>>)
      BY <1>9, <1>p DEF Follows
    <3>2. QED
      BY <3>1, <2>4, <1>7
  <2>7. m[n + 1].args = Append(cs, b)[n + 1].args /\ Append(cs, b)[n + 1].args = <<>>
    BY <2>3, <2>4, <1>6, <1>7
  <2>8. Follows(m, Append(cs, b))
    BY <2>4, <2>5, <2>6, <2>7, <1>7 DEF Follows
  <2>9. QED
    BY <2>2, <2>8
<1>10. Adds(l, said, a)
  <2>1. a.text = said.text \o TextAt(l)
    BY <1>2, <1>5, <1>8, ConcatEmptySeq
  <2>2. \A c \in Seq(StreamCalls) : Follows(c, said.calls) => Follows(AddedAll(c, l), a.calls)
    BY <1>8, <1>9, <1>p
  <2>3. QED
    BY <2>1, <2>2, <1>1, <1>4, <1>8 DEF Adds
<1>11. QED
  BY <1>1, <1>4, <1>5, <1>8, <1>10, SaysInv

LEMMA GoesOnInv ==
  ASSUME StreamInv, NEW i \in DOMAIN said.calls, GoesOn(i)
  PROVE  StreamInv'
<1>p. PICK l, a, d, cs, n, b, ds :
        /\ cs = said.calls /\ n = Len(said.calls)
        /\ b = Called(said.calls[i].name, said.calls[i].args \o Piece)
        /\ d = CallDelta(i, said.calls[i].name, Piece)
        /\ l = Line(NoText, <<CallDelta(i, said.calls[i].name, Piece)>>, "")
        /\ a = [said EXCEPT !.calls[i].args = @ \o Piece]
        /\ ds = [said.calls EXCEPT ![i].args = @ \o Piece]
  OBVIOUS
<1>1. Says(l, a) /\ said.finish = ""
  BY <1>p DEF GoesOn, Says
<1>2. /\ said \in SaidAnswers /\ said.text \in Seq(Nat) /\ cs \in Seq(NamedCalls) /\ n \in Nat
      /\ <<>> \in Seq(Nat) /\ Piece \in Seq(Nat) /\ DOMAIN cs = 1..n /\ i \in 1..n
      /\ \A j \in 1..n : cs[j] \in NamedCalls
  BY SaidIs, <1>p
<1>3. cs[i].name \in StreamTools /\ cs[i].args \in Seq(Nat) /\ cs[i].args \o Piece \in Seq(Nat)
  <2>1. cs[i].name \in StreamTools /\ cs[i].args \in Seq(Nat)
    BY <1>2 DEF NamedCalls
  <2>2. QED
    BY <2>1, <1>2, ConcatProperties
<1>4. d \in StreamDeltas /\ d.index = i /\ d.args = Piece /\ d.name = cs[i].name
  <2>1. i \in Nat \ {0} /\ said.calls[i].name \in StreamTools \cup {NoName}
    <3>1. i \in Nat \ {0}
      BY <1>2
    <3>2. said.calls[i] = cs[i]
      BY <1>p
    <3>3. QED
      BY <3>1, <3>2, <1>3
  <2>2. d.index = i /\ d.args = Piece /\ d.name = cs[i].name
    BY <1>p DEF CallDelta
  <2>3. d \in StreamDeltas
    BY <2>1, <1>2, <1>p DEF CallDelta, StreamDeltas
  <2>4. QED
    BY <2>2, <2>3
<1>5. l \in StreamLines /\ l.deltas = <<d>> /\ l.finish = "" /\ l.text = NoText
  BY <1>4, <1>p DEF Line, StreamLines
<1>6. l.text # Done /\ TextAt(l) = <<>>
  BY <1>5, StreamsAssumption DEF TextAt
<1>7. b \in NamedCalls /\ b.name = cs[i].name /\ b.args = cs[i].args \o Piece
  BY <1>3, <1>p DEF Called, NamedCalls
<1>8. [cs[i] EXCEPT !.args = @ \o Piece] = b
  <2>p. PICK r, x : r = cs[i] /\ x = cs[i].args \o Piece
    OBVIOUS
  <2>1. r \in [name : StreamTools, args : Seq(Nat)]
    BY <1>2, <2>p DEF NamedCalls
  <2>2. [r EXCEPT !.args = x] = [name |-> r.name, args |-> x]
    BY <2>1
  <2>3. QED
    BY <2>2, <2>p, <1>p DEF Called
<1>9. ds = [cs EXCEPT ![i] = b]
  BY <1>2, <1>8, <1>p
<1>10. ds \in [1..n -> NamedCalls] /\ ds[i] = b /\ \A j \in 1..n : j # i => ds[j] = cs[j]
  BY <1>2, <1>7, <1>9, SeqDef
<1>11. ds \in Seq(NamedCalls) /\ Len(ds) = n
  BY <1>2, <1>10, ListOf
<1>12. a.text = said.text /\ a.calls = ds /\ a.finish = said.finish /\ a \in SaidAnswers
  BY <1>2, <1>11, <1>p DEF SaidAnswers
<1>13. ASSUME NEW c \in Seq(StreamCalls), Follows(c, cs) PROVE Follows(AddedAll(c, l), ds)
  <2>p. PICK m : m = AddedAll(c, l)
    OBVIOUS
  <2>1. /\ Len(c) = n
        /\ \A j \in 1..n : c[j].args = cs[j].args /\ (c[j].name = cs[j].name \/ cs[j].args = <<>>)
    BY <1>13, <1>p DEF Follows
  <2>2. /\ Len(m) = n /\ m[i] = Extended(c[i], d)
        /\ \A j \in 1..n : j # i => m[j] = c[j]
    <3>1. d.index \in 1..Len(c)
      BY <2>1, <1>2, <1>4
    <3>2. /\ Len(AddedAll(c, l)) = Len(c) /\ AddedAll(c, l)[d.index] = Extended(c[d.index], d)
          /\ \A j \in 1..Len(c) : j # d.index => AddedAll(c, l)[j] = c[j]
      BY <3>1, <1>4, <1>5, GoesAt
    <3>3. QED
      BY <3>2, <2>1, <2>p, <1>4
  <2>3. m[i].args = ds[i].args /\ m[i].name = ds[i].name
    <3>1. d.name # NoName
      BY <1>3, <1>4, StreamsAssumption
    <3>2. Extended(c[i], d) = Called(d.name, c[i].args \o Piece)
      BY <3>1, <1>4 DEF Extended
    <3>3. c[i].args = cs[i].args
      BY <2>1, <1>2
    <3>4. m[i].name = d.name /\ m[i].args = cs[i].args \o Piece
      <4>1. m[i] = Called(d.name, cs[i].args \o Piece)
        BY <3>2, <3>3, <2>2
      <4>2. QED
        BY <4>1 DEF Called
    <3>5. QED
      BY <3>4, <1>4, <1>7, <1>10
  <2>4. ASSUME NEW j \in 1..n
        PROVE  m[j].args = ds[j].args /\ (m[j].name = ds[j].name \/ ds[j].args = <<>>)
    <3>1. CASE j = i
      BY <3>1, <2>3
    <3>2. CASE j # i
      BY <3>2, <2>1, <2>2, <1>10
    <3>3. QED
      BY <3>1, <3>2
  <2>5. QED
    BY <2>2, <2>4, <2>p, <1>11 DEF Follows
<1>14. Adds(l, said, a)
  <2>1. a.text = said.text \o TextAt(l)
    BY <1>2, <1>6, <1>12, ConcatEmptySeq
  <2>2. \A c \in Seq(StreamCalls) : Follows(c, said.calls) => Follows(AddedAll(c, l), a.calls)
    BY <1>12, <1>13, <1>p
  <2>3. QED
    BY <2>1, <2>2, <1>1, <1>5, <1>12 DEF Adds
<1>15. QED
  BY <1>1, <1>5, <1>6, <1>12, <1>14, SaysInv
LEMMA SaysFinishInv ==
  ASSUME StreamInv, SaysFinish
  PROVE  StreamInv'
<1>p. PICK l, a, cs, n, reason :
        /\ cs = said.calls /\ n = Len(said.calls)
        /\ reason = IF said.calls = <<>> THEN "stop" ELSE "tool_calls"
        /\ l = Line(NoText, <<>>, IF said.calls = <<>> THEN "stop" ELSE "tool_calls")
        /\ a = [said EXCEPT !.finish = IF said.calls = <<>> THEN "stop" ELSE "tool_calls"]
  OBVIOUS
<1>1. Says(l, a) /\ said.finish = "" /\ \A c \in Range(cs) : c.args # <<>>
  BY <1>p DEF SaysFinish, Says
<1>2. /\ said \in SaidAnswers /\ said.text \in Seq(Nat) /\ cs \in Seq(NamedCalls) /\ n \in Nat
      /\ <<>> \in Seq(Nat) /\ DOMAIN cs = 1..n /\ \A j \in 1..n : cs[j] \in NamedCalls
  BY SaidIs, <1>p
<1>3. reason \in {"stop", "tool_calls"} /\ reason # ""
  BY <1>p
<1>4. l \in StreamLines /\ l.deltas = <<>> /\ l.finish = reason /\ l.text = NoText
  BY <1>3, <1>p DEF Line, StreamLines
<1>5. l.text # Done /\ TextAt(l) = <<>>
  BY <1>4, StreamsAssumption DEF TextAt
<1>6. a.text = said.text /\ a.calls = cs /\ a.finish = reason /\ a \in SaidAnswers
  BY <1>2, <1>3, <1>p DEF SaidAnswers
<1>7. \A c \in Seq(StreamCalls) : AddedAll(c, l) = c
  BY <1>4, AddedAllIs
<1>8. ASSUME NEW c \in Seq(StreamCalls), Follows(c, cs) PROVE c = cs
  <2>1. /\ Len(c) = n
        /\ \A j \in 1..n : c[j].args = cs[j].args /\ (c[j].name = cs[j].name \/ cs[j].args = <<>>)
    BY <1>8, <1>p DEF Follows
  <2>2. NamedCalls \subseteq StreamCalls
    BY DEF NamedCalls, StreamCalls
  <2>3. cs \in Seq(StreamCalls)
    BY <1>2, <2>2, SeqWider
  <2>4. ASSUME NEW j \in 1..n PROVE c[j] = cs[j]
    <3>1. c[j] \in StreamCalls /\ cs[j] \in StreamCalls
      BY <1>2, <2>1, <2>2, ElementOfSeq
    <3>2. cs[j].args # <<>>
      BY <1>1, <1>2 DEF Range
    <3>3. c[j].args = cs[j].args /\ c[j].name = cs[j].name
      BY <2>1, <3>2
    <3>4. /\ c[j] = [name |-> c[j].name, args |-> c[j].args]
          /\ cs[j] = [name |-> cs[j].name, args |-> cs[j].args]
      BY <3>1 DEF StreamCalls
    <3>5. QED
      BY <3>3, <3>4
  <2>5. Len(c) = Len(cs)
    BY <2>1, <1>p
  <2>6. QED
    BY <2>3, <2>4, <2>5, <1>p, SeqEqual
<1>9. Adds(l, said, a)
  <2>1. a.text = said.text \o TextAt(l)
    BY <1>2, <1>5, <1>6, ConcatEmptySeq
  <2>2. \A c \in Seq(StreamCalls) : Follows(c, said.calls) => Follows(AddedAll(c, l), a.calls)
    BY <1>6, <1>7, <1>p
  <2>3. \A c \in Seq(StreamCalls) : Follows(c, a.calls) => c = a.calls
    BY <1>6, <1>8
  <2>4. a.finish = IF a.calls = <<>> THEN "stop" ELSE "tool_calls"
    BY <1>6, <1>p
  <2>5. a.finish = l.finish
    BY <1>4, <1>6
  <2>6. QED
    BY <2>1, <2>2, <2>3, <2>4, <2>5 DEF Adds
<1>10. QED
  BY <1>1, <1>4, <1>5, <1>6, <1>9, SaysInv

LEMMA SaysDoneInv ==
  ASSUME StreamInv, SaysDone
  PROVE  StreamInv'
<1>1. /\ said.finish # "" /\ over = FALSE /\ again = <<>>
      /\ said' = said /\ lines' = lines /\ again' = again /\ over' = over
  BY DEF SaysDone, StreamInv, StreamTypes
<1>2. PICK size \in Sizes, late \in BOOLEAN : Receive(DoneLine, size, late)
  BY DEF SaysDone
<1>p. PICK got, a, l : got = relayed \o held /\ a = said /\ l = DoneLine
  OBVIOUS
<1>3. l \in StreamLines /\ l.text = Done
  BY <1>p DEF DoneLine, Line, StreamLines
<1>4. Tells(got, a) /\ Decided(relayed \o held, verdict, held, joined)
  BY <1>1, <1>p DEF StreamInv, Running
<1>5. /\ relayed' \o held' = Append(relayed \o held, l)
      /\ relayed' \in Seq(StreamLines) /\ held' \in Seq(StreamLines)
      /\ joined' \in Seq(StreamCalls) /\ verdict' \in {"open", "pass", "recall"}
      /\ Decided(Append(relayed \o held, l), verdict', held', joined')
      /\ capture' = IF l.text = Done THEN capture ELSE Cut(capture, l, size)
  <2>1. StreamTypes /\ Receive(l, size, late)
    BY <1>2, <1>p DEF StreamInv
  <2>2. QED
    BY <1>3, <1>4, <2>1, ReceiveIs
<1>6. capture' = capture
  BY <1>3, <1>5
<1>7. Tells(Append(got, l), a)
  <2>1. got \in Seq(StreamLines)
    BY <1>p, ConcatProperties DEF StreamInv, StreamTypes
  <2>2. a.finish # ""
    BY <1>1, <1>p
  <2>3. QED
    BY <2>1, <2>2, <1>4, <1>p, TellsDone
<1>8. StreamTypes'
  <2>1. StreamTypes
    BY DEF StreamInv
  <2>2. QED
    BY <1>1, <1>5, <1>6, <2>1 DEF StreamTypes
<1>9. Tells(relayed' \o held', said') /\ Decided(relayed' \o held', verdict', held', joined')
  BY <1>1, <1>5, <1>7, <1>p
<1>10. Running'
  BY <1>9 DEF Running
<1>11. Kept(capture, said.text)
  BY DEF StreamInv
<1>12. SentOnce' /\ Ended' /\ Kept(capture', said'.text)
  BY <1>1, <1>6, <1>11 DEF SentOnce, Ended
<1>13. QED
  BY <1>8, <1>10, <1>12 DEF StreamInv

\* After [DONE] the answer is whole.
LEMMA WholeAtDone ==
  ASSUME StreamInv, UpstreamEnded, over = FALSE
  PROVE  /\ said.finish # "" /\ Read(relayed \o held) = said
         /\ said.finish = IF said.calls = <<>> THEN "stop" ELSE "tool_calls"
         /\ verdict = "pass" => relayed \o held = relayed
         /\ verdict = "recall" => joined = said.calls /\ joined # <<>>
<1>p. PICK got, a : got = relayed \o held /\ a = said
  OBVIOUS
<1>1. relayed \in Seq(StreamLines) /\ held \in Seq(StreamLines)
  BY DEF StreamInv, StreamTypes
<1>2. Tells(got, a) /\ Decided(got, verdict, held, joined)
  BY <1>p DEF StreamInv, Running
<1>3. DoneLine \in ToSet(got)
  <2>1. \E ls \in {relayed, held} : ls # <<>> /\ Last(ls) = DoneLine
    BY DEF UpstreamEnded
  <2>2. \A ls \in Seq(StreamLines) : ls # <<>> => Last(ls) \in ToSet(ls)
    <3>1. SUFFICES ASSUME NEW ls \in Seq(StreamLines), ls # <<>> PROVE Last(ls) \in ToSet(ls)
      OBVIOUS
    <3>2. Len(ls) \in 1..Len(ls)
      BY <3>1, LenProperties, EmptySeq
    <3>3. ls[Len(ls)] \in ToSet(ls)
      BY <3>2, SetOf
    <3>4. QED
      BY <3>3 DEF Last
  <2>3. DoneLine \in ToSet(relayed) \cup ToSet(held)
    BY <1>1, <2>1, <2>2
  <2>4. ToSet(relayed \o held) = ToSet(relayed) \cup ToSet(held)
    BY <1>1, SetOfConcat
  <2>5. QED
    BY <2>3, <2>4, <1>p
<1>4. a.finish # ""
  BY <1>2, <1>3 DEF Tells
<1>5. Read(got) = a /\ a.finish = IF a.calls = <<>> THEN "stop" ELSE "tool_calls"
  BY <1>2, <1>4 DEF Tells
<1>6. verdict = "pass" => relayed \o held = relayed
  BY <1>1, <1>2, ConcatEmptySeq DEF Decided
<1>7. verdict = "recall" => joined = a.calls /\ joined # <<>>
  <2>1. CallsRead(got) = a.calls
    <3>1. Read(got).calls = CallsRead(got)
      BY DEF Read, StreamAnswer
    <3>2. QED
      BY <3>1, <1>5
  <2>2. QED
    BY <2>1, <1>2 DEF Decided
<1>8. QED
  BY <1>4, <1>5, <1>6, <1>7, <1>p

LEMMA EndsPassingInv ==
  ASSUME StreamInv, EndsPassing
  PROVE  StreamInv'
<1>1. /\ UpstreamEnded /\ over = FALSE /\ verdict # "recall" /\ over' = TRUE
      /\ said' = said /\ lines' = lines /\ verdict' = verdict /\ held' = held
      /\ joined' = joined /\ relayed' = relayed /\ capture' = capture /\ again' = again
  BY DEF EndsPassing, StreamInv, StreamTypes
<1>2. /\ said.finish # "" /\ Read(relayed \o held) = said
      /\ verdict = "pass" => relayed \o held = relayed
  BY <1>1, WholeAtDone
<1>3. verdict # "open" => Read(relayed) = said
  <2>1. verdict \in {"open", "pass", "recall"}
    BY DEF StreamInv, StreamTypes
  <2>2. QED
    BY <2>1, <1>1, <1>2
<1>4. StreamTypes'
  BY <1>1 DEF StreamInv, StreamTypes
<1>5. Running' /\ SentOnce' /\ Ended'
  BY <1>1, <1>2, <1>3 DEF Running, SentOnce, Ended
<1>6. Kept(capture', said'.text)
  BY <1>1 DEF StreamInv
<1>7. QED
  BY <1>4, <1>5, <1>6 DEF StreamInv

LEMMA EndsUnaskedInv ==
  ASSUME StreamInv, NEW asked \in BOOLEAN, EndsUnasked(asked)
  PROVE  StreamInv'
<1>1. /\ UpstreamEnded /\ over = FALSE /\ over' = TRUE
      /\ said' = said /\ lines' = lines /\ verdict' = verdict /\ held' = <<>>
      /\ joined' = joined /\ relayed' = relayed \o held /\ capture' = capture /\ again' = again
  BY DEF EndsUnasked, StreamInv, StreamTypes
<1>2. said.finish # "" /\ Read(relayed \o held) = said
  BY <1>1, WholeAtDone
<1>3. StreamTypes'
  <2>1. relayed \o held \in Seq(StreamLines) /\ <<>> \in Seq(StreamLines)
    BY ConcatProperties, EmptySeq DEF StreamInv, StreamTypes
  <2>2. QED
    BY <1>1, <2>1 DEF StreamInv, StreamTypes
<1>4. Running' /\ SentOnce' /\ Ended'
  BY <1>1, <1>2 DEF Running, SentOnce, Ended
<1>5. Kept(capture', said'.text)
  BY <1>1 DEF StreamInv
<1>6. QED
  BY <1>3, <1>4, <1>5 DEF StreamInv

LEMMA SendsAgainInv ==
  ASSUME StreamInv, NEW asked \in BOOLEAN, SendsAgain(asked)
  PROVE  StreamInv'
<1>1. /\ UpstreamEnded /\ over = FALSE /\ verdict = "recall"
      /\ again' = <<StreamAnswer(TextOf(capture.lines), joined,
                                 IF joined # <<>> THEN "tool_calls" ELSE FinishOf(capture.lines))>>
      /\ said' = said /\ lines' = lines /\ verdict' = verdict /\ held' = held
      /\ joined' = joined /\ relayed' = relayed /\ capture' = capture /\ over' = over
  BY DEF SendsAgain, StreamInv, StreamTypes
<1>2. /\ said.finish # "" /\ joined = said.calls /\ joined # <<>>
      /\ said.finish = IF said.calls = <<>> THEN "stop" ELSE "tool_calls"
  BY <1>1, WholeAtDone
<1>3. again' = <<StreamAnswer(TextOf(capture.lines), said.calls, said.finish)>>
  BY <1>1, <1>2
<1>4. StreamTypes'
  BY <1>1 DEF StreamInv, StreamTypes
<1>5. Running' /\ Ended'
  BY <1>1 DEF StreamInv, Running, Ended
<1>6. SentOnce'
  BY <1>1, <1>2, <1>3 DEF SentOnce
<1>7. Kept(capture', said'.text)
  BY <1>1 DEF StreamInv
<1>8. QED
  BY <1>4, <1>5, <1>6, <1>7 DEF StreamInv

LEMMA ResentInv ==
  ASSUME StreamInv, NEW a \in Resends, Resent(a)
  PROVE  StreamInv'
<1>p. PICK l, c, ls : l = Line(a.text, <<>>, a.finish) /\ c = capture' /\ ls = <<Line(a.text, <<>>, a.finish)>>
  OBVIOUS
<1>1. /\ said' = a /\ relayed' = AsLines(a) /\ held' = <<>> /\ c = Capture(ls, 0, FALSE)
      /\ over' = TRUE /\ lines' = lines /\ verdict' = verdict /\ joined' = joined
  BY <1>p DEF Resent
<1>2. a \in WholeAnswers
  <2>p. PICK C : C = [name : StreamTools \ {RecallTool}, args : Seq(Nat)]
    OBVIOUS
  <2>1. a \in [text : Seq(Nat), calls : Seq(C), finish : {"stop", "tool_calls"}]
    BY <2>p, StreamsAssumption
  <2>2. C \subseteq NamedCalls
    BY <2>p DEF NamedCalls
  <2>3. a.calls \in Seq(C)
    BY <2>1
  <2>4. a.calls \in Seq(NamedCalls)
    BY <2>2, <2>3, SeqWider
  <2>5. QED
    BY <2>1, <2>4 DEF WholeAnswers
<1>3. AsLines(a) \in Seq(StreamLines) /\ Read(AsLines(a)) = a
  BY <1>2, AsLinesRead
<1>4. /\ a.text \in Seq(Nat) /\ a.finish \in {"stop", "tool_calls"} /\ a.finish # "" /\ a \in SaidAnswers
  BY <1>2 DEF WholeAnswers, SaidAnswers
<1>5. l \in StreamLines /\ TextAt(l) = a.text
  <2>1. a.text # NoText /\ a.text # Done
    BY <1>4, StreamsAssumption
  <2>2. QED
    BY <2>1, <1>4, <1>p DEF Line, StreamLines, TextAt
<1>6. ls \in Seq(StreamLines) /\ TextOf(ls) = a.text
  <2>1. <<>> \in Seq(StreamLines) /\ ls = Append(<<>>, l)
    BY <1>p, EmptySeq
  <2>2. TextOf(Append(<<>>, l)) = <<>> \o a.text
    BY <2>1, <1>5, TextAppend, TextEmpty
  <2>3. ls \in Seq(StreamLines)
    BY <2>1, <1>5, AppendProperties
  <2>4. QED
    BY <2>1, <2>2, <2>3, <1>4, ConcatEmptySeq
<1>7. /\ c \in [lines : Seq(StreamLines), size : Nat, truncated : BOOLEAN]
      /\ c.lines = ls /\ c.truncated = FALSE
  BY <1>1, <1>6 DEF Capture
<1>8. Kept(c, a.text)
  BY <1>6, <1>7 DEF Kept
<1>9. StreamTypes'
  <2>1. <<>> \in Seq(StreamLines) /\ capture' \in [lines : Seq(StreamLines), size : Nat, truncated : BOOLEAN]
    BY <1>7, <1>p, EmptySeq
  <2>2. lines \in Nat /\ verdict \in {"open", "pass", "recall"} /\ joined \in Seq(StreamCalls)
    BY DEF StreamInv, StreamTypes
  <2>3. QED
    BY <1>1, <1>3, <1>4, <2>1, <2>2 DEF StreamTypes
<1>10. Running' /\ SentOnce'
  BY <1>1 DEF Running, SentOnce
<1>11. Ended'
  BY <1>1, <1>3, <1>4 DEF Ended
<1>12. Kept(capture', said'.text)
  BY <1>1, <1>8, <1>p
<1>13. QED
  BY <1>9, <1>10, <1>11, <1>12 DEF StreamInv

LEMMA StreamStart == StreamInit => StreamInv
<1>. SUFFICES ASSUME StreamInit PROVE StreamInv
  OBVIOUS
<1>1. /\ <<>> \in Seq(StreamLines) /\ <<>> \in Seq(StreamCalls) /\ <<>> \in Seq(NamedCalls)
      /\ <<>> \in Seq(Nat)
  BY EmptySeq
<1>2. /\ said = StreamAnswer(<<>>, <<>>, "") /\ lines = 0 /\ verdict \in {"open", "pass"}
      /\ held = <<>> /\ joined = <<>> /\ relayed = <<>> /\ capture = Capture(<<>>, 0, FALSE)
      /\ again = <<>> /\ over = FALSE
  BY DEF StreamInit, Blank
<1>3. said.text = <<>> /\ said.calls = <<>> /\ said.finish = "" /\ said \in SaidAnswers
  BY <1>1, <1>2 DEF StreamAnswer, SaidAnswers
<1>4. /\ capture \in [lines : Seq(StreamLines), size : Nat, truncated : BOOLEAN]
      /\ capture.lines = <<>> /\ capture.truncated = FALSE
  BY <1>1, <1>2 DEF Capture
<1>5. StreamTypes
  BY <1>1, <1>2, <1>3, <1>4 DEF StreamTypes
<1>6. Kept(capture, said.text)
  BY <1>3, <1>4, TextEmpty DEF Kept
<1>7. relayed \o held = <<>>
  BY <1>1, <1>2, ConcatEmptySeq
<1>8. Tells(<<>>, said)
  <2>1. Follows(<<>>, <<>>)
    BY DEF Follows
  <2>2. ToSet(<<>>) = {}
    BY DEF ToSet
  <2>3. QED
    BY <1>3, <2>1, <2>2, TextEmpty, CallsEmpty DEF Tells
<1>9. Running
  BY <1>2, <1>7, <1>8, CallsEmpty DEF Running, Decided
<1>10. SentOnce /\ Ended
  BY <1>2 DEF SentOnce, Ended
<1>11. QED
  BY <1>5, <1>6, <1>9, <1>10 DEF StreamInv

LEMMA StreamKept == StreamInv /\ [StreamNext]_streamVars => StreamInv'
<1>. SUFFICES ASSUME StreamInv, [StreamNext]_streamVars PROVE StreamInv'
  OBVIOUS
<1>1. CASE \E text \in {NoText, <<>>} : SaysRole(text)
  BY <1>1, SaysRoleInv
<1>2. CASE SaysText
  BY <1>2, SaysTextInv
<1>3. CASE \E name \in StreamTools, named \in BOOLEAN : BeginsCall(name, named)
  BY <1>3, BeginsCallInv
<1>4. CASE \E i \in DOMAIN said.calls : GoesOn(i)
  BY <1>4, GoesOnInv
<1>5. CASE SaysFinish
  BY <1>5, SaysFinishInv
<1>6. CASE SaysDone
  BY <1>6, SaysDoneInv
<1>7. CASE EndsPassing
  BY <1>7, EndsPassingInv
<1>8. CASE \E asked \in BOOLEAN : EndsUnasked(asked) \/ SendsAgain(asked)
  BY <1>8, EndsUnaskedInv, SendsAgainInv
<1>9. CASE \E a \in Resends : Resent(a)
  BY <1>9, ResentInv
<1>10. CASE UNCHANGED streamVars
  <2>1. /\ said' = said /\ lines' = lines /\ verdict' = verdict /\ held' = held /\ joined' = joined
        /\ relayed' = relayed /\ capture' = capture /\ again' = again /\ over' = over
    BY <1>10 DEF streamVars
  <2>2. StreamTypes' /\ Running' /\ SentOnce' /\ Ended'
    BY <2>1 DEF StreamInv, StreamTypes, Running, SentOnce, Ended
  <2>3. Kept(capture', said'.text)
    BY <2>1 DEF StreamInv
  <2>4. QED
    BY <2>2, <2>3 DEF StreamInv
<1>11. QED
  BY <1>1, <1>2, <1>3, <1>4, <1>5, <1>6, <1>7, <1>8, <1>9, <1>10 DEF StreamNext

-----------------------------------------------------------------------------
\* What begins a list.
LEMMA BeginsList ==
  ASSUME NEW s \in Seq(Nat), NEW u \in Seq(Nat)
  PROVE  IsPrefix(s, s \o u)
<1>p. PICK t, m, n : t = s \o u /\ m = Len(s) /\ n = Len(u)
  OBVIOUS
<1>1. /\ m \in Nat /\ n \in Nat /\ Len(t) = m + n /\ t \in Seq(Nat)
      /\ \A i \in 1..m : t[i] = s[i]
  BY <1>p, LenProperties, ConcatProperties
<1>2. SubSeq(s, 1, m) = SubSeq(t, 1, m)
  BY <1>1, <1>p
<1>3. QED
  BY <1>1, <1>2, <1>p DEF IsPrefix

LEMMA StreamIsWhole == StreamInv => ClientReadsAnswer /\ CaptureHasNoHole
<1>. SUFFICES ASSUME StreamInv PROVE ClientReadsAnswer /\ CaptureHasNoHole
  OBVIOUS
<1>1. ClientReadsAnswer
  BY DEF StreamInv, Ended, ClientReadsAnswer
<1>p. PICK t, text : t = TextOf(capture.lines) /\ text = said.text
  OBVIOUS
<1>2. t \in Seq(Nat)
  <2>1. capture.lines \in Seq(StreamLines)
    BY DEF StreamInv, StreamTypes
  <2>2. DoneLine \in StreamLines
    BY DEF DoneLine, Line, StreamLines
  <2>3. QED
    BY <1>p, <2>1, <2>2, TextAppend
<1>3. IF capture.truncated THEN IsPrefix(t, text) ELSE t = text
  <2>1. Kept(capture, text)
    BY <1>p DEF StreamInv
  <2>2. CASE capture.truncated
    <3>1. PICK u \in Seq(Nat) : text = t \o u
      BY <2>1, <2>2, <1>p DEF Kept
    <3>2. IsPrefix(t, t \o u)
      BY <1>2, BeginsList
    <3>3. QED
      BY <2>2, <3>1, <3>2
  <2>3. CASE ~capture.truncated
    BY <2>1, <2>3, <1>p DEF Kept
  <2>4. QED
    BY <2>2, <2>3
<1>4. ASSUME NEW m \in Range(again), ~over
      PROVE  m.calls = said.calls /\ m.finish = said.finish /\ m.text = t
  <2>1. again # <<>>
    BY DEF Range
  <2>2. again = <<StreamAnswer(TextOf(capture.lines), said.calls, said.finish)>>
    BY <2>1, <1>4 DEF StreamInv, SentOnce
  <2>3. m = StreamAnswer(TextOf(capture.lines), said.calls, said.finish)
    BY <2>2 DEF Range
  <2>4. QED
    BY <2>3, <1>p DEF StreamAnswer
<1>5. CaptureHasNoHole
  <2>1. \A m \in Range(again) : ~over =>
          /\ m.calls = said.calls /\ m.finish = said.finish
          /\ IF capture.truncated THEN IsPrefix(m.text, said.text) ELSE m.text = said.text
    BY <1>3, <1>4, <1>p
  <2>2. IF capture.truncated THEN IsPrefix(TextOf(capture.lines), said.text)
        ELSE TextOf(capture.lines) = said.text
    BY <1>3, <1>p
  <2>3. QED
    BY <2>1, <2>2 DEF CaptureHasNoHole
<1>6. QED
  BY <1>1, <1>5

\* However upstream cuts an answer into lines, and whenever the decision about
\* a recall falls, the client that was let through puts together the answer of
\* the model that answered last.
THEOREM StreamIsReadWhole == StreamSpec => []ClientReadsAnswer
<1>1. StreamSpec => []StreamInv
  BY StreamStart, StreamKept, PTL DEF StreamSpec
<1>2. QED
  BY <1>1, StreamIsWhole, PTL

\* The captured text is the beginning of the answer, without a hole, and all of
\* it unless the buffer was full; and the message sent again with a recall has
\* that text, and the calls that upstream's deltas made.
THEOREM CapturesHaveNoHole == StreamSpec => []CaptureHasNoHole
<1>1. StreamSpec => []StreamInv
  BY StreamStart, StreamKept, PTL DEF StreamSpec
<1>2. QED
  BY <1>1, StreamIsWhole, PTL

-----------------------------------------------------------------------------
(* What the curator's tools show.                                          *)

\* The conditions of ShownIsBest on an answer.
TextIsBest(answer) ==
  answer.tool = "text" =>
    /\ 1 <= answer.from /\ answer.to <= answer.text.length
    /\ answer.focus # {} =>
         \E s \in Range(answer.text.symbols) :
           /\ s.at = answer.from
           /\ \A t \in Range(answer.text.symbols) :
                /\ Fits(t, answer.focus) <= Fits(s, answer.focus)
                /\ t.at > s.at => t.at > answer.to

FoundIsBest(pool, near, found) ==
  LET left == DOMAIN pool \ Range(found)
  IN /\ Len(found) <= FoundLimit
     /\ near => \A i \in left : pool[i].vector =>
          /\ \A j \in Range(found) : pool[i].alike <= pool[j].alike
          /\ Len(found) = FoundLimit \/ pool[i].alike <= Threshold
     /\ ~near /\ Len(found) < FoundLimit => \A i \in left : ~pool[i].match

\* At most FoundLimit of a list: the beginning, or all of it.
LEMMA AtMostFoundIs ==
  ASSUME NEW S, NEW list \in Seq(S)
  PROVE  LET some == AtMostFound(list)
         IN /\ some \in Seq(S) /\ Len(some) <= FoundLimit /\ Len(some) <= Len(list)
            /\ Len(some) = FoundLimit \/ Len(some) = Len(list)
            /\ \A i \in 1..Len(some) : i \in 1..Len(list) /\ some[i] = list[i]
<1>p. PICK some, n, m : some = AtMostFound(list) /\ n = Len(list) /\ m = Min({FoundLimit, n})
  OBVIOUS
<1>1. n \in Nat /\ FoundLimit \in Nat
  BY <1>p, ToolsAssumption, LenProperties
<1>2. m \in {FoundLimit, n} /\ m <= FoundLimit /\ m <= n
  <2>1. FoundLimit \in Int /\ n \in Int
    BY <1>1
  <2>2. QED
    BY <1>p, <2>1, Lesser, Zenon
<1>3. m \in 0..n
  BY <1>1, <1>2
<1>4. some \in Seq(S) /\ Len(some) = m /\ \A i \in 1..m : some[i] = list[i]
  BY <1>p, <1>3, BeginningIs DEF AtMostFound
<1>5. \A i \in 1..m : i \in 1..n
  BY <1>1, <1>2
<1>6. QED
  BY <1>2, <1>4, <1>5, <1>p

\* The places of the facts.
LEMMA PoolIs ==
  ASSUME NEW pool \in FactPools
  PROVE  /\ DOMAIN pool \in SUBSET Nat /\ IsFiniteSet(DOMAIN pool)
         /\ [i \in DOMAIN pool |-> i] \in Seq(DOMAIN pool)
         /\ ToSet([i \in DOMAIN pool |-> i]) = DOMAIN pool
         /\ [i \in DOMAIN pool |-> pool[i].alike] \in [DOMAIN pool -> Int]
<1>. DEFINE F == [match : BOOLEAN, alike : Int, vector : BOOLEAN]
<1>1. pool \in Seq(F)
  BY ToolsAssumption
<1>p. PICK n : n = Len(pool)
  OBVIOUS
<1>2. n \in Nat /\ DOMAIN pool = 1..n /\ \A i \in 1..n : pool[i] \in F
  BY <1>1, <1>p, LenProperties, ElementOfSeq
<1>3. IsFiniteSet(1..n)
  BY <1>2, FS_Interval
<1>4. [i \in 1..n |-> i] \in Seq(1..n) /\ Len([i \in 1..n |-> i]) = n
  <2>1. [i \in 1..n |-> i] \in [1..n -> 1..n]
    OBVIOUS
  <2>2. QED
    BY <1>2, <2>1, ListOf
<1>5. ToSet([i \in 1..n |-> i]) = 1..n
  BY DEF ToSet
<1>6. \A i \in 1..n : pool[i].alike \in Int
  BY <1>2
<1>7. QED
  BY <1>2, <1>3, <1>4, <1>5, <1>6

\* search_facts.
LEMMA MatchingIsBest ==
  ASSUME NEW pool \in FactPools
  PROVE  FoundIsBest(pool, FALSE, Matching(pool))
<1>p. PICK found, hits, places, T :
        /\ places = [i \in DOMAIN pool |-> i] /\ T = {i \in DOMAIN pool : pool[i].match}
        /\ hits = Only(places, T) /\ found = AtMostFound(hits)
  OBVIOUS
<1>1. places \in Seq(DOMAIN pool) /\ ToSet(places) = DOMAIN pool
  BY <1>p, PoolIs
<1>2. hits \in Seq(DOMAIN pool) /\ ToSet(hits) = DOMAIN pool \cap T
  <2>1. hits \in Seq(DOMAIN pool \cap T) /\ ToSet(hits) = DOMAIN pool \cap T
    BY <1>p, <1>1, OnlyType, OnlySet
  <2>2. QED
    BY <2>1, SeqWider
<1>3. /\ found \in Seq(DOMAIN pool) /\ Len(found) <= FoundLimit
      /\ Len(found) = FoundLimit \/ Len(found) = Len(hits)
      /\ \A i \in 1..Len(found) : i \in 1..Len(hits) /\ found[i] = hits[i]
  BY <1>p, <1>2, AtMostFoundIs
<1>4. /\ Range(found) = {found[i] : i \in 1..Len(found)}
      /\ ToSet(hits) = {hits[i] : i \in 1..Len(hits)}
  <2>1. Range(found) = {found[i] : i \in 1..Len(found)}
    BY <1>3, Elements
  <2>2. ToSet(hits) = {hits[i] : i \in 1..Len(hits)}
    BY <1>2, SetOf
  <2>3. QED
    BY <2>1, <2>2
<1>5. ASSUME Len(found) < FoundLimit, NEW i \in DOMAIN pool \ Range(found) PROVE ~pool[i].match
  <2>1. Len(found) \in Nat /\ FoundLimit \in Nat
    BY <1>3, ToolsAssumption, LenProperties
  <2>2. Len(found) = Len(hits)
    BY <1>3, <1>5, <2>1
  <2>3. i \notin ToSet(hits)
    BY <1>3, <1>4, <1>5, <2>2
  <2>4. QED
    BY <1>2, <1>p, <2>3
<1>6. QED
  BY <1>3, <1>5, <1>p DEF FoundIsBest, Matching

\* search_facts_semantic.
LEMMA NearestIsBest ==
  ASSUME NEW pool \in FactPools
  PROVE  FoundIsBest(pool, TRUE, Nearest(pool))
<1>p. PICK D, W, f, R, rank, top, found :
        /\ D = DOMAIN pool /\ W = WithVector(pool) /\ f = [i \in D |-> pool[i].alike]
        /\ R = HighestFirst(D, f) /\ rank = InOrderOf(W, R) /\ top = AtMostFound(rank)
        /\ found = Only(top, Alike(pool))
  OBVIOUS
<1>1. /\ D \in SUBSET Int /\ W \in SUBSET D /\ f \in [D -> Int]
      /\ IsFiniteSet(W)
  <2>1. D \in SUBSET Nat /\ IsFiniteSet(D) /\ f \in [D -> Int]
    BY <1>p, PoolIs
  <2>2. W \in SUBSET D
    BY <1>p DEF WithVector
  <2>3. IsFiniteSet(W)
    BY <2>1, <2>2, FS_Subset
  <2>4. QED
    BY <2>1, <2>2, <2>3
<1>2. SortedBy(W, R)
  BY <1>1, <1>p, HighestFirstSorts
<1>3. rank \in Seq(W) /\ ToSet(rank) = W /\ Pairwise(rank, R)
  BY <1>1, <1>2, <1>p, InOrderIs
<1>4. /\ top \in Seq(W) /\ Len(top) <= FoundLimit /\ Len(top) <= Len(rank)
      /\ Len(top) = FoundLimit \/ Len(top) = Len(rank)
      /\ \A i \in 1..Len(top) : i \in 1..Len(rank) /\ top[i] = rank[i]
  <2>1. LET some == AtMostFound(rank)
        IN /\ some \in Seq(W) /\ Len(some) <= FoundLimit /\ Len(some) <= Len(rank)
           /\ Len(some) = FoundLimit \/ Len(some) = Len(rank)
           /\ \A i \in 1..Len(some) : i \in 1..Len(rank) /\ some[i] = rank[i]
    BY <1>3, AtMostFoundIs
  <2>2. QED
    BY <1>p, <2>1
<1>5. /\ found \in Seq(W) /\ ToSet(found) = ToSet(top) \cap Alike(pool)
      /\ Len(found) <= Len(top)
  <2>1. found \in Seq(W \cap Alike(pool))
    BY <1>4, <1>p, OnlyType
  <2>2. QED
    BY <1>4, <1>p, <2>1, SeqWider, OnlySet, OnlyShort
<1>6. /\ Len(found) \in Nat /\ Len(top) \in Nat /\ Len(rank) \in Nat /\ FoundLimit \in Nat
      /\ ToSet(found) = Range(found)
      /\ ToSet(top) = {top[i] : i \in 1..Len(top)}
      /\ ToSet(rank) = {rank[i] : i \in 1..Len(rank)}
  <2>1. ToSet(top) = {top[i] : i \in 1..Len(top)} /\ Len(top) \in Nat
    BY <1>4, SetOf, LenProperties
  <2>2. ToSet(rank) = {rank[i] : i \in 1..Len(rank)} /\ Len(rank) \in Nat
    BY <1>3, SetOf, LenProperties
  <2>3. ToSet(found) = {found[i] : i \in 1..Len(found)} /\ Len(found) \in Nat
    BY <1>5, SetOf, LenProperties
  <2>4. Range(found) = {found[i] : i \in 1..Len(found)}
    BY <1>5, Elements
  <2>5. FoundLimit \in Nat
    BY ToolsAssumption
  <2>6. QED
    BY <2>1, <2>2, <2>3, <2>4, <2>5
<1>7. ASSUME NEW i \in D \ Range(found), pool[i].vector
      PROVE  /\ \A j \in Range(found) : pool[i].alike <= pool[j].alike
             /\ Len(found) = FoundLimit \/ pool[i].alike <= Threshold
  <2>1. i \in W
    BY <1>7, <1>p DEF WithVector
  <2>2. PICK k \in 1..Len(rank) : i = rank[k]
    BY <1>3, <1>6, <2>1
  <2>3. \A j \in D : pool[j].alike \in Int
    BY <1>1, <1>p
  <2>4. CASE k \in 1..Len(top)
    <3>1. i \in ToSet(top) /\ i \notin ToSet(found)
      BY <1>4, <1>6, <1>7, <2>2, <2>4
    <3>2. ~(pool[i].alike > Threshold)
      BY <1>5, <1>7, <1>p, <3>1 DEF Alike
    <3>3. pool[i].alike \in Int /\ Threshold \in Int
      BY <1>7, <2>3 DEF Threshold
    <3>4. ASSUME NEW j \in Range(found) PROVE pool[i].alike <= pool[j].alike
      <4>1. j \in D /\ pool[j].alike > Threshold
        BY <1>5, <1>6, <1>p, <3>4 DEF Alike
      <4>2. pool[j].alike \in Int
        BY <2>3, <4>1
      <4>3. QED
        BY <3>2, <3>3, <4>1, <4>2
    <3>5. QED
      BY <3>2, <3>3, <3>4
  <2>5. CASE k \notin 1..Len(top)
    <3>1. ASSUME NEW j \in ToSet(top) PROVE pool[i].alike <= pool[j].alike
      <4>1. PICK l \in 1..Len(top) : j = top[l]
        BY <1>6, <3>1
      <4>2. l \in 1..Len(rank) /\ j = rank[l] /\ l < k
        BY <1>4, <1>6, <2>2, <2>5, <4>1
      <4>3. <<j, i>> \in R
        BY <1>3, <2>2, <4>2 DEF Pairwise
      <4>4. f[j] > f[i] \/ f[j] = f[i]
        BY <1>p, <4>3 DEF HighestFirst
      <4>5. i \in D /\ j \in D /\ f[i] = pool[i].alike /\ f[j] = pool[j].alike
        <5>1. j \in W
          BY <1>3, <1>6, <4>2
        <5>2. QED
          BY <1>1, <1>p, <2>1, <5>1
      <4>6. QED
        BY <2>3, <4>4, <4>5
    <3>2. ASSUME pool[i].alike > Threshold PROVE Len(found) = FoundLimit
      <4>1. Threshold \in Int /\ pool[i].alike \in Int /\ \A j \in ToSet(top) : j \in D
        <5>1. Threshold \in Int
          BY DEF Threshold
        <5>2. pool[i].alike \in Int
          BY <1>7, <2>3
        <5>3. ASSUME NEW j \in ToSet(top) PROVE j \in D
          <6>1. PICK l \in 1..Len(top) : j = top[l]
            BY <1>6, <5>3
          <6>2. top[l] \in W
            BY <1>4, <6>1, ElementOfSeq
          <6>3. QED
            BY <1>1, <6>1, <6>2
        <5>4. QED
          BY <5>1, <5>2, <5>3
      <4>2. ToSet(top) \subseteq Alike(pool)
        BY <1>p, <2>3, <3>1, <3>2, <4>1 DEF Alike
      <4>3. found = top
        BY <1>4, <1>p, <4>2, OnlyAll
      <4>4. Len(top) # Len(rank)
        BY <1>6, <2>2, <2>5
      <4>5. QED
        BY <1>4, <4>3, <4>4
    <3>3. pool[i].alike \in Int /\ Threshold \in Int
      BY <1>7, <2>3 DEF Threshold
    <3>4. QED
      BY <1>5, <1>6, <3>1, <3>2, <3>3
  <2>6. QED
    BY <2>4, <2>5
<1>8. Len(found) <= FoundLimit
  BY <1>4, <1>5, <1>6
<1>9. found = Nearest(pool)
  BY <1>p DEF Nearest, ByLikeness
<1>10. QED
  BY <1>7, <1>8, <1>9, <1>p DEF FoundIsBest

\* The symbols of a text.
LEMMA SymbolsAre ==
  ASSUME NEW text, IsText(text)
  PROVE  LET m == Len(text.symbols)
         IN /\ m \in Nat /\ DOMAIN text.symbols = 1..m /\ text.length \in Nat \ {0}
            /\ Range(text.symbols) = {text.symbols[i] : i \in 1..m}
            /\ \A i \in 1..m : text.symbols[i].at \in 1..text.length
            /\ \A i, j \in 1..m : i < j => text.symbols[i].at <= text.symbols[j].at
<1>p. PICK m, s : m = Len(text.symbols) /\ s = text.symbols
  OBVIOUS
<1>1. s \in Seq(Range(s)) /\ text.length \in Nat \ {0}
  BY <1>p DEF IsText
<1>2. m \in Nat /\ DOMAIN s = 1..m
  BY <1>1, <1>p, LenProperties
<1>3. Range(s) = {s[i] : i \in 1..m}
  BY <1>2 DEF Range
<1>4. \A i \in 1..m : s[i].at \in 1..text.length
  BY <1>3, <1>p DEF IsText
<1>5. \A i, j \in 1..m : i < j => s[i].at <= s[j].at
  BY <1>2, <1>p DEF IsText
<1>6. QED
  BY <1>1, <1>2, <1>3, <1>4, <1>5, <1>p

LEMMA FitsType ==
  ASSUME NEW symbol, NEW focus, IsFiniteSet(focus)
  PROVE  Fits(symbol, focus) \in Nat
<1>1. focus \cap symbol.words \in SUBSET focus
  OBVIOUS
<1>2. Cardinality(focus \cap symbol.words) \in Nat
  BY <1>1, FS_Subset, FS_CardinalityType
<1>3. QED
  BY <1>2 DEF Fits

\* A symbol that fits best is found.
LEMMA BestIs ==
  ASSUME NEW text, IsText(text), NEW focus, IsFiniteSet(focus), Range(text.symbols) # {}
  PROVE  /\ Best(text, focus) \in 1..Len(text.symbols)
         /\ \A j \in 1..Len(text.symbols) :
              Fits(text.symbols[j], focus) <= Fits(text.symbols[Best(text, focus)], focus)
<1>p. PICK D, f : /\ D = DOMAIN text.symbols
                  /\ f = [i \in D |-> Fits(text.symbols[i], focus)]
  OBVIOUS
<1>1. D = 1..Len(text.symbols) /\ Len(text.symbols) \in Nat /\ D # {}
  BY <1>p, SymbolsAre
<1>2. D \in SUBSET Int /\ IsFiniteSet(D) /\ f \in [D -> Int]
  <2>1. \A i \in D : Fits(text.symbols[i], focus) \in Nat
    BY FitsType
  <2>2. IsFiniteSet(D)
    BY <1>1, FS_Interval
  <2>3. QED
    BY <1>1, <1>p, <2>1, <2>2
<1>3. SortedBy(D, HighestFirst(D, f))
  BY <1>2, HighestFirstSorts
<1>4. PICK b \in D : \A j \in D \ {b} : <<b, j>> \in HighestFirst(D, f)
  <2>1. PICK R : R = HighestFirst(D, f)
    OBVIOUS
  <2>2. SortedBy(D, R) /\ IsFiniteSet(D) /\ D # {}
    BY <1>1, <1>2, <1>3, <2>1
  <2>3. \E b \in D : \A j \in D \ {b} : <<b, j>> \in R
    BY <2>2, OneIsFirst
  <2>4. QED
    BY <2>1, <2>3
<1>5. \A j \in D \ {b} : f[b] > f[j] \/ (f[b] = f[j] /\ b < j)
  BY <1>4 DEF HighestFirst
<1>6. \A j \in D : f[j] <= f[b]
  BY <1>2, <1>5
<1>7. \A j \in 1..(b - 1) : f[j] < f[b]
  <2>1. SUFFICES ASSUME NEW j \in 1..(b - 1) PROVE f[j] < f[b]
    OBVIOUS
  <2>2. j \in D \ {b} /\ ~(b < j)
    BY <1>1
  <2>3. f[b] > f[j] /\ f[b] \in Int /\ f[j] \in Int
    BY <1>2, <1>5, <2>2
  <2>4. QED
    BY <2>3
<1>8. \A i \in 1..(b - 1) : i \in D
  BY <1>1
<1>9. /\ \A j \in DOMAIN text.symbols : Fits(text.symbols[j], focus) <= Fits(text.symbols[b], focus)
      /\ \A j \in 1..(b - 1) : Fits(text.symbols[j], focus) < Fits(text.symbols[b], focus)
  BY <1>6, <1>7, <1>8, <1>p
<1>10. \E i \in DOMAIN text.symbols :
         /\ \A j \in DOMAIN text.symbols : Fits(text.symbols[j], focus) <= Fits(text.symbols[i], focus)
         /\ \A j \in 1..(i - 1) : Fits(text.symbols[j], focus) < Fits(text.symbols[i], focus)
  BY <1>9, <1>p
<1>11. /\ Best(text, focus) \in DOMAIN text.symbols
       /\ \A j \in DOMAIN text.symbols :
            Fits(text.symbols[j], focus) <= Fits(text.symbols[Best(text, focus)], focus)
  BY <1>10 DEF Best
<1>12. QED
  BY <1>1, <1>11, <1>p

\* The section of a symbol ends before the next.
LEMMA SectionIs ==
  ASSUME NEW text, IsText(text), NEW i \in 1..Len(text.symbols)
  PROVE  /\ SectionEnd(text, i) <= text.length
         /\ \A j \in 1..Len(text.symbols) :
              text.symbols[j].at > text.symbols[i].at => text.symbols[j].at > SectionEnd(text, i)
<1>p. PICK m, s, e, next :
        /\ m = Len(text.symbols) /\ s = text.symbols /\ e = SectionEnd(text, i)
        /\ next = IF i < m THEN s[i + 1].at - 1 ELSE text.length
  OBVIOUS
<1>1. /\ m \in Nat /\ text.length \in Nat /\ \A j \in 1..m : s[j].at \in 1..text.length
      /\ \A j, k \in 1..m : j < k => s[j].at <= s[k].at
  BY <1>p, SymbolsAre
<1>2. s[i].at \in Nat /\ FocusLines \in Nat
  <2>1. FocusLines \in Nat
    BY ToolsAssumption
  <2>2. s[i].at \in 1..text.length
    BY <1>1, <1>p
  <2>3. QED
    BY <1>1, <2>1, <2>2
<1>3. i < m => i + 1 \in 1..m /\ s[i + 1].at \in 1..text.length
  <2>1. i < m => i + 1 \in 1..m
    BY <1>1, <1>p
  <2>2. QED
    BY <1>1, <2>1
<1>4. next \in Int /\ next <= text.length
  BY <1>1, <1>3, <1>p
<1>5. e \in Int /\ e <= next
  <2>1. e = Min({s[i].at + FocusLines, next})
    BY <1>p DEF SectionEnd
  <2>2. s[i].at + FocusLines \in Int
    BY <1>2
  <2>3. e \in {s[i].at + FocusLines, next} /\ e <= next
    BY <1>4, <2>1, <2>2, Lesser, Zenon
  <2>4. QED
    BY <1>4, <2>2, <2>3
<1>6. ASSUME NEW j \in 1..m, s[j].at > s[i].at PROVE s[j].at > e
  <2>1. s[j].at \in Nat
    BY <1>1
  <2>2. j # i /\ ~(j < i)
    <3>1. i \in 1..m
      BY <1>p
    <3>2. j < i => s[j].at <= s[i].at
      BY <1>1, <3>1
    <3>3. QED
      BY <1>2, <1>6, <2>1, <3>2
  <2>3. i < m /\ (j = i + 1 \/ i + 1 < j)
    BY <1>1, <1>p, <2>2
  <2>4. s[i + 1].at <= s[j].at
    BY <1>1, <1>3, <2>1, <2>3
  <2>5. next = s[i + 1].at - 1 /\ s[i + 1].at \in Nat
    BY <1>3, <1>p, <2>3
  <2>6. QED
    BY <1>5, <2>1, <2>4, <2>5
<1>7. QED
  BY <1>1, <1>4, <1>5, <1>6, <1>p

LEMMA PrefetchedIsBest ==
  ASSUME NEW path, NEW text \in DiskTexts, NEW focus \in Focuses \cup {{}}
  PROVE  TextIsBest(Prefetched(path, text, focus))
<1>p. PICK answer, m, s, b :
        /\ answer = Prefetched(path, text, focus) /\ m = Len(text.symbols) /\ s = text.symbols
        /\ b = Best(text, focus)
  OBVIOUS
<1>1. IsText(text) /\ IsFiniteSet(focus)
  <2>1. IsText(text)
    BY ToolsAssumption
  <2>2. IsFiniteSet(focus)
    BY ToolsAssumption, FS_EmptySet
  <2>3. QED
    BY <2>1, <2>2
<1>2. /\ m \in Nat /\ text.length \in Nat \ {0} /\ Range(s) = {s[i] : i \in 1..m}
      /\ \A i \in 1..m : s[i].at \in 1..text.length
  <2>1. LET len == Len(text.symbols)
        IN /\ len \in Nat /\ text.length \in Nat \ {0}
           /\ Range(text.symbols) = {text.symbols[i] : i \in 1..len}
           /\ \A i \in 1..len : text.symbols[i].at \in 1..text.length
    BY <1>1, SymbolsAre
  <2>2. QED
    BY <1>p, <2>1
<1>3. CASE \E t \in Range(s) : focus # {} /\ Fits(t, focus) > 0
  <2>1. answer = Shown(path, text, s[b].at, SectionEnd(text, b), focus)
    BY <1>3, <1>p DEF Prefetched
  <2>2. /\ answer.from = s[b].at /\ answer.to = SectionEnd(text, b)
        /\ answer.text = text /\ answer.focus = focus
    BY <2>1 DEF Shown
  <2>3. /\ b \in 1..m /\ \A j \in 1..m : Fits(s[j], focus) <= Fits(s[b], focus)
    BY <1>1, <1>3, <1>p, BestIs
  <2>4. /\ answer.to <= text.length
        /\ \A j \in 1..m : s[j].at > s[b].at => s[j].at > answer.to
    BY <1>1, <1>p, <2>2, <2>3, SectionIs
  <2>5. 1 <= answer.from
    BY <1>2, <2>2, <2>3
  <2>6. s[b] \in Range(s) /\ \A t \in Range(s) : /\ Fits(t, focus) <= Fits(s[b], focus)
                                                 /\ t.at > s[b].at => t.at > answer.to
    BY <1>2, <2>3, <2>4
  <2>7. QED
    BY <1>p, <2>2, <2>4, <2>5, <2>6 DEF TextIsBest
<1>4. CASE ~(\E t \in Range(s) : focus # {} /\ Fits(t, focus) > 0)
  <2>1. answer = Shown(path, text, 1, Min({PreviewLines, text.length}), {})
    BY <1>4, <1>p DEF Prefetched
  <2>2. PreviewLines \in Int /\ text.length \in Int
    BY <1>2, ToolsAssumption
  <2>3. Min({PreviewLines, text.length}) <= text.length
    BY <2>2, Lesser, Zenon
  <2>4. /\ answer.from = 1 /\ answer.to = Min({PreviewLines, text.length})
        /\ answer.text = text /\ answer.focus = {}
    BY <2>1 DEF Shown
  <2>5. QED
    BY <1>p, <2>3, <2>4 DEF TextIsBest
<1>5. QED
  BY <1>3, <1>4

\* Texts that are shown without a focus.
LEMMA ShownPlain ==
  ASSUME NEW path, NEW text, NEW from, NEW to, 1 <= from, to <= text.length
  PROVE  TextIsBest(Shown(path, text, from, to, {}))
BY DEF TextIsBest, Shown

\* ShownIsBest, with the texts that are shown ones there are.
ShownInv ==
  /\ ShownIsBest
  /\ \A key \in DOMAIN rows : rows[key].text \in DiskTexts

LEMMA ShownParts ==
  ShownIsBest <=> /\ TextIsBest(seen)
                  /\ seen.tool = "facts" => FoundIsBest(seen.pool, seen.near, seen.found)
BY DEF ShownIsBest, TextIsBest, FoundIsBest

\* Steps that only answer.
LEMMA ReportBest ==
  ASSUME ShownInv, NEW answer, Reports(answer), TextIsBest(answer), answer.tool # "facts"
  PROVE  ShownInv'
<1>1. seen' = answer /\ rows' = rows
  BY DEF Reports
<1>2. ShownIsBest'
  BY <1>1 DEF ShownIsBest, TextIsBest
<1>3. QED
  BY <1>1, <1>2 DEF ShownInv

LEMMA RefusalBest ==
  ASSUME ShownInv, Refuses
  PROVE  ShownInv'
<1>1. TextIsBest(Silence) /\ Silence.tool # "facts"
  BY DEF Silence, TextIsBest
<1>2. QED
  BY <1>1, ReportBest DEF Refuses

\* Steps that cache a text.
LEMMA CacheTexts ==
  ASSUME ShownInv, NEW path, NEW text \in DiskTexts, NEW prefetched, NEW outlined,
         Cache(path, text, prefetched, outlined)
  PROVE  \A key \in DOMAIN rows' : rows'[key].text \in DiskTexts
<1>p. PICK row : row = [text |-> text, prefetched |-> prefetched]
  OBVIOUS
<1>1. rows' = Entered(rows, path, row)
  BY <1>p DEF Cache
<1>2. /\ DOMAIN rows' = DOMAIN rows \cup {path}
      /\ \A key \in DOMAIN rows \cup {path} : rows'[key] = IF key = path THEN row ELSE rows[key]
  BY <1>1 DEF Entered
<1>3. row.text = text
  BY <1>p
<1>4. QED
  BY <1>2, <1>3 DEF ShownInv

LEMMA LoadBest ==
  ASSUME ShownInv, NEW path, Load(path)
  PROVE  ShownInv'
<1>1. CASE Refuses
  BY <1>1, RefusalBest
<1>2. ASSUME NEW text \in DiskTexts, NEW focus \in Focuses \cup {{}}, NEW outlined,
             Cache(path, text, TRUE, outlined), seen' = Prefetched(path, text, focus)
      PROVE  ShownInv'
  <2>1. \A key \in DOMAIN rows' : rows'[key].text \in DiskTexts
    BY <1>2, CacheTexts
  <2>2. TextIsBest(Prefetched(path, text, focus)) /\ Prefetched(path, text, focus).tool = "text"
    BY PrefetchedIsBest DEF Prefetched, Shown
  <2>3. ShownIsBest'
    BY <1>2, <2>2 DEF ShownIsBest, TextIsBest
  <2>4. QED
    BY <2>1, <2>3 DEF ShownInv
<1>3. QED
  BY <1>1, <1>2 DEF Load

LEMMA SearchBest ==
  ASSUME ShownInv, NEW pool \in FactPools, NEW embedded, Search(pool, embedded)
  PROVE  ShownInv'
<1>p. PICK near, answer :
        /\ near = (embedded /\ \E i \in DOMAIN pool : pool[i].vector)
        /\ answer = [tool |-> "facts", pool |-> pool, near |-> near,
                     found |-> IF near THEN Nearest(pool) ELSE Matching(pool)]
  OBVIOUS
<1>1. seen' = answer /\ rows' = rows
  BY <1>p DEF Search, Reports
<1>2. /\ answer.tool = "facts" /\ answer.pool = pool /\ answer.near = near
      /\ answer.found = IF near THEN Nearest(pool) ELSE Matching(pool)
  BY <1>p
<1>3. near \in BOOLEAN
  BY <1>p
<1>4. FoundIsBest(pool, near, answer.found)
  BY <1>2, <1>3, NearestIsBest, MatchingIsBest
<1>5. ShownIsBest'
  BY <1>1, <1>2, <1>4 DEF ShownIsBest, FoundIsBest
<1>6. QED
  BY <1>1, <1>5 DEF ShownInv

LEMMA ShownKept == ShownInv /\ [ToolNext]_toolVars => ShownInv'
<1>. SUFFICES ASSUME ShownInv, [ToolNext]_toolVars PROVE ShownInv'
  OBVIOUS
<1>1. ASSUME NEW path, NEW text \in DiskTexts, NEW ok, Captured(path, text, ok) PROVE ShownInv'
  <2>1. Cache(path, text, FALSE, ok) /\ seen' = Silence
    BY <1>1 DEF Captured
  <2>2. ShownIsBest'
    BY <2>1 DEF Silence, ShownIsBest
  <2>3. QED
    BY <2>1, <2>2, CacheTexts DEF ShownInv
<1>2. ASSUME NEW workspace, Learn(workspace) PROVE ShownInv'
  BY <1>2 DEF Learn, Silence, ShownInv, ShownIsBest
<1>3. ASSUME NEW r, Prefetch(r) PROVE ShownInv'
  BY <1>3, RefusalBest, LoadBest DEF Prefetch
<1>4. ASSUME NEW r, ListDir(r) PROVE ShownInv'
  <2>1. CASE Refuses
    BY <2>1, RefusalBest
  <2>2. ASSUME NEW answer, Reports(answer), answer.tool = "dir" PROVE ShownInv'
    BY <2>2, ReportBest DEF TextIsBest
  <2>3. QED
    BY <1>4, <2>1, <2>2 DEF ListDir
<1>5. ASSUME NEW path, NEW text, NEW from, NEW to, 1 <= from, to <= text.length,
             Reports(Shown(path, text, from, to, {}))
      PROVE  ShownInv'
  <2>1. /\ TextIsBest(Shown(path, text, from, to, {}))
        /\ Shown(path, text, from, to, {}).tool # "facts"
    BY <1>5, ShownPlain DEF Shown
  <2>2. QED
    BY <1>5, <2>1, ReportBest
<1>6. ASSUME NEW path, NEW key \in RowsFor(path)
      PROVE  rows[key].text \in DiskTexts /\ rows[key].text.length \in Nat \ {0}
  <2>1. key \in DOMAIN rows
    BY <1>6 DEF RowsFor, Ending
  <2>2. rows[key].text \in DiskTexts
    BY <2>1 DEF ShownInv
  <2>3. QED
    BY <2>2, ToolsAssumption DEF IsText
<1>7. ASSUME NEW path, GetFile(path) PROVE ShownInv'
  <2>1. CASE Refuses
    BY <2>1, RefusalBest
  <2>2. CASE ~Refuses
    <3>1. PICK key \in RowsFor(path) :
            Reports(Shown(key, rows[key].text, 1,
                          IF rows[key].text.length <= FullLines THEN rows[key].text.length
                          ELSE HeadLines, {}))
      BY <1>7, <2>2 DEF GetFile
    <3>2. PICK text : text = rows[key].text
      OBVIOUS
    <3>3. PICK to : to = IF text.length <= FullLines THEN text.length ELSE HeadLines
      OBVIOUS
    <3>4. text.length \in Nat \ {0}
      BY <1>6, <3>2
    <3>5. to <= text.length
      BY <3>3, <3>4, ToolsAssumption
    <3>6. QED
      BY <1>5, <3>1, <3>2, <3>3, <3>5
  <2>3. QED
    BY <2>1, <2>2
<1>8. ASSUME NEW path, NEW from \in Int, NEW to \in Int, GetFileLines(path, from, to)
      PROVE  ShownInv'
  <2>1. CASE Refuses
    BY <2>1, RefusalBest
  <2>2. CASE ~Refuses
    <3>1. PICK key \in RowsFor(path) :
            Reports(Shown(key, rows[key].text, Max({1, from}), Min({to, rows[key].text.length}), {}))
      BY <1>8, <2>2 DEF GetFileLines
    <3>2. rows[key].text.length \in Int /\ 1 \in Int
      BY <1>6
    <3>3. 1 <= Max({1, from})
      <4>1. Max({1, from}) >= 1 /\ Max({1, from}) \in {1, from}
        BY <3>2, Lesser, Zenon
      <4>2. QED
        BY <4>1
    <3>4. Min({to, rows[key].text.length}) <= rows[key].text.length
      BY <3>2, Lesser, Zenon
    <3>5. QED
      BY <1>5, <3>1, <3>3, <3>4
  <2>3. QED
    BY <2>1, <2>2
<1>9. ASSUME NEW path, GetOutline(path) PROVE ShownInv'
  <2>1. CASE Refuses
    BY <2>1, RefusalBest
  <2>2. ASSUME NEW answer, Reports(answer), answer.tool = "outline" PROVE ShownInv'
    BY <2>2, ReportBest DEF TextIsBest
  <2>3. QED
    BY <1>9, <2>1, <2>2 DEF GetOutline
<1>10. CASE UNCHANGED toolVars
  BY <1>10 DEF toolVars, ShownInv, ShownIsBest
<1>11. ASSUME NEW r, NEW from \in 0..2, NEW to \in 1..3, GetFileLines(r.path, from, to)
       PROVE  ShownInv'
  <2>1. from \in Int /\ to \in Int
    OBVIOUS
  <2>2. QED
    BY <1>8, <1>11, <2>1
<1>12. QED
  BY <1>1, <1>2, <1>3, <1>4, <1>7, <1>9, <1>10, <1>11, SearchBest DEF ToolNext

\* The tools show the section that fits best, up to the next, and the facts
\* that are nearest, for any files, descriptions, facts and limits
\* (prefetch_file, get_file_lines, search_facts_semantic).
THEOREM ToolsShowTheBest == ToolSpec => []ShownIsBest
<1>1. ToolInit => ShownInv
  BY DEF ToolInit, ShownInv, ShownIsBest, NoMap, Silence
<1>2. ShownInv => ShownIsBest
  BY DEF ShownInv
<1>3. QED
  BY <1>1, <1>2, ShownKept, PTL DEF ToolSpec

-----------------------------------------------------------------------------
(* Which facts a recall returns.                                           *)

\* The recursion of Tokens has a solution.
LEMMA TokensDefined ==
  ASSUME NEW s \in Seq(Facts)
  PROVE  \E f \in [0..Len(s) -> Nat] :
           /\ f = [n \in 0..Len(s) |-> IF n = 0 THEN 0 ELSE f[n - 1] + s[n].length]
           /\ Tokens(s) = f[Len(s)]
<1>p. PICK m : m = Len(s)
  OBVIOUS
<1>1. m \in Nat /\ \A n \in 1..m : s[n].length \in Nat
  <2>1. \A n \in 1..m : s[n] \in Facts
    BY <1>p, ElementOfSeq
  <2>2. QED
    BY <1>p, <2>1, LenProperties DEF Facts
<1>2. PICK step : step = [pair \in Nat \X (1..m) |-> pair[1] + s[pair[2]].length]
  OBVIOUS
<1>3. step \in [Nat \X (1..m) -> Nat]
  BY <1>1, <1>2
<1>4. PICK f \in [0..m -> Nat] : StepByStep(f, 0, step, m)
  BY <1>1, <1>3, RecursionDefined
<1>5. \A n \in 1..m : step[<<f[n - 1], n>>] = f[n - 1] + s[n].length
  <2>1. SUFFICES ASSUME NEW n \in 1..m PROVE step[<<f[n - 1], n>>] = f[n - 1] + s[n].length
    OBVIOUS
  <2>2. f[n - 1] \in Nat
    BY <1>1
  <2>3. QED
    BY <1>2, <2>2
<1>f. f = [n \in 0..m |-> IF n = 0 THEN 0 ELSE f[n - 1] + s[n].length]
  <2>1. f = [n \in 0..m |-> IF n = 0 THEN 0 ELSE step[<<f[n - 1], n>>]]
    BY <1>4 DEF StepByStep
  <2>2. \A n \in 0..m : n # 0 => step[<<f[n - 1], n>>] = f[n - 1] + s[n].length
    <3>1. \A n \in 0..m : n # 0 => n \in 1..m
      BY <1>1
    <3>2. QED
      BY <1>5, <3>1
  <2>3. QED
    BY <2>1, <2>2
<1>6. \E g : g = [n \in 0..m |-> IF n = 0 THEN 0 ELSE g[n - 1] + s[n].length]
  BY <1>f
<1>. DEFINE sum[n \in 0..Len(s)] == IF n = 0 THEN 0 ELSE sum[n - 1] + s[n].length
<1>7. sum = [n \in 0..m |-> IF n = 0 THEN 0 ELSE sum[n - 1] + s[n].length]
  BY <1>6, <1>p
<1>8. Tokens(s) = sum[m]
  BY <1>p DEF Tokens
<1>9. sum \in [0..m -> Nat]
  <2>1. f = [n \in 0..m |-> IF n = 0 THEN 0 ELSE f[n - 1] + s[n].length]
    BY <1>f
  <2>. HIDE DEF sum
  <2>2. \A n \in 1..m : n - 1 \in 0..m /\ n \in 0..m /\ n # 0
    BY <1>1
  <2>3. \A n \in 1..m : /\ sum[n] = sum[n - 1] + s[n].length
                        /\ f[n] = f[n - 1] + s[n].length
    BY <1>7, <2>1, <2>2
  <2>4. sum[0] = 0 /\ f[0] = 0
    BY <1>1, <1>7, <2>1
  <2>5. ASSUME NEW k \in 0..m PROVE sum[k] = f[k]
    <3>1. k \in Nat /\ \A n \in 1..k : n \in 1..m
      BY <1>1
    <3>2. \A n \in 1..k : sum[n - 1] = f[n - 1] => sum[n] = f[n]
      BY <2>3, <3>1
    <3>3. sum[0] = f[0]
      BY <2>4
    <3>4. QED
      BY <3>1, <3>2, <3>3, RecursionAlike, ZenonT(60)
  <2>6. \A k \in 0..m : sum[k] \in Nat
    BY <2>5
  <2>7. QED
    BY <1>7, <2>6
<1>10. QED
  BY <1>7, <1>8, <1>9, <1>p

LEMMA TokensOf ==
  ASSUME NEW s \in Seq(Facts)
  PROVE  /\ Tokens(s) \in Nat /\ Tokens(<<>>) = 0
         /\ \A e \in Facts : Tokens(Append(s, e)) = Tokens(s) + e.length
<1>p. PICK m : m = Len(s)
  OBVIOUS
<1>0. m \in Nat
  BY <1>p, LenProperties
<1>1. PICK f \in [0..m -> Nat] :
        /\ f = [n \in 0..m |-> IF n = 0 THEN 0 ELSE f[n - 1] + s[n].length]
        /\ Tokens(s) = f[m]
  BY <1>p, TokensDefined
<1>2. Tokens(s) \in Nat
  BY <1>0, <1>1
<1>3. Tokens(<<>>) = 0
  <2>1. PICK none : none = <<>>
    OBVIOUS
  <2>2. none \in Seq(Facts) /\ Len(none) = 0
    BY <2>1, EmptySeq
  <2>3. PICK g \in [0..0 -> Nat] :
          /\ g = [n \in 0..0 |-> IF n = 0 THEN 0 ELSE g[n - 1] + none[n].length]
          /\ Tokens(none) = g[0]
    BY <2>2, TokensDefined
  <2>4. g[0] = 0
    BY <2>3
  <2>5. QED
    BY <2>1, <2>3, <2>4
<1>4. ASSUME NEW e \in Facts PROVE Tokens(Append(s, e)) = Tokens(s) + e.length
  <2>p. PICK t : t = Append(s, e)
    OBVIOUS
  <2>1. /\ t \in Seq(Facts) /\ Len(t) = m + 1 /\ t[m + 1] = e
        /\ \A i \in 1..m : t[i] = s[i]
    BY <1>p, <2>p, AppendProperties
  <2>2. PICK g \in [0..(m + 1) -> Nat] :
          /\ g = [n \in 0..(m + 1) |-> IF n = 0 THEN 0 ELSE g[n - 1] + t[n].length]
          /\ Tokens(t) = g[m + 1]
    BY <2>1, TokensDefined
  <2>3. f[0] = g[0]
    BY <1>0, <1>1, <2>2
  <2>4. ASSUME NEW n \in 1..m, f[n - 1] = g[n - 1] PROVE f[n] = g[n]
    <3>1. n \in 0..m /\ n \in 0..(m + 1) /\ n # 0 /\ t[n] = s[n]
      BY <1>0, <2>1
    <3>2. f[n] = f[n - 1] + s[n].length /\ g[n] = g[n - 1] + t[n].length
      BY <1>1, <2>2, <3>1
    <3>3. QED
      BY <2>4, <3>1, <3>2
  <2>5. f[m] = g[m]
    BY <1>0, <2>3, <2>4, RecursionAlike
  <2>6. g[m + 1] = g[m] + t[m + 1].length
    <3>1. m + 1 \in 0..(m + 1) /\ m + 1 # 0 /\ (m + 1) - 1 = m
      BY <1>0
    <3>2. QED
      BY <2>2, <3>1
  <2>7. QED
    BY <1>1, <2>1, <2>2, <2>5, <2>6, <2>p
<1>5. QED
  BY <1>2, <1>3, <1>4

LEMMA TokensConcat ==
  ASSUME NEW a \in Seq(Facts), NEW b \in Seq(Facts)
  PROVE  Tokens(a \o b) = Tokens(a) + Tokens(b)
<1>. DEFINE I == {t \in Seq(Facts) : Tokens(a \o t) = Tokens(a) + Tokens(t)}
<1>1. <<>> \in I
  <2>1. a \o <<>> = a /\ <<>> \in Seq(Facts) /\ Tokens(<<>>) = 0 /\ Tokens(a) \in Nat
    BY ConcatEmptySeq, EmptySeq, TokensOf
  <2>2. QED
    BY <2>1
<1>2. ASSUME NEW t \in Seq(Facts), NEW e \in Facts, t \in I PROVE Append(t, e) \in I
  <2>p. PICK u, v : u = Append(t, e) /\ v = a \o t
    OBVIOUS
  <2>1. u \in Seq(Facts) /\ v \in Seq(Facts) /\ a \o u = Append(v, e)
    BY <2>p, AppendProperties, ConcatProperties, AppendConcat
  <2>2. /\ Tokens(u) = Tokens(t) + e.length /\ Tokens(Append(v, e)) = Tokens(v) + e.length
        /\ Tokens(a) \in Nat /\ Tokens(t) \in Nat /\ e.length \in Nat
    BY <2>1, <2>p, TokensOf DEF Facts
  <2>3. Tokens(v) = Tokens(a) + Tokens(t)
    BY <1>2, <2>p
  <2>4. Tokens(a \o u) = Tokens(a) + Tokens(u)
    BY <2>1, <2>2, <2>3
  <2>5. QED
    BY <2>1, <2>4, <2>p
<1>3. QED
  <2>. HIDE DEF I
  <2>1. b \in I
    BY <1>1, <1>2, SeqInduction
  <2>2. QED
    BY <2>1 DEF I

\* One step of FirstFit.
TakenIfFits(list, f) ==
  IF Tokens(list) + f.length <= RecallBudget THEN Append(list, f) ELSE list

LEMMA FirstFitDefined ==
  ASSUME NEW kept \in Seq(Facts), NEW s \in Seq(Facts)
  PROVE  \E f : /\ f = [n \in 0..Len(s) |-> IF n = 0 THEN kept ELSE TakenIfFits(f[n - 1], s[n])]
                /\ FirstFit(kept, s) = f[Len(s)]
<1>p. PICK m : m = Len(s)
  OBVIOUS
<1>1. m \in Nat /\ \A n \in 1..m : s[n] \in Facts
  BY <1>p, LenProperties, ElementOfSeq
<1>2. PICK step : step = [pair \in Seq(Facts) \X (1..m) |-> TakenIfFits(pair[1], s[pair[2]])]
  OBVIOUS
<1>3. step \in [Seq(Facts) \X (1..m) -> Seq(Facts)]
  <2>1. ASSUME NEW list \in Seq(Facts), NEW e \in Facts PROVE TakenIfFits(list, e) \in Seq(Facts)
    <3>1. Append(list, e) \in Seq(Facts)
      BY AppendProperties
    <3>2. QED
      BY <3>1 DEF TakenIfFits
  <2>2. \A pair \in Seq(Facts) \X (1..m) : TakenIfFits(pair[1], s[pair[2]]) \in Seq(Facts)
    BY <1>1, <2>1
  <2>3. QED
    BY <1>2, <2>2
<1>4. PICK f \in [0..m -> Seq(Facts)] : StepByStep(f, kept, step, m)
  BY <1>1, <1>3, RecursionDefined
<1>5. \A n \in 1..m : step[<<f[n - 1], n>>] = TakenIfFits(f[n - 1], s[n])
  <2>1. SUFFICES ASSUME NEW n \in 1..m PROVE step[<<f[n - 1], n>>] = TakenIfFits(f[n - 1], s[n])
    OBVIOUS
  <2>2. f[n - 1] \in Seq(Facts)
    BY <1>1
  <2>3. QED
    BY <1>2, <2>2
<1>6. f = [n \in 0..m |-> IF n = 0 THEN kept ELSE TakenIfFits(f[n - 1], s[n])]
  <2>1. f = [n \in 0..m |-> IF n = 0 THEN kept ELSE step[<<f[n - 1], n>>]]
    BY <1>4 DEF StepByStep
  <2>2. \A n \in 0..m : n # 0 => n \in 1..m
    BY <1>1
  <2>3. QED
    BY <1>5, <2>1, <2>2
<1>. DEFINE taken[n \in 0..Len(s)] ==
              IF n = 0 THEN kept
              ELSE IF Tokens(taken[n - 1]) + s[n].length <= RecallBudget
                THEN Append(taken[n - 1], s[n]) ELSE taken[n - 1]
<1>7. \E g : g = [n \in 0..m |->
                   IF n = 0 THEN kept
                   ELSE IF Tokens(g[n - 1]) + s[n].length <= RecallBudget
                     THEN Append(g[n - 1], s[n]) ELSE g[n - 1]]
  BY <1>6 DEF TakenIfFits
<1>8. taken = [n \in 0..m |-> IF n = 0 THEN kept ELSE TakenIfFits(taken[n - 1], s[n])]
  BY <1>7, <1>p DEF TakenIfFits
<1>9. FirstFit(kept, s) = taken[m]
  BY <1>p DEF FirstFit
<1>10. QED
  BY <1>8, <1>9, <1>p

LEMMA FirstFitSteps ==
  ASSUME NEW kept \in Seq(Facts), NEW s \in Seq(Facts)
  PROVE  /\ FirstFit(kept, <<>>) = kept
         /\ \A e \in Facts : FirstFit(kept, Append(s, e)) = TakenIfFits(FirstFit(kept, s), e)
<1>p. PICK m : m = Len(s)
  OBVIOUS
<1>0. m \in Nat
  BY <1>p, LenProperties
<1>1. PICK f : /\ f = [n \in 0..m |-> IF n = 0 THEN kept ELSE TakenIfFits(f[n - 1], s[n])]
               /\ FirstFit(kept, s) = f[m]
  BY <1>p, FirstFitDefined
<1>2. FirstFit(kept, <<>>) = kept
  <2>1. PICK none : none = <<>>
    OBVIOUS
  <2>2. none \in Seq(Facts) /\ Len(none) = 0
    BY <2>1, EmptySeq
  <2>3. PICK g : /\ g = [n \in 0..0 |-> IF n = 0 THEN kept ELSE TakenIfFits(g[n - 1], none[n])]
                 /\ FirstFit(kept, none) = g[0]
    BY <2>2, FirstFitDefined
  <2>4. g[0] = kept
    BY <2>3
  <2>5. QED
    BY <2>1, <2>3, <2>4
<1>3. ASSUME NEW e \in Facts PROVE FirstFit(kept, Append(s, e)) = TakenIfFits(FirstFit(kept, s), e)
  <2>p. PICK t : t = Append(s, e)
    OBVIOUS
  <2>1. /\ t \in Seq(Facts) /\ Len(t) = m + 1 /\ t[m + 1] = e
        /\ \A i \in 1..m : t[i] = s[i]
    BY <1>p, <2>p, AppendProperties
  <2>2. PICK g : /\ g = [n \in 0..(m + 1) |-> IF n = 0 THEN kept ELSE TakenIfFits(g[n - 1], t[n])]
                 /\ FirstFit(kept, t) = g[m + 1]
    <3>1. PICK n : n = Len(t)
      OBVIOUS
    <3>2. \E g : /\ g = [i \in 0..n |-> IF i = 0 THEN kept ELSE TakenIfFits(g[i - 1], t[i])]
                 /\ FirstFit(kept, t) = g[n]
      BY <2>1, <3>1, FirstFitDefined
    <3>3. QED
      BY <2>1, <3>1, <3>2
  <2>3. g[0] = f[0]
    BY <1>0, <1>1, <2>2
  <2>4. ASSUME NEW n \in 1..m, f[n - 1] = g[n - 1] PROVE f[n] = g[n]
    <3>1. n \in 0..m /\ n \in 0..(m + 1) /\ n # 0 /\ t[n] = s[n]
      BY <1>0, <2>1
    <3>2. f[n] = TakenIfFits(f[n - 1], s[n]) /\ g[n] = TakenIfFits(g[n - 1], t[n])
      BY <1>1, <2>2, <3>1
    <3>3. QED
      BY <2>4, <3>1, <3>2
  <2>5. f[m] = g[m]
    BY <1>0, <2>3, <2>4, RecursionAlike
  <2>6. g[m + 1] = TakenIfFits(g[m], t[m + 1])
    <3>1. m + 1 \in 0..(m + 1) /\ m + 1 # 0 /\ (m + 1) - 1 = m
      BY <1>0
    <3>2. QED
      BY <2>2, <3>1
  <2>7. QED
    BY <1>1, <2>1, <2>2, <2>5, <2>6, <2>p
<1>4. QED
  BY <1>2, <1>3

\* FirstFit keeps what it was given, adds some of the facts, each once, and
\* stays within the budget.
Fitted(kept, s, r) ==
  /\ r \in Seq(Facts) /\ Tokens(r) <= RecallBudget
  /\ ToSet(kept) \subseteq ToSet(r) /\ ToSet(r) \subseteq ToSet(kept) \cup ToSet(s)
  /\ Distinct(kept) /\ Distinct(s) /\ ToSet(kept) \cap ToSet(s) = {} => Distinct(r)

LEMMA FirstFitIs ==
  ASSUME NEW kept \in Seq(Facts), Tokens(kept) <= RecallBudget, NEW s \in Seq(Facts)
  PROVE  Fitted(kept, s, FirstFit(kept, s))
<1>. DEFINE I == {t \in Seq(Facts) : Fitted(kept, t, FirstFit(kept, t))}
<1>1. <<>> \in I
  <2>1. FirstFit(kept, <<>>) = kept /\ <<>> \in Seq(Facts)
    BY FirstFitSteps, EmptySeq
  <2>2. QED
    BY <2>1 DEF Fitted
<1>2. ASSUME NEW t \in Seq(Facts), NEW e \in Facts, t \in I PROVE Append(t, e) \in I
  <2>p. PICK u, r, v : u = Append(t, e) /\ r = FirstFit(kept, t) /\ v = Append(r, e)
    OBVIOUS
  <2>0. Fitted(kept, t, r)
    BY <1>2, <2>p
  <2>1. r \in Seq(Facts) /\ FirstFit(kept, u) = TakenIfFits(r, e)
    BY <2>0, <2>p, FirstFitSteps DEF Fitted
  <2>2. /\ u \in Seq(Facts) /\ v \in Seq(Facts)
        /\ ToSet(u) = ToSet(t) \cup {e} /\ ToSet(v) = ToSet(r) \cup {e}
        /\ Distinct(u) <=> Distinct(t) /\ e \notin ToSet(t)
        /\ Distinct(v) <=> Distinct(r) /\ e \notin ToSet(r)
    BY <2>1, <2>p, AppendProperties, SetOfAppend, DistinctAppend
  <2>3. Tokens(v) = Tokens(r) + e.length
    BY <2>1, <2>p, TokensOf
  <2>4. Fitted(kept, u, r)
    BY <2>0, <2>2 DEF Fitted
  <2>5. ASSUME Tokens(r) + e.length <= RecallBudget PROVE Fitted(kept, u, v)
    <3>1. ASSUME Distinct(kept), Distinct(u), ToSet(kept) \cap ToSet(u) = {} PROVE Distinct(v)
      <4>1. Distinct(t) /\ e \notin ToSet(t) /\ e \notin ToSet(kept) /\ ToSet(kept) \cap ToSet(t) = {}
        BY <2>2, <3>1
      <4>2. Distinct(r) /\ e \notin ToSet(r)
        BY <2>0, <3>1, <4>1 DEF Fitted
      <4>3. QED
        BY <2>2, <4>2
    <3>2. QED
      BY <2>0, <2>2, <2>3, <2>5, <3>1 DEF Fitted
  <2>6. Fitted(kept, u, TakenIfFits(r, e))
    BY <2>4, <2>5, <2>p DEF TakenIfFits
  <2>7. QED
    BY <2>1, <2>2, <2>6, <2>p
<1>3. QED
  <2>. HIDE DEF I
  <2>1. s \in I
    BY <1>1, <1>2, SeqInduction
  <2>2. QED
    BY <2>1 DEF I

\* If all fits, all is taken.
LEMMA FirstFitWhole ==
  ASSUME NEW kept \in Seq(Facts), NEW s \in Seq(Facts), Tokens(kept) + Tokens(s) <= RecallBudget
  PROVE  FirstFit(kept, s) = kept \o s
<1>. DEFINE Whole(t) == Tokens(kept) + Tokens(t) <= RecallBudget => FirstFit(kept, t) = kept \o t
            I == {t \in Seq(Facts) : Whole(t)}
<1>1. <<>> \in I
  <2>1. FirstFit(kept, <<>>) = kept /\ <<>> \in Seq(Facts) /\ kept \o <<>> = kept
    BY FirstFitSteps, EmptySeq, ConcatEmptySeq
  <2>2. QED
    BY <2>1
<1>2. ASSUME NEW t \in Seq(Facts), NEW e \in Facts, t \in I PROVE Append(t, e) \in I
  <2>p. PICK u, r, v : u = Append(t, e) /\ r = FirstFit(kept, t) /\ v = kept \o t
    OBVIOUS
  <2>1. /\ u \in Seq(Facts) /\ v \in Seq(Facts) /\ kept \o u = Append(v, e)
        /\ FirstFit(kept, u) = TakenIfFits(r, e)
    BY <2>p, AppendProperties, ConcatProperties, AppendConcat, FirstFitSteps
  <2>2. /\ Tokens(u) = Tokens(t) + e.length /\ Tokens(v) = Tokens(kept) + Tokens(t)
        /\ Tokens(kept) \in Nat /\ Tokens(t) \in Nat /\ e.length \in Nat
    BY <2>p, TokensOf, TokensConcat DEF Facts
  <2>3. ASSUME Tokens(kept) + Tokens(u) <= RecallBudget PROVE FirstFit(kept, u) = kept \o u
    <3>1. Tokens(kept) + Tokens(t) <= RecallBudget /\ Tokens(v) + e.length <= RecallBudget
      <4>1. RecallBudget \in Nat
        BY RecallAssumption
      <4>2. PICK w, z, q : w = Tokens(kept) /\ z = Tokens(t) /\ q = e.length
        OBVIOUS
      <4>3. w \in Nat /\ z \in Nat /\ q \in Nat /\ w + (z + q) <= RecallBudget
        BY <2>2, <2>3, <4>2
      <4>4. w + z <= RecallBudget /\ (w + z) + q <= RecallBudget
        BY <4>1, <4>3
      <4>5. QED
        BY <2>2, <4>2, <4>4
    <3>2. r = v
      BY <1>2, <2>p, <3>1
    <3>3. QED
      BY <2>1, <3>1, <3>2 DEF TakenIfFits
  <2>4. QED
    BY <2>1, <2>3, <2>p
<1>3. Whole(s)
  <2>. HIDE DEF I, Whole
  <2>1. s \in I
    BY <1>1, <1>2, SeqInduction
  <2>2. QED
    BY <2>1 DEF I
<1>4. QED
  BY <1>3

\* FirstFit of a list goes on where FirstFit of its beginning ended.
LEMMA FirstFitConcat ==
  ASSUME NEW kept \in Seq(Facts), Tokens(kept) <= RecallBudget,
         NEW a \in Seq(Facts), NEW b \in Seq(Facts)
  PROVE  FirstFit(kept, a \o b) = FirstFit(FirstFit(kept, a), b)
<1>p. PICK first : first = FirstFit(kept, a)
  OBVIOUS
<1>0. first \in Seq(Facts)
  BY <1>p, FirstFitIs DEF Fitted
<1>. DEFINE I == {t \in Seq(Facts) : FirstFit(kept, a \o t) = FirstFit(first, t)}
<1>1. <<>> \in I
  <2>1. FirstFit(first, <<>>) = first /\ <<>> \in Seq(Facts) /\ a \o <<>> = a
    BY <1>0, FirstFitSteps, EmptySeq, ConcatEmptySeq
  <2>2. QED
    BY <1>p, <2>1
<1>2. ASSUME NEW t \in Seq(Facts), NEW e \in Facts, t \in I PROVE Append(t, e) \in I
  <2>p. PICK u, v : u = Append(t, e) /\ v = a \o t
    OBVIOUS
  <2>1. u \in Seq(Facts) /\ v \in Seq(Facts) /\ a \o u = Append(v, e)
    BY <2>p, AppendProperties, ConcatProperties, AppendConcat
  <2>2. FirstFit(kept, Append(v, e)) = TakenIfFits(FirstFit(kept, v), e)
    BY <2>1, FirstFitSteps
  <2>3. FirstFit(first, u) = TakenIfFits(FirstFit(first, t), e)
    BY <1>0, <2>p, FirstFitSteps
  <2>4. QED
    BY <1>2, <2>1, <2>2, <2>3, <2>p
<1>3. QED
  <2>. HIDE DEF I
  <2>1. b \in I
    BY <1>1, <1>2, SeqInduction
  <2>2. QED
    BY <1>p, <2>1 DEF I

\* Beginning: as many as fit, none of them or more.
LEMMA BeginsWith ==
  ASSUME NEW kept \in Seq(Facts), Tokens(kept) <= RecallBudget, NEW s \in Seq(Facts)
  PROVE  \E n \in 0..Len(s) : /\ Beginning(kept, s) = kept \o SubSeq(s, 1, n)
                              /\ Tokens(Beginning(kept, s)) <= RecallBudget
<1>p. PICK fit, m : /\ m = Len(s)
                    /\ fit = {n \in 0..m : Tokens(kept \o SubSeq(s, 1, n)) <= RecallBudget}
  OBVIOUS
<1>1. m \in Nat
  BY <1>p, LenProperties
<1>2. 0 \in fit
  <2>1. SubSeq(s, 1, 0) \in Seq(Facts) /\ Len(SubSeq(s, 1, 0)) = 0
    <3>1. 0 \in 0..Len(s)
      BY <1>1, <1>p
    <3>2. QED
      BY <3>1, BeginningIs
  <2>2. SubSeq(s, 1, 0) = <<>>
    BY <2>1, EmptySeq
  <2>3. kept \o SubSeq(s, 1, 0) = kept
    BY <2>2, ConcatEmptySeq
  <2>4. Tokens(kept \o SubSeq(s, 1, 0)) <= RecallBudget
    BY <2>3, Zenon
  <2>5. 0 \in 0..m
    BY <1>1
  <2>6. QED
    BY <1>p, <2>4, <2>5
<1>3. Max(fit) \in fit
  <2>1. fit \in SUBSET (0..m) /\ fit # {}
    BY <1>2, <1>p
  <2>2. QED
    BY <1>1, <2>1, LastOfPlaces
<1>4. Beginning(kept, s) = kept \o SubSeq(s, 1, Max(fit))
  BY <1>p DEF Beginning
<1>5. QED
  BY <1>3, <1>4, <1>p

\* The score of a fact is a number, if it is not later than the request.
LEMMA ScoreType ==
  ASSUME NEW f \in Facts, NEW now \in 0..Len(Decay), now > 0 => f.turn <= now, NEW embedded
  PROVE  Score(f, now, embedded) \in Nat
<1>1. /\ f.turn \in Nat /\ f.confidence \in Nat /\ f.alike \in Nat /\ f.kind \in FactKinds
      /\ now \in Nat /\ Len(Decay) \in Nat /\ now <= Len(Decay)
  <2>1. Len(Decay) \in Nat
    BY RecallAssumption, LenProperties
  <2>2. /\ f.turn \in 0..Len(Decay) /\ f.confidence \in 0..100 /\ f.alike \in 0..100
        /\ f.kind \in FactKinds
    BY DEF Facts
  <2>3. f.turn \in Nat /\ f.confidence \in Nat /\ f.alike \in Nat
    <3>1. (\A x \in 0..Len(Decay) : x \in Nat) /\ \A x \in 0..100 : x \in Nat
      BY <2>1
    <3>2. QED
      BY <2>2, <3>1, Zenon
  <2>4. now \in Nat /\ now <= Len(Decay)
    BY <2>1
  <2>5. QED
    BY <2>1, <2>2, <2>3, <2>4
<1>2. Recency(f, now) \in Nat
  <2>1. CASE now > 0 /\ f.turn > 0
    <3>1. PICK k : k = now - f.turn + 1
      OBVIOUS
    <3>2. k \in 1..Len(Decay)
      BY <1>1, <2>1, <3>1
    <3>3. Decay[k] \in 0..100
      BY <3>2, RecallAssumption, ElementOfSeq
    <3>4. Recency(f, now) = Decay[k]
      BY <2>1, <3>1 DEF Recency
    <3>5. \A x \in 0..100 : x \in Nat
      OBVIOUS
    <3>6. QED
      BY <3>3, <3>4, <3>5, Zenon
  <2>2. CASE ~(now > 0 /\ f.turn > 0)
    BY <2>2 DEF Recency
  <2>3. QED
    BY <2>1, <2>2
<1>3. Priority(f.kind) \in Nat
  BY <1>1 DEF Priority, FactKinds
<1>4. PICK a, c, k, r \in Nat :
        a = f.alike /\ c = f.confidence /\ k = Priority(f.kind) /\ r = Recency(f, now)
  BY <1>1, <1>2, <1>3
<1>5. 40 * a + 30 * r + 15 * (k + c) \in Nat /\ 40 * k + 30 * c + 30 * r \in Nat
  OBVIOUS
<1>6. \/ Score(f, now, embedded) = 40 * a + 30 * r + 15 * (k + c)
      \/ Score(f, now, embedded) = 40 * k + 30 * c + 30 * r
  BY <1>4 DEF Score
<1>7. QED
  BY <1>5, <1>6

\* Ranked: the same facts, the higher scores first.
LEMMA RankedIs ==
  ASSUME NEW s \in Seq(Facts), NEW now, NEW embedded,
         \A i \in 1..Len(s) : Score(s[i], now, embedded) \in Nat
  PROVE  LET r == Ranked(s, now, embedded)
         IN /\ r \in Seq(Facts) /\ Len(r) = Len(s) /\ ToSet(r) = ToSet(s)
            /\ Distinct(s) => Distinct(r)
            /\ \A k, l \in 1..Len(s) :
                 k < l => Score(r[k], now, embedded) >= Score(r[l], now, embedded)
<1>p. PICK D, m, f, R, o, r :
        /\ D = DOMAIN s /\ m = Len(s) /\ f = [i \in D |-> Score(s[i], now, embedded)]
        /\ R = HighestFirst(D, f) /\ o = InOrderOf(D, R) /\ r = Ranked(s, now, embedded)
  OBVIOUS
<1>1. m \in Nat /\ D = 1..m /\ \A i \in D : s[i] \in Facts
  BY <1>p, LenProperties, ElementOfSeq
<1>2. D \in SUBSET Int /\ IsFiniteSet(D) /\ Cardinality(D) = m /\ f \in [D -> Int]
  <2>1. /\ IsFiniteSet(1..m) /\ Cardinality(1..m) = IF 1 > m THEN 0 ELSE m - 1 + 1
    <3>1. 1 \in Int /\ m \in Int
      BY <1>1
    <3>2. QED
      BY <3>1, FS_Interval
  <2>2. \A i \in D : f[i] \in Nat
    BY <1>1, <1>p
  <2>3. f = [i \in D |-> f[i]]
    BY <1>p
  <2>4. f \in [D -> Int]
    BY <2>2, <2>3
  <2>5. D \in SUBSET Int
    BY <1>1
  <2>6. IsFiniteSet(D) /\ Cardinality(D) = m
    BY <1>1, <2>1
  <2>7. QED
    BY <2>4, <2>5, <2>6
<1>3. SortedBy(D, R)
  BY <1>2, <1>p, HighestFirstSorts
<1>4. o \in Seq(D) /\ Len(o) = m /\ ToSet(o) = D /\ Pairwise(o, R) /\ Distinct(o)
  BY <1>2, <1>3, <1>p, InOrderIs
<1>5. r = [n \in 1..m |-> s[o[n]]]
  BY <1>1, <1>p DEF Ranked
<1>6. \A n \in 1..m : o[n] \in D /\ r[n] = s[o[n]]
  BY <1>4, <1>5, ElementOfSeq
<1>7. r \in [1..m -> Facts]
  BY <1>1, <1>5, <1>6
<1>8. r \in Seq(Facts) /\ Len(r) = m /\ ToSet(r) = ToSet(s) /\ (Distinct(s) => Distinct(r))
  <2>1. o \in Seq(1..Len(s)) /\ Len(o) = Len(s) /\ ToSet(o) = 1..Len(s)
    BY <1>1, <1>4, <1>p
  <2>2. r \in [1..Len(s) -> Facts] /\ \A n \in 1..Len(s) : r[n] = s[o[n]]
    BY <1>6, <1>7, <1>p
  <2>3. /\ r \in Seq(Facts) /\ Len(r) = Len(s) /\ ToSet(r) = ToSet(s)
        /\ Distinct(s) => Distinct(r)
    BY <1>4, <2>1, <2>2, ReorderedIs
  <2>4. QED
    BY <1>p, <2>3
<1>9. ASSUME NEW k \in 1..m, NEW l \in 1..m, k < l
      PROVE  Score(r[k], now, embedded) >= Score(r[l], now, embedded)
  <2>1. <<o[k], o[l]>> \in R
    BY <1>4, <1>9 DEF Pairwise
  <2>2. f[o[k]] > f[o[l]] \/ f[o[k]] = f[o[l]]
    BY <1>p, <2>1 DEF HighestFirst
  <2>3. /\ o[k] \in D /\ o[l] \in D
        /\ f[o[k]] = Score(r[k], now, embedded) /\ f[o[l]] = Score(r[l], now, embedded)
    BY <1>6, <1>p
  <2>4. f[o[k]] \in Int /\ f[o[l]] \in Int
    BY <1>2, <2>3
  <2>5. QED
    BY <2>2, <2>3, <2>4
<1>10. QED
  BY <1>8, <1>9, <1>p

\* The turn a question is scored for comes after those of the candidates.
LEMMA EffectiveIs ==
  ASSUME NEW q \in Questions, ~Raises(q)
  PROVE  \A f \in Range(q.pool) : f \in Facts /\
           (f.kind \notin Anchors => Score(f, Effective(q), q.embedded) \in Nat)
<1>p. PICK now, T : now = Effective(q) /\ T = {1} \cup {f.turn : f \in Range(q.pool)}
  OBVIOUS
<1>1. q.pool \in Seq(Facts) /\ q.turn \in 0..Len(Decay) /\ Len(Decay) \in Nat
  BY RecallAssumption, LenProperties
<1>2. Range(q.pool) \subseteq Facts /\ Range(q.pool) = ToSet(q.pool)
  BY <1>1, Elements, SetOf
<1>3. SUFFICES ASSUME NEW f \in Range(q.pool), f.kind \notin Anchors
               PROVE  Score(f, now, q.embedded) \in Nat
  BY <1>2, <1>p
<1>4. CASE q.turn > 0
  <2>1. now = q.turn
    BY <1>4, <1>p DEF Effective
  <2>2. f \in Range(Candidates(q.pool))
    <3>1. ToSet(Candidates(q.pool)) = ToSet(q.pool) \cap {e \in Range(q.pool) : e.kind \notin Anchors}
      BY <1>1, OnlySet DEF Candidates
    <3>2. f \in ToSet(Candidates(q.pool))
      BY <1>2, <1>3, <3>1
    <3>3. QED
      BY <3>2 DEF ToSet, Range
  <2>3. ~(f.turn > q.turn)
    BY <1>4, <2>2 DEF Raises
  <2>4. f.turn <= now
    BY <1>1, <1>2, <2>1, <2>3 DEF Facts
  <2>5. QED
    BY <1>1, <1>2, <2>1, <2>4, ScoreType
<1>5. CASE ~(q.turn > 0)
  <2>1. now = Max(T)
    BY <1>5, <1>p DEF Effective
  <2>2. \A e \in Range(q.pool) : e.turn \in 0..Len(Decay)
    BY <1>2 DEF Facts
  <2>3. PICK n \in Nat : n = Len(Decay) + 1
    BY <1>1
  <2>4. T \in SUBSET (0..n) /\ T # {}
    BY <1>1, <1>p, <2>2, <2>3
  <2>5. now \in T /\ \A x \in T : x <= now
    BY <2>1, <2>3, <2>4, LastOfPlaces
  <2>6. f.turn \in T /\ f.turn <= now
    BY <1>p, <2>5
  <2>7. CASE now \in 0..Len(Decay)
    BY <1>2, <2>6, <2>7, ScoreType
  <2>8. CASE now \notin 0..Len(Decay)
    <3>1. f.turn = 0
      <4>1. now = 1 /\ Len(Decay) = 0
        BY <1>1, <1>p, <2>2, <2>5, <2>8
      <4>2. QED
        BY <2>2, <4>1
    <3>2. Recency(f, now) = Recency(f, 0)
      BY <3>1 DEF Recency
    <3>3. Score(f, now, q.embedded) = Score(f, 0, q.embedded)
      BY <3>2 DEF Score
    <3>4. 0 \in 0..Len(Decay)
      BY <1>1
    <3>5. Score(f, 0, q.embedded) \in Nat
      BY <1>2, <3>4, ScoreType
    <3>6. QED
      BY <3>3, <3>5
  <2>9. QED
    BY <2>7, <2>8
<1>6. QED
  BY <1>4, <1>5

\* What RecallIsBest says of an answer to a question.
BestAnswer(q, list) ==
  LET facts    == Range(list)
      score(f) == Score(f, Effective(q), q.embedded)
      drawn(f) == q.embedded
                    /\ \E g \in facts \ {f} : f.turn \in {g.turn - 1, g.turn, g.turn + 1}
  IN /\ Tokens(list) <= RecallBudget
     /\ Cardinality(facts) = Len(list)
     /\ Tokens(AnchorsOf(q.pool)) <= RecallBudget => Range(AnchorsOf(q.pool)) \subseteq facts
     /\ \A f \in Range(q.pool) \ facts, g \in facts :
          {f.kind, g.kind} \cap Anchors = {} /\ ~drawn(g) => score(f) <= score(g)

\* The facts of a graph that are anchors, and the others, each once.
LEMMA PoolParts ==
  ASSUME NEW q \in Questions
  PROVE  LET a == AnchorsOf(q.pool)
             c == Candidates(q.pool)
         IN /\ a \in Seq(Facts) /\ c \in Seq(Facts) /\ Distinct(a) /\ Distinct(c)
            /\ Range(a) = ToSet(a) /\ Range(q.pool) = ToSet(a) \cup ToSet(c)
            /\ \A f \in ToSet(a) : f.kind \in Anchors
            /\ \A f \in ToSet(c) : f.kind \notin Anchors
<1>p. PICK a, c, s, A, C :
        /\ a = AnchorsOf(q.pool) /\ c = Candidates(q.pool) /\ s = q.pool
        /\ A = {f \in Range(q.pool) : f.kind \in Anchors}
        /\ C = {f \in Range(q.pool) : f.kind \notin Anchors}
  OBVIOUS
<1>1. s \in Seq(Facts) /\ a = Only(s, A) /\ c = Only(s, C)
  BY <1>p, RecallAssumption DEF AnchorsOf, Candidates
<1>2. Distinct(s)
  <2>1. DOMAIN s = 1..Len(s)
    BY <1>1, LenProperties
  <2>2. QED
    BY <1>p, <2>1, RecallAssumption DEF Distinct
<1>3. \A T : Only(s, T) \in Seq(Facts) /\ Distinct(Only(s, T)) /\ ToSet(Only(s, T)) = ToSet(s) \cap T
  <2>1. SUFFICES ASSUME NEW T
                 PROVE  /\ Only(s, T) \in Seq(Facts) /\ Distinct(Only(s, T))
                        /\ ToSet(Only(s, T)) = ToSet(s) \cap T
    OBVIOUS
  <2>2. Only(s, T) \in Seq(Facts \cap T)
    BY <1>1, OnlyType
  <2>3. Only(s, T) \in Seq(Facts)
    <3>1. Facts \cap T \subseteq Facts
      OBVIOUS
    <3>2. QED
      BY <2>2, <3>1, SeqWider
  <2>4. QED
    BY <1>1, <1>2, <2>3, OnlyDistinct, OnlySet
<1>4. Range(s) = ToSet(s) /\ Range(a) = ToSet(a)
  BY DEF Range, ToSet
<1>5. A \cup C = Range(s) /\ A \subseteq Range(s) /\ C \subseteq Range(s)
  BY <1>p
<1>6. ToSet(a) = A /\ ToSet(c) = C
  <2>1. ToSet(a) = Range(s) \cap A /\ ToSet(c) = Range(s) \cap C
    BY <1>1, <1>3, <1>4, Zenon
  <2>2. QED
    BY <1>5, <2>1
<1>7. a \in Seq(Facts) /\ c \in Seq(Facts) /\ Distinct(a) /\ Distinct(c)
  BY <1>1, <1>3, Zenon
<1>8. /\ Range(s) = ToSet(a) \cup ToSet(c)
      /\ \A f \in ToSet(a) : f.kind \in Anchors
      /\ \A f \in ToSet(c) : f.kind \notin Anchors
  <2>1. (\A f \in A : f.kind \in Anchors) /\ \A f \in C : f.kind \notin Anchors
    BY <1>p
  <2>2. QED
    BY <1>5, <1>6, <2>1
<1>9. QED
  BY <1>4, <1>7, <1>8, <1>p, Zenon

\* What _budget_facts chooses before the expansion: the anchors that fit, then
\* the most relevant of the others.
ChosenFacts(q, r) ==
  /\ r \in Seq(Facts) /\ Tokens(r) <= RecallBudget /\ Distinct(r)
  /\ Tokens(AnchorsOf(q.pool)) <= RecallBudget => ToSet(AnchorsOf(q.pool)) \subseteq ToSet(r)
  /\ \A f \in Range(q.pool) \ ToSet(r), g \in ToSet(r) :
       {f.kind, g.kind} \cap Anchors = {}
         => Score(f, Effective(q), q.embedded) <= Score(g, Effective(q), q.embedded)

LEMMA ChosenFactsAre ==
  ASSUME NEW q \in Questions, ~Raises(q)
  PROVE  ChosenFacts(q, Beginning(FirstFit(<<>>, AnchorsOf(q.pool)),
                             Ranked(Candidates(q.pool), Effective(q), q.embedded)))
<1>p. PICK a, c, k, r, s, now :
        /\ a = AnchorsOf(q.pool) /\ c = Candidates(q.pool) /\ now = Effective(q)
        /\ k = FirstFit(<<>>, a) /\ r = Ranked(c, now, q.embedded) /\ s = Beginning(k, r)
  OBVIOUS
<1>1. /\ a \in Seq(Facts) /\ c \in Seq(Facts) /\ Distinct(a) /\ Distinct(c)
      /\ Range(a) = ToSet(a) /\ Range(q.pool) = ToSet(a) \cup ToSet(c)
      /\ \A f \in ToSet(a) : f.kind \in Anchors
      /\ \A f \in ToSet(c) : f.kind \notin Anchors
  BY <1>p, PoolParts
<1>2. <<>> \in Seq(Facts) /\ Tokens(<<>>) = 0 /\ Distinct(<<>>) /\ ToSet(<<>>) = {}
  <2>1. <<>> \in Seq(Facts)
    BY EmptySeq
  <2>2. Tokens(<<>>) = 0
    BY <2>1, TokensOf
  <2>3. Distinct(<<>>) /\ ToSet(<<>>) = {}
    BY DEF Distinct, ToSet
  <2>4. QED
    BY <2>1, <2>2, <2>3
<1>3. k \in Seq(Facts) /\ Tokens(k) <= RecallBudget /\ ToSet(k) \subseteq ToSet(a) /\ Distinct(k)
  <2>1. Tokens(<<>>) <= RecallBudget
    BY <1>2, RecallAssumption
  <2>2. Fitted(<<>>, a, k)
    BY <1>1, <1>2, <1>p, <2>1, FirstFitIs
  <2>3. QED
    BY <1>1, <1>2, <2>2 DEF Fitted
<1>4. ASSUME Tokens(a) <= RecallBudget PROVE k = a
  <2>1. Tokens(<<>>) + Tokens(a) <= RecallBudget
    BY <1>1, <1>2, <1>4, TokensOf
  <2>2. k = <<>> \o a
    BY <1>1, <1>2, <1>p, <2>1, FirstFitWhole
  <2>3. QED
    BY <1>1, <2>2, ConcatEmptySeq
<1>5. \A i \in 1..Len(c) : Score(c[i], now, q.embedded) \in Nat
  <2>1. SUFFICES ASSUME NEW i \in 1..Len(c) PROVE Score(c[i], now, q.embedded) \in Nat
    OBVIOUS
  <2>2. c[i] \in ToSet(c)
    BY <1>1, SetOf
  <2>3. QED
    BY <1>1, <1>p, <2>2, EffectiveIs
<1>6. /\ r \in Seq(Facts) /\ Len(r) = Len(c) /\ ToSet(r) = ToSet(c) /\ Distinct(r)
      /\ \A i, j \in 1..Len(c) :
           i < j => Score(r[i], now, q.embedded) >= Score(r[j], now, q.embedded)
  BY <1>1, <1>5, <1>p, RankedIs
<1>7. PICK n \in 0..Len(r) : s = k \o SubSeq(r, 1, n) /\ Tokens(s) <= RecallBudget
  BY <1>3, <1>6, <1>p, BeginsWith
<1>b. PICK b : b = SubSeq(r, 1, n)
  OBVIOUS
<1>l. Len(r) \in Nat
  BY <1>6, LenProperties
<1>8. b \in Seq(Facts) /\ Len(b) = n /\ \A i \in 1..n : b[i] = r[i]
  BY <1>6, <1>b, BeginningIs
<1>9. ToSet(b) = {r[i] : i \in 1..n} /\ ToSet(r) = {r[i] : i \in 1..Len(r)}
  <2>1. ToSet(b) = {b[i] : i \in 1..Len(b)} /\ ToSet(r) = {r[i] : i \in 1..Len(r)}
    BY <1>6, <1>8, SetOf
  <2>2. QED
    BY <1>8, <2>1
<1>10. Distinct(b)
  BY <1>6, <1>8, <1>l DEF Distinct
<1>11. ToSet(b) \subseteq ToSet(r)
  BY <1>9, <1>l
<1>12. s \in Seq(Facts) /\ ToSet(s) = ToSet(k) \cup ToSet(b)
  <2>1. s = k \o b
    BY <1>7, <1>b
  <2>2. k \o b \in Seq(Facts) /\ ToSet(k \o b) = ToSet(k) \cup ToSet(b)
    BY <1>3, <1>8, ConcatProperties, SetOfConcat
  <2>3. QED
    BY <2>1, <2>2, Zenon
<1>13. Distinct(s)
  <2>1. ToSet(k) \cap ToSet(b) = {}
    BY <1>1, <1>3, <1>6, <1>11
  <2>2. QED
    BY <1>3, <1>7, <1>8, <1>10, <1>b, <2>1, DistinctConcat
<1>14. Tokens(a) <= RecallBudget => ToSet(a) \subseteq ToSet(s)
  BY <1>4, <1>12
<1>15. ASSUME NEW f \in Range(q.pool) \ ToSet(s), NEW g \in ToSet(s),
              {f.kind, g.kind} \cap Anchors = {}
       PROVE  Score(f, now, q.embedded) <= Score(g, now, q.embedded)
  <2>1. f \in ToSet(r) /\ f \notin ToSet(b) /\ g \in ToSet(b)
    BY <1>1, <1>3, <1>6, <1>12, <1>15
  <2>2. PICK j \in 1..Len(r) : f = r[j]
    BY <1>9, <2>1
  <2>3. PICK i \in 1..n : g = r[i]
    BY <1>9, <2>1
  <2>4. j \notin 1..n
    BY <1>9, <2>1, <2>2
  <2>5. i \in 1..Len(r) /\ i < j
    BY <1>l, <2>4
  <2>6. \A x \in ToSet(c) : Score(x, now, q.embedded) \in Nat
    BY <1>1, <1>p, EffectiveIs
  <2>7. Score(f, now, q.embedded) \in Nat /\ Score(g, now, q.embedded) \in Nat
    BY <1>6, <1>11, <2>1, <2>6
  <2>8. Score(g, now, q.embedded) >= Score(f, now, q.embedded)
    BY <1>6, <2>2, <2>3, <2>5
  <2>9. QED
    BY <2>7, <2>8
<1>16. QED
  BY <1>7, <1>12, <1>13, <1>14, <1>15, <1>p DEF ChosenFacts

\* What the expansion leaves: all that was chosen, and facts of turns next to
\* theirs.
LEMMA WindowedIs ==
  ASSUME NEW q \in Questions, NEW s, ChosenFacts(q, s)
  PROVE  LET w == Windowed(s, q.pool)
         IN /\ w \in Seq(Facts) /\ Tokens(w) <= RecallBudget /\ Distinct(w)
            /\ ToSet(s) \subseteq ToSet(w)
            /\ \A g \in ToSet(w) \ ToSet(s) :
                 \E h \in ToSet(s) : g.turn \in {h.turn - 1, h.turn, h.turn + 1}
<1>p. PICK w, near, T, e :
        /\ w = Windowed(s, q.pool)
        /\ near = UNION {{f.turn - 1, f.turn, f.turn + 1} : f \in Range(s)}
        /\ T = {f \in Range(q.pool) \ Range(s) : f.turn \in near}
        /\ e = Only(q.pool, T)
  OBVIOUS
<1>1. s \in Seq(Facts) /\ Tokens(s) <= RecallBudget /\ Distinct(s) /\ Range(s) = ToSet(s)
  BY DEF ChosenFacts, Range, ToSet
<1>2. q.pool \in Seq(Facts) /\ Distinct(q.pool)
  <2>1. q.pool \in Seq(Facts)
    BY RecallAssumption
  <2>2. DOMAIN q.pool = 1..Len(q.pool)
    BY <2>1, LenProperties
  <2>3. QED
    BY <2>1, <2>2, RecallAssumption DEF Distinct
<1>3. e \in Seq(Facts) /\ Distinct(e) /\ ToSet(e) \subseteq T
  <2>1. e \in Seq(Facts \cap T)
    BY <1>2, <1>p, OnlyType
  <2>2. Facts \cap T \subseteq Facts
    OBVIOUS
  <2>3. e \in Seq(Facts)
    BY <2>1, <2>2, SeqWider
  <2>4. Distinct(e) /\ ToSet(e) = ToSet(q.pool) \cap T
    BY <1>2, <1>p, OnlyDistinct, OnlySet
  <2>5. QED
    BY <2>3, <2>4
<1>4. ToSet(s) \cap ToSet(e) = {}
  BY <1>1, <1>3, <1>p
<1>5. Fitted(s, e, w)
  <2>1. Expanded(s, q.pool) = s \o e
    BY <1>p DEF Expanded
  <2>2. w = FirstFit(<<>>, s \o e)
    BY <1>p, <2>1 DEF Windowed
  <2>3. <<>> \in Seq(Facts) /\ Tokens(<<>>) = 0
    <3>1. <<>> \in Seq(Facts)
      BY EmptySeq
    <3>2. QED
      BY <3>1, TokensOf
  <2>4. Tokens(<<>>) <= RecallBudget
    BY <2>3, RecallAssumption
  <2>5. Tokens(<<>>) + Tokens(s) <= RecallBudget
    BY <1>1, <2>3, TokensOf
  <2>6. FirstFit(<<>>, s) = <<>> \o s
    BY <1>1, <2>3, <2>5, FirstFitWhole
  <2>7. FirstFit(<<>>, s) = s
    BY <1>1, <2>6, ConcatEmptySeq
  <2>8. w = FirstFit(s, e)
    <3>1. FirstFit(<<>>, s \o e) = FirstFit(FirstFit(<<>>, s), e)
      BY <1>1, <1>3, <2>3, <2>4, FirstFitConcat
    <3>2. QED
      BY <2>2, <2>7, <3>1, Zenon
  <2>9. QED
    BY <1>1, <1>3, <2>8, FirstFitIs
<1>6. Distinct(w)
  BY <1>1, <1>3, <1>4, <1>5 DEF Fitted
<1>7. ASSUME NEW g \in ToSet(w) \ ToSet(s)
      PROVE  \E h \in ToSet(s) : g.turn \in {h.turn - 1, h.turn, h.turn + 1}
  <2>1. g \in T
    BY <1>3, <1>5, <1>7 DEF Fitted
  <2>2. g.turn \in near
    BY <1>p, <2>1
  <2>3. QED
    BY <1>1, <1>p, <2>2
<1>8. QED
  BY <1>5, <1>6, <1>7, <1>p DEF Fitted

\* The answer to a question is the best of those that fit.
LEMMA FactsAreBest ==
  ASSUME NEW q \in Questions, ~Raises(q)
  PROVE  BestAnswer(q, FactsFor(q))
<1>p. PICK s, w, r :
        /\ s = Beginning(FirstFit(<<>>, AnchorsOf(q.pool)),
                         Ranked(Candidates(q.pool), Effective(q), q.embedded))
        /\ w = Windowed(s, q.pool) /\ r = FactsFor(q)
  OBVIOUS
<1>1. ChosenFacts(q, s)
  BY <1>p, ChosenFactsAre
<1>2. /\ w \in Seq(Facts) /\ Tokens(w) <= RecallBudget /\ Distinct(w)
      /\ ToSet(s) \subseteq ToSet(w)
      /\ \A g \in ToSet(w) \ ToSet(s) :
           \E h \in ToSet(s) : g.turn \in {h.turn - 1, h.turn, h.turn + 1}
  BY <1>1, <1>p, WindowedIs
<1>3. r = s \/ (q.embedded /\ r = w)
  BY <1>p DEF FactsFor
<1>4. /\ r \in Seq(Facts) /\ Tokens(r) <= RecallBudget /\ Distinct(r)
      /\ ToSet(s) \subseteq ToSet(r)
      /\ \A g \in ToSet(r) \ ToSet(s) :
           q.embedded /\ \E h \in ToSet(s) : g.turn \in {h.turn - 1, h.turn, h.turn + 1}
  BY <1>1, <1>2, <1>3 DEF ChosenFacts
<1>5. Range(r) = ToSet(r) /\ Range(AnchorsOf(q.pool)) = ToSet(AnchorsOf(q.pool))
  BY DEF Range, ToSet
<1>6. Cardinality(Range(r)) = Len(r)
  BY <1>4, <1>5, DistinctLen
<1>7. Tokens(AnchorsOf(q.pool)) <= RecallBudget => Range(AnchorsOf(q.pool)) \subseteq Range(r)
  BY <1>1, <1>4, <1>5 DEF ChosenFacts
<1>8. ASSUME NEW f \in Range(q.pool) \ Range(r), NEW g \in Range(r),
             {f.kind, g.kind} \cap Anchors = {},
             ~(q.embedded /\ \E h \in Range(r) \ {g} : g.turn \in {h.turn - 1, h.turn, h.turn + 1})
      PROVE  Score(f, Effective(q), q.embedded) <= Score(g, Effective(q), q.embedded)
  <2>1. g \in ToSet(s)
    BY <1>4, <1>5, <1>8
  <2>2. f \in Range(q.pool) \ ToSet(s)
    BY <1>4, <1>5, <1>8
  <2>3. QED
    BY <1>1, <1>8, <2>1, <2>2 DEF ChosenFacts
<1>9. QED
  BY <1>4, <1>6, <1>7, <1>8, <1>p DEF BestAnswer

\* Every step of the requests leaves the last answer the best, or none.
LEMMA AnswerKept == ASSUME RecallIsBest, [RecallNext]_recallVars PROVE RecallIsBest'
<1>1. SUFFICES ASSUME given' # NoRecall, RecallNext
               PROVE  BestAnswer(given'.question, given'.facts)
  <2>1. ASSUME UNCHANGED recallVars PROVE RecallIsBest'
    BY <2>1 DEF recallVars, RecallIsBest
  <2>2. (given' # NoRecall => BestAnswer(given'.question, given'.facts)) => RecallIsBest'
    BY DEF RecallIsBest, BestAnswer
  <2>3. QED
    BY <2>1, <2>2
<1>2. \E q \in Questions : ~Raises(q) /\ given' = [question |-> q, facts |-> FactsFor(q)]
  <2>1. CASE \E i \in RecallSlots, s \in RecallSessions, files \in Triggers : Ask(i, s, files)
    BY <1>1, <2>1 DEF Ask
  <2>2. CASE \E i \in RecallSlots, q \in ForcedQuestions : Answered(i, q) \/ AskRaises(i, q)
    <3>1. PICK i \in RecallSlots, q \in ForcedQuestions : Answered(i, q) \/ AskRaises(i, q)
      BY <2>2
    <3>2. CASE Answered(i, q)
      <4>1. q \in Questions
        BY RecallAssumption
      <4>2. QED
        BY <1>1, <3>2, <4>1 DEF Answered
    <3>3. CASE AskRaises(i, q)
      BY <1>1, <3>3 DEF AskRaises
    <3>4. QED
      BY <3>1, <3>2, <3>3
  <2>3. CASE \E i \in RecallSlots : GraphFails(i)
    BY <1>1, <2>3 DEF GraphFails
  <2>4. CASE \E q \in Questions : ToolAsks(q)
    BY <1>1, <2>4 DEF ToolAsks
  <2>5. QED
    BY <1>1, <2>1, <2>2, <2>3, <2>4 DEF RecallNext
<1>3. PICK q \in Questions : ~Raises(q) /\ given' = [question |-> q, facts |-> FactsFor(q)]
  BY <1>2
<1>4. given'.question = q /\ given'.facts = FactsFor(q)
  BY <1>3
<1>5. QED
  BY <1>3, <1>4, FactsAreBest

\* A recall returns the facts that _budget_facts should choose, whatever the
\* graph holds, the turn and the budget: they fit, no fact is returned twice,
\* the anchors come first, and of the others the most relevant.
THEOREM RecallsTheBest == RecallSpec => []RecallIsBest
<1>1. RecallInit => RecallIsBest
  BY DEF RecallInit, RecallIsBest
<1>2. QED
  BY <1>1, AnswerKept, PTL DEF RecallSpec
=============================================================================
