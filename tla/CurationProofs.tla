---------------------------- MODULE CurationProofs ----------------------------
(***************************************************************************)
(* Proofs about the curation of requests (Curation, with what Rewrite       *)
(* computes), the curator's loop (CuratorLoop), the extractors of a turn    *)
(* (Extractors) and the deterministic assembly (Assembly), each for any     *)
(* values of its constants.  They share no state; the theorems are about    *)
(* the specification of each.                                               *)
(***************************************************************************)
EXTENDS Curation, CuratorLoop, Assembly, Extractors, ListsProofs, FiniteSetTheorems

-----------------------------------------------------------------------------
(* The briefing a request is served from.  A request takes it into choice,  *)
(* and keeps it there while passes go on replacing the one that is cached.  *)

IsChoice(c) ==
  c = [retained |-> c.retained, by |-> c.by, about |-> c.about, meant |-> c.meant]

Recent(c) == c.about >= turn - (IF staleness = 0 THEN 1 ELSE staleness)

\* The turns that briefings are of are numbers.
TurnsAreNumbers ==
  /\ staleness \in Nat /\ turn \in Nat
  /\ choice.about \in Nat
  /\ briefing # NoBriefing => briefing.about \in Nat
  /\ pass # NoBriefing => pass.turn \in Nat
  /\ \E S : late \in Seq(S) /\ \A r \in S : r.turn \in Nat

BriefingInv ==
  /\ TurnsAreNumbers
  /\ IsChoice(choice)
  /\ briefing # NoBriefing => IsChoice(briefing)
  /\ phase \in {"inline", "again"} => Recent(choice)
  /\ phase = "loop" => choice.by = "nobody"
  /\ phase = "sent" /\ choice.by \in {"inline", "briefing"} => Recent(choice)

LEMMA ChoicesAre ==
  ASSUME NEW numbers, NEW msgs, NEW by, NEW about
  PROVE  /\ IsChoice(Choice(numbers, msgs, by, about))
         /\ Choice(numbers, msgs, by, about).about = about
         /\ Choice(numbers, msgs, by, about).by = by
BY DEF Choice, IsChoice

LEMMA UsableIsRecent ==
  ASSUME NEW cached, NEW now \in Nat, staleness \in Nat, Usable(cached, now),
         cached.about \in Nat
  PROVE  /\ cached # NoBriefing
         /\ cached.about >= now - (IF staleness = 0 THEN 1 ELSE staleness)
<1>1. cached # NoBriefing /\ (cached.about >= now - 1 \/ cached.about >= now - staleness)
  BY DEF Usable, IsBriefingFresh
<1>2. PICK a \in Nat, k \in Nat : a = cached.about /\ k = staleness
  OBVIOUS
<1>3. a >= now - (IF k = 0 THEN 1 ELSE k)
  BY <1>1, <1>2
<1>4. QED
  BY <1>1, <1>2, <1>3

LEMMA BriefingStart == CurationInit => BriefingInv
<1>. SUFFICES ASSUME CurationInit PROVE BriefingInv
  OBVIOUS
<1>1. /\ phase = "idle" /\ choice = NoChoice /\ briefing = NoBriefing /\ turn = 0
      /\ late = <<>> /\ pass = NoBriefing
  BY DEF CurationInit
<1>2. staleness \in Nat
  <2>1. PICK s \in Settings : staleness = s.staleness
    BY DEF CurationInit
  <2>2. QED
    BY <2>1, CurationAssumption
<1>3. late \in Seq({}) /\ \A r \in {} : r.turn \in Nat
  BY <1>1, EmptySeq
<1>4. TurnsAreNumbers
  BY <1>1, <1>2, <1>3, ChoicesAre DEF TurnsAreNumbers, NoChoice
<1>5. QED
  BY <1>1, <1>4, ChoicesAre DEF BriefingInv, NoChoice

LEMMA BriefingKept == BriefingInv /\ [CurationNext]_curationVars => BriefingInv'
<1>. SUFFICES ASSUME BriefingInv, [CurationNext]_curationVars PROVE BriefingInv'
  OBVIOUS
<1>t. /\ IsChoice(choice) /\ (briefing # NoBriefing => IsChoice(briefing))
      /\ phase \in {"inline", "again"} => Recent(choice)
      /\ phase = "loop" => choice.by = "nobody"
      /\ phase = "sent" /\ choice.by \in {"inline", "briefing"} => Recent(choice)
  BY DEF BriefingInv
<1>m. /\ staleness \in Nat /\ turn \in Nat /\ choice.about \in Nat
      /\ briefing # NoBriefing => briefing.about \in Nat
      /\ pass # NoBriefing => pass.turn \in Nat
  BY DEF BriefingInv, TurnsAreNumbers
<1>l. \E S : late \in Seq(S) /\ \A r \in S : r.turn \in Nat
  BY DEF BriefingInv, TurnsAreNumbers
<1>n. IsChoice(NoChoice) /\ NoChoice.by = "nobody" /\ NoChoice.about = 0
  BY ChoicesAre DEF NoChoice
<1>q. IsChoice(NoChoice)' /\ NoChoice' = NoChoice
  BY <1>n DEF NoChoice, Choice, IsChoice
<1>1. ASSUME NEW eligible \in BOOLEAN, NEW addition \in Additions, Request(eligible, addition)
      PROVE  BriefingInv'
  <2>1. /\ briefing' = briefing /\ staleness' = staleness /\ late' = late /\ pass' = NoBriefing
        /\ turn' = turn + 1
        /\ \/ phase' = "inline" /\ choice' = briefing /\ Usable(briefing, turn')
           \/ phase' \in {"topup", "loop"} /\ choice' = NoChoice
           \/ phase' = "sent" /\ choice' = NoChoice
    BY <1>1 DEF Request, Missed, fixed
  <2>2. turn' \in Nat
    BY <1>m, <2>1
  <2>3. TurnsAreNumbers'
    <3>1. choice'.about \in Nat
      BY <1>m, <1>n, <2>1 DEF Usable
    <3>2. QED
      BY <1>m, <1>l, <2>1, <2>2, <3>1 DEF TurnsAreNumbers
  <2>4. CASE phase' = "inline" /\ choice' = briefing /\ Usable(briefing, turn')
    <3>1. briefing # NoBriefing
      BY <2>4 DEF Usable
    <3>2. briefing.about >= turn' - (IF staleness = 0 THEN 1 ELSE staleness)
      BY <1>m, <2>2, <2>4, <3>1, UsableIsRecent
    <3>3. Recent(choice)'
      BY <2>1, <2>4, <3>2 DEF Recent
    <3>4. IsChoice(choice)' /\ (briefing # NoBriefing => IsChoice(briefing))'
      BY <1>t, <2>1, <2>4, <3>1 DEF IsChoice
    <3>5. QED
      BY <2>3, <2>4, <3>3, <3>4 DEF BriefingInv
  <2>5. CASE phase' \in {"topup", "loop", "sent"} /\ choice' = NoChoice
    <3>1. IsChoice(choice)' /\ (briefing # NoBriefing => IsChoice(briefing))' /\ choice'.by = "nobody"
      BY <1>t, <1>n, <2>1, <2>5 DEF IsChoice
    <3>2. QED
      BY <2>3, <2>5, <3>1 DEF BriefingInv
  <2>6. QED
    BY <2>1, <2>4, <2>5
<1>2. CASE InlineServes
  <2>1. /\ phase \in {"inline", "again"} /\ phase' = "sent"
        /\ UNCHANGED <<turn, briefing, staleness, late, pass>>
        /\ \/ \E numbers : choice' = Choice(numbers, conv, "inline", choice.about)
           \/ choice' = [choice EXCEPT !.by = "briefing"]
    BY <1>2 DEF InlineServes, Serve, fixed
  <2>2. IsChoice(choice') /\ choice'.about = choice.about
    <3>1. CASE \E numbers : choice' = Choice(numbers, conv, "inline", choice.about)
      BY <3>1, ChoicesAre
    <3>2. CASE choice' = [choice EXCEPT !.by = "briefing"]
      <4>p. PICK c : c = choice
        OBVIOUS
      <4>1. c = [retained |-> c.retained, by |-> c.by, about |-> c.about, meant |-> c.meant]
        BY <1>t, <4>p DEF IsChoice
      <4>2. choice' = [retained |-> c.retained, by |-> "briefing", about |-> c.about, meant |-> c.meant]
        BY <3>2, <4>p, <4>1
      <4>3. QED
        BY <4>p, <4>2 DEF IsChoice
    <3>3. QED
      BY <2>1, <3>1, <3>2
  <2>3. Recent(choice)
    BY <1>t, <2>1
  <2>4. TurnsAreNumbers'
    BY <1>m, <1>l, <2>1, <2>2 DEF TurnsAreNumbers
  <2>5. QED
    BY <1>t, <2>1, <2>2, <2>3, <2>4 DEF BriefingInv, Recent
<1>3. CASE InlineFails
  <2>1. /\ phase' \in {"topup", "loop"} /\ choice' = NoChoice
        /\ UNCHANGED <<turn, briefing, staleness, late, pass>>
    BY <1>3 DEF InlineFails, GoTo, Missed, fixed
  <2>2. TurnsAreNumbers'
    BY <1>m, <1>n, <1>l, <2>1 DEF TurnsAreNumbers
  <2>3. QED
    BY <1>t, <1>n, <2>1, <2>2 DEF BriefingInv
<1>4. CASE TopUp
  <2>1. /\ UNCHANGED <<turn, staleness, late, pass>>
        /\ briefing' = LightlyPrepared(turn) \/ briefing' = briefing
        /\ \/ phase' = "again" /\ choice' = briefing' /\ Worth(briefing')
           \/ phase' = "loop" /\ choice' = NoChoice
    BY <1>4 DEF TopUp, fixed
  <2>2. briefing' # NoBriefing => IsChoice(briefing') /\ briefing'.about \in Nat
    BY <1>t, <1>m, <2>1, ChoicesAre DEF LightlyPrepared
  <2>3. Worth(briefing') =>
          /\ briefing' # NoBriefing
          /\ briefing'.about >= turn - (IF staleness = 0 THEN 1 ELSE staleness)
    <3>1. PICK b : b = briefing'
      OBVIOUS
    <3>2. Worth(b) => Usable(b, turn) /\ b # NoBriefing
      BY DEF Worth, Usable
    <3>3. Worth(b) => b.about >= turn - (IF staleness = 0 THEN 1 ELSE staleness)
      BY <1>m, <2>2, <3>1, <3>2, UsableIsRecent
    <3>4. QED
      BY <3>1, <3>2, <3>3
  <2>4. TurnsAreNumbers'
    <3>1. choice'.about \in Nat
      BY <1>n, <2>1, <2>2, <2>3
    <3>2. QED
      BY <1>m, <1>l, <2>1, <2>2, <3>1 DEF TurnsAreNumbers
  <2>5. QED
    BY <1>n, <2>1, <2>2, <2>3, <2>4 DEF BriefingInv, Recent
<1>5. CASE LoopServes
  <2>1. PICK numbers : /\ choice' = Choice(numbers, conv, "loop", 0)
                       /\ phase' = "sent" /\ UNCHANGED <<turn, briefing, staleness, late, pass>>
    BY <1>5 DEF LoopServes, Serve, fixed
  <2>2. IsChoice(choice') /\ choice'.about = 0 /\ choice'.by = "loop"
    BY <2>1, ChoicesAre
  <2>3. TurnsAreNumbers'
    BY <1>m, <1>l, <2>1, <2>2 DEF TurnsAreNumbers
  <2>4. QED
    BY <1>t, <2>1, <2>2, <2>3 DEF BriefingInv
<1>6. CASE LoopFails
  <2>1. /\ phase = "loop" /\ phase' = "sent"
        /\ UNCHANGED <<turn, choice, briefing, staleness, late, pass>>
    BY <1>6 DEF LoopFails, fixed
  <2>2. TurnsAreNumbers'
    BY <1>m, <1>l, <2>1 DEF TurnsAreNumbers
  <2>3. QED
    BY <1>t, <2>1, <2>2 DEF BriefingInv
<1>7. CASE Answered
  <2>1. /\ phase' = "idle" /\ UNCHANGED <<turn, choice, briefing, staleness, pass>>
        /\ late' = Append(late, [turn |-> turn, msgs |-> sent]) \/ late' = late
    BY <1>7 DEF Answered, fixed
  <2>2. \E S : late' \in Seq(S) /\ \A r \in S : r.turn \in Nat
    <3>1. CASE late' = late
      BY <1>l, <3>1
    <3>2. CASE late' = Append(late, [turn |-> turn, msgs |-> sent])
      <4>1. PICK S : late \in Seq(S) /\ \A r \in S : r.turn \in Nat
        BY <1>l
      <4>2. PICK e, l : e = [turn |-> turn, msgs |-> sent] /\ l = late
        OBVIOUS
      <4>3. e.turn \in Nat
        BY <1>m, <4>2
      <4>4. l \in Seq(S \cup {e})
        BY <4>1, <4>2, SeqWider
      <4>5. Append(l, e) \in Seq(S \cup {e})
        BY <4>4
      <4>6. QED
        BY <3>2, <4>1, <4>2, <4>3, <4>5
    <3>3. QED
      BY <2>1, <3>1, <3>2
  <2>3. TurnsAreNumbers'
    BY <1>m, <2>1, <2>2 DEF TurnsAreNumbers
  <2>4. QED
    BY <1>t, <2>1, <2>3 DEF BriefingInv
<1>8. CASE ExtractionEnds
  <2>1. /\ late # <<>> /\ pass' = Head(late) /\ late' = Tail(late)
        /\ UNCHANGED <<phase, turn, choice, briefing, staleness>>
    BY <1>8 DEF ExtractionEnds, fixed
  <2>2. PICK S : late \in Seq(S) /\ \A r \in S : r.turn \in Nat
    BY <1>l
  <2>3. Head(late) \in S /\ Tail(late) \in Seq(S)
    BY <2>1, <2>2
  <2>4. TurnsAreNumbers'
    BY <1>m, <2>1, <2>2, <2>3 DEF TurnsAreNumbers
  <2>5. QED
    BY <1>t, <2>1, <2>4 DEF BriefingInv, Recent
<1>9. CASE PassEnds
  <2>1. /\ UNCHANGED <<phase, turn, choice, late, staleness>> /\ pass # NoBriefing /\ pass' = NoBriefing
        /\ (\E numbers : briefing' = Choice(numbers, pass.msgs, "prepper", pass.turn)) \/ briefing' = briefing
    BY <1>9 DEF PassEnds, Prepared, fixed
  <2>2. briefing' # NoBriefing => IsChoice(briefing') /\ briefing'.about \in Nat
    BY <1>t, <1>m, <2>1, ChoicesAre
  <2>3. TurnsAreNumbers'
    BY <1>m, <1>l, <2>1, <2>2 DEF TurnsAreNumbers
  <2>4. QED
    BY <1>t, <2>1, <2>2, <2>3 DEF BriefingInv, Recent
<1>10. CASE UNCHANGED curationVars
  <2>1. UNCHANGED <<phase, turn, choice, briefing, late, pass, staleness>>
    BY <1>10 DEF curationVars, fixed
  <2>2. TurnsAreNumbers'
    BY <1>m, <1>l, <2>1 DEF TurnsAreNumbers
  <2>3. QED
    BY <1>t, <2>1, <2>2 DEF BriefingInv, Recent
<1>11. QED
  BY <1>1, <1>2, <1>3, <1>4, <1>5, <1>6, <1>7, <1>8, <1>9, <1>10 DEF CurationNext

\* No request is served from a briefing older than the limit, or than the turn
\* before where the limit is none, whichever passes end while it waits.
THEOREM ServedIsRecentAlways == CurationSpec => []ServedIsRecent
<1>1. BriefingInv => ServedIsRecent
  BY DEF BriefingInv, ServedIsRecent, Rewrote, Recent
<1>2. QED
  BY <1>1, BriefingStart, BriefingKept, PTL DEF CurationSpec

-----------------------------------------------------------------------------
(* The budget of a turn.  What was asked, with what is kept for the turn's   *)
(* own call, stays within the budget as it was before the first record that  *)
(* still waits; calls that a record turned out not to need leave it less.    *)

Spending == [calls : Nat, tokens : Nat]
Nothing == [calls |-> 0, tokens |-> 0]
Inside(a, b) == a.calls <= b.calls /\ a.tokens <= b.tokens

Affordable == limit.calls > 0 /\ limit.tokens >= TurnTokens

\* One entry of the recursion of Budgets.
After(names, b, i) ==
  IF i = 0 THEN Reserve(Nothing, TurnTokens)
  ELSE IF UsesModel(names[i]) /\ Cost(names[i]) > 0 THEN Reserve(b[i - 1], Cost(names[i])) ELSE b[i - 1]

Solves(names, b, m) == b = [i \in 0..m |-> After(names, b, i)]

LEMMA BudgetsDefined ==
  ASSUME NEW names \in Seq(Names)
  PROVE  Solves(names, Budgets(names), Len(names))
<1>. DEFINE after[i \in 0..Len(names)] ==
              IF i = 0 THEN Reserve([calls |-> 0, tokens |-> 0], TurnTokens)
              ELSE IF UsesModel(names[i]) /\ Cost(names[i]) > 0
                THEN Reserve(after[i - 1], Cost(names[i])) ELSE after[i - 1]
            I == {m \in Nat : \E b : Solves(names, b, m)}
<1>1. 0 \in I
  <2>1. Solves(names, [i \in 0..0 |-> Reserve(Nothing, TurnTokens)], 0)
    BY DEF Solves, After
  <2>2. QED
    BY <2>1
<1>2. ASSUME NEW m \in Nat, m \in I
      PROVE  m + 1 \in I
  <2>1. PICK b : Solves(names, b, m)
    BY <1>2
  <2>2. PICK c : c = [i \in 0..(m + 1) |-> IF i = m + 1 THEN After(names, b, i) ELSE b[i]]
    OBVIOUS
  <2>3. ASSUME NEW i \in 0..(m + 1)
        PROVE  c[i] = After(names, c, i)
    <3>a. ASSUME i = m + 1 PROVE c[i] = After(names, b, i)
      BY <2>2, <3>a
    <3>b. ASSUME i # m + 1 PROVE c[i] = After(names, b, i)
      <4>1. i \in 0..m
        BY <3>b
      <4>2. c[i] = b[i]
        BY <2>2, <3>b
      <4>3. b[i] = After(names, b, i)
        BY <2>1, <4>1 DEF Solves
      <4>4. QED
        BY <4>2, <4>3
    <3>0. c[i] = After(names, b, i)
      BY <3>a, <3>b
    <3>1. CASE i = 0
      BY <3>0, <3>1 DEF After
    <3>2. CASE i # 0
      <4>1. i - 1 \in 0..m /\ c[i - 1] = b[i - 1]
        BY <2>2, <3>2
      <4>2. QED
        BY <3>0, <3>2, <4>1 DEF After
    <3>3. QED
      BY <3>1, <3>2
  <2>4. Solves(names, c, m + 1)
    BY <2>2, <2>3 DEF Solves
  <2>5. QED
    BY <2>4
<1>3. Len(names) \in I
  <2>. HIDE DEF I
  <2>1. Nat \subseteq I
    BY <1>1, <1>2, SetInduction
  <2>2. QED
    BY <2>1
<1>4. PICK b : Solves(names, b, Len(names))
  BY <1>3
<1>5. \E c : c = [i \in 0..Len(names) |->
                    IF i = 0 THEN Reserve([calls |-> 0, tokens |-> 0], TurnTokens)
                    ELSE IF UsesModel(names[i]) /\ Cost(names[i]) > 0
                      THEN Reserve(c[i - 1], Cost(names[i])) ELSE c[i - 1]]
  BY <1>4 DEF Solves, After, Nothing
<1>6. Solves(names, after, Len(names))
  BY <1>5 DEF Solves, After, Nothing
<1>7. Budgets(names) = after
  BY DEF Budgets
<1>8. QED
  BY <1>6, <1>7

\* A reservation is made or refused, and never exceeds the limits.
LEMMA Reserved ==
  ASSUME limit \in BudgetLimits, NEW b \in Spending, NEW tokens \in Nat, Inside(b, limit)
  PROVE  /\ Reserve(b, tokens) \in Spending /\ Inside(Reserve(b, tokens), limit)
         /\ Inside(b, Reserve(b, tokens))
         /\ Reserve(b, tokens) # b =>
              Reserve(b, tokens) = [calls |-> b.calls + 1, tokens |-> b.tokens + tokens]
<1>1. limit.calls \in Nat /\ limit.tokens \in Nat /\ b.calls \in Nat /\ b.tokens \in Nat
  BY ExtractorsAssumption DEF Spending
<1>p. PICK c, t, lc, lt, r : /\ c = b.calls /\ t = b.tokens /\ lc = limit.calls /\ lt = limit.tokens
                             /\ r = Reserve(b, tokens)
  OBVIOUS
<1>2. CASE c >= lc \/ t + tokens > lt
  <2>1. r = b
    BY <1>p, <1>2 DEF Reserve
  <2>2. QED
    BY <1>1, <1>p, <2>1 DEF Inside
<1>3. CASE ~(c >= lc \/ t + tokens > lt)
  <2>1. r = [calls |-> c + 1, tokens |-> t + tokens]
    BY <1>p, <1>3 DEF Reserve
  <2>2. c + 1 \in Nat /\ t + tokens \in Nat /\ c + 1 <= lc /\ t + tokens <= lt /\ c <= c + 1 /\ t <= t + tokens
    BY <1>1, <1>p, <1>3
  <2>3. r \in Spending /\ r.calls = c + 1 /\ r.tokens = t + tokens
    BY <2>1, <2>2 DEF Spending
  <2>4. QED
    BY <1>p, <2>1, <2>2, <2>3 DEF Inside
<1>4. QED
  BY <1>2, <1>3

LEMMA CostIsNat == \A name : UsesModel(name) => Cost(name) \in Nat
BY DEF UsesModel, Cost, LLMTokens

\* The budget grows from record to record, within the limits, and by the cost of
\* a record where it grows.
LEMMA BudgetsGrow ==
  ASSUME NEW names \in Seq(Names), limit \in BudgetLimits
  PROVE  LET b == Budgets(names)
         IN  /\ b[0] = Reserve(Nothing, TurnTokens)
             /\ \A i \in 0..Len(names) : b[i] \in Spending /\ Inside(b[i], limit)
             /\ \A i \in 1..Len(names) : b[i] # b[i - 1] /\ UsesModel(names[i]) =>
                  b[i] = [calls |-> b[i - 1].calls + 1, tokens |-> b[i - 1].tokens + Cost(names[i])]
             /\ \A i \in 0..Len(names), j \in 0..Len(names) : i <= j => Inside(b[i], b[j])
<1>p. PICK b, n : b = Budgets(names) /\ n = Len(names)
  OBVIOUS
<1>n. n \in Nat
  BY <1>p
<1>1. \A i \in 0..n : b[i] = After(names, b, i)
  BY <1>p, BudgetsDefined DEF Solves
<1>2. b[0] = Reserve(Nothing, TurnTokens)
  BY <1>1, <1>n DEF After
<1>3. Nothing \in Spending /\ Inside(Nothing, limit) /\ TurnTokens \in Nat
  BY ExtractorsAssumption DEF Nothing, Spending, Inside, TurnTokens
<1>4. ASSUME NEW i \in 1..n
      PROVE  /\ i - 1 \in 0..n /\ i \in 0..n /\ i # 0
             /\ \/ b[i] = b[i - 1]
                \/ UsesModel(names[i]) /\ b[i] = Reserve(b[i - 1], Cost(names[i]))
  <2>1. i - 1 \in 0..n /\ i \in 0..n /\ i # 0
    BY <1>n
  <2>2. b[i] = After(names, b, i)
    BY <1>1, <2>1
  <2>3. QED
    BY <2>1, <2>2 DEF After
<1>. DEFINE I == {i \in Nat : i <= n => b[i] \in Spending /\ Inside(b[i], limit)}
<1>5. 0 \in I
  BY <1>2, <1>3, Reserved
<1>6. ASSUME NEW i \in Nat, i \in I PROVE i + 1 \in I
  <2>1. SUFFICES ASSUME i + 1 <= n PROVE b[i + 1] \in Spending /\ Inside(b[i + 1], limit)
    OBVIOUS
  <2>2. b[i] \in Spending /\ Inside(b[i], limit) /\ i + 1 \in 1..n /\ (i + 1) - 1 = i
    BY <1>6, <1>n, <2>1
  <2>3. b[i + 1] = b[i] \/ (UsesModel(names[i + 1]) /\ b[i + 1] = Reserve(b[i], Cost(names[i + 1])))
    BY <1>4, <2>2
  <2>4. QED
    BY <2>2, <2>3, Reserved, CostIsNat
<1>7. \A i \in 0..n : b[i] \in Spending /\ Inside(b[i], limit)
  <2>. HIDE DEF I
  <2>1. Nat \subseteq I
    BY <1>5, <1>6, SetInduction
  <2>2. QED
    BY <2>1, <1>n DEF I
<1>8. ASSUME NEW i \in 1..n
      PROVE  /\ Inside(b[i - 1], b[i])
             /\ b[i] # b[i - 1] /\ UsesModel(names[i]) =>
                  b[i] = [calls |-> b[i - 1].calls + 1, tokens |-> b[i - 1].tokens + Cost(names[i])]
  <2>p. PICK x, y : x = b[i - 1] /\ y = b[i]
    OBVIOUS
  <2>1. x \in Spending /\ Inside(x, limit)
    BY <1>4, <1>7, <2>p
  <2>2. Inside(x, x)
    BY <2>1 DEF Inside, Spending
  <2>3. y = x \/ (UsesModel(names[i]) /\ y = Reserve(x, Cost(names[i])))
    BY <1>4, <2>p
  <2>4. CASE y = x
    BY <2>p, <2>2, <2>4
  <2>5. CASE UsesModel(names[i]) /\ y = Reserve(x, Cost(names[i]))
    <3>1. Cost(names[i]) \in Nat
      BY <2>5, CostIsNat
    <3>2. QED
      BY <2>p, <2>1, <2>5, <3>1, Reserved
  <2>6. QED
    BY <2>3, <2>4, <2>5
<1>9. ASSUME NEW i \in 0..n
      PROVE  \A j \in 0..n : i <= j => Inside(b[i], b[j])
  <2>. DEFINE J == {j \in Nat : j <= n /\ i <= j => Inside(b[i], b[j])}
  <2>0. i \in Nat /\ b[i] \in Spending
    BY <1>7
  <2>s. Inside(b[i], b[i])
    BY <2>0 DEF Inside, Spending
  <2>1. 0 \in J
    <3>1. i <= 0 => i = 0
      BY <2>0
    <3>2. QED
      BY <2>s, <3>1
  <2>2. ASSUME NEW j \in Nat, j \in J PROVE j + 1 \in J
    <3>1. SUFFICES ASSUME j + 1 <= n, i <= j + 1 PROVE Inside(b[i], b[j + 1])
      OBVIOUS
    <3>2. CASE i = j + 1
      BY <2>s, <3>2
    <3>3. CASE i <= j
      <4>1. j + 1 \in 1..n /\ (j + 1) - 1 = j /\ j \in 0..n /\ j + 1 \in 0..n /\ j <= n
        BY <1>n, <3>1
      <4>2. Inside(b[i], b[j]) /\ Inside(b[j], b[j + 1])
        BY <1>8, <2>2, <3>3, <4>1
      <4>3. b[j] \in Spending /\ b[j + 1] \in Spending
        BY <1>7, <4>1
      <4>4. PICK x, y, z : x = b[i] /\ y = b[j] /\ z = b[j + 1]
        OBVIOUS
      <4>5. x \in Spending /\ y \in Spending /\ z \in Spending /\ Inside(x, y) /\ Inside(y, z)
        BY <2>0, <4>2, <4>3, <4>4
      <4>6. Inside(x, z)
        BY <4>5 DEF Inside, Spending
      <4>7. QED
        BY <4>4, <4>6
    <3>4. QED
      BY <2>0, <3>1, <3>2, <3>3
  <2>3. QED
    <3>. HIDE DEF J
    <3>1. Nat \subseteq J
      BY <2>1, <2>2, SetInduction
    <3>2. QED
      BY <3>1, <1>n DEF J
<1>10. QED
  BY <1>p, <1>2, <1>7, <1>8, <1>9

-----------------------------------------------------------------------------
(* The turn.                                                               *)

\* What the turn has asked for, with its own call as long as that is still kept.
Committed ==
  IF held /\ stage = "tools" THEN [calls |-> asked.calls + 1, tokens |-> asked.tokens + TurnTokens]
  ELSE asked

\* The records before the first that waits.
Upto(names, q) == IF q = <<>> THEN Len(names) ELSE q[1] - 1

Waiting(b, names, q) ==
  /\ q \in Seq(1..Len(names)) /\ Growing(q)
  /\ \A k \in 1..Len(q) : UsesModel(names[q[k]]) /\ b[q[k]] # b[q[k] - 1]

TurnState(b, names) ==
  /\ names \in Seq(Names)
  /\ Waiting(b, names, queue)
  /\ held <=> Affordable
  /\ Inside(Committed, b[Upto(names, queue)])

TurnInv ==
  /\ limit \in BudgetLimits /\ perTool \in BOOLEAN /\ asked \in Spending /\ held \in BOOLEAN
  /\ stage = "idle" => asked = Nothing /\ queue = <<>>
  /\ ~perTool => queue = <<>>
  /\ perTool /\ stage # "idle" => \E names : names = records /\ TurnState(Budgets(names), names)

LEMMA TurnStart == ExtractorsInit => TurnInv
<1>. SUFFICES ASSUME ExtractorsInit PROVE TurnInv
  OBVIOUS
<1>1. /\ limit \in BudgetLimits /\ perTool \in BOOLEAN /\ stage = "idle" /\ held = FALSE
      /\ asked = [calls |-> 0, tokens |-> 0] /\ queue = <<>>
  BY DEF ExtractorsInit
<1>2. asked \in Spending
  BY <1>1 DEF Spending
<1>3. QED
  BY <1>1, <1>2 DEF TurnInv, Nothing

\* The budgets of the turn's records do not change while it goes on.
LEMMA BudgetsStay ==
  ASSUME UNCHANGED <<registry, limit>>, NEW names
  PROVE  Budgets(names)' = Budgets(names)
BY DEF Budgets, Reserve, UsesModel, Cost, Routed

LEMMA UseStays ==
  ASSUME UNCHANGED registry, NEW name
  PROVE  /\ UsesModel(name)' <=> UsesModel(name)
         /\ Cost(name)' = Cost(name)
BY DEF UsesModel, Cost, Routed

\* No more than the first budget of a turn is committed when it begins.
LEMMA FirstBudget ==
  ASSUME limit \in BudgetLimits
  PROVE  Reserve(Nothing, TurnTokens) =
           IF Affordable THEN [calls |-> 1, tokens |-> TurnTokens] ELSE Nothing
<1>1. limit.calls \in Nat /\ limit.tokens \in Nat
  BY ExtractorsAssumption
<1>p. PICK lc, lt : lc = limit.calls /\ lt = limit.tokens
  OBVIOUS
<1>2. Nothing.calls = 0 /\ Nothing.tokens = 0
  BY DEF Nothing
<1>3. CASE lc > 0 /\ lt >= TurnTokens
  BY <1>1, <1>p, <1>2, <1>3 DEF Reserve, Affordable, TurnTokens
<1>4. CASE ~(lc > 0 /\ lt >= TurnTokens)
  BY <1>1, <1>p, <1>2, <1>4 DEF Reserve, Affordable, TurnTokens
<1>5. QED
  BY <1>3, <1>4

LEMMA TurnBegins ==
  ASSUME TurnInv, NEW n \in 0..MaxRecords, NEW names \in [1..n -> Names], Begin(names)
  PROVE  TurnInv'
<1>1. /\ limit \in BudgetLimits /\ perTool \in BOOLEAN /\ asked = Nothing /\ held \in BOOLEAN
      /\ queue = <<>>
  BY DEF TurnInv, Begin
<1>2. UNCHANGED <<registry, perTool, limit>> /\ stage = "idle"
  BY DEF Begin
<1>n. names \in Seq(Names) /\ Len(names) = n /\ n \in Nat
  BY ExtractorsAssumption
<1>3. CASE ~perTool
  <2>1. stage' = "whole" /\ asked' = Spent(TurnTokens) /\ held' = held /\ queue' = queue
    BY <1>3 DEF Begin
  <2>2. asked' = [calls |-> 1, tokens |-> TurnTokens]
    <3>p. PICK a : a = asked
      OBVIOUS
    <3>1. a = [calls |-> 0, tokens |-> 0]
      BY <1>1, <3>p DEF Nothing
    <3>2. asked' = [[a EXCEPT !.calls = @ + 1] EXCEPT !.tokens = @ + TurnTokens]
      BY <2>1, <3>p DEF Spent
    <3>3. [a EXCEPT !.calls = @ + 1] = [calls |-> 1, tokens |-> 0]
      BY <3>1
    <3>4. 0 + TurnTokens = TurnTokens
      BY DEF TurnTokens
    <3>5. QED
      BY <3>2, <3>3, <3>4
  <2>3. asked' \in Spending
    BY <2>2 DEF Spending, TurnTokens
  <2>4. QED
    BY <1>1, <1>2, <1>3, <2>1, <2>3 DEF TurnInv
<1>4. CASE perTool
  <2>p. PICK b, q : b = Budgets(names) /\ q = queue'
    OBVIOUS
  <2>. DEFINE granted == {i \in 1..n : UsesModel(names[i]) /\ b[i] # b[i - 1]}
  <2>1. /\ stage' = "tools" /\ records' = names /\ asked' = asked
        /\ held' = (b[0].calls > 0)
        /\ q = Only([i \in 1..n |-> i], granted)
    BY <1>4, <1>n, <2>p DEF Begin, Fan
  <2>2. Waiting(b, names, q)
    <3>1. PICK s : s = [i \in 1..n |-> i]
      OBVIOUS
    <3>2. s \in Seq(1..n) /\ s \in Seq(Int) /\ Growing(s)
      BY <1>n, <3>1 DEF Growing
    <3>3. Growing(q) /\ q \in Seq((1..n) \cap granted)
      <4>. HIDE DEF granted
      <4>1. QED
        BY <2>1, <3>1, <3>2, OnlyGrows, OnlyType
    <3>4. (1..n) \cap granted \subseteq 1..n
      OBVIOUS
    <3>5. q \in Seq(1..n)
      BY <3>3, <3>4
    <3>6. ASSUME NEW k \in 1..Len(q) PROVE UsesModel(names[q[k]]) /\ b[q[k]] # b[q[k] - 1]
      <4>1. q[k] \in (1..n) \cap granted
        BY <3>3
      <4>2. QED
        BY <4>1
    <3>7. QED
      BY <1>n, <3>3, <3>5, <3>6 DEF Waiting
  <2>3. /\ b[0] = IF Affordable THEN [calls |-> 1, tokens |-> TurnTokens] ELSE Nothing
        /\ \A i \in 0..n, j \in 0..n : i <= j => Inside(b[i], b[j])
    BY <1>1, <1>n, <2>p, BudgetsGrow, FirstBudget
  <2>4. held' \in BOOLEAN /\ (held' <=> Affordable)
    <3>1. CASE Affordable
      <4>1. b[0].calls = 1
        BY <2>3, <3>1
      <4>2. (b[0].calls > 0) = TRUE
        BY <4>1
      <4>3. held' = TRUE
        BY <2>1, <4>2, Zenon
      <4>4. QED
        BY <3>1, <4>3
    <3>2. CASE ~Affordable
      <4>1. b[0].calls = 0
        BY <2>3, <3>2 DEF Nothing
      <4>2. (b[0].calls > 0) = FALSE
        BY <4>1
      <4>3. held' = FALSE
        BY <2>1, <4>2, Zenon
      <4>4. QED
        BY <3>2, <4>3
    <3>3. QED
      BY <3>1, <3>2
  <2>5. Committed' = b[0]
    BY <1>1, <2>1, <2>3, <2>4 DEF Committed, Nothing, TurnTokens
  <2>6. Upto(names, q) \in 0..n
    <3>1. q # <<>> => q[1] \in 1..n
      BY <1>n, <2>2 DEF Waiting
    <3>2. QED
      BY <1>n, <3>1 DEF Upto
  <2>7. Inside(b[0], b[Upto(names, q)])
    BY <1>n, <2>3, <2>6
  <2>8. (Affordable' <=> Affordable) /\ Budgets(names)' = b /\ \A m : UsesModel(m)' <=> UsesModel(m)
    BY <1>2, <2>p, BudgetsStay, UseStays DEF Affordable
  <2>9. Waiting(b, names, q)'
    BY <2>2, <2>8 DEF Waiting
  <2>10. TurnState(b, names)'
    BY <1>n, <2>p, <2>4, <2>5, <2>7, <2>8, <2>9 DEF TurnState
  <2>11. asked' \in Spending
    BY <1>1, <2>1 DEF Nothing, Spending
  <2>12. QED
    BY <1>1, <1>2, <1>4, <2>1, <2>4, <2>8, <2>10, <2>11 DEF TurnInv
<1>5. QED
  BY <1>1, <1>3, <1>4

\* The first that waits takes its permit: with its call, or without one, the
\* turn stays within the budget of the records before the next.
LEMMA TurnGoesOn ==
  ASSUME TurnInv, Acquire
  PROVE  TurnInv'
<1>1. /\ limit \in BudgetLimits /\ perTool \in BOOLEAN /\ asked \in Spending /\ held \in BOOLEAN
      /\ queue # <<>> /\ queue' = Tail(queue) /\ stage # "idle" /\ perTool
      /\ UNCHANGED <<registry, perTool, limit, stage, records, held>>
  BY DEF TurnInv, Acquire
<1>2. PICK names : names = records /\ TurnState(Budgets(names), names)
  BY <1>1 DEF TurnInv
<1>p. PICK b, n, q : b = Budgets(names) /\ n = Len(names) /\ q = queue
  OBVIOUS
<1>3. /\ names \in Seq(Names) /\ n \in Nat /\ (held <=> Affordable)
      /\ q \in Seq(1..n) /\ Growing(q)
      /\ \A k \in 1..Len(q) : UsesModel(names[q[k]]) /\ b[q[k]] # b[q[k] - 1]
      /\ Inside(Committed, b[Upto(names, q)])
  BY <1>2, <1>p DEF TurnState, Waiting
<1>4. PICK i, rest : i = q[1] /\ rest = Tail(q)
  OBVIOUS
<1>5. /\ i \in 1..n /\ Upto(names, q) = i - 1 /\ UsesModel(names[i]) /\ b[i] # b[i - 1]
      /\ rest \in Seq(1..n) /\ Len(rest) = Len(q) - 1 /\ Len(q) \in Nat /\ Len(q) > 0
      /\ \A k \in 1..Len(rest) : rest[k] = q[k + 1]
  <2>1. q # <<>>
    BY <1>1, <1>p
  <2>2. Len(q) \in Nat /\ Len(q) > 0 /\ 1 \in 1..Len(q)
    BY <1>3, <2>1
  <2>3. i \in 1..n
    BY <1>3, <1>4, <2>2
  <2>4. rest \in Seq(1..n) /\ Len(rest) = Len(q) - 1 /\ \A k \in 1..Len(rest) : rest[k] = q[k + 1]
    BY <1>3, <1>4, <2>1
  <2>5. QED
    BY <1>3, <1>4, <2>1, <2>2, <2>3, <2>4 DEF Upto
<1>6. Waiting(b, names, rest)
  <2>1. ASSUME NEW k \in 1..Len(rest) PROVE k + 1 \in 1..Len(q) /\ rest[k] = q[k + 1]
    BY <1>5
  <2>2. ASSUME NEW j \in 1..Len(rest), NEW k \in 1..Len(rest), j < k PROVE rest[j] < rest[k]
    <3>1. j + 1 < k + 1
      BY <2>2
    <3>2. QED
      BY <1>3, <2>1, <3>1 DEF Growing
  <2>3. Growing(rest)
    BY <2>2 DEF Growing
  <2>4. QED
    BY <1>3, <1>5, <1>p, <2>1, <2>3 DEF Waiting
<1>7. Upto(names, rest) \in 0..n /\ i <= Upto(names, rest)
  <2>1. CASE rest = <<>>
    BY <1>3, <1>5, <1>p, <2>1 DEF Upto
  <2>2. CASE rest # <<>>
    <3>1. Len(rest) \in Nat /\ Len(rest) > 0
      BY <1>5, <2>2
    <3>2. 1 \in 1..Len(q) /\ 2 \in 1..Len(q) /\ rest[1] = q[2]
      BY <1>5, <3>1
    <3>3. q[1] < q[2] /\ q[2] \in 1..n
      BY <1>3, <3>2 DEF Growing
    <3>4. Upto(names, rest) = q[2] - 1
      BY <2>2, <3>2 DEF Upto
    <3>5. i = q[1] /\ n \in Nat
      BY <1>3, <1>4
    <3>6. PICK x, y : x = q[1] /\ y = q[2]
      OBVIOUS
    <3>7. x \in Nat /\ y \in Nat /\ x < y /\ y <= n
      <4>1. q[1] \in 1..n /\ q[2] \in 1..n
        BY <1>3, <3>2
      <4>2. QED
        BY <3>3, <3>5, <3>6, <4>1
    <3>8. y - 1 \in 0..n /\ x <= y - 1
      BY <3>5, <3>7
    <3>9. QED
      BY <3>4, <3>5, <3>6, <3>8
  <2>3. QED
    BY <2>1, <2>2
<1>8. PICK was, now, x, y, z, cost :
        /\ was = Committed /\ now = Committed' /\ x = b[i - 1] /\ y = b[i]
        /\ z = b[Upto(names, rest)] /\ cost = Cost(names[i])
  OBVIOUS
<1>9. /\ x \in Spending /\ y \in Spending /\ z \in Spending
      /\ y = [calls |-> x.calls + 1, tokens |-> x.tokens + cost] /\ Inside(y, z)
      /\ cost \in Nat
  <2>1. i \in 0..n /\ i - 1 \in 0..n
    BY <1>3, <1>5
  <2>2. x \in Spending /\ y \in Spending /\ z \in Spending /\ Inside(y, z)
    BY <1>1, <1>3, <1>p, <1>5, <1>7, <1>8, <2>1, BudgetsGrow
  <2>3. y = [calls |-> x.calls + 1, tokens |-> x.tokens + cost]
    BY <1>1, <1>3, <1>p, <1>5, <1>8, BudgetsGrow
  <2>4. cost \in Nat
    BY <1>5, <1>8, CostIsNat
  <2>5. QED
    BY <2>2, <2>3, <2>4
<1>10. was \in Spending /\ Inside(was, x)
  <2>1. asked.calls + 1 \in Nat /\ asked.tokens + TurnTokens \in Nat
    BY <1>1 DEF Spending, TurnTokens
  <2>2. was \in Spending
    BY <1>1, <1>8, <2>1 DEF Committed, Spending
  <2>3. QED
    BY <1>3, <1>5, <1>8, <2>2
<1>11. /\ asked' \in Spending
       /\ now = was \/ now = [calls |-> was.calls + 1, tokens |-> was.tokens + cost]
  <2>p. PICK a, c, t : a = asked /\ c = asked.calls /\ t = asked.tokens
    OBVIOUS
  <2>0. a = [calls |-> c, tokens |-> t] /\ c \in Nat /\ t \in Nat
    BY <1>1, <2>p DEF Spending
  <2>1. \/ asked' = asked
        \/ asked' = Spent(Cost(records[Head(queue)]))
    BY DEF Acquire
  <2>2. records[Head(queue)] = names[i]
    BY <1>2, <1>p, <1>4
  <2>3. CASE asked' = asked
    BY <1>1, <1>8, <2>3 DEF Committed
  <2>4. CASE asked' = Spent(Cost(records[Head(queue)]))
    <3>1. asked' = [[a EXCEPT !.calls = @ + 1] EXCEPT !.tokens = @ + cost]
      BY <1>8, <2>p, <2>2, <2>4 DEF Spent
    <3>2. asked' = [calls |-> c + 1, tokens |-> t + cost]
      BY <2>0, <3>1
    <3>3. asked' \in Spending
      BY <1>9, <2>0, <3>2 DEF Spending
    <3>4. CASE held /\ stage = "tools"
      <4>1. was = [calls |-> c + 1, tokens |-> t + TurnTokens]
        BY <1>8, <2>p, <3>4 DEF Committed
      <4>2. now = [calls |-> c + 1 + 1, tokens |-> t + cost + TurnTokens]
        BY <1>1, <1>8, <3>2, <3>4 DEF Committed
      <4>3. t + cost + TurnTokens = t + TurnTokens + cost
        BY <1>9, <2>0 DEF TurnTokens
      <4>4. QED
        BY <3>3, <4>1, <4>2, <4>3
    <3>5. CASE ~(held /\ stage = "tools")
      <4>1. was = a /\ now = asked'
        BY <1>1, <1>8, <2>p, <3>5 DEF Committed
      <4>2. QED
        BY <2>0, <3>2, <3>3, <4>1
    <3>6. QED
      BY <3>4, <3>5
  <2>5. QED
    BY <2>1, <2>3, <2>4
<1>12. Inside(now, z)
  <2>1. Inside(now, y)
    <3>1. CASE now = was
      BY <1>9, <1>10, <3>1 DEF Inside, Spending
    <3>2. CASE now = [calls |-> was.calls + 1, tokens |-> was.tokens + cost]
      <4>1. now.calls = was.calls + 1 /\ now.tokens = was.tokens + cost
        BY <3>2
      <4>2. y.calls = x.calls + 1 /\ y.tokens = x.tokens + cost
        BY <1>9
      <4>3. QED
        BY <1>9, <1>10, <4>1, <4>2 DEF Inside, Spending
    <3>3. QED
      BY <1>11, <3>1, <3>2
  <2>2. now \in Spending
    BY <1>9, <1>10, <1>11 DEF Spending
  <2>3. QED
    BY <1>9, <2>1, <2>2 DEF Inside, Spending
<1>13. TurnState(b, names)'
  <2>1. (Affordable' <=> Affordable) /\ \A m : UsesModel(m)' <=> UsesModel(m)
    BY <1>1, UseStays DEF Affordable
  <2>2. Waiting(b, names, rest)'
    BY <1>6, <2>1 DEF Waiting
  <2>3. queue' = rest
    BY <1>1, <1>p, <1>4
  <2>4. QED
    BY <1>1, <1>3, <1>8, <1>12, <2>1, <2>2, <2>3 DEF TurnState
<1>14. Budgets(names)' = b
  BY <1>1, <1>p, BudgetsStay
<1>15. QED
  BY <1>1, <1>2, <1>11, <1>13, <1>14 DEF TurnInv

\* A step that leaves what the turn has asked for, and what it has kept, as it
\* was; or that makes the call it has been kept for.
LEMMA TurnRests ==
  ASSUME TurnInv, UNCHANGED <<registry, perTool, limit, records, held, queue>>,
         stage' = "idle" <=> stage = "idle",
         asked' \in Spending, stage' = "idle" => asked' = asked,
         perTool /\ stage # "idle" => Committed' = Committed
  PROVE  TurnInv'
<1>1. /\ limit \in BudgetLimits /\ perTool \in BOOLEAN /\ asked \in Spending /\ held \in BOOLEAN
      /\ stage = "idle" => asked = Nothing /\ queue = <<>>
      /\ ~perTool => queue = <<>>
  BY DEF TurnInv
<1>2. ASSUME perTool', stage' # "idle"
      PROVE  (\E names : names = records /\ TurnState(Budgets(names), names))'
  <2>1. PICK names : names = records /\ TurnState(Budgets(names), names)
    BY <1>2 DEF TurnInv
  <2>p. PICK b : b = Budgets(names)
    OBVIOUS
  <2>2. /\ names \in Seq(Names) /\ Waiting(b, names, queue) /\ (held <=> Affordable)
        /\ Inside(Committed, b[Upto(names, queue)])
    BY <2>1, <2>p DEF TurnState
  <2>3. /\ Budgets(names)' = b /\ (Affordable' <=> Affordable) /\ Committed' = Committed
        /\ \A m : UsesModel(m)' <=> UsesModel(m)
    BY <1>2, <2>p, BudgetsStay, UseStays DEF Affordable
  <2>q. PICK q : q = queue
    OBVIOUS
  <2>4. Waiting(b, names, q)'
    BY <2>2, <2>q, <2>3 DEF Waiting
  <2>5. TurnState(b, names)'
    BY <2>2, <2>q, <2>3, <2>4 DEF TurnState
  <2>6. QED
    BY <2>1, <2>3, <2>5
<1>3. (stage = "idle" => asked = Nothing /\ queue = <<>>)'
  BY <1>1
<1>4. QED
  BY <1>1, <1>2, <1>3 DEF TurnInv

LEMMA TurnGathers ==
  ASSUME TurnInv, Gather
  PROVE  TurnInv'
<1>1. /\ UNCHANGED <<registry, perTool, limit, records, held, queue>> /\ stage = "tools"
      /\ \/ held /\ stage' = "turn" /\ asked' = Spent(TurnTokens)
         \/ ~held /\ stage' = "merged" /\ asked' = asked
  BY DEF Gather
<1>2. asked \in Spending
  BY DEF TurnInv
<1>p. PICK a, c, t : a = asked /\ c = asked.calls /\ t = asked.tokens
  OBVIOUS
<1>3. a = [calls |-> c, tokens |-> t] /\ c \in Nat /\ t \in Nat
  BY <1>2, <1>p DEF Spending
<1>4. asked' \in Spending /\ Committed' = Committed
  <2>1. CASE held
    <3>1. asked' = [[a EXCEPT !.calls = @ + 1] EXCEPT !.tokens = @ + TurnTokens]
      BY <1>1, <1>p, <2>1 DEF Spent
    <3>2. asked' = [calls |-> c + 1, tokens |-> t + TurnTokens]
      BY <1>3, <3>1
    <3>3. asked' \in Spending
      BY <1>3, <3>2 DEF Spending, TurnTokens
    <3>4. QED
      BY <1>1, <1>p, <2>1, <3>2, <3>3 DEF Committed
  <2>2. CASE ~held
    BY <1>1, <1>2, <2>2 DEF Committed
  <2>3. QED
    BY <2>1, <2>2
<1>5. QED
  BY <1>1, <1>4, TurnRests

LEMMA TurnKept == TurnInv /\ [ExtractorsNext]_extractorVars => TurnInv'
<1>. SUFFICES ASSUME TurnInv, [ExtractorsNext]_extractorVars PROVE TurnInv'
  OBVIOUS
<1>t. asked \in Spending
  BY DEF TurnInv
<1>1. ASSUME NEW n \in 0..MaxRecords, NEW names \in [1..n -> Names], Begin(names) PROVE TurnInv'
  BY <1>1, TurnBegins
<1>2. CASE Acquire
  BY <1>2, TurnGoesOn
<1>3. CASE ModelAnswers \/ OthersCall \/ TurnAnswers \/ Deduplicate \/ EmbedBatch
                        \/ UNCHANGED extractorVars
  <2>1. /\ UNCHANGED <<registry, perTool, limit, records, held, queue, asked>>
        /\ stage' = stage \/ (stage \notin {"idle", "tools"} /\ stage' \notin {"idle", "tools"})
    BY <1>3 DEF ModelAnswers, OthersCall, TurnAnswers, Deduplicate, EmbedBatch, extractorVars
  <2>2. Committed' = Committed
    BY <2>1 DEF Committed
  <2>3. QED
    BY <1>t, <2>1, <2>2, TurnRests
<1>4. CASE Gather
  BY <1>4, TurnGathers
<1>5. QED
  BY <1>1, <1>2, <1>3, <1>4 DEF ExtractorsNext

\* The calls of a turn stay within its budget, and its own call is made whenever
\* the budget has room for it at all, however many records come before it.
THEOREM TurnIsNotStarved == ExtractorsSpec => []TurnNotStarved
<1>1. TurnInv => TurnNotStarved
  <2>. SUFFICES ASSUME TurnInv, perTool
       PROVE  /\ Inside(asked, limit)
              /\ stage \notin {"idle", "tools"} /\ limit.calls > 0 /\ limit.tokens >= TurnTokens => held
    BY DEF TurnNotStarved, Inside
  <2>1. /\ limit \in BudgetLimits /\ asked \in Spending /\ held \in BOOLEAN
        /\ stage = "idle" => asked = Nothing
    BY DEF TurnInv
  <2>2. limit.calls \in Nat /\ limit.tokens \in Nat
    BY <2>1, ExtractorsAssumption
  <2>3. CASE stage = "idle"
    BY <2>1, <2>2, <2>3 DEF Nothing, Inside
  <2>4. CASE stage # "idle"
    <3>1. PICK names : names = records /\ TurnState(Budgets(names), names)
      BY <2>4 DEF TurnInv
    <3>p. PICK b, n, q : b = Budgets(names) /\ n = Len(names) /\ q = queue
      OBVIOUS
    <3>2. /\ names \in Seq(Names) /\ n \in Nat /\ (held <=> Affordable) /\ q \in Seq(1..n)
          /\ Inside(Committed, b[Upto(names, q)])
      BY <3>1, <3>p DEF TurnState, Waiting
    <3>3. Upto(names, q) \in 0..n
      <4>1. q # <<>> => q[1] \in 1..n
        BY <3>2
      <4>2. QED
        BY <3>2, <3>p, <4>1 DEF Upto
    <3>4. PICK z : z = b[Upto(names, q)]
      OBVIOUS
    <3>5. z \in Spending /\ Inside(z, limit)
      BY <2>1, <3>2, <3>3, <3>4, <3>p, BudgetsGrow
    <3>6. Inside(asked, z)
      <4>1. Committed = asked \/ Committed = [calls |-> asked.calls + 1, tokens |-> asked.tokens + TurnTokens]
        BY DEF Committed
      <4>2. CASE Committed = asked
        BY <3>2, <3>4, <4>2
      <4>3. CASE Committed = [calls |-> asked.calls + 1, tokens |-> asked.tokens + TurnTokens]
        <5>1. Committed.calls = asked.calls + 1 /\ Committed.tokens = asked.tokens + TurnTokens
          BY <4>3
        <5>2. QED
          BY <2>1, <3>2, <3>4, <3>5, <5>1 DEF Inside, Spending, TurnTokens
      <4>4. QED
        BY <4>1, <4>2, <4>3
    <3>7. Inside(asked, limit)
      BY <2>1, <2>2, <3>5, <3>6 DEF Inside, Spending
    <3>8. QED
      BY <3>2, <3>7 DEF Affordable
  <2>5. QED
    BY <2>3, <2>4
<1>2. QED
  BY <1>1, TurnStart, TurnKept, PTL DEF ExtractorsSpec

-----------------------------------------------------------------------------
(* What a turn stores.  Each record has facts of its own number, joined in   *)
(* the order of the records; the facts of the turn's own call come last; and *)
(* what is kept of them keeps that order.                                    *)

Routes == DOMAIN LLMTokens \cup {"one", "grep", "search", "recall"}
ParsedItem == [text : Int, flawed : BOOLEAN]
ToolNames == Names \cup {<<"turn">>}

Fact == [tool : ToolNames, from : 1..(MaxRecords + 1), text : Int]
FactOf(i) == [tool : ToolNames, from : {i}, text : Int]
Outcome == {Pending, Raised} \cup Seq(Fact)

\* Of a fact and a later one: both are in the order of the records, and what the
\* turn's own call found is not like what comes before it.
Kin ==
  {p \in Fact \X Fact :
     p[1].from <= p[2].from /\ (perTool /\ p[2].from = MaxRecords + 1 => ~Similar(p[2], p[1]))}
Different == {p \in Fact \X Fact : Hash(p[1]) # Hash(p[2])}

Listed(fs) == fs \in Seq(Fact) /\ Pairwise(fs, Kin)

\* The facts of the records alone.
OfRecords(fs) == \A f \in ToSet(fs) : f.from <= MaxRecords

RegistryTyped ==
  /\ perTool \in BOOLEAN
  /\ \A n \in DOMAIN registry : n \in Seq(STRING) /\ registry[n] \in Routes

\* The outcome of each record that is done is of its own number.
OwnResults(rs, n) ==
  /\ rs \in Seq(Outcome) /\ Len(rs) = n
  /\ \A i \in 1..n : rs[i] \in {Pending, Raised} \/ rs[i] \in Seq(FactOf(i))

RecordsInv ==
  /\ RegistryTyped
  /\ records \in Seq(Names) /\ Len(records) <= MaxRecords
  /\ OwnResults(results, Len(records))
  /\ queue \in Seq(1..Len(records)) /\ calling \subseteq 1..Len(records)
  /\ stage = "idle" => queue = <<>> /\ calling = {}

OwnVectors(vs) ==
  vs \in Seq(Nat \cup {NoVector}) /\ \A i \in 1..Len(vs) : vs[i] \in {i, NoVector}

StoredInv ==
  /\ stage = "whole" => ~perTool
  /\ stage = "turn" => Listed(facts) /\ OfRecords(facts)
  /\ stage \in {"merged", "embedding", "done"} => Listed(facts)
  /\ stage \in {"embedding", "done"} => Pairwise(facts, Different)
  /\ stage \notin {"embedding", "done"} => vectors = <<>>
  /\ OwnVectors(vectors)
  /\ stage = "embedding" => Len(vectors) < Len(facts)
  /\ stage = "done" => Len(vectors) = Len(facts)

\* What the extractors that need no model return.
LEMMA TextsAre ==
  ASSUME NEW items \in Seq(ParsedItem)
  PROVE  TextsOf(items) \in Seq(Int) /\ Len(TextsOf(items)) = Len(items)
<1>p. PICK n : n = Len(items)
  OBVIOUS
<1>1. n \in Nat
  BY <1>p, LenProperties
<1>2. ASSUME NEW k \in 1..n PROVE items[k].text \in Int
  <2>1. items[k] \in ParsedItem
    BY <1>p, ElementOfSeq
  <2>2. QED
    BY <2>1 DEF ParsedItem
<1>3. [k \in 1..n |-> items[k].text] \in [1..n -> Int]
  BY <1>2
<1>4. QED
  BY <1>1, <1>3, <1>p, ListOf DEF TextsOf

LEMMA FirstsAre ==
  ASSUME NEW S, NEW s \in Seq(S)
  PROVE  Firsts(s) \in Seq(S)
<1>p. PICK m : m = IF Len(s) < MaxItems THEN Len(s) ELSE MaxItems
  OBVIOUS
<1>1. m \in Nat /\ m <= Len(s) /\ Len(s) \in Nat
  BY <1>p, LenProperties, ExtractorsAssumption
<1>2. SubSeq(s, 1, m) \in Seq(S)
  BY <1>1, SubSeqProperties
<1>3. QED
  BY <1>2, <1>p DEF Firsts

LEMMA SoundAre ==
  ASSUME NEW items \in Seq(ParsedItem)
  PROVE  Sound(items) \in Seq(ParsedItem)
<1>p. PICK T : T = {item \in Range(items) : ~item.flawed}
  OBVIOUS
<1>1. Only(items, T) \in Seq(ParsedItem \cap T)
  BY OnlyType
<1>2. Only(items, T) \in Seq(ParsedItem)
  BY <1>1, SeqWider
<1>3. QED
  BY <1>2, <1>p DEF Sound

LEMMA AllPairs ==
  ASSUME NEW S, NEW s \in Seq(S)
  PROVE  Pairwise(s, S \X S)
BY ElementOfSeq DEF Pairwise

LEMMA OneIsList == <<1>> \in Seq(Int) /\ OneFact \in Seq(Int)
BY DEF OneFact

LEMMA GrepAre ==
  ASSUME NEW items \in Seq(ParsedItem)
  PROVE  GrepTexts(items) \in Seq(Int)
<1>p. PICK paths : paths = TextsOf(Sound(items))
  OBVIOUS
<1>q. PICK R : R = {<<p, p>> : p \in Range(paths)}
  OBVIOUS
<1>1. paths \in Seq(Int)
  BY <1>p, SoundAre, TextsAre
<1>2. Pairwise(paths, Int \X Int)
  BY <1>1, AllPairs
<1>3. FirstOnly(paths, R) \in Seq(Int)
  BY <1>1, <1>2, FirstOnlyIs
<1>4. Firsts(FirstOnly(paths, R)) \in Seq(Int)
  BY <1>3, FirstsAre
<1>5. QED
  BY <1>4, <1>p, <1>q, OneIsList DEF GrepTexts

LEMMA SearchAre ==
  ASSUME NEW items \in Seq(ParsedItem)
  PROVE  SearchTexts(items) = Raised \/ SearchTexts(items) \in Seq(Int)
<1>1. TextsOf(Firsts(items)) \in Seq(Int)
  BY FirstsAre, TextsAre
<1>2. QED
  BY <1>1, OneIsList DEF SearchTexts

LEMMA RecallAre ==
  ASSUME NEW items \in Seq(ParsedItem)
  PROVE  RecallTexts(items) \in Seq(Int)
<1>1. TextsOf(Sound(Firsts(items))) \in Seq(Int)
  BY FirstsAre, SoundAre, TextsAre
<1>2. QED
  BY <1>1 DEF RecallTexts

LEMMA ParsedAre ==
  ASSUME NEW extractor \in Routes \ DOMAIN LLMTokens, NEW texts \in Parsed(extractor)
  PROVE  texts = Raised \/ texts \in Seq(Int)
<1>0. Parses \subseteq Seq(ParsedItem)
  BY ExtractorsAssumption DEF ParsedItem
<1>1. CASE extractor = "one"
  <2>1. Parsed(extractor) = {OneFact}
    BY <1>1 DEF Parsed
  <2>2. QED
    BY <2>1, OneIsList
<1>2. CASE extractor = "grep"
  <2>1. Parsed(extractor) = {GrepTexts(items) : items \in Parses}
    BY <1>2 DEF Parsed
  <2>2. QED
    BY <1>0, <2>1, GrepAre
<1>3. CASE extractor = "search"
  <2>1. Parsed(extractor) = {SearchTexts(items) : items \in Parses}
    BY <1>3 DEF Parsed
  <2>2. QED
    BY <1>0, <2>1, SearchAre
<1>4. CASE extractor = "recall"
  <2>1. Parsed(extractor) = {RecallTexts(items) : items \in Parses}
    BY <1>4 DEF Parsed
  <2>2. QED
    BY <1>0, <2>1, RecallAre
<1>5. QED
  BY <1>1, <1>2, <1>3, <1>4 DEF Routes

\* A tool has one of the extractors that are registered: of the names that begin
\* its own, one is the longest.
LEMMA RoutedIs ==
  ASSUME RegistryTyped, NEW name \in Seq(STRING)
  PROVE  Routed(name) \in Routes
<1>p. PICK P : P = {n \in DOMAIN registry : IsPrefix(n, name)}
  OBVIOUS
<1>1. CASE P = {}
  BY <1>1, <1>p DEF Routed, Routes, LLMTokens
<1>2. CASE P # {}
  <2>1. ASSUME NEW n \in P PROVE Len(n) \in Nat /\ Len(name) \in Nat /\ Len(n) <= Len(name)
    <3>1. n \in Seq(STRING) /\ IsPrefix(n, name)
      BY <1>p DEF RegistryTyped
    <3>2. Len(n) <= Len(name)
      BY <3>1 DEF IsPrefix
    <3>3. QED
      BY <3>1, <3>2, LenProperties
  <2>p. PICK L : L = {Len(name) - Len(n) : n \in P}
    OBVIOUS
  <2>2. L \in SUBSET Nat /\ L # {}
    <3>1. ASSUME NEW n \in P PROVE Len(name) - Len(n) \in Nat
      BY <2>1
    <3>2. QED
      BY <1>2, <2>p, <3>1
  <2>3. PICK least \in L : \A x \in L : least <= x
    BY <2>2, FirstIsIn
  <2>4. PICK n \in P : least = Len(name) - Len(n)
    BY <2>3, <2>p
  <2>5. ASSUME NEW other \in P PROVE Len(other) <= Len(n)
    <3>1. Len(name) - Len(n) <= Len(name) - Len(other)
      BY <2>3, <2>4, <2>p
    <3>2. QED
      BY <2>1, <3>1
  <2>6. \E best \in P : \A other \in P : Len(other) <= Len(best)
    BY <2>5
  <2>7. PICK best : best = CHOOSE n1 \in P : \A other \in P : Len(other) <= Len(n1)
    OBVIOUS
  <2>8. best \in P
    BY <2>6, <2>7
  <2>9. Routed(name) = registry[best]
    BY <1>2, <1>p, <2>7 DEF Routed
  <2>10. QED
    BY <1>p, <2>8, <2>9 DEF RegistryTyped
<1>3. QED
  BY <1>1, <1>2

\* The facts that are made of the texts of a record, or of the turn's own call.
LEMMA FactsAre ==
  ASSUME NEW texts \in Seq(Int), NEW tool \in ToolNames, NEW i \in 1..(MaxRecords + 1), NEW fs,
         fs = [k \in 1..Len(texts) |-> [tool |-> tool, from |-> i, text |-> texts[k]]]
  PROVE  fs \in Seq(FactOf(i)) /\ fs \in Seq(Fact)
<1>p. PICK n : n = Len(texts)
  OBVIOUS
<1>1. n \in Nat /\ \A k \in 1..n : texts[k] \in Int
  BY <1>p, LenProperties, ElementOfSeq
<1>2. \A k \in 1..n : [tool |-> tool, from |-> i, text |-> texts[k]] \in FactOf(i)
  BY <1>1 DEF FactOf
<1>3. fs \in [1..n -> FactOf(i)]
  BY <1>2, <1>p
<1>4. FactOf(i) \subseteq Fact
  BY DEF FactOf, Fact
<1>5. fs \in Seq(FactOf(i))
  BY <1>1, <1>3, ListOf
<1>6. QED
  BY <1>4, <1>5, SeqWider

LEMMA RecordsStart == ExtractorsInit => RecordsInv /\ StoredInv
<1>. SUFFICES ASSUME ExtractorsInit PROVE RecordsInv /\ StoredInv
  OBVIOUS
<1>1. /\ perTool \in BOOLEAN /\ stage = "idle" /\ records = <<>> /\ results = <<>> /\ queue = <<>>
      /\ calling = {} /\ facts = <<>> /\ vectors = <<>>
  BY DEF ExtractorsInit
<1>2. RegistryTyped
  <2>1. PICK loaded \in SUBSET DOMAIN Plugins : registry = Registered(loaded)
    BY DEF ExtractorsInit
  <2>2. DOMAIN registry = DOMAIN Builtin \cup UNION {Plugins[p] : p \in loaded}
    BY <2>1 DEF Registered
  <2>3. ASSUME NEW n \in DOMAIN registry PROVE n \in Seq(STRING) /\ registry[n] \in Routes
    <3>1. n \in DOMAIN Builtin \/ \E p \in loaded : n \in Plugins[p]
      BY <2>2
    <3>2. n \in Seq(STRING)
      <4>1. n \in DOMAIN Builtin \cup Names \cup UNION {Plugins[p] : p \in DOMAIN Plugins}
        BY <3>1
      <4>2. QED
        BY <4>1, ExtractorsAssumption
    <3>3. registry[n] = IF \E p \in loaded : n \in Plugins[p] THEN "plugin" ELSE Builtin[n]
      BY <2>1, <2>2 DEF Registered
    <3>4. "plugin" \in Routes
      BY DEF Routes, LLMTokens
    <3>5. n \in DOMAIN Builtin => Builtin[n] \in Routes
      BY ExtractorsAssumption DEF Routes
    <3>6. QED
      BY <3>1, <3>2, <3>3, <3>4, <3>5
  <2>4. QED
    BY <1>1, <2>3 DEF RegistryTyped
<1>3. Len(<<>>) = 0 /\ \A S : <<>> \in Seq(S)
  BY EmptySeq
<1>4. OwnResults(<<>>, 0) /\ OwnVectors(<<>>)
  BY <1>3 DEF OwnResults, OwnVectors
<1>5. MaxRecords \in Nat
  BY ExtractorsAssumption
<1>6. QED
  BY <1>1, <1>2, <1>3, <1>4, <1>5 DEF RecordsInv, StoredInv

LEMMA RecordsBegin ==
  ASSUME RecordsInv, NEW n \in 0..MaxRecords, NEW names \in [1..n -> Names], Begin(names)
  PROVE  RecordsInv'
<1>1. RegistryTyped /\ UNCHANGED <<registry, perTool, calling>>
  BY DEF RecordsInv, Begin
<1>2. RegistryTyped'
  BY <1>1 DEF RegistryTyped
<1>n. names \in Seq(Names) /\ Len(names) = n /\ n \in Nat /\ n <= MaxRecords
  BY ExtractorsAssumption, ListOf
<1>3. CASE ~perTool
  <2>1. UNCHANGED <<records, results, queue>> /\ stage' = "whole"
    BY <1>3 DEF Begin
  <2>2. QED
    BY <1>1, <1>2, <2>1 DEF RecordsInv
<1>4. CASE perTool
  <2>0. Fan(names)
    BY <1>4 DEF Begin
  <2>. DEFINE granted(i) == UsesModel(names[i]) /\ Budgets(names)[i] # Budgets(names)[i - 1]
              returns(i) == IF granted(i) THEN {Pending}
                            ELSE IF UsesModel(names[i]) THEN Fallback ELSE Parsed(Routed(names[i]))
  <2>. HIDE DEF granted, returns
  <2>1. /\ records' = names
        /\ queue' = Only([i \in 1..Len(names) |-> i], {i \in 1..Len(names) : granted(i)})
        /\ \E what \in {w \in [1..Len(names) -> UNION {returns(i) : i \in 1..Len(names)}] :
                         \A i \in 1..Len(names) : w[i] \in returns(i)} :
             results' = [i \in 1..Len(names) |->
                           IF what[i] \in {Pending, Raised} THEN what[i] ELSE FactsOf(i, what[i])]
    <3>. USE DEF granted, returns
    <3>1. QED
      BY <2>0, Zenon DEF Fan
  <2>2. PICK what : /\ \A i \in 1..n : what[i] \in returns(i)
                    /\ results' = [i \in 1..n |-> IF what[i] \in {Pending, Raised} THEN what[i]
                                                  ELSE FactsOf(i, what[i])]
    BY <1>n, <2>1
  <2>3. ASSUME NEW i \in 1..n PROVE what[i] \in {Pending, Raised} \/ what[i] \in Seq(Int)
    <3>1. what[i] \in returns(i)
      BY <2>2
    <3>2. names[i] \in Names /\ names[i] \in Seq(STRING)
      <4>1. names[i] \in DOMAIN Builtin \cup Names \cup UNION {Plugins[p] : p \in DOMAIN Plugins}
        OBVIOUS
      <4>2. QED
        BY <4>1, ExtractorsAssumption
    <3>3. CASE granted(i)
      BY <3>1, <3>3 DEF returns
    <3>4. CASE ~granted(i) /\ UsesModel(names[i])
      <4>1. what[i] \in Fallback
        BY <3>1, <3>4 DEF returns
      <4>2. <<>> \in Seq(Int)
        BY EmptySeq
      <4>3. QED
        BY <4>1, <4>2, OneIsList DEF Fallback
    <3>5. CASE ~UsesModel(names[i])
      <4>1. what[i] \in Parsed(Routed(names[i]))
        BY <3>1, <3>5 DEF returns, granted
      <4>2. Routed(names[i]) \in Routes \ DOMAIN LLMTokens
        BY <1>1, <3>2, <3>5, RoutedIs DEF UsesModel
      <4>3. QED
        BY <4>1, <4>2, ParsedAre
    <3>6. QED
      BY <3>3, <3>4, <3>5
  <2>4. ASSUME NEW i \in 1..n
        PROVE  results'[i] \in Outcome /\ (results'[i] \in {Pending, Raised} \/ results'[i] \in Seq(FactOf(i)))
    <3>p. PICK w, fs : w = what[i] /\ fs = FactsOf(i, what[i])
      OBVIOUS
    <3>1. results'[i] = IF w \in {Pending, Raised} THEN w ELSE fs
      BY <2>2, <3>p
    <3>2. CASE w \in {Pending, Raised}
      BY <3>1, <3>2 DEF Outcome
    <3>3. CASE w \notin {Pending, Raised}
      <4>1. w \in Seq(Int)
        BY <2>3, <3>3, <3>p
      <4>2. names[i] \in ToolNames /\ i \in 1..(MaxRecords + 1)
        BY <1>n, ExtractorsAssumption DEF ToolNames
      <4>3. fs = [k \in 1..Len(w) |-> [tool |-> names[i], from |-> i, text |-> w[k]]]
        BY <2>1, <3>p DEF FactsOf
      <4>4. fs \in Seq(FactOf(i)) /\ fs \in Seq(Fact)
        BY <4>1, <4>2, <4>3, FactsAre
      <4>5. QED
        BY <3>1, <3>3, <4>4 DEF Outcome
    <3>4. QED
      BY <3>2, <3>3
  <2>5. OwnResults(results', n)
    <3>p. PICK rs : rs = results'
      OBVIOUS
    <3>1. rs \in [1..n -> Outcome]
      <4>1. rs = [i \in 1..n |-> rs[i]]
        BY <2>2, <3>p
      <4>2. \A i \in 1..n : rs[i] \in Outcome
        BY <2>4, <3>p
      <4>3. QED
        BY <4>1, <4>2
    <3>2. rs \in Seq(Outcome) /\ Len(rs) = n
      BY <1>n, <3>1, ListOf
    <3>3. QED
      BY <2>4, <3>2, <3>p DEF OwnResults
  <2>6. queue' \in Seq(1..n)
    <3>p. PICK s, T : s = [i \in 1..n |-> i] /\ T = {i \in 1..n : granted(i)}
      OBVIOUS
    <3>1. s \in Seq(1..n)
      BY <1>n, <3>p, ListOf
    <3>2. Only(s, T) \in Seq((1..n) \cap T)
      BY <3>1, OnlyType
    <3>3. Only(s, T) \in Seq(1..n)
      BY <3>2, SeqWider
    <3>4. QED
      BY <1>n, <2>1, <3>3, <3>p
  <2>7. calling' \subseteq 1..n
    <3>1. calling = {}
      BY DEF RecordsInv, Begin
    <3>2. QED
      BY <1>1, <3>1
  <2>8. stage' # "idle"
    BY <1>4 DEF Begin
  <2>9. QED
    BY <1>2, <1>n, <2>1, <2>5, <2>6, <2>7, <2>8 DEF RecordsInv
<1>5. QED
  BY <1>1, <1>3, <1>4 DEF RegistryTyped

\* One record more has its outcome.
LEMMA ReturnsKeep ==
  ASSUME RecordsInv, NEW i \in 1..Len(records), NEW texts \in Seq(Int), Returns(i, texts)
  PROVE  OwnResults(results', Len(records))
<1>p. PICK n, rs, fs :
        /\ n = Len(records) /\ rs = results
        /\ fs = [k \in 1..Len(texts) |-> [tool |-> records[i], from |-> i, text |-> texts[k]]]
  OBVIOUS
<1>1. /\ n \in Nat /\ n <= MaxRecords /\ i \in 1..n /\ records[i] \in Names
      /\ rs \in Seq(Outcome) /\ Len(rs) = n
      /\ \A j \in 1..n : rs[j] \in {Pending, Raised} \/ rs[j] \in Seq(FactOf(j))
  BY <1>p, LenProperties, ElementOfSeq DEF RecordsInv, OwnResults
<1>2. records[i] \in ToolNames /\ i \in 1..(MaxRecords + 1)
  BY <1>1, ExtractorsAssumption DEF ToolNames
<1>3. fs \in Seq(FactOf(i)) /\ fs \in Seq(Fact)
  BY <1>2, <1>p, FactsAre
<1>4. results' = [rs EXCEPT ![i] = fs]
  BY <1>p DEF Returns
<1>q. PICK new : new = [rs EXCEPT ![i] = fs]
  OBVIOUS
<1>5. new \in Seq(Outcome) /\ Len(new) = n /\ \A j \in 1..n : new[j] = IF j = i THEN fs ELSE rs[j]
  <2>1. fs \in Outcome
    BY <1>3 DEF Outcome
  <2>2. new \in Seq(Outcome) /\ Len(new) = n
    BY <1>1, <1>q, <2>1, ExceptSeq
  <2>3. \A j \in 1..n : new[j] = IF j = i THEN fs ELSE rs[j]
    BY <1>1, <1>q
  <2>4. QED
    BY <2>2, <2>3
<1>6. \A j \in 1..n : new[j] \in {Pending, Raised} \/ new[j] \in Seq(FactOf(j))
  BY <1>1, <1>3, <1>5
<1>7. QED
  BY <1>4, <1>5, <1>6, <1>p, <1>q DEF OwnResults

LEMMA RecordsStay ==
  ASSUME RecordsInv, UNCHANGED <<registry, perTool, records>>, OwnResults(results', Len(records)),
         queue' \in Seq(1..Len(records)), calling' \subseteq 1..Len(records),
         stage' = "idle" => stage = "idle" /\ queue' = queue /\ calling' = calling
  PROVE  RecordsInv'
<1>1. RegistryTyped'
  BY DEF RecordsInv, RegistryTyped
<1>2. QED
  BY <1>1 DEF RecordsInv

LEMMA RecordsKept == RecordsInv /\ [ExtractorsNext]_extractorVars => RecordsInv'
<1>. SUFFICES ASSUME RecordsInv, [ExtractorsNext]_extractorVars PROVE RecordsInv'
  OBVIOUS
<1>0. /\ OwnResults(results, Len(records)) /\ queue \in Seq(1..Len(records))
      /\ calling \subseteq 1..Len(records) /\ (stage = "idle" => queue = <<>> /\ calling = {})
      /\ Found \subseteq Seq(Int) /\ <<1>> \in Seq(Int)
  BY ExtractorsAssumption, OneIsList DEF RecordsInv
<1>1. ASSUME NEW n \in 0..MaxRecords, NEW names \in [1..n -> Names], Begin(names) PROVE RecordsInv'
  BY <1>1, RecordsBegin
<1>2. CASE Acquire
  <2>p. PICK i : i = Head(queue)
    OBVIOUS
  <2>1. /\ UNCHANGED <<registry, perTool, records, stage>> /\ queue # <<>> /\ queue' = Tail(queue)
        /\ \/ \E texts \in Found : Returns(i, texts) /\ calling' = calling
           \/ calling' = calling \cup {i} /\ results' = results
    BY <1>2, <2>p DEF Acquire
  <2>2. i \in 1..Len(records) /\ queue' \in Seq(1..Len(records))
    BY <1>0, <2>1, <2>p, HeadTailProperties
  <2>3. OwnResults(results', Len(records)) /\ calling' \subseteq 1..Len(records)
    BY <1>0, <2>1, <2>2, ReturnsKeep
  <2>4. stage # "idle"
    BY <1>0, <2>1
  <2>5. QED
    BY <2>1, <2>2, <2>3, <2>4, RecordsStay
<1>3. CASE ModelAnswers
  <2>1. PICK i \in calling : /\ calling' = calling \ {i}
                             /\ \E texts \in Found \cup {<<1>>} : Returns(i, texts)
    BY <1>3 DEF ModelAnswers
  <2>2. PICK texts \in Seq(Int) : Returns(i, texts)
    BY <1>0, <2>1
  <2>3. i \in 1..Len(records) /\ stage # "idle"
    BY <1>0, <2>1
  <2>4. OwnResults(results', Len(records))
    BY <2>2, <2>3, ReturnsKeep
  <2>5. UNCHANGED <<registry, perTool, records, stage, queue>>
    BY <1>3 DEF ModelAnswers
  <2>6. QED
    BY <1>0, <2>1, <2>3, <2>4, <2>5, RecordsStay
<1>4. CASE OthersCall \/ Gather \/ TurnAnswers \/ Deduplicate \/ EmbedBatch \/ UNCHANGED extractorVars
  <2>1. /\ UNCHANGED <<registry, perTool, records, results, queue, calling>>
        /\ stage' = "idle" => stage = "idle"
    BY <1>4 DEF OthersCall, Gather, TurnAnswers, Deduplicate, EmbedBatch, extractorVars
  <2>2. QED
    BY <1>0, <2>1, RecordsStay
<1>5. QED
  BY <1>1, <1>2, <1>3, <1>4 DEF ExtractorsNext

\* What the records found, joined: it has their order.
LEMMA GatheredIs ==
  ASSUME RecordsInv, \A i \in 1..Len(results) : results[i] # Pending
  PROVE  Listed(Gathered) /\ OfRecords(Gathered)
<1>p. PICK n, rs, ls :
        /\ n = Len(records) /\ rs = results
        /\ ls = [i \in 1..Len(results) |-> IF results[i] = Raised THEN <<>> ELSE results[i]]
  OBVIOUS
<1>0. /\ n \in Nat /\ n <= MaxRecords /\ MaxRecords \in Nat /\ Len(rs) = n
      /\ \A i \in 1..n : rs[i] # Pending /\ (rs[i] \in {Pending, Raised} \/ rs[i] \in Seq(FactOf(i)))
  BY <1>p, LenProperties, ExtractorsAssumption DEF RecordsInv, OwnResults
<1>1. ls = [i \in 1..n |-> IF rs[i] = Raised THEN <<>> ELSE rs[i]]
  BY <1>0, <1>p
<1>2. ASSUME NEW i \in 1..n PROVE ls[i] \in Seq(FactOf(i)) /\ ls[i] \in Seq(Fact)
  <2>1. <<>> \in Seq(FactOf(i))
    BY EmptySeq
  <2>2. ls[i] \in Seq(FactOf(i))
    BY <1>0, <1>1, <2>1
  <2>3. FactOf(i) \subseteq Fact
    BY <1>0 DEF FactOf, Fact
  <2>4. QED
    BY <2>2, <2>3, SeqWider
<1>3. ls \in Seq(Seq(Fact)) /\ Len(ls) = n
  <2>1. ls \in [1..n -> Seq(Fact)]
    BY <1>1, <1>2
  <2>2. QED
    BY <1>0, <2>1, ListOf
<1>4. ASSUME NEW i \in 1..n, NEW a \in ToSet(ls[i]) PROVE a \in Fact /\ a.from = i
  <2>1. ToSet(ls[i]) \subseteq FactOf(i)
    BY <1>2, SetOf
  <2>2. a \in FactOf(i)
    BY <2>1
  <2>3. QED
    BY <1>0, <2>2 DEF FactOf, Fact
<1>5. ASSUME NEW i \in 1..n, NEW j \in 1..n, i <= j, NEW a \in ToSet(ls[i]), NEW b \in ToSet(ls[j])
      PROVE  <<a, b>> \in Kin
  <2>1. a \in Fact /\ b \in Fact /\ a.from = i /\ b.from = j
    BY <1>4, <1>5
  <2>2. a.from <= b.from /\ b.from # MaxRecords + 1
    BY <1>0, <1>5, <2>1
  <2>3. QED
    BY <2>1, <2>2 DEF Kin
<1>6. Related(ls, Kin)
  <2>1. ASSUME NEW i \in 1..n PROVE Pairwise(ls[i], Kin)
    <3>p. PICK l : l = ls[i]
      OBVIOUS
    <3>1. \A k \in 1..Len(l) : l[k] \in ToSet(l)
      BY <1>2, <3>p, SetOf
    <3>2. i <= i
      BY <1>0
    <3>3. \A a \in ToSet(l), b \in ToSet(l) : <<a, b>> \in Kin
      BY <1>5, <3>2, <3>p
    <3>4. Pairwise(l, Kin)
      BY <3>1, <3>3 DEF Pairwise
    <3>5. QED
      BY <3>4, <3>p
  <2>2. ASSUME NEW i \in 1..n, NEW j \in 1..n, i < j,
               NEW a \in ToSet(ls[i]), NEW b \in ToSet(ls[j])
        PROVE  <<a, b>> \in Kin
    <3>1. i <= j
      BY <1>0, <2>2
    <3>2. QED
      BY <1>5, <3>1
  <2>3. QED
    BY <1>3, <2>1, <2>2 DEF Related
<1>7. /\ FlattenSeq(ls) \in Seq(Fact) /\ Pairwise(FlattenSeq(ls), Kin)
      /\ \A a \in ToSet(FlattenSeq(ls)) : \E i \in 1..Len(ls) : a \in ToSet(ls[i])
  BY <1>3, <1>6, FlattenPairwise
<1>8. Gathered = FlattenSeq(ls)
  BY <1>p DEF Gathered
<1>9. ASSUME NEW a \in ToSet(FlattenSeq(ls)) PROVE a.from <= MaxRecords
  <2>1. PICK i \in 1..n : a \in ToSet(ls[i])
    BY <1>3, <1>7
  <2>2. a.from = i
    BY <1>4, <2>1
  <2>3. QED
    BY <1>0, <2>2
<1>10. QED
  BY <1>7, <1>8, <1>9 DEF Listed, OfRecords

LEMMA RangeIs == \A s : Range(s) = ToSet(s)
BY DEF Range, ToSet

\* What the turn's own call found: none of it is like another, nor like what
\* there is.
LEMMA TurnFactsAre ==
  ASSUME NEW texts \in Seq(Int)
  PROVE  /\ TurnFacts(texts) \in Seq(Fact)
         /\ \A f \in ToSet(TurnFacts(texts)) : f.from = MaxRecords + 1
<1>p. PICK last, fs : last = MaxRecords + 1 /\ fs = TurnFacts(texts)
  OBVIOUS
<1>1. last \in 1..(MaxRecords + 1) /\ <<"turn">> \in ToolNames
  BY <1>p, ExtractorsAssumption DEF ToolNames
<1>2. fs \in Seq(FactOf(last)) /\ fs \in Seq(Fact)
  BY <1>1, <1>p, FactsAre DEF TurnFacts
<1>3. ToSet(fs) \subseteq FactOf(last)
  BY <1>2, SetOf
<1>4. QED
  BY <1>2, <1>3, <1>p DEF FactOf

LEMMA NovelIs ==
  ASSUME NEW batch \in Seq(Fact), NEW existing \in Seq(Fact)
  PROVE  LET new == Novel(batch, existing)
         IN /\ new \in Seq(Fact) /\ ToSet(new) \subseteq ToSet(batch)
            /\ Pairwise(new, {p \in Fact \X Fact : ~Similar(p[2], p[1])})
            /\ \A f \in ToSet(new), e \in ToSet(existing) : ~Similar(f, e)
<1>p. PICK B, R, T, first, new :
        /\ B = ToSet(batch)
        /\ R = {p \in B \X B : Similar(p[2], p[1])}
        /\ T = {fact \in B : \A e \in ToSet(existing) : ~Similar(fact, e)}
        /\ first = FirstOnly(batch, R) /\ new = Only(first, T)
  OBVIOUS
<1>1. batch \in Seq(B) /\ B \subseteq Fact
  BY <1>p, SetOf
<1>2. Pairwise(batch, B \X B)
  BY <1>1, AllPairs
<1>3. first \in Seq(B) /\ Pairwise(first, (B \X B) \ R)
  BY <1>1, <1>2, <1>p, FirstOnlyIs
<1>4. Pairwise(new, (B \X B) \ R) /\ new \in Seq(B \cap T)
  BY <1>3, <1>p, OnlyPairwise, OnlyType
<1>5. new \in Seq(Fact) /\ ToSet(new) \subseteq B \cap T
  BY <1>1, <1>4, SeqWider, SetOf
<1>6. Pairwise(new, {p \in Fact \X Fact : ~Similar(p[2], p[1])})
  <2>1. ASSUME NEW p \in (B \X B) \ R PROVE p \in {q \in Fact \X Fact : ~Similar(q[2], q[1])}
    BY <1>1, <1>p
  <2>2. QED
    BY <1>4, <2>1 DEF Pairwise
<1>7. \A f \in ToSet(new), e \in ToSet(existing) : ~Similar(f, e)
  BY <1>5, <1>p
<1>8. Novel(batch, existing) = new
  BY <1>p, RangeIs DEF Novel
<1>9. QED
  BY <1>5, <1>6, <1>7, <1>8, <1>p

LEMMA TurnAnswered ==
  ASSUME RecordsInv, StoredInv, TurnAnswers
  PROVE  Listed(facts')
<1>1. PICK texts \in Seq(Int) :
        facts' = IF perTool THEN facts \o Novel(TurnFacts(texts), facts) ELSE TurnFacts(texts)
  BY ExtractorsAssumption DEF TurnAnswers
<1>p. PICK last, old, batch : last = MaxRecords + 1 /\ old = facts /\ batch = TurnFacts(texts)
  OBVIOUS
<1>2. batch \in Seq(Fact) /\ \A f \in ToSet(batch) : f.from = last
  BY <1>p, TurnFactsAre
<1>3. last \in Nat /\ MaxRecords \in Nat
  BY <1>p, ExtractorsAssumption
<1>4. CASE ~perTool
  <2>1. \A k \in 1..Len(batch) : batch[k] \in Fact /\ batch[k].from = last
    <3>1. ToSet(batch) = {batch[k] : k \in 1..Len(batch)}
      BY <1>2, SetOf
    <3>2. QED
      BY <1>2, <3>1, ElementOfSeq
  <2>2. ASSUME NEW i \in 1..Len(batch), NEW j \in 1..Len(batch), i < j
        PROVE  <<batch[i], batch[j]>> \in Kin
    <3>1. batch[i].from <= batch[j].from
      BY <1>3, <2>1
    <3>2. QED
      BY <1>4, <2>1, <3>1 DEF Kin
  <2>3. QED
    BY <1>1, <1>2, <1>4, <1>p, <2>2 DEF Listed, Pairwise
<1>5. CASE perTool
  <2>1. Listed(old) /\ OfRecords(old)
    BY <1>5, <1>p DEF StoredInv, TurnAnswers
  <2>p. PICK new : new = Novel(batch, old)
    OBVIOUS
  <2>2. /\ new \in Seq(Fact) /\ ToSet(new) \subseteq ToSet(batch)
        /\ Pairwise(new, {p \in Fact \X Fact : ~Similar(p[2], p[1])})
        /\ \A f \in ToSet(new), e \in ToSet(old) : ~Similar(f, e)
    BY <1>2, <2>1, <2>p, NovelIs DEF Listed
  <2>3. ToSet(old) \subseteq Fact /\ ToSet(new) \subseteq Fact /\ \A f \in ToSet(new) : f.from = last
    BY <1>2, <2>1, <2>2, SetOf DEF Listed
  <2>4. Pairwise(new, Kin)
    <3>1. ASSUME NEW i \in 1..Len(new), NEW j \in 1..Len(new), i < j
          PROVE  <<new[i], new[j]>> \in Kin
      <4>1. new[i] \in ToSet(new) /\ new[j] \in ToSet(new)
        BY <2>2, SetOf
      <4>p. PICK a, b : a = new[i] /\ b = new[j]
        OBVIOUS
      <4>2. a \in Fact /\ b \in Fact /\ a.from = last /\ b.from = last
        BY <2>3, <4>1, <4>p
      <4>3. ~Similar(b, a)
        BY <2>2, <3>1, <4>p DEF Pairwise
      <4>4. a.from <= b.from
        BY <1>3, <4>2
      <4>5. QED
        BY <4>2, <4>3, <4>4, <4>p DEF Kin
    <3>2. QED
      BY <3>1 DEF Pairwise
  <2>5. ASSUME NEW a \in ToSet(old), NEW b \in ToSet(new) PROVE <<a, b>> \in Kin
    <3>1. a \in Fact /\ b \in Fact /\ b.from = last /\ a.from <= MaxRecords /\ ~Similar(b, a)
      BY <2>1, <2>2, <2>3 DEF OfRecords
    <3>2. a.from \in 1..(MaxRecords + 1)
      BY <3>1 DEF Fact
    <3>3. a.from <= b.from
      BY <1>3, <1>p, <3>1, <3>2
    <3>4. QED
      BY <3>1, <3>3 DEF Kin
  <2>6. Pairwise(old \o new, Kin) /\ old \o new \in Seq(Fact)
    BY <2>1, <2>2, <2>4, <2>5, PairwiseConcat, ConcatProperties DEF Listed
  <2>7. QED
    BY <1>1, <1>5, <1>p, <2>6, <2>p DEF Listed
<1>6. QED
  BY <1>4, <1>5

\* What is stored keeps its order, and has no two facts of the same content.
LEMMA FreshIs ==
  ASSUME NEW batch, Listed(batch), NEW known
  PROVE  Listed(Fresh(batch, known)) /\ Pairwise(Fresh(batch, known), Different)
<1>p. PICK B, R, T, some, new :
        /\ B = ToSet(batch)
        /\ R = {p \in B \X B : Hash(p[1]) = Hash(p[2])}
        /\ T = {fact \in B : Hash(fact) \notin known}
        /\ some = Only(batch, T) /\ new = FirstOnly(some, R)
  OBVIOUS
<1>1. batch \in Seq(B) /\ B \subseteq Fact /\ Pairwise(batch, Kin)
  BY <1>p, SetOf DEF Listed
<1>2. some \in Seq(B \cap T) /\ Pairwise(some, Kin)
  BY <1>1, <1>p, OnlyType, OnlyPairwise
<1>3. some \in Seq(B)
  BY <1>2, SeqWider
<1>4. Pairwise(some, B \X B)
  BY <1>3, AllPairs
<1>5. /\ new \in Seq(B) /\ Pairwise(new, Kin \ R) /\ Pairwise(new, (B \X B) \ R)
  BY <1>2, <1>3, <1>4, <1>p, FirstOnlyIs
<1>6. Listed(new)
  <2>1. new \in Seq(Fact)
    BY <1>1, <1>5, SeqWider
  <2>2. Pairwise(new, Kin)
    BY <1>5 DEF Pairwise
  <2>3. QED
    BY <2>1, <2>2 DEF Listed
<1>7. Pairwise(new, Different)
  <2>1. ASSUME NEW p \in (B \X B) \ R PROVE p \in Different
    BY <1>1, <1>p DEF Different
  <2>2. QED
    BY <1>5, <2>1 DEF Pairwise
<1>8. Fresh(batch, known) = new
  BY <1>p, RangeIs DEF Fresh
<1>9. QED
  BY <1>6, <1>7, <1>8

\* One more batch of vectors: each is of the fact at its place.
LEMMA EmbedsOwn ==
  ASSUME StoredInv, EmbedBatch
  PROVE  /\ OwnVectors(vectors')
         /\ stage' = "embedding" => Len(vectors') < Len(facts)
         /\ stage' = "done" => Len(vectors') = Len(facts)
         /\ stage' \in {"embedding", "done"}
<1>p. PICK vs, m, n, size :
        /\ vs = vectors /\ m = Len(vectors) /\ n = Len(facts)
        /\ size = IF Len(facts) - Len(vectors) < BatchSize THEN Len(facts) - Len(vectors) ELSE BatchSize
  OBVIOUS
<1>1. /\ stage = "embedding" /\ OwnVectors(vs) /\ m < n /\ Listed(facts)
  BY <1>p DEF StoredInv, EmbedBatch
<1>2. m \in Nat /\ n \in Nat /\ BatchSize \in Nat /\ BatchSize > 0
  BY <1>1, <1>p, ExtractorsAssumption, LenProperties DEF OwnVectors, Listed
<1>3. size \in Nat /\ size > 0 /\ m + size <= n
  <2>1. size = IF n - m < BatchSize THEN n - m ELSE BatchSize
    BY <1>p
  <2>2. QED
    BY <1>1, <1>2, <2>1
<1>4. PICK got : /\ vectors' = vs \o Embedded([k \in 1..size |-> m + 1 + k - 1], got)
                 /\ stage' = IF m + 1 + size > n THEN "done" ELSE stage
  BY <1>p DEF EmbedBatch
<1>q. PICK batch, more : batch = [k \in 1..size |-> m + 1 + k - 1] /\ more = Embedded(batch, got)
  OBVIOUS
<1>5. batch \in Seq(Nat) /\ Len(batch) = size /\ \A k \in 1..size : batch[k] = m + k
  <2>1. \A k \in 1..size : m + 1 + k - 1 = m + k /\ m + k \in Nat
    BY <1>2, <1>3
  <2>2. batch \in [1..size -> Nat]
    BY <1>q, <2>1
  <2>3. QED
    BY <1>3, <1>q, <2>1, <2>2, ListOf
<1>6. /\ more \in Seq(Nat \cup {NoVector}) /\ Len(more) = size
      /\ \A k \in 1..size : more[k] \in {m + k, NoVector}
  <2>1. more = [k \in 1..size |-> IF batch[k] \in got THEN batch[k] ELSE NoVector]
    BY <1>5, <1>q DEF Embedded
  <2>2. \A k \in 1..size : more[k] \in {m + k, NoVector} /\ more[k] \in Nat \cup {NoVector}
    BY <1>2, <1>3, <1>5, <2>1
  <2>3. more \in [1..size -> Nat \cup {NoVector}]
    BY <2>1, <2>2
  <2>4. QED
    BY <1>3, <2>2, <2>3, ListOf
<1>r. PICK all : all = vs \o more
  OBVIOUS
<1>7. /\ all \in Seq(Nat \cup {NoVector}) /\ Len(all) = m + size
      /\ \A i \in 1..(m + size) : all[i] = IF i <= m THEN vs[i] ELSE more[i - m]
  <2>1. vs \in Seq(Nat \cup {NoVector}) /\ Len(vs) = m
    BY <1>1, <1>p DEF OwnVectors
  <2>2. QED
    BY <1>6, <1>r, <2>1, ConcatProperties
<1>8. ASSUME NEW i \in 1..(m + size) PROVE all[i] \in {i, NoVector}
  <2>1. CASE i <= m
    BY <1>1, <1>2, <1>3, <1>7, <1>p, <2>1 DEF OwnVectors
  <2>2. CASE ~(i <= m)
    <3>1. i - m \in 1..size /\ m + (i - m) = i
      BY <1>2, <1>3, <2>2
    <3>2. QED
      BY <1>6, <1>7, <2>2, <3>1
  <2>3. QED
    BY <2>1, <2>2
<1>9. OwnVectors(vectors')
  BY <1>4, <1>7, <1>8, <1>q, <1>r DEF OwnVectors
<1>10. Len(vectors') = m + size
  BY <1>4, <1>7, <1>q, <1>r
<1>11. stage' = IF m + size = n THEN "done" ELSE "embedding"
  <2>1. m + 1 + size > n <=> m + size = n
    BY <1>2, <1>3
  <2>2. QED
    BY <1>1, <1>4, <2>1
<1>12. m + size # n => m + size < n
  BY <1>2, <1>3
<1>13. QED
  BY <1>9, <1>10, <1>11, <1>12, <1>p

\* What holds of a list now holds of the next one if it is the same.
LEMMA ListedStays ==
  ASSUME UNCHANGED perTool, NEW fs, Listed(fs), facts' = fs
  PROVE  Listed(facts)'
<1>1. Kin' = Kin
  BY DEF Kin
<1>2. QED
  BY <1>1 DEF Listed

LEMMA StoredKept ==
  RecordsInv /\ StoredInv /\ [ExtractorsNext]_extractorVars => StoredInv'
<1>. SUFFICES ASSUME RecordsInv, StoredInv, [ExtractorsNext]_extractorVars PROVE StoredInv'
  OBVIOUS
<1>0. UNCHANGED perTool
  BY DEF ExtractorsNext, Begin, Acquire, ModelAnswers, OthersCall, Gather, TurnAnswers, Deduplicate,
         EmbedBatch, extractorVars
<1>f. PICK fs : fs = facts
  OBVIOUS
<1>1. CASE UNCHANGED <<stage, facts, vectors>>
  <2>1. (stage = "turn" \/ stage \in {"merged", "embedding", "done"}) => Listed(facts)'
    BY <1>0, <1>1, <1>f, ListedStays DEF StoredInv
  <2>2. OwnVectors(vectors)' /\ (OfRecords(facts) => OfRecords(facts)')
        /\ (Pairwise(facts, Different) => Pairwise(facts, Different)')
    BY <1>1 DEF StoredInv, OwnVectors, OfRecords, Different, Hash
  <2>3. QED
    BY <1>0, <1>1, <2>1, <2>2 DEF StoredInv
<1>2. ASSUME NEW n \in 0..MaxRecords, NEW names \in [1..n -> Names], Begin(names) PROVE StoredInv'
  <2>1. /\ stage = "idle" /\ vectors' = vectors
        /\ stage' \in {"tools", "whole"} /\ (stage' = "whole" => ~perTool')
    BY <1>0, <1>2 DEF Begin, RecordsInv, RegistryTyped
  <2>2. vectors' = <<>> /\ OwnVectors(vectors')
    BY <2>1 DEF StoredInv
  <2>3. QED
    BY <2>1, <2>2 DEF StoredInv
<1>3. CASE Gather
  <2>1. /\ stage' \in {"turn", "merged"} /\ facts' = Gathered /\ vectors' = vectors
        /\ stage = "tools" /\ \A i \in 1..Len(results) : results[i] # Pending
    BY <1>3 DEF Gather
  <2>g. PICK g : g = Gathered
    OBVIOUS
  <2>2. Listed(g) /\ OfRecords(g)
    BY <2>1, <2>g, GatheredIs
  <2>3. Listed(facts)' /\ OfRecords(facts)'
    BY <1>0, <2>1, <2>2, <2>g, ListedStays DEF OfRecords
  <2>4. vectors' = <<>> /\ OwnVectors(vectors')
    BY <2>1 DEF StoredInv
  <2>5. QED
    BY <2>1, <2>3, <2>4 DEF StoredInv
<1>4. CASE TurnAnswers
  <2>1. stage' = "merged" /\ stage \in {"turn", "whole"} /\ vectors' = vectors
    BY <1>4 DEF TurnAnswers
  <2>g. PICK g : g = facts'
    OBVIOUS
  <2>2. Listed(g)
    BY <1>4, <2>g, TurnAnswered
  <2>3. Listed(facts)'
    BY <1>0, <2>2, <2>g, ListedStays
  <2>4. vectors' = <<>> /\ OwnVectors(vectors')
    BY <2>1 DEF StoredInv
  <2>5. QED
    BY <2>1, <2>3, <2>4 DEF StoredInv
<1>5. CASE Deduplicate
  <2>1. PICK known : facts' = Fresh(facts, known)
    BY <1>5 DEF Deduplicate
  <2>2. /\ stage' = IF facts' = <<>> THEN "done" ELSE "embedding"
        /\ stage = "merged" /\ vectors' = vectors
    BY <1>5 DEF Deduplicate
  <2>g. PICK g : g = Fresh(facts, known)
    OBVIOUS
  <2>3. Listed(g) /\ Pairwise(g, Different)
    BY <2>2, <2>g, FreshIs DEF StoredInv
  <2>4. Listed(facts)' /\ Pairwise(facts, Different)'
    BY <1>0, <2>1, <2>3, <2>g, ListedStays DEF Different, Hash
  <2>5. vectors' = <<>> /\ OwnVectors(vectors')
    BY <2>2 DEF StoredInv
  <2>6. Len(g) \in Nat /\ (g = <<>> <=> Len(g) = 0) /\ Len(<<>>) = 0
    BY <2>3, EmptySeq, LenProperties DEF Listed
  <2>7. /\ stage' = "embedding" => Len(vectors') < Len(facts')
        /\ stage' = "done" => Len(vectors') = Len(facts')
    BY <2>1, <2>2, <2>5, <2>6, <2>g
  <2>8. QED
    BY <2>2, <2>4, <2>5, <2>7 DEF StoredInv
<1>6. CASE EmbedBatch
  <2>1. facts' = facts /\ stage = "embedding"
    BY <1>6 DEF EmbedBatch
  <2>2. /\ OwnVectors(vectors')
        /\ stage' = "embedding" => Len(vectors') < Len(facts')
        /\ stage' = "done" => Len(vectors') = Len(facts')
        /\ stage' \in {"embedding", "done"}
    BY <1>6, <2>1, EmbedsOwn
  <2>3. Listed(fs) /\ Pairwise(fs, Different)
    BY <1>f, <2>1 DEF StoredInv
  <2>4. Listed(facts)' /\ Pairwise(facts, Different)'
    BY <1>0, <1>f, <2>1, <2>3, ListedStays DEF Different, Hash
  <2>5. OwnVectors(vectors)'
    BY <2>2 DEF OwnVectors
  <2>6. QED
    BY <2>2, <2>4, <2>5 DEF StoredInv
<1>7. CASE Acquire \/ ModelAnswers \/ OthersCall \/ UNCHANGED extractorVars
  <2>1. UNCHANGED <<stage, facts, vectors>>
    BY <1>7 DEF Acquire, ModelAnswers, OthersCall, extractorVars
  <2>2. QED
    BY <1>1, <2>1
<1>8. QED
  BY <1>2, <1>3, <1>4, <1>5, <1>6, <1>7 DEF ExtractorsNext

\* What is stored of a turn keeps the order of its records, has no fact twice and
\* each with its own vector, and nothing of the turn's own call that is like
\* what comes before it: for any registry, budget and semaphore, and in whatever
\* order the models answer.
THEOREM StoredAsAnswered == ExtractorsSpec => []StoredAligned
<1>1. StoredInv => StoredAligned
  <2>. SUFFICES ASSUME StoredInv, stage = "done" PROVE
         /\ Len(vectors) = Len(facts)
         /\ \A i \in 1..Len(facts) :
              /\ vectors[i] \in {i, NoVector}
              /\ \A j \in 1..i - 1 : facts[j].from <= facts[i].from /\ Hash(facts[i]) # Hash(facts[j])
              /\ perTool /\ facts[i].from = MaxRecords + 1 =>
                   \A j \in 1..i - 1 : ~Similar(facts[i], facts[j])
    BY DEF StoredAligned
  <2>1. Len(vectors) = Len(facts) /\ OwnVectors(vectors) /\ Listed(facts) /\ Pairwise(facts, Different)
    BY DEF StoredInv
  <2>2. ASSUME NEW i \in 1..Len(facts), NEW j \in 1..i - 1
        PROVE  /\ facts[j].from <= facts[i].from /\ Hash(facts[i]) # Hash(facts[j])
               /\ perTool /\ facts[i].from = MaxRecords + 1 => ~Similar(facts[i], facts[j])
    <3>1. j \in 1..Len(facts) /\ j < i
      BY <2>1, LenProperties DEF Listed
    <3>2. <<facts[j], facts[i]>> \in Kin /\ <<facts[j], facts[i]>> \in Different
      BY <2>1, <3>1 DEF Listed, Pairwise
    <3>3. QED
      BY <3>2 DEF Kin, Different
  <2>3. QED
    BY <2>1, <2>2 DEF OwnVectors
<1>2. QED
  BY <1>1, RecordsStart, RecordsKept, StoredKept, PTL DEF ExtractorsSpec

-----------------------------------------------------------------------------
(* The agent loop.  The ids of the calls are those of the results, and then *)
(* those of the calls that are still to be run.                             *)

Messages  == [says : {"calls", "result", "nudge"}, ids : Seq(Nat)]
ToolCalls == [tool : AllTools, id : Nat]
Statuses  == {"ok", "error", "soft_error"}
Part(m, kind) == IF m.says = kind THEN m.ids ELSE <<>>
Ids(t, kind)  == FlattenSeq([i \in 1..Len(t) |-> IF t[i].says = kind THEN t[i].ids ELSE <<>>])
IdsOf(q)      == [i \in 1..Len(q) |-> q[i].id]

Paired(t, q, log) ==
  /\ t \in Seq(Messages) /\ q \in Seq(ToolCalls) /\ log \in Seq(AllTools \X Statuses)
  /\ Ids(t, "calls") = Ids(t, "result") \o IdsOf(q)
  /\ Len(log) + Len(q) = Len(Ids(t, "calls"))

LoopInv ==
  /\ at \in {"calling", "dispatching", "done"}
  /\ at # "done" => Paired(talk, todo, toolLog) /\ (at = "calling" <=> todo = <<>>)

LEMMA MessageParts ==
  ASSUME NEW m \in Messages, NEW kind
  PROVE  Part(m, kind) \in Seq(Nat)
<1>1. m.ids \in Seq(Nat) /\ <<>> \in Seq(Nat)
  BY EmptySeq DEF Messages
<1>2. QED
  BY <1>1 DEF Part

LEMMA IdsAre ==
  ASSUME NEW t \in Seq(Messages), NEW m \in Messages, NEW kind
  PROVE  /\ Ids(t, kind) \in Seq(Nat)
         /\ Ids(Append(t, m), kind) = Ids(t, kind) \o Part(m, kind)
<1>. DEFINE F(l) == [i \in 1..Len(l) |-> Part(l[i], kind)]
<1>p. PICK u, n : u = Append(t, m) /\ n = Len(t)
  OBVIOUS
<1>1. /\ u \in Seq(Messages) /\ Len(u) = n + 1 /\ n \in Nat /\ u[n + 1] = m
      /\ \A i \in 1..n : u[i] = t[i]
  BY <1>p, AppendProperties, LenProperties
<1>2. ASSUME NEW l \in Seq(Messages) PROVE F(l) \in Seq(Seq(Nat)) /\ Len(F(l)) = Len(l)
  <2>1. Len(l) \in Nat /\ \A i \in 1..Len(l) : l[i] \in Messages
    BY LenProperties, ElementOfSeq
  <2>2. \A i \in 1..Len(l) : Part(l[i], kind) \in Seq(Nat)
    BY <2>1, MessageParts
  <2>3. F(l) \in [1..Len(l) -> Seq(Nat)]
    BY <2>2
  <2>4. QED
    BY <2>1, <2>3
<1>3. Part(m, kind) \in Seq(Nat)
  BY MessageParts
<1>4. F(u) = Append(F(t), Part(m, kind))
  <2>p. PICK a, e, b : a = F(t) /\ e = Part(m, kind) /\ b = F(u)
    OBVIOUS
  <2>1. a \in Seq(Seq(Nat)) /\ Len(a) = n /\ e \in Seq(Nat) /\ b \in Seq(Seq(Nat)) /\ Len(b) = n + 1
    <3>1. F(t) \in Seq(Seq(Nat)) /\ Len(F(t)) = Len(t)
      BY <1>2
    <3>2. F(u) \in Seq(Seq(Nat)) /\ Len(F(u)) = Len(u)
      BY <1>1, <1>2
    <3>3. QED
      BY <1>p, <1>1, <1>3, <2>p, <3>1, <3>2
  <2>2. \A i \in 1..n : b[i] = a[i]
    BY <1>p, <1>1, <2>p
  <2>3. b[n + 1] = e
    BY <1>1, <2>p
  <2>. HIDE DEF F
  <2>4. b = Append(a, e)
    BY <1>1, <2>1, <2>2, <2>3
  <2>5. QED
    BY <2>p, <2>4
<1>5. FlattenSeq(F(t)) \in Seq(Nat) /\ FlattenSeq(F(u)) = FlattenSeq(F(t)) \o Part(m, kind)
  <2>1. F(t) \in Seq(Seq(Nat))
    BY <1>2
  <2>. HIDE DEF F
  <2>2. FlattenSeq(F(t)) \in Seq(Nat)
    BY <2>1, FlattenType
  <2>3. FlattenSeq(Append(F(t), Part(m, kind))) = FlattenSeq(F(t)) \o Part(m, kind)
    BY <1>3, <2>1, FlattenAppend
  <2>4. QED
    BY <1>4, <2>2, <2>3
<1>6. \A l : Ids(l, kind) = FlattenSeq(F(l))
  BY DEF Ids, Part
<1>. HIDE DEF F
<1>7. QED
  BY <1>p, <1>5, <1>6

LEMMA IdsOfAre ==
  ASSUME NEW q \in Seq(ToolCalls)
  PROVE  /\ IdsOf(q) \in Seq(Nat) /\ Len(IdsOf(q)) = Len(q)
         /\ q # <<>> => /\ Head(q) \in ToolCalls /\ Tail(q) \in Seq(ToolCalls)
                        /\ Len(Tail(q)) = Len(q) - 1
                        /\ IdsOf(q) = <<Head(q).id>> \o IdsOf(Tail(q))
<1>1. Len(q) \in Nat /\ \A i \in 1..Len(q) : q[i] \in ToolCalls
  BY LenProperties, ElementOfSeq
<1>2. \A i \in 1..Len(q) : q[i].id \in Nat
  BY <1>1 DEF ToolCalls
<1>3. IdsOf(q) \in Seq(Nat) /\ Len(IdsOf(q)) = Len(q)
  <2>1. IdsOf(q) \in [1..Len(q) -> Nat]
    BY <1>2 DEF IdsOf
  <2>2. QED
    BY <1>1, <2>1
<1>4. ASSUME q # <<>>
      PROVE  /\ Head(q) \in ToolCalls /\ Tail(q) \in Seq(ToolCalls)
             /\ Len(Tail(q)) = Len(q) - 1
             /\ IdsOf(q) = <<Head(q).id>> \o IdsOf(Tail(q))
  <2>p. PICK r, h, n : r = Tail(q) /\ h = Head(q) /\ n = Len(q)
    OBVIOUS
  <2>1. /\ n \in Nat /\ n > 0 /\ r \in Seq(ToolCalls) /\ Len(r) = n - 1
        /\ h = q[1] /\ h \in ToolCalls /\ \A i \in 1..(n - 1) : r[i] = q[i + 1]
    BY <1>1, <1>4, <2>p, HeadTailProperties, EmptySeq
  <2>2. /\ IdsOf(q) = [i \in 1..n |-> q[i].id]
        /\ IdsOf(r) = [i \in 1..(n - 1) |-> r[i].id]
    BY <2>p, <2>1 DEF IdsOf
  <2>3. PICK a, b : a = IdsOf(q) /\ b = IdsOf(r)
    OBVIOUS
  <2>4. b \in Seq(Nat) /\ Len(b) = n - 1
    <3>1. \A i \in 1..(n - 1) : r[i].id \in Nat
      <4>1. \A i \in 1..(n - 1) : r[i] \in ToolCalls
        BY <2>1, ElementOfSeq
      <4>2. QED
        BY <4>1 DEF ToolCalls
    <3>2. b \in [1..(n - 1) -> Nat]
      BY <2>2, <2>3, <3>1
    <3>3. n - 1 \in Nat
      BY <2>1
    <3>4. QED
      BY <3>2, <3>3, ListOf, Zenon
  <2>5. a = <<h.id>> \o b
    <3>1. a \in Seq(Nat) /\ Len(a) = n /\ h.id \in Nat
      BY <1>3, <2>p, <2>1, <2>3 DEF ToolCalls
    <3>2. a[1] = h.id
      BY <2>1, <2>2, <2>3
    <3>3. \A i \in 1..(n - 1) : a[i + 1] = b[i]
      BY <2>1, <2>2, <2>3
    <3>4. QED
      BY <2>1, <2>4, <3>1, <3>2, <3>3
  <2>6. QED
    BY <2>p, <2>1, <2>3, <2>5
<1>5. QED
  BY <1>3, <1>4

LEMMA PairedStart == Paired(<<>>, <<>>, <<>>)
<1>p. PICK none : none = <<>>
  OBVIOUS
<1>1. \A S : none \in Seq(S)
  BY <1>p, EmptySeq
<1>2. Len(none) = 0
  BY <1>p
<1>3. \A kind : Ids(none, kind) = <<>>
  <2>. SUFFICES ASSUME NEW kind PROVE Ids(none, kind) = <<>>
    OBVIOUS
  <2>1. [i \in 1..Len(none) |-> IF none[i].says = kind THEN none[i].ids ELSE <<>>] = <<>>
    BY <1>2
  <2>2. QED
    BY <2>1, FlattenEmpty DEF Ids
<1>4. IdsOf(none) = <<>>
  BY <1>2 DEF IdsOf
<1>5. <<>> \o <<>> = <<>>
  BY ConcatEmptySeq
<1>6. Paired(none, none, none)
  BY <1>1, <1>2, <1>3, <1>4, <1>5, <1>p DEF Paired
<1>7. QED
  BY <1>6, <1>p

LEMMA PairedNudge ==
  ASSUME NEW t, NEW q, NEW log, Paired(t, q, log)
  PROVE  Paired(Append(t, Nudge), q, log)
<1>1. t \in Seq(Messages)
  BY DEF Paired
<1>2. Nudge \in Messages /\ Nudge.says = "nudge"
  BY EmptySeq DEF Nudge, Messages
<1>3. \A kind : Ids(t, kind) \in Seq(Nat) /\ Ids(Append(t, Nudge), kind) = Ids(t, kind) \o Part(Nudge, kind)
  BY <1>1, <1>2, IdsAre
<1>4. Part(Nudge, "calls") = <<>> /\ Part(Nudge, "result") = <<>>
  BY <1>2 DEF Part
<1>5. /\ Ids(Append(t, Nudge), "calls") = Ids(t, "calls")
      /\ Ids(Append(t, Nudge), "result") = Ids(t, "result")
  <2>1. \A s \in Seq(Nat) : s \o <<>> = s
    BY ConcatEmptySeq
  <2>2. QED
    BY <1>3, <1>4, <2>1
<1>6. Append(t, Nudge) \in Seq(Messages)
  BY <1>1, <1>2, AppendProperties
<1>7. QED
  BY <1>5, <1>6 DEF Paired

LEMMA PairedCalls ==
  ASSUME NEW t, NEW log, Paired(t, <<>>, log), NEW q \in Seq(ToolCalls)
  PROVE  Paired(Append(t, CallsOf(IdsOf(q))), q, log)
<1>p. PICK m : m = CallsOf(IdsOf(q))
  OBVIOUS
<1>1. t \in Seq(Messages) /\ log \in Seq(AllTools \X Statuses)
  BY DEF Paired
<1>2. IdsOf(q) \in Seq(Nat) /\ Len(IdsOf(q)) = Len(q)
  BY IdsOfAre
<1>3. m \in Messages /\ m.says = "calls" /\ m.ids = IdsOf(q)
  BY <1>p, <1>2 DEF CallsOf, Messages
<1>4. \A kind : Ids(t, kind) \in Seq(Nat) /\ Ids(Append(t, m), kind) = Ids(t, kind) \o Part(m, kind)
  BY <1>1, <1>3, IdsAre
<1>5. Part(m, "calls") = IdsOf(q) /\ Part(m, "result") = <<>>
  BY <1>3 DEF Part
<1>6. /\ Ids(t, "calls") = Ids(t, "result") \o IdsOf(<<>>)
      /\ Len(log) + Len(<<>>) = Len(Ids(t, "calls"))
  BY DEF Paired
<1>7. IdsOf(<<>>) = <<>> /\ \A s \in Seq(Nat) : s \o <<>> = s
  <2>1. Len(<<>>) = 0
    OBVIOUS
  <2>2. IdsOf(<<>>) = <<>>
    BY <2>1 DEF IdsOf
  <2>3. QED
    BY <2>2, ConcatEmptySeq
<1>8. Ids(t, "calls") = Ids(t, "result") /\ Len(log) = Len(Ids(t, "calls"))
  <2>1. Ids(t, "calls") = Ids(t, "result")
    BY <1>4, <1>6, <1>7
  <2>2. Len(<<>>) = 0 /\ Len(log) \in Nat
    BY <1>1, LenProperties
  <2>3. QED
    BY <1>6, <2>1, <2>2
<1>9. Ids(Append(t, m), "calls") = Ids(Append(t, m), "result") \o IdsOf(q)
  <2>1. Ids(Append(t, m), "result") = Ids(t, "result")
    BY <1>4, <1>5, <1>7
  <2>2. Ids(Append(t, m), "calls") = Ids(t, "calls") \o IdsOf(q)
    BY <1>4, <1>5
  <2>3. QED
    BY <1>8, <2>1, <2>2
<1>10. Len(log) + Len(q) = Len(Ids(Append(t, m), "calls"))
  <2>1. Ids(Append(t, m), "calls") = Ids(t, "calls") \o IdsOf(q)
    BY <1>4, <1>5
  <2>2. Len(Ids(t, "calls") \o IdsOf(q)) = Len(Ids(t, "calls")) + Len(IdsOf(q))
    <3>1. PICK a, b : a = Ids(t, "calls") /\ b = IdsOf(q)
      OBVIOUS
    <3>2. a \in Seq(Nat) /\ b \in Seq(Nat)
      BY <1>2, <1>4, <3>1
    <3>3. Len(a \o b) = Len(a) + Len(b)
      BY <3>2
    <3>4. QED
      BY <3>1, <3>3
  <2>3. QED
    BY <1>2, <1>8, <2>1, <2>2
<1>11. Append(t, m) \in Seq(Messages)
  BY <1>1, <1>3, AppendProperties
<1>12. Paired(Append(t, m), q, log)
  BY <1>1, <1>9, <1>10, <1>11 DEF Paired
<1>13. QED
  BY <1>p, <1>12

LEMMA PairedAnswer ==
  ASSUME NEW t, NEW q, NEW log, Paired(t, q, log), q # <<>>, NEW e \in AllTools \X Statuses
  PROVE  Paired(Append(t, AnswerTo(Head(q).id)), Tail(q), Append(log, e))
<1>p. PICK h, r, m : h = Head(q) /\ r = Tail(q) /\ m = AnswerTo(Head(q).id)
  OBVIOUS
<1>1. /\ t \in Seq(Messages) /\ q \in Seq(ToolCalls) /\ log \in Seq(AllTools \X Statuses)
      /\ Ids(t, "calls") = Ids(t, "result") \o IdsOf(q)
      /\ Len(log) + Len(q) = Len(Ids(t, "calls"))
  BY DEF Paired
<1>2. /\ h \in ToolCalls /\ r \in Seq(ToolCalls) /\ Len(r) = Len(q) - 1
      /\ IdsOf(q) = <<h.id>> \o IdsOf(r)
  BY <1>1, <1>p, IdsOfAre
<1>3. h.id \in Nat /\ <<h.id>> \in Seq(Nat) /\ IdsOf(r) \in Seq(Nat)
  <2>1. h.id \in Nat
    BY <1>2 DEF ToolCalls
  <2>2. IdsOf(r) \in Seq(Nat)
    BY <1>2, IdsOfAre
  <2>3. QED
    BY <2>1, <2>2
<1>4. m \in Messages /\ m.says = "result" /\ m.ids = <<h.id>>
  BY <1>p, <1>3 DEF AnswerTo, Messages
<1>5. \A kind : Ids(t, kind) \in Seq(Nat) /\ Ids(Append(t, m), kind) = Ids(t, kind) \o Part(m, kind)
  BY <1>1, <1>4, IdsAre
<1>6. Part(m, "calls") = <<>> /\ Part(m, "result") = <<h.id>>
  BY <1>4 DEF Part
<1>7. Ids(Append(t, m), "calls") = Ids(t, "calls")
  <2>1. \A s \in Seq(Nat) : s \o <<>> = s
    BY ConcatEmptySeq
  <2>2. QED
    BY <1>5, <1>6, <2>1
<1>8. Ids(t, "calls") = Ids(Append(t, m), "result") \o IdsOf(r)
  <2>1. Ids(t, "result") \o (<<h.id>> \o IdsOf(r)) = (Ids(t, "result") \o <<h.id>>) \o IdsOf(r)
    <3>1. PICK a, b, c : a = Ids(t, "result") /\ b = <<h.id>> /\ c = IdsOf(r)
      OBVIOUS
    <3>2. a \in Seq(Nat) /\ b \in Seq(Nat) /\ c \in Seq(Nat)
      BY <1>3, <1>5, <3>1
    <3>3. a \o (b \o c) = (a \o b) \o c
      BY <3>2, Assoc
    <3>4. QED
      BY <3>1, <3>3
  <2>2. Ids(Append(t, m), "result") = Ids(t, "result") \o <<h.id>>
    BY <1>5, <1>6
  <2>3. QED
    BY <1>1, <1>2, <2>1, <2>2
<1>9. Append(log, e) \in Seq(AllTools \X Statuses) /\ Len(Append(log, e)) = Len(log) + 1
  BY <1>1, AppendProperties
<1>10. Len(Append(log, e)) + Len(r) = Len(Ids(t, "calls"))
  <2>1. Len(log) \in Nat /\ Len(q) \in Nat
    BY <1>1, LenProperties
  <2>2. (Len(log) + 1) + (Len(q) - 1) = Len(log) + Len(q)
    BY <2>1
  <2>3. QED
    BY <1>1, <1>2, <1>9, <2>2
<1>11. Append(t, m) \in Seq(Messages)
  BY <1>1, <1>4, AppendProperties
<1>12. Paired(Append(t, m), r, Append(log, e))
  BY <1>2, <1>7, <1>8, <1>9, <1>10, <1>11 DEF Paired
<1>13. QED
  BY <1>p, <1>12

LEMMA LoopStart == LoopInit => LoopInv
BY PairedStart DEF LoopInit, LoopInv

\* The reply to a call that is run, whatever becomes of it.
LEMMA LoopMoves ==
  ASSUME LoopInv, at = "dispatching", NEW status \in Statuses,
         talk' = Append(talk, AnswerTo(Call.id)), Move(status)
  PROVE  LoopInv'
<1>1. Paired(talk, todo, toolLog) /\ todo # <<>> /\ todo \in Seq(ToolCalls)
  BY DEF LoopInv, Paired
<1>2. Call.tool \in AllTools /\ Len(Tail(todo)) = Len(todo) - 1 /\ Len(todo) \in Nat
  <2>1. Call \in ToolCalls /\ Len(Tail(todo)) = Len(todo) - 1
    BY <1>1, IdsOfAre DEF Call
  <2>2. QED
    BY <1>1, <2>1, LenProperties DEF ToolCalls
<1>3. /\ toolLog' = Append(toolLog, <<Call.tool, status>>) /\ todo' = Tail(todo)
      /\ IF Len(todo) > 1 THEN UNCHANGED <<at, iteration, attempt, outcome>> ELSE NextIteration
  BY DEF Move
<1>4. Paired(talk', todo', toolLog')
  <2>1. <<Call.tool, status>> \in AllTools \X Statuses
    BY <1>2
  <2>2. Paired(Append(talk, AnswerTo(Head(todo).id)), Tail(todo), Append(toolLog, <<Call.tool, status>>))
    BY <1>1, <2>1, PairedAnswer
  <2>3. QED
    BY <1>3, <2>2 DEF Call
<1>5. CASE Len(todo) > 1
  <2>1. todo' # <<>> /\ at' = "dispatching"
    <3>1. Len(todo') > 0 /\ at' = at
      BY <1>2, <1>3, <1>5
    <3>2. todo' = <<>> => Len(todo') = 0
      OBVIOUS
    <3>3. QED
      BY <3>1, <3>2
  <2>2. QED
    BY <1>4, <2>1 DEF LoopInv, Paired
<1>6. CASE ~(Len(todo) > 1)
  <2>1. todo' = <<>>
    <3>1. Len(todo') = 0 /\ todo' \in Seq(ToolCalls)
      BY <1>1, <1>2, <1>3, <1>6, IdsOfAre, EmptySeq
    <3>2. QED
      BY <3>1, EmptySeq
  <2>2. at' \in {"calling", "done"}
    BY <1>3, <1>6 DEF NextIteration
  <2>3. QED
    BY <1>4, <2>1, <2>2 DEF LoopInv, Paired
<1>7. QED
  BY <1>5, <1>6

LEMMA LoopKept == LoopInv /\ [LoopNext]_loopVars => LoopInv'
<1>. SUFFICES ASSUME LoopInv, [LoopNext]_loopVars PROVE LoopInv'
  OBVIOUS
<1>f. ASSUME NEW how, Finish(how) PROVE LoopInv'
  BY <1>f DEF Finish, LoopInv
<1>1. CASE CallFails
  <2>1. CASE attempt < MaxRetries /\ UNCHANGED <<at, talk, todo, toolLog>>
    BY <2>1 DEF LoopInv, Paired
  <2>2. QED
    BY <1>1, <2>1, <1>f DEF CallFails
<1>2. CASE CallCutOff
  BY <1>2, <1>f DEF CallCutOff
<1>3. ASSUME NEW text \in BOOLEAN, CallStops(text) PROVE LoopInv'
  <2>1. CASE talk' = Append(talk, Nudge) /\ NextIteration /\ UNCHANGED <<todo, toolLog>>
    <3>1. Paired(talk, todo, toolLog) /\ todo = <<>>
      BY <1>3 DEF LoopInv, CallStops
    <3>2. Paired(Append(talk, Nudge), todo, toolLog)
      BY <3>1, PairedNudge
    <3>3. Paired(talk', todo', toolLog') /\ todo' = <<>>
      BY <2>1, <3>1, <3>2
    <3>4. at' \in {"calling", "done"}
      BY <2>1 DEF NextIteration
    <3>5. QED
      BY <3>3, <3>4 DEF LoopInv, Paired
  <2>2. QED
    BY <1>3, <2>1, <1>f DEF CallStops
<1>4. ASSUME NEW n \in 1..MaxCalls, NEW tools \in [1..n -> AllTools], CallsTools(tools) PROVE LoopInv'
  <2>p. PICK q, c : q = todo' /\ c = Cardinality(Answers)
    OBVIOUS
  <2>1. Paired(talk, todo, toolLog) /\ todo = <<>> /\ at' = "dispatching" /\ toolLog' = toolLog /\ tools # <<>>
    BY <1>4 DEF LoopInv, CallsTools
  <2>2. c \in Nat
    <3>1. talk \in Seq(Messages)
      BY <2>1 DEF Paired
    <3>2. Len(talk) \in Nat
      BY <3>1, LenProperties
    <3>3. IsFiniteSet(1..Len(talk)) /\ Answers \subseteq 1..Len(talk)
      <4>1. IsFiniteSet(1..Len(talk))
        BY <3>2, FS_Interval
      <4>2. QED
        BY <4>1 DEF Answers
    <3>4. QED
      BY <2>p, <3>3, FS_Subset, FS_CardinalityType
  <2>3. /\ n \in Nat /\ n > 0 /\ Len(tools) = n /\ \A i \in 1..n : tools[i] \in AllTools
    BY LoopAssumption
  <2>4. /\ q = [i \in 1..n |-> [tool |-> tools[i], id |-> c + i]]
        /\ talk' = Append(talk, CallsOf([i \in 1..n |-> [j \in 1..n |-> [tool |-> tools[j], id |-> c + j]][i].id]))
    BY <1>4, <2>p, <2>3 DEF CallsTools
  <2>5. q \in Seq(ToolCalls) /\ Len(q) = n
    <3>1. \A i \in 1..n : [tool |-> tools[i], id |-> c + i] \in ToolCalls
      BY <2>2, <2>3 DEF ToolCalls
    <3>2. q \in [1..n -> ToolCalls]
      BY <2>4, <3>1
    <3>3. QED
      BY <2>3, <3>2
  <2>6. talk' = Append(talk, CallsOf(IdsOf(q)))
    <3>1. IdsOf(q) = [i \in 1..n |-> q[i].id]
      BY <2>5 DEF IdsOf
    <3>2. QED
      BY <2>4, <3>1
  <2>7. Paired(talk, <<>>, toolLog)
    BY <2>1
  <2>8. Paired(Append(talk, CallsOf(IdsOf(q))), q, toolLog)
    BY <2>5, <2>7, PairedCalls
  <2>9. Paired(talk', todo', toolLog')
    BY <2>1, <2>6, <2>8, <2>p
  <2>10. todo' # <<>>
    BY <2>3, <2>5, <2>p
  <2>11. QED
    BY <2>1, <2>9, <2>10 DEF LoopInv, Paired
<1>5. CASE Refuse
  <2>1. at = "dispatching" /\ talk' = Append(talk, AnswerTo(Call.id)) /\ Move("error")
    BY <1>5 DEF Refuse, Reply
  <2>2. QED
    BY <2>1, LoopMoves DEF Statuses
<1>6. CASE Return
  <2>1. /\ at = "dispatching" /\ talk' = Append(talk, AnswerTo(Call.id))
        /\ Move("ok") \/ Move("soft_error")
    BY <1>6 DEF Return, Reply
  <2>2. CASE Move("ok")
    BY <2>1, <2>2, LoopMoves DEF Statuses
  <2>3. CASE Move("soft_error")
    BY <2>1, <2>3, LoopMoves DEF Statuses
  <2>4. QED
    BY <2>1, <2>2, <2>3
<1>7. CASE Raise
  <2>1. CASE at' = "done"
    BY <2>1 DEF LoopInv
  <2>2. CASE Reply(FALSE) /\ Move("error")
    <3>1. at = "dispatching" /\ talk' = Append(talk, AnswerTo(Call.id))
      BY <1>7, <2>2 DEF Raise, Reply
    <3>2. QED
      BY <2>2, <3>1, LoopMoves DEF Statuses
  <2>3. QED
    BY <1>7, <2>1, <2>2 DEF Raise
<1>8. CASE BudgetEnds
  BY <1>8 DEF BudgetEnds, LoopInv
<1>9. CASE UNCHANGED loopVars
  BY <1>9 DEF loopVars, LoopInv, Paired
<1>10. QED
  BY <1>1, <1>2, <1>3, <1>4, <1>5, <1>6, <1>7, <1>8, <1>9 DEF LoopNext

\* Whenever the model is called, each call it made has its one result, in the
\* order of the calls, and its entry in the log.
THEOREM CallsAreAnswered == LoopSpec => []LoopAnswersCalls
<1>1. LoopInv => LoopAnswersCalls
  <2>. SUFFICES ASSUME LoopInv, at = "calling"
       PROVE  AnsweredIds = CalledIds /\ Len(toolLog) = Len(CalledIds)
    BY DEF LoopAnswersCalls
  <2>1. Paired(talk, <<>>, toolLog)
    BY DEF LoopInv
  <2>2. /\ Ids(talk, "calls") = Ids(talk, "result") \o IdsOf(<<>>)
        /\ Len(toolLog) + Len(<<>>) = Len(Ids(talk, "calls"))
        /\ talk \in Seq(Messages) /\ toolLog \in Seq(AllTools \X Statuses)
    BY <2>1 DEF Paired
  <2>3. IdsOf(<<>>) = <<>> /\ Len(<<>>) = 0
    <3>1. Len(<<>>) = 0
      OBVIOUS
    <3>2. QED
      BY <3>1 DEF IdsOf
  <2>4. Ids(talk, "result") \o <<>> = Ids(talk, "result")
    <3>1. Nudge \in Messages
      BY EmptySeq DEF Nudge, Messages
    <3>2. Ids(talk, "result") \in Seq(Nat)
      BY <2>2, <3>1, IdsAre
    <3>3. QED
      BY <3>2, ConcatEmptySeq
  <2>5. Len(toolLog) \in Nat
    BY <2>2, LenProperties
  <2>6. CalledIds = Ids(talk, "calls") /\ AnsweredIds = Ids(talk, "result")
    BY DEF CalledIds, AnsweredIds, Ids
  <2>7. Ids(talk, "calls") = Ids(talk, "result")
    BY <2>2, <2>3, <2>4
  <2>8. Len(toolLog) + 0 = Len(Ids(talk, "calls"))
    BY <2>2, <2>3
  <2>9. QED
    BY <2>5, <2>6, <2>7, <2>8
<1>2. QED
  BY <1>1, LoopStart, LoopKept, PTL DEF LoopSpec

-----------------------------------------------------------------------------
(* What goes upstream.  A conversation is made of messages that stand      *)
(* alone and of calls followed by their results.  The rewriting takes some  *)
(* of its messages, in their order, and merges neighbours; MadeOf says what *)
(* such a list has of the conversation, and TakenWhole that it has a result *)
(* if and only if it has the message before it, which keeps calls and       *)
(* results together.                                                       *)

Bodies == {"small", "big", "parts", "marked", "preview", "shrunk"}
ChatMessages ==
  [role : {"user", "assistant", "tool", "system"}, calls : SUBSET Nat, of : Nat \cup {NoCall},
   tool : {"none", "informational", "file"}, body : Bodies, text : Seq(Nat)]

\* Results have calls before them, and calls have all their results after them.
Grouped(msgs) ==
  /\ \A i \in 1..Len(msgs) : IsResult(msgs[i]) =>
       \E j \in 1..(i - 1) : IsCaller(msgs[j]) /\ i \in ResultsAfter(msgs, j)
  /\ \A i \in 1..Len(msgs) : IsCaller(msgs[i]) =>
       {msgs[j].of : j \in ResultsAfter(msgs, i)} = msgs[i].calls

\* What a client sends.
Conversation(c) ==
  /\ c \in Seq(ChatMessages) /\ Grouped(c)
  /\ \A i \in 1..Len(c) : c[i].text = <<i>>

\* A message of the rewritten list: one of the conversation's, or several.
MadeMessage(m, c) ==
  LET t == m.text
      h == t[1]
  IN /\ m \in ChatMessages /\ Len(t) \in Nat \ {0} /\ h \in 1..Len(c)
     /\ m.role = c[h].role /\ m.calls = c[h].calls /\ m.of = c[h].of
     /\ \A i \in ToSet(t) :
          /\ i \in 1..Len(c) /\ h <= i /\ i <= t[Len(t)] /\ c[i].role = m.role
          /\ i # h => m.calls = {} /\ c[i].calls = {} /\ m.role \in {"user", "assistant"}

MadeOf(l, c) ==
  /\ l \in Seq(ChatMessages)
  /\ \A k \in 1..Len(l) : MadeMessage(l[k], c)
  /\ \A k \in 1..Len(l), n \in 1..Len(l) : k < n => l[k].text[Len(l[k].text)] < l[n].text[1]

Heads(l) == {l[k].text[1] : k \in 1..Len(l)}

TakenWhole(l, c) ==
  \A i \in 1..Len(c) : IsResult(c[i]) => (i \in Heads(l) <=> i - 1 \in Heads(l))

-----------------------------------------------------------------------------
\* The end of a list.
LEMMA EndIs ==
  ASSUME NEW S, NEW s \in Seq(S), NEW n \in 1..(Len(s) + 1)
  PROVE  /\ SubSeq(s, n, Len(s)) \in Seq(S) /\ Len(SubSeq(s, n, Len(s))) = Len(s) - n + 1
         /\ \A i \in 1..(Len(s) - n + 1) : SubSeq(s, n, Len(s))[i] = s[n + i - 1]
<1>1. Len(s) \in Nat /\ n \in Int /\ Len(s) \in Int
  BY LenProperties
<1>2. \A i \in n..Len(s) : s[i] \in S
  BY <1>1, ElementOfSeq
<1>3. QED
  BY <1>1, <1>2, SubSeqProperties

LEMMA FirstOfIs ==
  ASSUME NEW P \in SUBSET Nat, NEW none
  PROVE  /\ P = {} => FirstOf(P, none) = none
         /\ P # {} => FirstOf(P, none) \in P /\ \A x \in P : FirstOf(P, none) <= x
<1>1. ASSUME P # {} PROVE FirstOf(P, none) \in P /\ \A x \in P : FirstOf(P, none) <= x
  <2>1. \E i \in P : \A j \in P : i <= j
    BY <1>1, FirstIsIn
  <2>2. FirstOf(P, none) = CHOOSE i \in P : \A j \in P : i <= j
    BY <1>1 DEF FirstOf
  <2>3. QED
    BY <2>1, <2>2
<1>2. QED
  BY <1>1 DEF FirstOf

LEMMA CallerOfIs ==
  ASSUME NEW c, NEW id, NEW before \in Nat \ {0}
  PROVE  /\ CallerOf(c, id, before) \in 0..(before - 1)
         /\ CallerOf(c, id, before) # 0 => IsCaller(c[CallerOf(c, id, before)])
         /\ (\E i \in 1..(before - 1) : IsCaller(c[i]) /\ id \in c[i].calls)
              => CallerOf(c, id, before) # 0
<1>p. PICK C, x : /\ C = {i \in 1..(before - 1) : IsCaller(c[i]) /\ id \in c[i].calls}
                  /\ x = CallerOf(c, id, before)
  OBVIOUS
<1>1. CASE C = {}
  <2>1. x = 0
    BY <1>1, <1>p DEF CallerOf
  <2>2. QED
    BY <1>1, <1>p, <2>1
<1>2. CASE C # {}
  <2>1. C \in SUBSET (1..(before - 1)) /\ before - 1 \in Nat
    BY <1>p
  <2>2. \E i \in C : \A j \in C : j <= i
    BY <1>2, <2>1, LastIsIn
  <2>3. x = CHOOSE i \in C : \A j \in C : j <= i
    BY <1>2, <1>p DEF CallerOf
  <2>4. x \in C
    BY <2>2, <2>3
  <2>5. x \in 1..(before - 1) /\ IsCaller(c[x])
    BY <1>p, <2>4
  <2>6. QED
    BY <1>p, <2>5
<1>3. QED
  BY <1>1, <1>2

\* A result's calls are found before it.
LEMMA ResultHasCaller ==
  ASSUME NEW c, Conversation(c), NEW i \in 1..Len(c), IsResult(c[i])
  PROVE  /\ c[i].of \in Nat /\ CallerOf(c, c[i].of, i) # 0
         /\ i # 1 /\ i - 1 \in 1..Len(c) /\ (IsResult(c[i - 1]) \/ IsCaller(c[i - 1]))
<1>1. c \in Seq(ChatMessages) /\ Grouped(c) /\ Len(c) \in Nat
  BY LenProperties DEF Conversation
<1>2. PICK j \in 1..(i - 1) : IsCaller(c[j]) /\ i \in ResultsAfter(c, j)
  BY <1>1 DEF Grouped
<1>3. j \in 1..Len(c) /\ j < i /\ j \in Nat /\ i \in Nat \ {0}
  BY <1>1, <1>2
<1>4. c[i].of \in c[j].calls
  BY <1>1, <1>2, <1>3 DEF Grouped
<1>5. c[i].of \in Nat
  <2>1. c[j] \in ChatMessages
    BY <1>1, <1>3, ElementOfSeq
  <2>2. c[j].calls \in SUBSET Nat
    BY <2>1 DEF ChatMessages
  <2>3. QED
    BY <1>4, <2>2
<1>6. CallerOf(c, c[i].of, i) # 0
  BY <1>2, <1>3, <1>4, CallerOfIs
<1>7. i # 1 /\ i - 1 \in 1..Len(c)
  BY <1>1, <1>3
<1>8. IsResult(c[i - 1]) \/ IsCaller(c[i - 1])
  <2>1. CASE i - 1 = j
    BY <1>2, <2>1
  <2>2. CASE i - 1 # j
    <3>1. \A k \in (j + 1)..i : IsResult(c[k])
      BY <1>2 DEF ResultsAfter
    <3>2. i - 1 \in (j + 1)..i
      BY <1>3, <2>2
    <3>3. QED
      BY <3>1, <3>2
  <2>3. QED
    BY <2>1, <2>2
<1>9. QED
  BY <1>5, <1>6, <1>7, <1>8

\* A scan ends at the calls of a result, or at no result.
LEMMA WidenedIs ==
  ASSUME NEW c, Conversation(c), NEW start \in 1..Len(c)
  PROVE  Widened(c, start) \in 1..Len(c) /\ ~IsResult(c[Widened(c, start)])
<1>p. PICK O, w : /\ O = {i \in start..Len(c) : /\ IsResult(c[i]) /\ c[i].of # NoCall
                                                /\ CallerOf(c, c[i].of, start) # 0}
                  /\ w = Widened(c, start)
  OBVIOUS
<1>1. c \in Seq(ChatMessages) /\ Len(c) \in Nat
  BY LenProperties DEF Conversation
<1>2. CASE O = {}
  <2>1. w = start
    BY <1>2, <1>p DEF Widened
  <2>2. ~IsResult(c[start])
    <3>1. SUFFICES ASSUME IsResult(c[start]) PROVE FALSE
      OBVIOUS
    <3>2. c[start].of \in Nat /\ CallerOf(c, c[start].of, start) # 0
      BY <3>1, ResultHasCaller
    <3>3. c[start].of # NoCall
      BY <3>2, RewriteAssumption
    <3>4. start \in start..Len(c)
      BY <1>1
    <3>5. QED
      BY <1>2, <1>p, <3>1, <3>2, <3>3, <3>4
  <2>3. QED
    BY <1>p, <2>1, <2>2
<1>3. CASE O # {}
  <2>1. PICK i : i = FirstOf(O, 0)
    OBVIOUS
  <2>2. i \in O
    <3>1. O \in SUBSET Nat
      BY <1>1, <1>p
    <3>2. QED
      BY <1>3, <2>1, <3>1, FirstOfIs
  <2>3. w = CallerOf(c, c[i].of, start)
    BY <1>3, <1>p, <2>1 DEF Widened
  <2>4. w # 0
    BY <1>p, <2>2, <2>3
  <2>5. w \in 0..(start - 1) /\ IsCaller(c[w])
    BY <2>3, <2>4, CallerOfIs
  <2>6. w \in 1..Len(c)
    BY <1>1, <2>4, <2>5
  <2>7. QED
    BY <1>p, <2>5, <2>6 DEF IsCaller, IsResult
<1>4. QED
  BY <1>2, <1>3

\* What too large a tail falls back to starts with a user's message.
LEMMA TurnBoundaryIs ==
  ASSUME NEW c, Conversation(c), Len(c) > 0, IsUser(c[Len(c)])
  PROVE  TurnBoundary(c) \in 1..Len(c) /\ IsUser(c[TurnBoundary(c)])
<1>p. PICK w, U, whole : /\ w = AtLeastOne(Len(c) - MaxTail + 1)
                         /\ U = {i \in w..Len(c) : IsUser(c[i])}
                         /\ whole = {i \in w..Len(c) :
                              IsResult(c[i]) => /\ c[i].of # NoCall
                                                /\ CallerOf(c, c[i].of, i) >= w}
  OBVIOUS
<1>1. Len(c) \in Nat
  BY LenProperties DEF Conversation
<1>2. w \in 1..Len(c)
  BY <1>1, <1>p, RewriteAssumption DEF AtLeastOne
<1>3. U \in SUBSET Nat /\ Len(c) \in U
  BY <1>1, <1>2, <1>p
<1>4. TurnBoundary(c) = FirstOf(U, FirstOf(whole, Len(c) + 1))
  BY <1>p DEF TurnBoundary
<1>5. TurnBoundary(c) \in U
  <2>1. U # {}
    BY <1>3
  <2>2. FirstOf(U, FirstOf(whole, Len(c) + 1)) \in U
    BY <1>3, <2>1, FirstOfIs
  <2>3. QED
    BY <1>4, <2>2
<1>6. QED
  BY <1>2, <1>5, <1>p

\* The tail does not start with a result.
LEMMA TailStartIs ==
  ASSUME NEW c, Conversation(c), Len(c) > 0, IsUser(c[Len(c)])
  PROVE  TailStart(c) \in 1..Len(c) /\ ~IsResult(c[TailStart(c)])
<1>1. Len(c) \in Nat /\ TailSize \in Nat \ {0}
  BY LenProperties, RewriteAssumption DEF Conversation
<1>p. PICK X, first, step :
        /\ X = 1..Len(c) /\ first = AtLeastOne(Len(c) - TailSize + 1)
        /\ step = [p \in X \X (1..TailSize) |-> Widened(c, p[1])]
  OBVIOUS
<1>2. first \in X
  BY <1>1, <1>p DEF AtLeastOne
<1>3. \A x \in X : Widened(c, x) \in X /\ ~IsResult(c[Widened(c, x)])
  BY <1>p, WidenedIs
<1>4. step \in [X \X (1..TailSize) -> X]
  <2>1. \A p \in X \X (1..TailSize) : Widened(c, p[1]) \in X
    BY <1>3
  <2>2. QED
    BY <1>p, <2>1
<1>5. PICK f \in [0..TailSize -> X] : StepByStep(f, first, step, TailSize)
  BY <1>1, <1>2, <1>4, RecursionDefined
<1>6. \A n \in 1..TailSize : f[n - 1] \in X /\ step[<<f[n - 1], n>>] = Widened(c, f[n - 1])
  <2>1. SUFFICES ASSUME NEW n \in 1..TailSize
                 PROVE  f[n - 1] \in X /\ step[<<f[n - 1], n>>] = Widened(c, f[n - 1])
    OBVIOUS
  <2>2. f[n - 1] \in X
    BY <1>1
  <2>3. QED
    BY <1>p, <2>2
<1>7. f = [n \in 0..TailSize |-> IF n = 0 THEN first ELSE Widened(c, f[n - 1])]
  <2>1. f = [n \in 0..TailSize |-> IF n = 0 THEN first ELSE step[<<f[n - 1], n>>]]
    BY <1>5 DEF StepByStep
  <2>2. \A n \in 0..TailSize : n # 0 => n \in 1..TailSize
    BY <1>1
  <2>3. QED
    BY <1>6, <2>1, <2>2
<1>. DEFINE scan[n \in 0..TailSize] ==
              IF n = 0 THEN AtLeastOne(Len(c) - TailSize + 1) ELSE Widened(c, scan[n - 1])
<1>8. scan = [n \in 0..TailSize |-> IF n = 0 THEN first ELSE Widened(c, scan[n - 1])]
  <2>1. \E g : g = [n \in 0..TailSize |->
                     IF n = 0 THEN AtLeastOne(Len(c) - TailSize + 1) ELSE Widened(c, g[n - 1])]
    BY <1>7, <1>p
  <2>2. QED
    BY <2>1, <1>p
<1>9. TailStart(c) = IF Len(c) - scan[TailSize] + 1 > MaxTail THEN TurnBoundary(c) ELSE scan[TailSize]
  BY DEF TailStart
<1>10. scan[TailSize] = f[TailSize]
  <2>. HIDE DEF scan
  <2>1. scan[0] = f[0]
    BY <1>1, <1>7, <1>8
  <2>2. ASSUME NEW n \in 1..TailSize, scan[n - 1] = f[n - 1] PROVE scan[n] = f[n]
    <3>1. n \in 0..TailSize /\ n # 0
      BY <1>1
    <3>2. scan[n] = Widened(c, scan[n - 1]) /\ f[n] = Widened(c, f[n - 1])
      BY <1>7, <1>8, <3>1
    <3>3. QED
      BY <2>2, <3>2
  <2>3. QED
    BY <1>1, <2>1, <2>2, RecursionAlike, SMTT(60)
<1>11. f[TailSize] \in X /\ ~IsResult(c[f[TailSize]])
  <2>1. TailSize \in 1..TailSize /\ TailSize \in 0..TailSize /\ TailSize # 0
    BY <1>1
  <2>2. f[TailSize] = Widened(c, f[TailSize - 1]) /\ f[TailSize - 1] \in X
    BY <1>6, <1>7, <2>1
  <2>3. QED
    BY <1>3, <2>2
<1>12. TurnBoundary(c) \in X /\ ~IsResult(c[TurnBoundary(c)])
  BY <1>p, TurnBoundaryIs DEF IsUser, IsResult
<1>13. QED
  BY <1>9, <1>10, <1>11, <1>12, <1>p

-----------------------------------------------------------------------------
\* A result and the message before it are neighbours in such a list too.
StartsAt(l, k, h) == k \in 1..Len(l) /\ l[k].text[1] = h

LEMMA NextTo ==
  ASSUME NEW c, NEW l, MadeOf(l, c), TakenWhole(l, c), NEW k, NEW h, StartsAt(l, k, h)
  PROVE  /\ k \in 1..Len(l) /\ h \in 1..Len(c)
         /\ IsResult(c[h]) => StartsAt(l, k - 1, h - 1)
         /\ h + 1 \in 1..Len(c) /\ IsResult(c[h + 1]) => StartsAt(l, k + 1, h + 1)
<1>p. PICK m : m = Len(l)
  OBVIOUS
<1>q. k \in 1..m /\ h = l[k].text[1]
  BY <1>p DEF StartsAt
<1>1. m \in Nat
  BY <1>p, LenProperties DEF MadeOf
<1>2. \A n \in 1..m : /\ l[n].text[1] \in 1..Len(c) /\ l[n].text[Len(l[n].text)] \in Nat
                      /\ l[n].text[1] <= l[n].text[Len(l[n].text)]
  <2>1. SUFFICES ASSUME NEW n \in 1..m
                 PROVE  /\ l[n].text[1] \in 1..Len(c) /\ l[n].text[Len(l[n].text)] \in Nat
                        /\ l[n].text[1] <= l[n].text[Len(l[n].text)]
    OBVIOUS
  <2>2. PICK t : t = l[n].text
    OBVIOUS
  <2>3. MadeMessage(l[n], c)
    BY <1>p DEF MadeOf
  <2>4. l[n] \in ChatMessages /\ Len(t) \in Nat \ {0} /\ t[1] \in 1..Len(c)
        /\ \A i \in ToSet(t) : t[1] <= i /\ i <= t[Len(t)]
    BY <2>2, <2>3 DEF MadeMessage
  <2>5. t \in Seq(Nat)
    BY <2>2, <2>4 DEF ChatMessages
  <2>6. Len(t) \in 1..Len(t)
    BY <2>4
  <2>7. t[Len(t)] \in ToSet(t) /\ t[Len(t)] \in Nat
    BY <2>5, <2>6, SetOf, ElementOfSeq
  <2>8. QED
    BY <2>2, <2>4, <2>7
<1>3. \A a, b \in 1..m : a < b => l[a].text[1] < l[b].text[1]
  <2>1. SUFFICES ASSUME NEW a \in 1..m, NEW b \in 1..m, a < b PROVE l[a].text[1] < l[b].text[1]
    OBVIOUS
  <2>2. PICK x, y, z : x = l[a].text[1] /\ y = l[a].text[Len(l[a].text)] /\ z = l[b].text[1]
    OBVIOUS
  <2>3. y < z
    BY <1>p, <2>1, <2>2 DEF MadeOf
  <2>4. x \in 1..Len(c) /\ y \in Nat /\ x <= y /\ z \in 1..Len(c)
    BY <1>2, <2>2
  <2>5. x < z
    BY <2>3, <2>4
  <2>6. QED
    BY <2>2, <2>5
<1>4. h \in 1..Len(c) /\ h \in Nat
  BY <1>2, <1>q
<1>5. Heads(l) = {l[n].text[1] : n \in 1..m}
  BY <1>p DEF Heads
<1>6. ASSUME IsResult(c[h]) PROVE k - 1 \in 1..m /\ l[k - 1].text[1] = h - 1
  <2>1. h \in Heads(l)
    BY <1>5, <1>p, <1>q
  <2>2. h - 1 \in Heads(l)
    BY <1>4, <1>6, <2>1 DEF TakenWhole
  <2>3. PICK n \in 1..m : l[n].text[1] = h - 1
    BY <1>5, <2>2
  <2>4. ~(k < n) /\ k # n
    BY <1>3, <1>4, <1>p, <1>q, <2>3
  <2>5. n < k /\ k - 1 \in 1..m
    BY <1>1, <1>p, <1>q, <2>4
  <2>6. ~(n < k - 1)
    <3>1. SUFFICES ASSUME n < k - 1 PROVE FALSE
      OBVIOUS
    <3>2. l[n].text[1] < l[k - 1].text[1] /\ l[k - 1].text[1] < h
      BY <1>3, <1>p, <1>q, <2>5, <3>1
    <3>3. l[k - 1].text[1] \in Nat
      BY <1>2, <2>5
    <3>4. QED
      BY <1>4, <2>3, <3>2, <3>3
  <2>7. n = k - 1
    BY <1>1, <1>p, <1>q, <2>5, <2>6
  <2>8. QED
    BY <2>3, <2>5, <2>7
<1>7. ASSUME h + 1 \in 1..Len(c), IsResult(c[h + 1])
      PROVE  k + 1 \in 1..m /\ l[k + 1].text[1] = h + 1
  <2>1. h \in Heads(l) /\ (h + 1) - 1 = h
    BY <1>4, <1>5, <1>p, <1>q
  <2>2. h + 1 \in Heads(l)
    BY <1>7, <2>1 DEF TakenWhole
  <2>3. PICK n \in 1..m : l[n].text[1] = h + 1
    BY <1>5, <2>2
  <2>4. ~(n < k) /\ k # n
    BY <1>3, <1>4, <1>p, <1>q, <2>3
  <2>5. k < n /\ k + 1 \in 1..m
    BY <1>1, <1>p, <1>q, <2>4
  <2>6. ~(k + 1 < n)
    <3>1. SUFFICES ASSUME k + 1 < n PROVE FALSE
      OBVIOUS
    <3>2. l[k + 1].text[1] < l[n].text[1] /\ h < l[k + 1].text[1]
      <4>1. k < k + 1
        BY <1>1, <1>p, <1>q
      <4>2. QED
        BY <1>3, <1>p, <1>q, <2>5, <3>1, <4>1
    <3>3. l[k + 1].text[1] \in Nat
      BY <1>2, <2>5
    <3>4. QED
      BY <1>4, <2>3, <3>2, <3>3
  <2>7. n = k + 1
    BY <1>1, <1>p, <1>q, <2>5, <2>6
  <2>8. QED
    BY <2>3, <2>5, <2>7
<1>8. QED
  BY <1>4, <1>6, <1>7, <1>p, <1>q DEF StartsAt

\* The results after a place are taken with it.
AreResults(c, from, to) == \A i \in from..to : IsResult(c[i])
Follow(l, k, h, d) == \A e \in 0..d : StartsAt(l, k + e, h + e)

LEMMA Within ==
  ASSUME NEW h \in Nat, NEW d \in Nat, NEW e \in Nat, NEW n \in Nat, h + d \in 1..n, e + 1 <= d
  PROVE  /\ h + (e + 1) \in 1..n /\ h + (e + 1) \in (h + 1)..(h + d)
         /\ (h + e) + 1 = h + (e + 1)
OBVIOUS

LEMMA RunDown ==
  ASSUME NEW c, NEW l, MadeOf(l, c), TakenWhole(l, c), NEW k, NEW h, StartsAt(l, k, h),
         NEW d \in Nat, Len(c) \in Nat, h + d \in 1..Len(c), AreResults(c, h + 1, h + d)
  PROVE  Follow(l, k, h, d)
<1>1. k \in Nat /\ h \in Nat
  <2>1. k \in 1..Len(l) /\ h \in 1..Len(c)
    BY NextTo
  <2>2. QED
    BY <2>1
<1>. DEFINE I == {e \in Nat : e <= d => StartsAt(l, k + e, h + e)}
<1>2. 0 \in I
  <2>1. k + 0 = k /\ h + 0 = h
    BY <1>1
  <2>2. QED
    BY <2>1
<1>3. ASSUME NEW e \in Nat, e \in I PROVE e + 1 \in I
  <2>1. SUFFICES ASSUME e + 1 <= d PROVE StartsAt(l, k + (e + 1), h + (e + 1))
    BY <1>3
  <2>2. PICK n, x, y : n = k + e /\ x = h + e /\ y = h + (e + 1)
    OBVIOUS
  <2>3. StartsAt(l, n, x)
    BY <1>3, <2>1, <2>2
  <2>4. y \in 1..Len(c) /\ y \in (h + 1)..(h + d) /\ x + 1 = y
    BY <1>1, <2>1, <2>2, Within
  <2>5. x + 1 \in 1..Len(c) /\ IsResult(c[x + 1])
    BY <2>4 DEF AreResults
  <2>6. StartsAt(l, n + 1, x + 1)
    BY <2>3, <2>5, NextTo
  <2>7. n + 1 = k + (e + 1)
    BY <1>1, <2>2
  <2>8. QED
    BY <2>2, <2>4, <2>6, <2>7
<1>4. Nat \subseteq I
  <2>. HIDE DEF I
  <2>1. QED
    BY <1>2, <1>3, SetInduction
<1>5. QED
  BY <1>4 DEF Follow

\* So are those before a result.
LEMMA RunUp ==
  ASSUME NEW c, NEW l, MadeOf(l, c), TakenWhole(l, c), NEW k, NEW h, StartsAt(l, k, h),
         NEW d \in Nat, AreResults(c, h - d + 1, h)
  PROVE  StartsAt(l, k - d, h - d)
<1>1. k \in Nat /\ h \in Nat
  <2>1. k \in 1..Len(l) /\ h \in 1..Len(c)
    BY NextTo
  <2>2. QED
    BY <2>1
<1>. DEFINE I == {e \in Nat : e <= d => StartsAt(l, k - e, h - e)}
<1>2. 0 \in I
  <2>1. k - 0 = k /\ h - 0 = h
    BY <1>1
  <2>2. QED
    BY <2>1
<1>3. ASSUME NEW e \in Nat, e \in I PROVE e + 1 \in I
  <2>1. SUFFICES ASSUME e + 1 <= d PROVE StartsAt(l, k - (e + 1), h - (e + 1))
    BY <1>3
  <2>2. PICK n, x : n = k - e /\ x = h - e
    OBVIOUS
  <2>3. StartsAt(l, n, x)
    BY <1>3, <2>1, <2>2
  <2>4. x \in (h - d + 1)..h
    BY <1>1, <2>1, <2>2
  <2>5. IsResult(c[x])
    BY <2>4 DEF AreResults
  <2>6. StartsAt(l, n - 1, x - 1)
    BY <2>3, <2>5, NextTo
  <2>7. n - 1 = k - (e + 1) /\ x - 1 = h - (e + 1)
    BY <1>1, <2>2
  <2>8. QED
    BY <2>6, <2>7
<1>4. Nat \subseteq I
  <2>. HIDE DEF I
  <2>1. QED
    BY <1>2, <1>3, SetInduction
<1>5. QED
  BY <1>4

\* A run of results in the list is one in the conversation.
LEMMA RunIn ==
  ASSUME NEW c, NEW l, MadeOf(l, c), TakenWhole(l, c), NEW k, NEW h, StartsAt(l, k, h),
         NEW n \in 1..Len(l), k <= n, \A i \in (k + 1)..n : IsResult(l[i])
  PROVE  StartsAt(l, n, h + (n - k)) /\ AreResults(c, h + 1, h + (n - k))
<1>p. PICK m : m = Len(l)
  OBVIOUS
<1>1. m \in Nat /\ k \in 1..m /\ k \in Nat /\ h \in Nat /\ n \in Nat /\ n \in 1..m
  <2>1. k \in 1..m /\ h \in 1..Len(c)
    BY <1>p, NextTo
  <2>2. m \in Nat
    BY <1>p, LenProperties DEF MadeOf
  <2>3. QED
    BY <1>p, <2>1, <2>2
<1>. DEFINE I == {e \in Nat : k + e <= n => /\ StartsAt(l, k + e, h + e)
                                             /\ \A i \in (h + 1)..(h + e) : IsResult(c[i])}
<1>2. 0 \in I
  <2>1. k + 0 = k /\ h + 0 = h /\ (h + 1)..h = {}
    BY <1>1
  <2>2. QED
    BY <2>1
<1>3. ASSUME NEW e \in Nat, e \in I PROVE e + 1 \in I
  <2>1. SUFFICES ASSUME k + (e + 1) <= n
                 PROVE  /\ StartsAt(l, k + (e + 1), h + (e + 1))
                        /\ \A i \in (h + 1)..(h + (e + 1)) : IsResult(c[i])
    BY <1>3
  <2>2. StartsAt(l, k + e, h + e) /\ \A i \in (h + 1)..(h + e) : IsResult(c[i])
    <3>1. k + e <= n
      BY <1>1, <2>1
    <3>2. QED
      BY <1>3, <3>1
  <2>3. PICK x, y : x = k + (e + 1) /\ y = l[x].text[1]
    OBVIOUS
  <2>4. x \in 1..m /\ x \in (k + 1)..n /\ x - 1 = k + e
    BY <1>1, <2>1, <2>3
  <2>5. StartsAt(l, x, y)
    BY <1>p, <2>3, <2>4 DEF StartsAt
  <2>6. IsResult(c[y])
    <3>1. IsResult(l[x])
      BY <2>4
    <3>2. MadeMessage(l[x], c)
      BY <1>p, <2>4 DEF MadeOf
    <3>3. QED
      BY <2>3, <3>1, <3>2 DEF MadeMessage, IsResult
  <2>7. StartsAt(l, x - 1, y - 1) /\ y \in 1..Len(c)
    BY <2>5, <2>6, NextTo
  <2>8. y - 1 = h + e
    BY <2>2, <2>4, <2>7 DEF StartsAt
  <2>9. y = h + (e + 1)
    <3>1. y \in Int
      BY <2>7
    <3>2. QED
      BY <1>1, <2>8, <3>1
  <2>10. \A i \in (h + 1)..(h + (e + 1)) : i \in (h + 1)..(h + e) \/ i = h + (e + 1)
    BY <1>1
  <2>11. QED
    BY <2>2, <2>3, <2>5, <2>6, <2>9, <2>10
<1>4. n - k \in I
  <2>0. n - k \in Nat
    BY <1>1
  <2>1. Nat \subseteq I
    <3>. HIDE DEF I
    <3>1. QED
      BY <1>2, <1>3, SetInduction
  <2>. HIDE DEF I
  <2>2. QED
    BY <2>0, <2>1
<1>5. k + (n - k) = n
  BY <1>1
<1>6. QED
  BY <1>1, <1>4, <1>5 DEF AreResults

\* Calls and results that are taken whole stay together.
LEMMA TakenIsGrouped ==
  ASSUME NEW c, Conversation(c), NEW l, MadeOf(l, c), TakenWhole(l, c)
  PROVE  Grouped(l)
<1>p. PICK m : m = Len(l)
  OBVIOUS
<1>1. m \in Nat /\ Len(c) \in Nat /\ Grouped(c)
  BY <1>p, LenProperties DEF MadeOf, Conversation
<1>2. \A k \in 1..m : /\ l[k].text[1] \in 1..Len(c) /\ l[k].calls = c[l[k].text[1]].calls
                      /\ l[k].of = c[l[k].text[1]].of
                      /\ IsResult(l[k]) <=> IsResult(c[l[k].text[1]])
                      /\ IsCaller(l[k]) <=> IsCaller(c[l[k].text[1]])
  <2>1. SUFFICES ASSUME NEW k \in 1..m
                 PROVE  /\ l[k].text[1] \in 1..Len(c) /\ l[k].calls = c[l[k].text[1]].calls
                        /\ l[k].of = c[l[k].text[1]].of
                        /\ IsResult(l[k]) <=> IsResult(c[l[k].text[1]])
                        /\ IsCaller(l[k]) <=> IsCaller(c[l[k].text[1]])
    OBVIOUS
  <2>2. MadeMessage(l[k], c)
    BY <1>p DEF MadeOf
  <2>3. QED
    BY <2>2 DEF MadeMessage, IsResult, IsCaller
<1>3. ASSUME NEW n \in 1..m, IsResult(l[n])
      PROVE  \E k \in 1..(n - 1) : IsCaller(l[k]) /\ n \in ResultsAfter(l, k)
  <2>p. PICK i : i = l[n].text[1]
    OBVIOUS
  <2>1. i \in 1..Len(c) /\ IsResult(c[i]) /\ i \in Nat
    BY <1>2, <1>3, <2>p
  <2>2. PICK j \in 1..(i - 1) : IsCaller(c[j]) /\ i \in ResultsAfter(c, j)
    BY <1>1, <2>1 DEF Grouped
  <2>3. \A x \in (j + 1)..i : IsResult(c[x])
    BY <2>2 DEF ResultsAfter
  <2>4. PICK d : d = i - j
    OBVIOUS
  <2>5. d \in Nat /\ d # 0 /\ i - d = j /\ j + d = i /\ i - d + 1 = j + 1
    BY <2>1, <2>4
  <2>6. StartsAt(l, n, i) /\ AreResults(c, i - d + 1, i)
    BY <1>p, <2>3, <2>5, <2>p DEF StartsAt, AreResults
  <2>7. StartsAt(l, n - d, i - d)
    BY <2>5, <2>6, RunUp
  <2>8. PICK k : k = n - d
    OBVIOUS
  <2>9. k \in 1..m /\ l[k].text[1] = j /\ k + d = n /\ k \in 1..(n - 1)
    <3>1. k \in 1..m /\ l[k].text[1] = j
      BY <1>p, <2>5, <2>7, <2>8 DEF StartsAt
    <3>2. QED
      BY <1>1, <2>5, <2>8, <3>1
  <2>10. IsCaller(l[k])
    BY <1>2, <2>2, <2>9
  <2>11. ASSUME NEW x \in (k + 1)..n PROVE IsResult(l[x])
    <3>1. PICK e : e = x - k
      OBVIOUS
    <3>2. e \in 0..d /\ e # 0 /\ k + e = x
      BY <1>1, <2>5, <2>9, <3>1
    <3>3. j + d \in 1..Len(c)
      BY <2>1, <2>5
    <3>4. AreResults(c, j + 1, j + d)
      BY <2>3, <2>5 DEF AreResults
    <3>5. x \in 1..m /\ l[x].text[1] = j + e
      <4>1. StartsAt(l, k, j) /\ d \in Nat /\ Len(c) \in Nat
        BY <1>1, <1>p, <2>5, <2>9 DEF StartsAt
      <4>2. Follow(l, k, j, d)
        BY <3>3, <3>4, <4>1, RunDown
      <4>3. QED
        BY <1>p, <2>9, <3>2, <4>2 DEF Follow, StartsAt
    <3>6. j + e \in (j + 1)..i
      BY <2>5, <3>2
    <3>7. QED
      BY <1>2, <2>3, <3>5, <3>6
  <2>12. n \in (k + 1)..Len(l)
    BY <1>1, <1>p, <2>9
  <2>13. n \in ResultsAfter(l, k)
    BY <2>11, <2>12 DEF ResultsAfter
  <2>14. QED
    BY <2>9, <2>10, <2>13
<1>4. ASSUME NEW n \in 1..m, IsCaller(l[n])
      PROVE  {l[x].of : x \in ResultsAfter(l, n)} = l[n].calls
  <2>p. PICK j : j = l[n].text[1]
    OBVIOUS
  <2>1. j \in 1..Len(c) /\ IsCaller(c[j]) /\ l[n].calls = c[j].calls
    BY <1>2, <1>4, <2>p
  <2>2. {c[i].of : i \in ResultsAfter(c, j)} = c[j].calls
    BY <1>1, <2>1 DEF Grouped
  <2>3. ASSUME NEW i \in ResultsAfter(c, j) PROVE \E x \in ResultsAfter(l, n) : l[x].of = c[i].of
    <3>1. i \in (j + 1)..Len(c) /\ \A x \in (j + 1)..i : IsResult(c[x])
      BY <2>3 DEF ResultsAfter
    <3>2. PICK d : d = i - j
      OBVIOUS
    <3>3. d \in Nat /\ d # 0 /\ j + d = i /\ j + d \in 1..Len(c)
      <4>1. j \in Nat /\ i \in 1..Len(c) /\ j < i
        BY <1>1, <2>1, <3>1
      <4>2. QED
        BY <3>2, <4>1
    <3>4. \A e \in 0..d : n + e \in 1..m /\ l[n + e].text[1] = j + e
      <4>1. AreResults(c, j + 1, j + d)
        BY <3>1, <3>3 DEF AreResults
      <4>2. StartsAt(l, n, j)
        BY <1>p, <2>p DEF StartsAt
      <4>3. Follow(l, n, j, d)
        BY <1>1, <3>3, <4>1, <4>2, RunDown
      <4>4. QED
        BY <1>p, <4>3 DEF Follow, StartsAt
    <3>5. ASSUME NEW x \in (n + 1)..(n + d) PROVE IsResult(l[x])
      <4>1. PICK e : e = x - n
        OBVIOUS
      <4>2. e \in 0..d /\ e # 0 /\ n + e = x /\ j + e \in (j + 1)..i
        <5>1. n \in Nat /\ j \in Nat /\ d \in Nat /\ j + d = i
          BY <1>1, <2>1, <3>3
        <5>2. QED
          BY <3>5, <4>1, <5>1
      <4>3. x \in 1..m /\ l[x].text[1] = j + e
        BY <3>4, <4>2
      <4>4. QED
        BY <1>2, <3>1, <4>2, <4>3
    <3>6. d \in 0..d
      BY <3>3
    <3>7. n + d \in 1..m /\ l[n + d].text[1] = i
      BY <3>3, <3>4, <3>6
    <3>8. n + d \in (n + 1)..Len(l)
      BY <1>1, <1>p, <3>3, <3>7
    <3>9. n + d \in ResultsAfter(l, n)
      BY <3>5, <3>8 DEF ResultsAfter
    <3>10. l[n + d].of = c[i].of
      BY <1>2, <3>7
    <3>11. QED
      BY <3>9, <3>10
  <2>4. ASSUME NEW x \in ResultsAfter(l, n) PROVE \E i \in ResultsAfter(c, j) : c[i].of = l[x].of
    <3>1. x \in (n + 1)..m /\ \A y \in (n + 1)..x : IsResult(l[y])
      BY <1>p, <2>4 DEF ResultsAfter
    <3>2. x \in 1..m /\ n <= x
      BY <1>1, <3>1
    <3>3. /\ l[x].text[1] = j + (x - n)
          /\ \A i \in (j + 1)..l[x].text[1] : IsResult(c[i])
      <4>1. StartsAt(l, n, j) /\ x \in 1..Len(l) /\ \A y \in (n + 1)..x : IsResult(l[y])
        BY <1>p, <2>p, <3>1, <3>2 DEF StartsAt
      <4>2. StartsAt(l, x, j + (x - n)) /\ AreResults(c, j + 1, j + (x - n))
        BY <3>2, <4>1, RunIn
      <4>3. QED
        BY <4>2 DEF StartsAt, AreResults
    <3>4. PICK i : i = l[x].text[1]
      OBVIOUS
    <3>5. i \in 1..Len(c) /\ c[i].of = l[x].of
      BY <1>2, <3>2, <3>4
    <3>6. i \in (j + 1)..Len(c)
      BY <1>1, <2>1, <3>1, <3>3, <3>4, <3>5
    <3>7. i \in ResultsAfter(c, j)
      BY <3>3, <3>4, <3>6 DEF ResultsAfter
    <3>8. QED
      BY <3>5, <3>7
  <2>5. QED
    BY <2>1, <2>2, <2>3, <2>4
<1>5. QED
  BY <1>3, <1>4, <1>p DEF Grouped

-----------------------------------------------------------------------------
(* The messages of the rewritten list.                                     *)

\* A message of the conversation is made of itself.
LEMMA OwnMessage ==
  ASSUME NEW c, Conversation(c), NEW i \in 1..Len(c)
  PROVE  MadeMessage(c[i], c) /\ c[i].text = <<i>> /\ c[i].text[1] = i /\ Len(c[i].text) = 1
<1>p. PICK t : t = c[i].text
  OBVIOUS
<1>1. c \in Seq(ChatMessages) /\ t = <<i>> /\ Len(c) \in Nat
  BY <1>p, LenProperties DEF Conversation
<1>2. c[i] \in ChatMessages
  BY <1>1, ElementOfSeq
<1>3. Len(t) = 1 /\ t[1] = i
  BY <1>1
<1>4. ToSet(t) = {i}
  <2>1. t \in Seq(Nat)
    BY <1>2, <1>p DEF ChatMessages
  <2>2. ToSet(t) = {t[k] : k \in 1..Len(t)}
    BY <2>1, SetOf
  <2>3. QED
    BY <1>3, <2>2
<1>5. MadeMessage(c[i], c)
  <2>1. PICK m : m = c[i]
    OBVIOUS
  <2>2. /\ m \in ChatMessages /\ m.text = t /\ m.role = c[i].role /\ m.calls = c[i].calls
        /\ m.of = c[i].of
    BY <1>2, <1>p, <2>1
  <2>3. \A x \in ToSet(t) : x \in 1..Len(c) /\ x = i /\ i <= x /\ x <= i
    BY <1>1, <1>4
  <2>4. Len(t) \in Nat \ {0} /\ t[1] = i /\ t[Len(t)] = i
    BY <1>3
  <2>5. MadeMessage(m, c)
    BY <2>2, <2>3, <2>4 DEF MadeMessage
  <2>6. QED
    BY <2>1, <2>5
<1>6. QED
  BY <1>1, <1>3, <1>5, <1>p

LEMMA OtherBody ==
  ASSUME NEW c, NEW m, MadeMessage(m, c), NEW b \in Bodies
  PROVE  MadeMessage([m EXCEPT !.body = b], c) /\ [m EXCEPT !.body = b].text = m.text
<1>p. PICK o : o = [m EXCEPT !.body = b]
  OBVIOUS
<1>1. m \in ChatMessages
  BY DEF MadeMessage
<1>2. o \in ChatMessages /\ o.text = m.text /\ o.role = m.role /\ o.calls = m.calls /\ o.of = m.of
  BY <1>1, <1>p DEF ChatMessages
<1>3. MadeMessage(o, c)
  BY <1>2 DEF MadeMessage
<1>4. QED
  BY <1>2, <1>3, <1>p

LEMMA CondensedIs ==
  ASSUME NEW c, NEW m, MadeMessage(m, c)
  PROVE  /\ MadeMessage(Condensed(m), c) /\ Condensed(m).text = m.text
         /\ MadeMessage(Shrunk(m), c) /\ Shrunk(m).text = m.text
<1>. DEFINE Other(b) == [m EXCEPT !.body = b]
            Same(o) == MadeMessage(o, c) /\ o.text = m.text
<1>0. \A b \in Bodies : Same(Other(b))
  BY OtherBody
<1>1. Same(m) /\ Same(Other("preview")) /\ Same(Other("small")) /\ Same(Other("shrunk"))
  <2>1. Same(m)
    OBVIOUS
  <2>. HIDE DEF Same, Other
  <2>2. Same(Other("preview")) /\ Same(Other("small")) /\ Same(Other("shrunk"))
    <3>1. "preview" \in Bodies /\ "small" \in Bodies /\ "shrunk" \in Bodies
      BY DEF Bodies
    <3>2. QED
      BY <1>0, <3>1
  <2>3. QED
    BY <2>1, <2>2
<1>2. \/ Condensed(m) = m \/ Condensed(m) = Other("preview") \/ Condensed(m) = Other("small")
  BY DEF Condensed
<1>3. Shrunk(m) = m \/ Shrunk(m) = Other("shrunk")
  BY DEF Shrunk
<1>4. Same(Condensed(m))
  <2>. HIDE DEF Same, Other
  <2>1. QED
    BY <1>1, <1>2
<1>5. Same(Shrunk(m))
  <2>. HIDE DEF Same, Other
  <2>1. QED
    BY <1>1, <1>3
<1>6. QED
  BY <1>4, <1>5

LEMMA TextsIs ==
  ASSUME NEW l, NEW x
  PROVE  x \in Texts(l) <=> \E k \in 1..Len(l) : \E n \in 1..Len(l[k].text) : x = l[k].text[n]
<1>. DEFINE D(k) == {l[k].text[n] : n \in 1..Len(l[k].text)}
<1>1. Texts(l) = UNION {D(k) : k \in 1..Len(l)}
  BY DEF Texts
<1>2. x \in Texts(l) <=> \E k \in 1..Len(l) : x \in D(k)
  <2>. HIDE DEF D
  <2>1. QED
    BY <1>1
<1>3. QED
  BY <1>2

\* Other messages made of the same ones.
LEMMA SameTexts ==
  ASSUME NEW c, NEW l, MadeOf(l, c), NEW r, DOMAIN r = 1..Len(l), r = [k \in 1..Len(l) |-> r[k]],
         \A k \in 1..Len(l) : MadeMessage(r[k], c) /\ r[k].text = l[k].text
  PROVE  MadeOf(r, c) /\ Len(r) = Len(l) /\ Heads(r) = Heads(l) /\ Texts(r) = Texts(l)
<1>p. PICK m : m = Len(l)
  OBVIOUS
<1>1. m \in Nat
  BY <1>p, LenProperties DEF MadeOf
<1>2. \A k \in 1..m : r[k] \in ChatMessages
  BY <1>p DEF MadeMessage
<1>3. r \in [1..m -> ChatMessages]
  BY <1>2, <1>p
<1>4. r \in Seq(ChatMessages) /\ Len(r) = m
  BY <1>1, <1>3, ListOf
<1>5. \A k \in 1..m, n \in 1..m : k < n => r[k].text[Len(r[k].text)] < r[n].text[1]
  BY <1>p DEF MadeOf
<1>6. MadeOf(r, c)
  BY <1>4, <1>5, <1>p DEF MadeOf
<1>7. Heads(r) = Heads(l)
  BY <1>4, <1>p DEF Heads
<1>8. Texts(r) = Texts(l)
  <2>1. ASSUME NEW x PROVE x \in Texts(r) <=> x \in Texts(l)
    BY <1>4, <1>p, TextsIs
  <2>2. QED
    BY <2>1
<1>9. QED
  BY <1>4, <1>6, <1>7, <1>8, <1>p

-----------------------------------------------------------------------------
(* The tail: its neighbours are merged, and all of it stays.               *)

\* What MadeOf says of the places of a list.
LEMMA MadeOfIs ==
  ASSUME NEW c, NEW l, MadeOf(l, c), NEW k \in 1..Len(l)
  PROVE  /\ l[k] \in ChatMessages /\ l[k].text \in Seq(Nat) /\ Len(l[k].text) \in Nat \ {0}
         /\ l[k].text[1] \in 1..Len(c) /\ l[k].text[Len(l[k].text)] \in 1..Len(c)
         /\ l[k].text[1] <= l[k].text[Len(l[k].text)]
         /\ l[k].role = c[l[k].text[1]].role /\ l[k].calls = c[l[k].text[1]].calls
         /\ l[k].of = c[l[k].text[1]].of
         /\ \A i \in ToSet(l[k].text) :
              /\ i \in 1..Len(c) /\ l[k].text[1] <= i /\ i <= l[k].text[Len(l[k].text)]
              /\ c[i].role = l[k].role
         /\ \A x \in 1..Len(l[k].text) : l[k].text[x] \in ToSet(l[k].text)
<1>p. PICK t, m : t = l[k].text /\ m = l[k]
  OBVIOUS
<1>1. MadeMessage(m, c)
  BY <1>p DEF MadeOf
<1>2. /\ m \in ChatMessages /\ Len(t) \in Nat \ {0} /\ t[1] \in 1..Len(c)
      /\ m.role = c[t[1]].role /\ m.calls = c[t[1]].calls /\ m.of = c[t[1]].of
      /\ \A i \in ToSet(t) : i \in 1..Len(c) /\ t[1] <= i /\ i <= t[Len(t)] /\ c[i].role = m.role
  BY <1>1, <1>p DEF MadeMessage
<1>3. t \in Seq(Nat)
  BY <1>2, <1>p DEF ChatMessages
<1>4. \A x \in 1..Len(t) : t[x] \in ToSet(t)
  BY <1>3, SetOf
<1>5. Len(t) \in 1..Len(t)
  BY <1>2
<1>6. t[Len(t)] \in 1..Len(c) /\ t[1] <= t[Len(t)]
  BY <1>2, <1>4, <1>5
<1>7. QED
  BY <1>2, <1>3, <1>4, <1>6, <1>p

\* A list that has all of the messages from a to b.
Gathers(r, c, a, b) ==
  /\ MadeOf(r, c)
  /\ \A k \in 1..Len(r) : a <= r[k].text[1] /\ r[k].text[Len(r[k].text)] <= b
  /\ \A i \in a..b : i \in Texts(r) /\ (IsResult(c[i]) \/ IsCaller(c[i]) => i \in Heads(r))

LEMMA MergedType ==
  ASSUME NEW r \in Seq(ChatMessages), NEW msg \in ChatMessages
  PROVE  Merged(r, msg) \in Seq(ChatMessages)
<1>p. PICK n : n = Len(r)
  OBVIOUS
<1>1. Append(r, msg) \in Seq(ChatMessages) /\ n \in Nat
  BY <1>p, AppendProperties, LenProperties
<1>2. ASSUME r # <<>> PROVE [r EXCEPT ![Len(r)].text = @ \o msg.text] \in Seq(ChatMessages)
  <2>1. n \in 1..Len(r)
    BY <1>1, <1>2, <1>p, EmptySeq
  <2>p. PICK m, t : m = r[n] /\ t = m.text \o msg.text
    OBVIOUS
  <2>2. m \in ChatMessages
    BY <2>1, <2>p, ElementOfSeq
  <2>3. m.text \in Seq(Nat) /\ msg.text \in Seq(Nat)
    BY <2>2 DEF ChatMessages
  <2>4. t \in Seq(Nat)
    BY <2>3, <2>p, ConcatProperties
  <2>5. [m EXCEPT !.text = t] \in ChatMessages
    BY <2>2, <2>4 DEF ChatMessages
  <2>6. [r EXCEPT ![n] = [m EXCEPT !.text = t]] \in Seq(ChatMessages)
    BY <2>1, <2>5, ExceptSeq
  <2>7. QED
    BY <1>p, <2>6, <2>p
<1>3. QED
  BY <1>1, <1>2 DEF Merged

\* One more message is put at the end.
LEMMA GathersAppend ==
  ASSUME NEW c, Conversation(c), NEW a \in Nat, NEW b \in Nat, b + 1 \in 1..Len(c), a <= b + 1,
         NEW r, Gathers(r, c, a, b)
  PROVE  Gathers(Append(r, c[b + 1]), c, a, b + 1)
<1>p. PICK m, msg, o : m = Len(r) /\ msg = c[b + 1] /\ o = Append(r, c[b + 1])
  OBVIOUS
<1>1. r \in Seq(ChatMessages) /\ m \in Nat /\ MadeOf(r, c)
  BY <1>p, LenProperties DEF Gathers, MadeOf
<1>2. /\ MadeMessage(msg, c) /\ msg.text = <<b + 1>> /\ msg.text[1] = b + 1 /\ Len(msg.text) = 1
      /\ msg.text[Len(msg.text)] = b + 1
  BY <1>p, OwnMessage
<1>3. msg \in ChatMessages
  BY <1>2 DEF MadeMessage
<1>4. /\ o \in Seq(ChatMessages) /\ Len(o) = m + 1 /\ o[m + 1] = msg
      /\ \A k \in 1..m : o[k] = r[k]
  BY <1>1, <1>3, <1>p, AppendProperties
<1>5. \A k \in 1..(m + 1) : k \in 1..m \/ k = m + 1
  BY <1>1
<1>6. \A k \in 1..m : /\ a <= r[k].text[1] /\ r[k].text[Len(r[k].text)] <= b
                      /\ r[k].text[Len(r[k].text)] \in Nat /\ r[k].text[1] \in Nat
  <2>1. SUFFICES ASSUME NEW k \in 1..m
                 PROVE  /\ a <= r[k].text[1] /\ r[k].text[Len(r[k].text)] <= b
                        /\ r[k].text[Len(r[k].text)] \in Nat /\ r[k].text[1] \in Nat
    OBVIOUS
  <2>2. PICK x, y : x = r[k].text[1] /\ y = r[k].text[Len(r[k].text)]
    OBVIOUS
  <2>3. x \in 1..Len(c) /\ y \in 1..Len(c)
    BY <1>1, <1>p, <2>2, MadeOfIs
  <2>4. x \in Nat /\ y \in Nat
    BY <2>3
  <2>5. a <= x /\ y <= b
    BY <1>p, <2>1, <2>2 DEF Gathers
  <2>6. QED
    BY <2>2, <2>4, <2>5, Zenon
<1>7. \A k \in 1..(m + 1), n \in 1..(m + 1) :
        k < n => o[k].text[Len(o[k].text)] < o[n].text[1]
  <2>1. SUFFICES ASSUME NEW k \in 1..(m + 1), NEW n \in 1..(m + 1), k < n
                 PROVE  o[k].text[Len(o[k].text)] < o[n].text[1]
    OBVIOUS
  <2>2. k \in 1..m
    BY <1>1, <2>1
  <2>3. CASE n \in 1..m
    <3>1. r[k].text[Len(r[k].text)] < r[n].text[1]
      BY <1>1, <1>p, <2>1, <2>2, <2>3 DEF MadeOf
    <3>2. QED
      BY <1>4, <2>2, <2>3, <3>1
  <2>4. CASE n = m + 1
    <3>1. r[k].text[Len(r[k].text)] \in Nat /\ r[k].text[Len(r[k].text)] <= b
      BY <1>6, <2>2
    <3>2. QED
      BY <1>2, <1>4, <2>2, <2>4, <3>1
  <2>5. QED
    BY <1>5, <2>3, <2>4
<1>8. \A k \in 1..(m + 1) : MadeMessage(o[k], c)
  BY <1>1, <1>2, <1>4, <1>5, <1>p DEF MadeOf
<1>9. MadeOf(o, c)
  BY <1>4, <1>7, <1>8 DEF MadeOf
<1>10. \A k \in 1..(m + 1) : a <= o[k].text[1] /\ o[k].text[Len(o[k].text)] <= b + 1
  <2>1. SUFFICES ASSUME NEW k \in 1..(m + 1)
                 PROVE  a <= o[k].text[1] /\ o[k].text[Len(o[k].text)] <= b + 1
    OBVIOUS
  <2>2. CASE k \in 1..m
    BY <1>4, <1>6, <2>2
  <2>3. CASE k = m + 1
    <3>1. o[k] = msg
      BY <1>4, <2>3
    <3>2. a <= msg.text[1] /\ msg.text[Len(msg.text)] <= b + 1
      BY <1>2
    <3>3. QED
      BY <3>1, <3>2
  <2>4. QED
    BY <1>5, <2>2, <2>3
<1>11. ASSUME NEW i \in a..(b + 1)
       PROVE  i \in Texts(o) /\ (IsResult(c[i]) \/ IsCaller(c[i]) => i \in Heads(o))
  <2>1. CASE i = b + 1
    <3>1. i = o[m + 1].text[1] /\ 1 \in 1..Len(o[m + 1].text) /\ m + 1 \in 1..Len(o)
      BY <1>1, <1>2, <1>4, <2>1, SMTT(60)
    <3>2. QED
      BY <3>1, TextsIs DEF Heads
  <2>2. CASE i # b + 1
    <3>1. i \in a..b
      BY <2>2
    <3>2. i \in Texts(r) /\ (IsResult(c[i]) \/ IsCaller(c[i]) => i \in Heads(r))
      BY <3>1 DEF Gathers
    <3>3. \A k \in 1..m : k \in 1..Len(o)
      BY <1>1, <1>4
    <3>4. i \in Texts(o)
      <4>1. PICK k \in 1..m : \E n \in 1..Len(r[k].text) : i = r[k].text[n]
        BY <1>p, <3>2, TextsIs
      <4>2. o[k] = r[k] /\ k \in 1..Len(o)
        BY <1>4, <3>3
      <4>3. \E n \in 1..Len(o[k].text) : i = o[k].text[n]
        BY <4>1, <4>2
      <4>4. QED
        BY <4>2, <4>3, TextsIs
    <3>5. i \in Heads(r) => i \in Heads(o)
      BY <1>4, <1>p, <3>3 DEF Heads
    <3>6. QED
      BY <3>2, <3>4, <3>5
  <2>3. QED
    BY <2>1, <2>2
<1>12. QED
  BY <1>4, <1>9, <1>10, <1>11, <1>p DEF Gathers

\* One more message is merged into the last one.
LEMMA GathersMerged ==
  ASSUME NEW c, Conversation(c), NEW a \in Nat, NEW b \in Nat, b + 1 \in 1..Len(c), a <= b + 1,
         NEW r, Gathers(r, c, a, b), r # <<>>, Mergeable(Last(r), c[b + 1])
  PROVE  Gathers([r EXCEPT ![Len(r)].text = @ \o c[b + 1].text], c, a, b + 1)
<1>p. PICK m, msg, t, old, u, o :
        /\ m = Len(r) /\ msg = c[b + 1] /\ t = Append(r[m].text, b + 1) /\ old = r[m].text
        /\ u = [r[m] EXCEPT !.text = t] /\ o = [r EXCEPT ![m] = u]
  OBVIOUS
<1>1. r \in Seq(ChatMessages) /\ m \in Nat \ {0} /\ m \in 1..Len(r) /\ MadeOf(r, c)
  BY <1>p, LenProperties, EmptySeq DEF Gathers, MadeOf
<1>2. msg.text = <<b + 1>>
  BY <1>p, OwnMessage
<1>3. /\ r[m] \in ChatMessages /\ old \in Seq(Nat) /\ Len(old) \in Nat \ {0}
      /\ old[1] \in 1..Len(c) /\ old[1] <= old[Len(old)] /\ old[Len(old)] \in 1..Len(c)
      /\ r[m].role = c[old[1]].role /\ r[m].calls = c[old[1]].calls /\ r[m].of = c[old[1]].of
  <2>1. m \in 1..Len(r)
    BY <1>1
  <2>2. /\ r[m] \in ChatMessages /\ r[m].text \in Seq(Nat) /\ Len(r[m].text) \in Nat \ {0}
        /\ r[m].text[1] \in 1..Len(c) /\ r[m].text[1] <= r[m].text[Len(r[m].text)]
        /\ r[m].text[Len(r[m].text)] \in 1..Len(c) /\ r[m].role = c[r[m].text[1]].role
        /\ r[m].calls = c[r[m].text[1]].calls /\ r[m].of = c[r[m].text[1]].of
    BY <1>1, <2>1, MadeOfIs
  <2>3. QED
    BY <1>p, <2>2
<1>4. old \o msg.text = t
  <2>1. t = Append(old, b + 1) /\ old \in Seq(Nat) /\ b + 1 \in Nat
    BY <1>3, <1>p
  <2>2. t = old \o <<b + 1>>
    BY <2>1, AppendIsConcat
  <2>3. QED
    BY <1>2, <2>2
<1>5. o = [r EXCEPT ![Len(r)].text = @ \o c[b + 1].text]
  BY <1>4, <1>p
<1>6. /\ t \in Seq(Nat) /\ Len(t) = Len(old) + 1 /\ t[Len(old) + 1] = b + 1
      /\ \A x \in 1..Len(old) : t[x] = old[x]
  <2>1. t = Append(old, b + 1) /\ old \in Seq(Nat) /\ b + 1 \in Nat
    BY <1>3, <1>p
  <2>2. QED
    BY <2>1, AppendProperties
<1>7. t[1] = old[1] /\ t[Len(t)] = b + 1 /\ ToSet(t) = ToSet(old) \cup {b + 1}
  <2>1. t[1] = old[1] /\ t[Len(t)] = b + 1
    <3>1. 1 \in 1..Len(old)
      BY <1>3
    <3>2. QED
      BY <1>6, <3>1
  <2>2. t = Append(old, b + 1)
    BY <1>p
  <2>3. ToSet(t) = ToSet(old) \cup {b + 1}
    <3>1. old \in Seq(Nat) /\ b + 1 \in Nat
      BY <1>3
    <3>2. QED
      BY <2>2, <3>1, SetOfAppend
  <2>4. QED
    BY <2>1, <2>3
<1>8. /\ u \in ChatMessages /\ u.text = t /\ u.role = r[m].role /\ u.calls = r[m].calls
      /\ u.of = r[m].of
  BY <1>3, <1>6, <1>p DEF ChatMessages
<1>9. /\ r[m].role = msg.role /\ msg.role \in {"user", "assistant"}
      /\ r[m].calls = {} /\ msg.calls = {}
  BY <1>p DEF Mergeable, Last
<1>10. \A k \in 1..m : a <= r[k].text[1] /\ r[k].text[Len(r[k].text)] <= b
  BY <1>p DEF Gathers
<1>11. MadeMessage(u, c)
  <2>1. ASSUME NEW i \in ToSet(t)
        PROVE  /\ i \in 1..Len(c) /\ old[1] <= i /\ i <= b + 1 /\ c[i].role = u.role
               /\ i # old[1] => u.calls = {} /\ c[i].calls = {} /\ u.role \in {"user", "assistant"}
    <3>1. CASE i = b + 1
      <4>1. a <= old[1] /\ old[Len(old)] <= b
        BY <1>1, <1>10, <1>p
      <4>2. old[1] <= b + 1
        BY <1>3, <4>1
      <4>3. QED
        BY <1>8, <1>9, <1>p, <3>1, <4>2
    <3>2. CASE i \in ToSet(old)
      <4>1. MadeMessage(r[m], c)
        BY <1>1 DEF MadeOf
      <4>2. /\ i \in 1..Len(c) /\ old[1] <= i /\ i <= old[Len(old)] /\ c[i].role = r[m].role
            /\ i # old[1] => c[i].calls = {}
        BY <1>p, <3>2, <4>1 DEF MadeMessage
      <4>3. old[Len(old)] <= b
        BY <1>1, <1>10, <1>p
      <4>4. i <= b + 1
        BY <1>3, <4>2, <4>3
      <4>5. QED
        BY <1>8, <1>9, <4>2, <4>4
    <3>3. QED
      BY <1>7, <2>1, <3>1, <3>2
  <2>2. Len(t) \in Nat \ {0}
    BY <1>3, <1>6
  <2>3. QED
    BY <1>3, <1>7, <1>8, <2>1, <2>2 DEF MadeMessage
<1>12. /\ o \in Seq(ChatMessages) /\ Len(o) = m /\ o[m] = u
       /\ \A k \in 1..m : k # m => o[k] = r[k]
  <2>1. m = Len(r) /\ o = [r EXCEPT ![m] = u]
    BY <1>p
  <2>2. \A k \in 1..Len(r) : o[k] = IF k = m THEN u ELSE r[k]
    BY <1>1, <1>8, <2>1, ExceptSeq
  <2>3. o \in Seq(ChatMessages) /\ Len(o) = Len(r)
    BY <1>1, <1>8, <2>1, ExceptSeq
  <2>4. QED
    BY <1>1, <2>1, <2>2, <2>3
<1>13. \A k \in 1..m : o[k].text[1] = r[k].text[1]
  <2>1. SUFFICES ASSUME NEW k \in 1..m PROVE o[k].text[1] = r[k].text[1]
    OBVIOUS
  <2>2. CASE k = m
    BY <1>7, <1>8, <1>12, <1>p, <2>2
  <2>3. CASE k # m
    BY <1>12, <2>3
  <2>4. QED
    BY <2>2, <2>3
<1>14. MadeOf(o, c)
  <2>1. \A k \in 1..m : MadeMessage(o[k], c)
    BY <1>1, <1>11, <1>12, <1>p DEF MadeOf
  <2>2. ASSUME NEW k \in 1..m, NEW n \in 1..m, k < n
        PROVE  o[k].text[Len(o[k].text)] < o[n].text[1]
    <3>1. k # m
      BY <2>2, <1>1
    <3>2. r[k].text[Len(r[k].text)] < r[n].text[1]
      BY <1>1, <1>p, <2>2 DEF MadeOf
    <3>3. QED
      BY <1>12, <1>13, <3>1, <3>2
  <2>3. QED
    BY <1>12, <2>1, <2>2 DEF MadeOf
<1>15. \A k \in 1..m : a <= o[k].text[1] /\ o[k].text[Len(o[k].text)] <= b + 1
  <2>1. SUFFICES ASSUME NEW k \in 1..m
                 PROVE  a <= o[k].text[1] /\ o[k].text[Len(o[k].text)] <= b + 1
    OBVIOUS
  <2>2. a <= o[k].text[1]
    BY <1>10, <1>13
  <2>3. o[k].text[Len(o[k].text)] <= b + 1
    <3>1. CASE k = m
      BY <1>7, <1>8, <1>12, <3>1
    <3>2. CASE k # m
      <4>1. r[k].text[Len(r[k].text)] \in Nat
        <5>1. k \in 1..Len(r)
          BY <1>p
        <5>2. r[k].text[Len(r[k].text)] \in 1..Len(c)
          BY <1>1, <5>1, MadeOfIs
        <5>3. QED
          BY <5>2
      <4>2. PICK e \in Nat : e = r[k].text[Len(r[k].text)]
        BY <4>1
      <4>3. e <= b /\ o[k].text[Len(o[k].text)] = e
        BY <1>10, <1>12, <3>2, <4>2
      <4>4. QED
        BY <4>3
    <3>3. QED
      BY <3>1, <3>2
  <2>4. QED
    BY <2>2, <2>3
<1>16. ASSUME NEW i \in a..(b + 1)
       PROVE  i \in Texts(o) /\ (IsResult(c[i]) \/ IsCaller(c[i]) => i \in Heads(o))
  <2>1. CASE i = b + 1
    <3>1. i = o[m].text[Len(o[m].text)] /\ Len(o[m].text) \in 1..Len(o[m].text) /\ m \in 1..Len(o)
      BY <1>1, <1>3, <1>6, <1>7, <1>8, <1>12, <2>1
    <3>2. i \in Texts(o)
      BY <3>1, TextsIs
    <3>3. ~IsResult(c[i]) /\ ~IsCaller(c[i])
      BY <1>9, <1>p, <2>1 DEF IsResult, IsCaller
    <3>4. QED
      BY <3>2, <3>3
  <2>2. CASE i # b + 1
    <3>1. i \in a..b
      BY <2>2
    <3>2. i \in Texts(r) /\ (IsResult(c[i]) \/ IsCaller(c[i]) => i \in Heads(r))
      BY <3>1 DEF Gathers
    <3>3. PICK k \in 1..m : \E n \in 1..Len(r[k].text) : i = r[k].text[n]
      <4>1. \E k \in 1..Len(r) : \E n \in 1..Len(r[k].text) : i = r[k].text[n]
        BY <3>2, TextsIs
      <4>2. QED
        BY <1>p, <4>1
    <3>4. PICK n \in 1..Len(r[k].text) : i = r[k].text[n]
      BY <3>3
    <3>5. i \in Texts(o)
      <4>1. n \in 1..Len(o[k].text) /\ i = o[k].text[n]
        <5>1. CASE k = m
          <6>1. n \in 1..Len(old) /\ i = old[n]
            BY <1>p, <3>4, <5>1
          <6>2. n \in 1..Len(t) /\ t[n] = i
            BY <1>3, <1>6, <6>1
          <6>3. QED
            BY <1>8, <1>12, <5>1, <6>2
        <5>2. CASE k # m
          BY <1>12, <3>4, <5>2
        <5>3. QED
          BY <5>1, <5>2
      <4>2. QED
        BY <1>12, <4>1, TextsIs
    <3>6. Heads(o) = Heads(r)
      <4>1. Heads(o) = {o[x].text[1] : x \in 1..m} /\ Heads(r) = {r[x].text[1] : x \in 1..m}
        BY <1>12, <1>p DEF Heads
      <4>2. QED
        BY <1>13, <4>1
    <3>7. QED
      BY <3>2, <3>5, <3>6
  <2>3. QED
    BY <2>1, <2>2
<1>17. QED
  BY <1>5, <1>12, <1>14, <1>15, <1>16 DEF Gathers

\* All of the messages from one on are gathered by merging.
LEMMA MergedAllIs ==
  ASSUME NEW c, Conversation(c), NEW a \in 1..Len(c), NEW v \in Seq(ChatMessages),
         Len(v) = Len(c) - a + 1, \A i \in 1..Len(v) : v[i] = c[a + i - 1]
  PROVE  Gathers(MergedAll(v), c, a, Len(c))
<1>p. PICK N, X, step :
        /\ N = Len(v) /\ X = Seq(ChatMessages)
        /\ step = [p \in X \X (1..N) |-> Merged(p[1], v[p[2]])]
  OBVIOUS
<1>1. Len(c) \in Nat /\ N \in Nat /\ a \in Nat /\ N = Len(c) - a + 1
  BY <1>p, LenProperties DEF Conversation
<1>2. step \in [X \X (1..N) -> X]
  <2>1. ASSUME NEW p \in X \X (1..N) PROVE Merged(p[1], v[p[2]]) \in X
    <3>1. v[p[2]] \in ChatMessages
      BY <1>p, ElementOfSeq
    <3>2. QED
      BY <1>p, <3>1, MergedType
  <2>2. QED
    BY <1>p, <2>1
<1>3. <<>> \in X
  BY <1>p, EmptySeq
<1>4. PICK f \in [0..N -> X] : StepByStep(f, <<>>, step, N)
  BY <1>1, <1>2, <1>3, RecursionDefined
<1>5. f = [n \in 0..N |-> IF n = 0 THEN <<>> ELSE Merged(f[n - 1], v[n])]
  <2>1. f = [n \in 0..N |-> IF n = 0 THEN <<>> ELSE step[<<f[n - 1], n>>]]
    BY <1>4 DEF StepByStep
  <2>2. ASSUME NEW n \in 0..N, n # 0 PROVE step[<<f[n - 1], n>>] = Merged(f[n - 1], v[n])
    <3>1. n \in 1..N /\ n - 1 \in 0..N
      BY <1>1, <2>2
    <3>2. f[n - 1] \in X
      BY <1>4, <3>1
    <3>3. <<f[n - 1], n>> \in X \X (1..N)
      BY <3>1, <3>2
    <3>4. QED
      BY <1>p, <3>3
  <2>3. QED
    BY <2>1, <2>2
<1>. DEFINE merged[n \in 0..Len(v)] == IF n = 0 THEN <<>> ELSE Merged(merged[n - 1], v[n])
<1>6. merged = [n \in 0..N |-> IF n = 0 THEN <<>> ELSE Merged(merged[n - 1], v[n])]
  <2>1. \E g : g = [n \in 0..Len(v) |-> IF n = 0 THEN <<>> ELSE Merged(g[n - 1], v[n])]
    BY <1>5, <1>p
  <2>2. QED
    BY <2>1, <1>p
<1>7. MergedAll(v) = merged[N]
  BY <1>p DEF MergedAll
<1>8. merged[N] = f[N]
  <2>. HIDE DEF merged
  <2>1. merged[0] = f[0]
    BY <1>1, <1>5, <1>6
  <2>2. ASSUME NEW n \in 1..N, merged[n - 1] = f[n - 1] PROVE merged[n] = f[n]
    <3>1. n \in 0..N /\ n # 0
      BY <1>1
    <3>2. merged[n] = Merged(merged[n - 1], v[n]) /\ f[n] = Merged(f[n - 1], v[n])
      BY <1>5, <1>6, <3>1
    <3>3. QED
      BY <2>2, <3>2
  <2>3. \A n \in 1..N : merged[n - 1] = f[n - 1] => merged[n] = f[n]
    BY <2>2
  <2>4. N \in Nat
    BY <1>1
  <2>5. QED
    BY <2>1, <2>3, <2>4, RecursionAlike, ZenonT(60)
<1>. HIDE DEF merged
<1>. DEFINE I == {n \in Nat : n <= N => Gathers(f[n], c, a, a + n - 1)}
<1>9. 0 \in I
  <2>1. f[0] = <<>>
    BY <1>1, <1>5
  <2>2. Len(<<>>) = 0 /\ <<>> \in Seq(ChatMessages)
    BY EmptySeq
  <2>3. MadeOf(<<>>, c)
    BY <2>2 DEF MadeOf
  <2>4. Gathers(<<>>, c, a, a + 0 - 1)
    <3>1. \A i \in a..(a + 0 - 1) : FALSE
      BY <1>1
    <3>2. QED
      BY <2>2, <2>3, <3>1 DEF Gathers
  <2>5. QED
    BY <2>1, <2>4
<1>10. ASSUME NEW n \in Nat, n \in I PROVE n + 1 \in I
  <2>1. SUFFICES ASSUME n + 1 <= N PROVE Gathers(f[n + 1], c, a, a + (n + 1) - 1)
    OBVIOUS
  <2>p. PICK r, b : r = f[n] /\ b = a + n - 1
    OBVIOUS
  <2>2. /\ b \in Nat /\ b + 1 \in 1..Len(c) /\ a <= b + 1 /\ a + (n + 1) - 1 = b + 1
        /\ n + 1 \in 0..N /\ n + 1 # 0 /\ (n + 1) - 1 = n /\ n + 1 \in 1..N
    BY <1>1, <2>1, <2>p
  <2>3. Gathers(r, c, a, b)
    <3>1. n <= N
      BY <1>1, <2>1
    <3>2. QED
      BY <1>10, <2>p, <3>1
  <2>4. v[n + 1] = c[b + 1]
    <3>1. a + (n + 1) - 1 = b + 1
      BY <2>2
    <3>2. QED
      BY <1>p, <2>2, <3>1
  <2>5. f[n + 1] = Merged(r, c[b + 1])
    BY <1>5, <2>2, <2>4, <2>p
  <2>6. Gathers(Merged(r, c[b + 1]), c, a, b + 1)
    <3>1. CASE r # <<>> /\ Mergeable(Last(r), c[b + 1])
      <4>1. Merged(r, c[b + 1]) = [r EXCEPT ![Len(r)].text = @ \o c[b + 1].text]
        BY <3>1 DEF Merged
      <4>2. PICK o : o = [r EXCEPT ![Len(r)].text = @ \o c[b + 1].text]
        OBVIOUS
      <4>3. Gathers(o, c, a, b + 1)
        BY <1>1, <2>2, <2>3, <3>1, <4>2, GathersMerged
      <4>4. QED
        BY <4>1, <4>2, <4>3
    <3>2. CASE ~(r # <<>> /\ Mergeable(Last(r), c[b + 1]))
      <4>1. Merged(r, c[b + 1]) = Append(r, c[b + 1])
        BY <3>2 DEF Merged
      <4>2. QED
        BY <1>1, <2>2, <2>3, <4>1, GathersAppend
    <3>3. QED
      BY <3>1, <3>2
  <2>7. QED
    BY <2>2, <2>5, <2>6
<1>11. Gathers(f[N], c, a, a + N - 1)
  <2>. HIDE DEF I
  <2>1. N \in I
    BY <1>1, <1>9, <1>10, SetInduction
  <2>2. QED
    BY <1>1, <2>1 DEF I
<1>12. a + N - 1 = Len(c)
  BY <1>1
<1>13. QED
  BY <1>7, <1>8, <1>11, <1>12

-----------------------------------------------------------------------------
(* The messages before the tail.                                           *)

\* The places of the turns that stay.
Places(c) == 1..(TailStart(c) - 1)
Retained(c, numbers) == {i \in Places(c) : numbers # KeepAll => TurnAt(c, i) \in numbers}

\* A list of messages that are made of the ones at these places.
Shows(l, c, K) ==
  /\ MadeOf(l, c)
  /\ Heads(l) = K /\ Texts(l) = K
  /\ \A k \in 1..Len(l) : Len(l[k].text) = 1

LEMMA MiddleIs ==
  ASSUME NEW c, Conversation(c), Len(c) > 0, IsUser(c[Len(c)]), NEW numbers
  PROVE  Shows(Middle(c, numbers), c, Retained(c, numbers))
<1>p. PICK P, list, K, kept, l :
        /\ P = Places(c) /\ list = [i \in P |-> i] /\ K = Retained(c, numbers)
        /\ kept = Only(list, K) /\ l = Middle(c, numbers)
  OBVIOUS
<1>1. TailStart(c) \in 1..Len(c) /\ Len(c) \in Nat
  BY TailStartIs, LenProperties DEF Conversation
<1>2. PICK m \in Nat : P = 1..m /\ P \subseteq 1..Len(c)
  <2>1. TailStart(c) - 1 \in Nat
    BY <1>1
  <2>2. QED
    BY <1>1, <1>p, <2>1 DEF Places
<1>3. list \in Seq(P) /\ Len(list) = m
  <2>1. list \in [1..m -> P]
    BY <1>2, <1>p
  <2>2. QED
    BY <2>1, ListOf
<1>4. K \subseteq P
  BY <1>p DEF Retained
<1>5. kept \in Seq(P \cap K) /\ kept \in Seq(K)
  <2>1. kept \in Seq(P \cap K)
    BY <1>3, <1>p, OnlyType
  <2>2. P \cap K = K
    BY <1>4
  <2>3. QED
    BY <2>1, <2>2
<1>6. ToSet(kept) = K
  <2>1. ToSet(list) = P
    <3>1. ToSet(list) = {list[i] : i \in 1..m}
      BY <1>3, SetOf
    <3>2. QED
      BY <1>2, <1>p, <3>1
  <2>2. ToSet(kept) = ToSet(list) \cap K
    BY <1>3, <1>p, OnlySet
  <2>3. QED
    BY <1>4, <2>1, <2>2
<1>7. Growing(kept)
  <2>1. list \in Seq(Int)
    <3>1. P \subseteq Int
      BY <1>2
    <3>2. QED
      BY <1>3, <3>1, SeqWider
  <2>2. Growing(list)
    BY <1>2, <1>3, <1>p DEF Growing
  <2>3. QED
    BY <1>p, <2>1, <2>2, OnlyGrows
<1>p2. PICK n : n = Len(kept)
  OBVIOUS
<1>8. n \in Nat /\ \A k \in 1..n : kept[k] \in K /\ kept[k] \in 1..Len(c)
  BY <1>2, <1>4, <1>5, <1>p2, LenProperties, ElementOfSeq
<1>9. l = [k \in 1..n |-> Condensed(c[kept[k]])]
  BY <1>p, <1>p2 DEF Middle, Places, Retained
<1>10. \A k \in 1..n : /\ MadeMessage(l[k], c) /\ l[k] \in ChatMessages
                       /\ l[k].text[1] = kept[k] /\ Len(l[k].text) = 1
  <2>1. SUFFICES ASSUME NEW k \in 1..n
                 PROVE  /\ MadeMessage(l[k], c) /\ l[k] \in ChatMessages
                        /\ l[k].text[1] = kept[k] /\ Len(l[k].text) = 1
    OBVIOUS
  <2>2. PICK i, u : i = kept[k] /\ u = c[i]
    OBVIOUS
  <2>3. i \in 1..Len(c) /\ l[k] = Condensed(u)
    BY <1>8, <1>9, <2>2
  <2>4. MadeMessage(u, c) /\ u.text[1] = i /\ Len(u.text) = 1
    BY <2>2, <2>3, OwnMessage
  <2>5. MadeMessage(l[k], c) /\ l[k].text = u.text
    BY <2>3, <2>4, CondensedIs
  <2>6. l[k] \in ChatMessages
    BY <2>5 DEF MadeMessage
  <2>7. QED
    BY <2>2, <2>4, <2>5, <2>6
<1>11. l \in Seq(ChatMessages) /\ Len(l) = n
  <2>1. l \in [1..n -> ChatMessages]
    BY <1>9, <1>10
  <2>2. QED
    BY <1>8, <2>1, ListOf
<1>12. MadeOf(l, c)
  <2>1. ASSUME NEW k \in 1..n, NEW x \in 1..n, k < x
        PROVE  l[k].text[Len(l[k].text)] < l[x].text[1]
    <3>1. kept[k] < kept[x]
      BY <1>7, <1>p2, <2>1 DEF Growing
    <3>2. QED
      BY <1>10, <3>1
  <2>2. QED
    BY <1>10, <1>11, <2>1 DEF MadeOf
<1>13. K = {kept[k] : k \in 1..n}
  BY <1>5, <1>6, <1>p2, SetOf
<1>14. Heads(l) = K
  <2>1. Heads(l) = {l[k].text[1] : k \in 1..n}
    BY <1>11 DEF Heads
  <2>2. QED
    BY <1>10, <1>13, <2>1
<1>15. Texts(l) = K
  <2>1. ASSUME NEW x PROVE x \in Texts(l) <=> x \in K
    <3>1. x \in Texts(l) <=> \E k \in 1..n : \E j \in 1..Len(l[k].text) : x = l[k].text[j]
      <4>1. n = Len(l)
        BY <1>11
      <4>2. QED
        BY <4>1, TextsIs
    <3>2. \A k \in 1..n : \A j \in 1..Len(l[k].text) : l[k].text[j] = kept[k]
      BY <1>10
    <3>3. \A k \in 1..n : 1 \in 1..Len(l[k].text)
      BY <1>10
    <3>4. QED
      BY <1>13, <3>1, <3>2, <3>3
  <2>2. QED
    BY <2>1
<1>16. QED
  BY <1>10, <1>11, <1>12, <1>14, <1>15, <1>p DEF Shows

\* A message that is no user's is of the turn of the one before it.
LEMMA TurnStays ==
  ASSUME NEW c, NEW i \in Nat \ {0}, ~IsUser(c[i])
  PROVE  TurnAt(c, i) = TurnAt(c, i - 1)
<1>1. {j \in 1..i : IsUser(c[j])} = {j \in 1..(i - 1) : IsUser(c[j])}
  <2>1. \A j \in 1..i : j = i \/ j \in 1..(i - 1)
    OBVIOUS
  <2>2. \A j \in 1..(i - 1) : j \in 1..i
    OBVIOUS
  <2>3. QED
    BY <2>1, <2>2
<1>2. QED
  BY <1>1 DEF TurnAt

\* A turn begins with a user's message.
LEMMA TurnIsAsked ==
  ASSUME NEW c, NEW i \in Nat, TurnAt(c, i) # 0
  PROVE  \E q \in 1..i : IsUser(c[q]) /\ TurnAt(c, q) = TurnAt(c, i)
<1>p. PICK U : U = {j \in 1..i : IsUser(c[j])}
  OBVIOUS
<1>1. U # {}
  BY <1>p, FS_EmptySet DEF TurnAt
<1>2. U \in SUBSET (1..i)
  BY <1>p
<1>3. PICK q \in U : \A j \in U : j <= q
  BY <1>1, <1>2, LastIsIn
<1>4. q \in 1..i /\ IsUser(c[q])
  BY <1>p
<1>5. {j \in 1..q : IsUser(c[j])} = U
  <2>1. \A j \in 1..q : j \in 1..i
    BY <1>4
  <2>2. \A j \in U : j \in 1..q
    BY <1>2, <1>3, <1>4
  <2>3. QED
    BY <1>p, <2>1, <2>2
<1>6. TurnAt(c, q) = TurnAt(c, i)
  BY <1>5, <1>p DEF TurnAt
<1>7. QED
  BY <1>4, <1>6

-----------------------------------------------------------------------------
(* Both.                                                                   *)

ComesBefore(x, y) ==
  \A k \in 1..Len(x), n \in 1..Len(y) : x[k].text[Len(x[k].text)] < y[n].text[1]

IsConcat(l, x, y) == l = x \o y

LEMMA MadeOfConcat ==
  ASSUME NEW c, NEW x, NEW y, MadeOf(x, c), MadeOf(y, c), ComesBefore(x, y), NEW l, IsConcat(l, x, y)
  PROVE  MadeOf(l, c) /\ Heads(l) = Heads(x) \cup Heads(y) /\ Texts(l) = Texts(x) \cup Texts(y)
<1>p. PICK m, n : m = Len(x) /\ n = Len(y)
  OBVIOUS
<1>1. x \in Seq(ChatMessages) /\ y \in Seq(ChatMessages) /\ m \in Nat /\ n \in Nat
  BY <1>p, LenProperties DEF MadeOf
<1>2. l \in Seq(ChatMessages) /\ Len(l) = m + n
  BY <1>1, <1>p, ConcatProperties DEF IsConcat
<1>3. /\ \A k \in 1..m : k \in 1..(m + n) /\ l[k] = x[k]
      /\ \A k \in 1..n : m + k \in 1..(m + n) /\ l[m + k] = y[k]
  <2>1. \A k \in 1..(m + n) : l[k] = IF k <= m THEN x[k] ELSE y[k - m]
    BY <1>1, <1>p, ConcatProperties DEF IsConcat
  <2>2. ASSUME NEW k \in 1..n PROVE m + k \in 1..(m + n) /\ l[m + k] = y[k]
    <3>1. m + k \in 1..(m + n) /\ ~(m + k <= m) /\ (m + k) - m = k
      BY <1>1
    <3>2. QED
      BY <2>1, <3>1
  <2>3. ASSUME NEW k \in 1..m PROVE k \in 1..(m + n) /\ l[k] = x[k]
    <3>1. k \in 1..(m + n) /\ k <= m
      BY <1>1
    <3>2. QED
      BY <2>1, <3>1
  <2>4. QED
    BY <2>2, <2>3
<1>4. \A k \in 1..(m + n) : k \in 1..m \/ \E j \in 1..n : k = m + j
  <2>1. ASSUME NEW k \in 1..(m + n), k \notin 1..m PROVE k - m \in 1..n /\ k = m + (k - m)
    BY <1>1, <2>1
  <2>2. QED
    BY <2>1
<1>5. ASSUME NEW k \in 1..(m + n), NEW j \in 1..(m + n), k < j
      PROVE  l[k].text[Len(l[k].text)] < l[j].text[1]
  <2>1. CASE k \in 1..m /\ j \in 1..m
    <3>1. x[k].text[Len(x[k].text)] < x[j].text[1]
      BY <1>5, <1>p, <2>1 DEF MadeOf
    <3>2. QED
      BY <1>3, <2>1, <3>1
  <2>2. CASE k \in 1..m /\ j \notin 1..m
    <3>1. PICK e \in 1..n : j = m + e
      BY <1>4, <2>2
    <3>2. x[k].text[Len(x[k].text)] < y[e].text[1]
      BY <1>p, <2>2 DEF ComesBefore
    <3>3. QED
      BY <1>3, <2>2, <3>1, <3>2
  <2>3. CASE k \notin 1..m
    <3>1. PICK d \in 1..n : k = m + d
      BY <1>4, <2>3
    <3>2. j \notin 1..m
      BY <1>1, <1>5, <3>1
    <3>3. PICK e \in 1..n : j = m + e
      BY <1>4, <3>2
    <3>4. d < e
      BY <1>1, <1>5, <3>1, <3>3
    <3>5. y[d].text[Len(y[d].text)] < y[e].text[1]
      BY <1>p, <3>4 DEF MadeOf
    <3>6. QED
      BY <1>3, <3>1, <3>3, <3>5
  <2>4. QED
    BY <2>1, <2>2, <2>3
<1>6. \A k \in 1..(m + n) : MadeMessage(l[k], c)
  <2>1. SUFFICES ASSUME NEW k \in 1..(m + n) PROVE MadeMessage(l[k], c)
    OBVIOUS
  <2>2. CASE k \in 1..m
    BY <1>3, <1>p, <2>2 DEF MadeOf
  <2>3. CASE k \notin 1..m
    <3>1. PICK j \in 1..n : k = m + j
      BY <1>4, <2>3
    <3>2. QED
      BY <1>3, <1>p, <3>1 DEF MadeOf
  <2>4. QED
    BY <2>2, <2>3
<1>7. MadeOf(l, c)
  BY <1>2, <1>5, <1>6 DEF MadeOf
<1>8. Heads(l) = Heads(x) \cup Heads(y)
  <2>1. /\ Heads(l) = {l[k].text[1] : k \in 1..(m + n)} /\ Heads(x) = {x[k].text[1] : k \in 1..m}
        /\ Heads(y) = {y[k].text[1] : k \in 1..n}
    BY <1>2, <1>p DEF Heads
  <2>2. QED
    BY <1>3, <1>4, <2>1
<1>9. Texts(l) = Texts(x) \cup Texts(y)
  <2>1. ASSUME NEW i PROVE i \in Texts(l) <=> i \in Texts(x) \/ i \in Texts(y)
    <3>1. /\ i \in Texts(l) <=> \E k \in 1..(m + n) : \E e \in 1..Len(l[k].text) : i = l[k].text[e]
          /\ i \in Texts(x) <=> \E k \in 1..m : \E e \in 1..Len(x[k].text) : i = x[k].text[e]
          /\ i \in Texts(y) <=> \E k \in 1..n : \E e \in 1..Len(y[k].text) : i = y[k].text[e]
      <4>1. i \in Texts(l) <=> \E k \in 1..(m + n) : \E e \in 1..Len(l[k].text) : i = l[k].text[e]
        BY <1>2, TextsIs
      <4>2. i \in Texts(x) <=> \E k \in 1..m : \E e \in 1..Len(x[k].text) : i = x[k].text[e]
        BY <1>p, TextsIs
      <4>3. i \in Texts(y) <=> \E k \in 1..n : \E e \in 1..Len(y[k].text) : i = y[k].text[e]
        BY <1>p, TextsIs
      <4>4. QED
        BY <4>1, <4>2, <4>3
    <3>2. QED
      BY <1>3, <1>4, <3>1
  <2>2. QED
    BY <2>1
<1>10. QED
  BY <1>7, <1>8, <1>9, <1>p

\* Places of the tail and of the conversation.
LEMMA PlacesOfTail ==
  ASSUME NEW n \in Nat, NEW s \in 1..n, NEW f \in 1..(n - s + 1), NEW h, h = s + f - 1
  PROVE  h \in s..n /\ (n - s + 1) - f + 1 = n - h + 1
OBVIOUS

LEMMA PlacesBefore ==
  ASSUME NEW s \in Nat, NEW f \in Nat, NEW h, h = s + f - 1, NEW i \in s..(h - 1),
         NEW j, j = i - s + 1
  PROVE  j \in 1..f /\ s + j - 1 = i /\ j < f
OBVIOUS

\* The tail that is kept starts at a user's message or at calls, and before it
\* there is no user's.
LEMMA TailIs ==
  ASSUME NEW c, Conversation(c), Len(c) > 0, IsUser(c[Len(c)]), NEW s, s = TailStart(c)
  PROVE  \E h \in s..Len(c) :
           /\ ~IsResult(c[h]) /\ \A i \in s..(h - 1) : ~IsUser(c[i])
           /\ Gathers(ValidTail(From(c, s)), c, h, Len(c))
<1>p. PICK n, tail, H, f :
        /\ n = Len(c) /\ tail = From(c, s) /\ H = {i \in 1..Len(tail) : IsHead(tail, i)}
        /\ f = FirstOf(H, Len(tail) + 1)
  OBVIOUS
<1>1. s \in 1..n /\ n \in Nat /\ c \in Seq(ChatMessages) /\ ~IsResult(c[s])
  BY <1>p, TailStartIs, LenProperties DEF Conversation
<1>2. /\ tail \in Seq(ChatMessages) /\ Len(tail) = n - s + 1
      /\ \A i \in 1..(n - s + 1) : tail[i] = c[s + i - 1]
  <2>1. s \in 1..(Len(c) + 1)
    BY <1>1, <1>p
  <2>2. QED
    BY <1>1, <1>p, <2>1, EndIs DEF From
<1>p2. PICK m : m = n - s + 1
  OBVIOUS
<1>n. s \in Nat /\ n \in Nat /\ 1 <= s /\ s <= n
  BY <1>1
<1>3. m \in Nat \ {0} /\ s + m - 1 = n
  BY <1>n, <1>p2
<1>4. m \in H
  <2>1. tail[m] = c[n]
    BY <1>2, <1>3, <1>p2
  <2>2. m \in 1..Len(tail)
    BY <1>2, <1>3, <1>p2
  <2>3. QED
    BY <1>p, <2>1, <2>2 DEF IsHead
<1>5. f \in H /\ \A i \in H : f <= i
  <2>1. H \in SUBSET Nat
    BY <1>p
  <2>2. QED
    BY <1>4, <1>p, <2>1, FirstOfIs
<1>6. f \in 1..m /\ IsHead(tail, f)
  BY <1>2, <1>5, <1>p, <1>p2
<1>p3. PICK h : h = s + f - 1
  OBVIOUS
<1>7. h \in s..n /\ h \in 1..Len(c) /\ h \in Nat /\ tail[f] = c[h]
  <2>1. f \in 1..m
    BY <1>6
  <2>2. h \in s..n
    BY <1>1, <1>p2, <1>p3, <2>1, PlacesOfTail
  <2>3. h \in 1..n /\ h \in Nat
    BY <1>n, <2>2
  <2>4. tail[f] = c[h]
    BY <1>2, <1>p2, <1>p3, <2>1
  <2>5. QED
    BY <1>p, <2>2, <2>3, <2>4
<1>8. ~IsResult(c[h])
  BY <1>6, <1>7 DEF IsHead, IsUser, IsCaller, IsResult
<1>9. ASSUME NEW i \in s..(h - 1) PROVE ~IsUser(c[i])
  <2>1. SUFFICES ASSUME IsUser(c[i]) PROVE FALSE
    OBVIOUS
  <2>2. PICK j : j = i - s + 1
    OBVIOUS
  <2>3. j \in 1..m /\ s + j - 1 = i /\ j < f
    <3>1. f \in 1..m /\ f \in Nat
      BY <1>6
    <3>2. j \in 1..f /\ s + j - 1 = i /\ j < f
      BY <1>n, <1>9, <1>p3, <2>2, <3>1, PlacesBefore, SMTT(60)
    <3>3. QED
      BY <1>3, <3>1, <3>2
  <2>4. tail[j] = c[i]
    BY <1>2, <1>p2, <2>3
  <2>5. j \in H
    BY <1>2, <1>p, <1>p2, <2>1, <2>3, <2>4 DEF IsHead
  <2>6. QED
    BY <1>5, <1>6, <2>3, <2>5
<1>p4. PICK v : v = From(tail, f)
  OBVIOUS
<1>10. /\ v \in Seq(ChatMessages) /\ Len(v) = m - f + 1
       /\ \A i \in 1..(m - f + 1) : v[i] = tail[f + i - 1]
  <2>1. f \in 1..(Len(tail) + 1) /\ Len(tail) = m
    BY <1>2, <1>3, <1>6, <1>p2
  <2>2. QED
    BY <1>2, <1>p4, <2>1, EndIs DEF From
<1>11. Len(v) = Len(c) - h + 1
  <2>1. Len(v) = m - f + 1 /\ f \in 1..m
    BY <1>6, <1>10
  <2>2. m - f + 1 = n - h + 1
    BY <1>1, <1>p2, <1>p3, <2>1, PlacesOfTail
  <2>3. QED
    BY <1>p, <2>1, <2>2
<1>12. ASSUME NEW i \in 1..Len(v) PROVE v[i] = c[h + i - 1]
  <2>1. PICK j : j = f + i - 1
    OBVIOUS
  <2>2. i \in 1..(m - f + 1)
    BY <1>10
  <2>3. j \in 1..m /\ s + j - 1 = h + i - 1
    BY <1>1, <1>3, <1>6, <1>p3, <2>1, <2>2
  <2>4. v[i] = tail[j] /\ tail[j] = c[s + j - 1]
    BY <1>2, <1>10, <1>p2, <2>1, <2>2, <2>3
  <2>5. QED
    BY <2>3, <2>4
<1>13. Gathers(MergedAll(v), c, h, Len(c))
  BY <1>7, <1>10, <1>11, <1>12, MergedAllIs
<1>14. ValidTail(tail) = MergedAll(v)
  BY <1>p, <1>p4 DEF ValidTail
<1>15. QED
  BY <1>7, <1>8, <1>9, <1>13, <1>14, <1>p

\* What the rewriting has before it lets a user come first: the messages of the
\* turns that stay, then the tail from h on.
Joins(l, c, K, h) ==
  /\ MadeOf(l, c) /\ TakenWhole(l, c)
  /\ h \in TailStart(c)..Len(c) /\ \A i \in TailStart(c)..(h - 1) : ~IsUser(c[i])
  /\ K \subseteq Heads(l) /\ Texts(l) = K \cup h..Len(c)

Whole(c, numbers) ==
  LET valid == ValidTail(From(c, TailStart(c)))
  IN Middle(c, numbers) \o [i \in 1..Len(valid) |-> Shrunk(valid[i])]

LEMMA JoinedIs ==
  ASSUME NEW c, Conversation(c), Len(c) > 0, IsUser(c[Len(c)]), NEW numbers
  PROVE  \E h : Joins(Whole(c, numbers), c, Retained(c, numbers), h)
<1>p. PICK s, n, K, mid, valid, y :
        /\ s = TailStart(c) /\ n = Len(c) /\ K = Retained(c, numbers)
        /\ mid = Middle(c, numbers) /\ valid = ValidTail(From(c, s))
        /\ y = [i \in 1..Len(valid) |-> Shrunk(valid[i])]
  OBVIOUS
<1>1. /\ s \in 1..n /\ n \in Nat /\ c \in Seq(ChatMessages) /\ ~IsResult(c[s])
      /\ s \in Nat
  BY <1>p, TailStartIs, LenProperties DEF Conversation
<1>2. PICK h \in s..Len(c) :
        /\ ~IsResult(c[h]) /\ \A i \in s..(h - 1) : ~IsUser(c[i])
        /\ Gathers(valid, c, h, Len(c))
  BY <1>p, TailIs
<1>3. h \in s..n /\ h \in Nat /\ Gathers(valid, c, h, n) /\ h \in 1..n
  BY <1>1, <1>2, <1>p
<1>4. MadeOf(valid, c)
  BY <1>3 DEF Gathers
<1>5. MadeOf(y, c) /\ Len(y) = Len(valid) /\ Heads(y) = Heads(valid) /\ Texts(y) = Texts(valid)
  <2>1. DOMAIN y = 1..Len(valid) /\ y = [i \in 1..Len(valid) |-> y[i]]
    BY <1>p
  <2>2. \A k \in 1..Len(valid) : MadeMessage(valid[k], c)
    BY <1>4 DEF MadeOf
  <2>3. \A k \in 1..Len(valid) : MadeMessage(y[k], c) /\ y[k].text = valid[k].text
    BY <1>p, <2>2, CondensedIs
  <2>4. QED
    BY <1>4, <2>1, <2>3, SameTexts
<1>6. MadeOf(mid, c) /\ Heads(mid) = K /\ Texts(mid) = K /\ \A k \in 1..Len(mid) : Len(mid[k].text) = 1
  BY <1>p, MiddleIs DEF Shows
<1>7. K \subseteq 1..(s - 1) /\ K = {i \in 1..(s - 1) : numbers # KeepAll => TurnAt(c, i) \in numbers}
  BY <1>p DEF Retained, Places
<1>8. Heads(valid) \subseteq h..n /\ \A i \in h..n : i \in Texts(valid)
  <2>1. ASSUME NEW k \in 1..Len(valid) PROVE valid[k].text[1] \in h..n
    <3>1. valid[k].text[1] \in 1..n /\ h <= valid[k].text[1]
      BY <1>3, <1>4, <1>p, MadeOfIs DEF Gathers
    <3>2. QED
      BY <1>3, <3>1
  <2>2. QED
    BY <1>3, <2>1 DEF Heads, Gathers
<1>9. Texts(valid) = h..n
  <2>1. ASSUME NEW i \in Texts(valid) PROVE i \in h..n
    <3>1. PICK k \in 1..Len(valid) : \E x \in 1..Len(valid[k].text) : i = valid[k].text[x]
      BY TextsIs
    <3>2. PICK x \in 1..Len(valid[k].text) : i = valid[k].text[x]
      BY <3>1
    <3>3. i \in ToSet(valid[k].text)
      BY <1>4, <3>2, MadeOfIs
    <3>4. i \in 1..n /\ valid[k].text[1] <= i
      BY <1>4, <1>p, <3>3, MadeOfIs
    <3>5. h <= valid[k].text[1] /\ valid[k].text[1] \in 1..n
      BY <1>3, <1>4, <1>p, MadeOfIs DEF Gathers
    <3>6. QED
      BY <1>3, <3>4, <3>5
  <2>2. QED
    BY <1>8, <2>1
<1>p2. PICK l : l = Whole(c, numbers)
  OBVIOUS
<1>10. l = mid \o y
  BY <1>p, <1>p2 DEF Whole
<1>11. \A k \in 1..Len(mid), j \in 1..Len(y) : mid[k].text[Len(mid[k].text)] < y[j].text[1]
  <2>1. SUFFICES ASSUME NEW k \in 1..Len(mid), NEW j \in 1..Len(y)
                 PROVE  mid[k].text[Len(mid[k].text)] < y[j].text[1]
    OBVIOUS
  <2>2. mid[k].text[1] \in K /\ y[j].text[1] \in Heads(y) /\ Len(mid[k].text) = 1
    BY <1>6 DEF Heads
  <2>3. mid[k].text[1] \in 1..(s - 1) /\ y[j].text[1] \in h..n
    BY <1>5, <1>7, <1>8, <2>2
  <2>4. PICK a, b : a = mid[k].text[1] /\ b = y[j].text[1]
    OBVIOUS
  <2>5. a < b
    BY <1>1, <1>3, <2>3, <2>4, SMTT(60)
  <2>6. QED
    BY <2>2, <2>4, <2>5
<1>12. MadeOf(l, c) /\ Heads(l) = K \cup Heads(valid) /\ Texts(l) = K \cup h..n
  <2>1. MadeOf(mid, c) /\ MadeOf(y, c)
    BY <1>5, <1>6
  <2>2. ComesBefore(mid, y)
    BY <1>11 DEF ComesBefore
  <2>3. MadeOf(l, c) /\ Heads(l) = Heads(mid) \cup Heads(y) /\ Texts(l) = Texts(mid) \cup Texts(y)
    <3>1. IsConcat(l, mid, y)
      BY <1>10 DEF IsConcat
    <3>2. QED
      BY <2>1, <2>2, <3>1, MadeOfConcat
  <2>4. QED
    BY <1>5, <1>6, <1>9, <2>3
<1>13. TakenWhole(l, c)
  <2>1. SUFFICES ASSUME NEW i \in 1..Len(c), IsResult(c[i])
                 PROVE  i \in Heads(l) <=> i - 1 \in Heads(l)
    BY DEF TakenWhole
  <2>2. i # 1 /\ i - 1 \in 1..Len(c) /\ (IsResult(c[i - 1]) \/ IsCaller(c[i - 1]))
    BY <2>1, ResultHasCaller
  <2>3. i # s /\ i # h /\ i \in Nat
    BY <1>1, <1>2, <2>1
  <2>4. CASE i < s
    <3>1. i \notin h..n /\ i - 1 \notin h..n /\ i \in 1..(s - 1) /\ i - 1 \in 1..(s - 1)
      BY <1>1, <1>3, <1>p, <2>2, <2>3, <2>4
    <3>2. i \notin Heads(valid) /\ i - 1 \notin Heads(valid)
      BY <1>8, <3>1
    <3>3. TurnAt(c, i) = TurnAt(c, i - 1)
      <4>1. ~IsUser(c[i]) /\ i \in Nat \ {0}
        BY <2>1 DEF IsUser, IsResult
      <4>2. QED
        BY <4>1, TurnStays
    <3>4. QED
      BY <1>7, <1>12, <3>1, <3>2, <3>3
  <2>5. CASE s < i /\ i < h
    <3>1. i \notin h..n /\ i - 1 \notin h..n /\ i \notin 1..(s - 1) /\ i - 1 \notin 1..(s - 1)
      BY <1>1, <1>3, <2>3, <2>5
    <3>2. QED
      BY <1>7, <1>8, <1>12, <3>1
  <2>6. CASE h < i
    <3>1. i \in h..n /\ i - 1 \in h..n
      BY <1>3, <1>p, <2>2, <2>3, <2>6
    <3>2. i \in Heads(valid) /\ i - 1 \in Heads(valid)
      BY <1>3, <2>1, <2>2, <3>1 DEF Gathers
    <3>3. QED
      BY <1>12, <3>2
  <2>7. QED
    BY <1>1, <1>3, <2>3, <2>4, <2>5, <2>6
<1>14. QED
  BY <1>2, <1>12, <1>13, <1>p, <1>p2 DEF Joins

-----------------------------------------------------------------------------
(* A user comes first.                                                     *)

\* A part of such a list is one.
LEMMA MadeOfPart ==
  ASSUME NEW c, NEW l, MadeOf(l, c), NEW x \in Seq(ChatMessages), NEW g \in Nat,
         \A k \in 1..Len(x) : g + k \in 1..Len(l) /\ x[k] = l[g + k]
  PROVE  MadeOf(x, c)
<1>p. PICK m : m = Len(x)
  OBVIOUS
<1>1. m \in Nat
  BY <1>p, LenProperties
<1>2. \A k \in 1..m : MadeMessage(x[k], c)
  <2>1. SUFFICES ASSUME NEW k \in 1..m PROVE MadeMessage(x[k], c)
    OBVIOUS
  <2>2. g + k \in 1..Len(l) /\ x[k] = l[g + k]
    BY <1>p
  <2>3. MadeMessage(l[g + k], c)
    BY <2>2 DEF MadeOf
  <2>4. QED
    BY <2>2, <2>3
<1>3. ASSUME NEW k \in 1..m, NEW n \in 1..m, k < n
      PROVE  x[k].text[Len(x[k].text)] < x[n].text[1]
  <2>1. PICK i, j : i = g + k /\ j = g + n
    OBVIOUS
  <2>2. i \in 1..Len(l) /\ x[k] = l[i] /\ j \in 1..Len(l) /\ x[n] = l[j]
    BY <1>p, <2>1
  <2>3. i < j
    BY <1>3, <2>1
  <2>4. l[i].text[Len(l[i].text)] < l[j].text[1]
    BY <2>2, <2>3 DEF MadeOf
  <2>5. QED
    BY <2>2, <2>4
<1>4. QED
  BY <1>2, <1>3, <1>p DEF MadeOf

\* What is cut out between the first system messages and a user's message
\* leaves no call without its results.
LEMMA CutKeeps ==
  ASSUME NEW c, Conversation(c), NEW l, MadeOf(l, c), TakenWhole(l, c),
         NEW a \in 1..Len(l), NEW b \in a..Len(l), IsUser(l[b]),
         \A k \in 1..(a - 1) : IsSystem(l[k]), NEW r, IsConcat(r, Before(l, a), From(l, b))
  PROVE  /\ MadeOf(r, c) /\ TakenWhole(r, c)
         /\ Len(r) = (a - 1) + (Len(l) - b + 1)
         /\ \A k \in 1..(a - 1) : r[k] = l[k]
         /\ r[a] = l[b] /\ r[Len(r)] = l[Len(l)]
         /\ \A k \in 1..Len(l) : k < a \/ b <= k =>
              \A x \in 1..Len(l[k].text) : l[k].text[x] \in Texts(r)
<1>p. PICK m, n, g, x, y : m = Len(l) /\ n = m - b + 1 /\ g = a - 1 /\ x = Before(l, a) /\ y = From(l, b)
  OBVIOUS
<1>1. l \in Seq(ChatMessages) /\ m \in Nat /\ a \in 1..m /\ b \in a..m
  BY <1>p, LenProperties DEF MadeOf
<1>2. g \in Nat /\ n \in Nat \ {0} /\ g + 1 = a /\ b \in 1..m /\ b + n - 1 = m /\ g <= m /\ g < b
  BY <1>1, <1>p
<1>3. x \in Seq(ChatMessages) /\ Len(x) = g /\ \A k \in 1..g : x[k] = l[k] /\ k \in 1..m
  <2>1. g \in 0..Len(l)
    BY <1>1, <1>2, <1>p
  <2>2. x = SubSeq(l, 1, g)
    BY <1>p DEF Before
  <2>3. x \in Seq(ChatMessages) /\ Len(x) = g /\ \A k \in 1..g : x[k] = l[k]
    BY <1>1, <2>1, <2>2, BeginningIs
  <2>4. \A k \in 1..g : k \in 1..m
    BY <1>1, <1>2
  <2>5. QED
    BY <2>3, <2>4
<1>4. y \in Seq(ChatMessages) /\ Len(y) = n /\ \A k \in 1..n : y[k] = l[b + k - 1]
  <2>1. b \in 1..(Len(l) + 1) /\ n = Len(l) - b + 1
    BY <1>1, <1>2, <1>p
  <2>2. QED
    BY <1>1, <1>p, <2>1, EndIs DEF From
<1>5. \A k \in 1..n : /\ b + k - 1 \in 1..m /\ (b - 1) + k = b + k - 1 /\ g < b + k - 1
  BY <1>1, <1>2
<1>6. MadeOf(x, c) /\ MadeOf(y, c)
  <2>1. MadeOf(x, c)
    <3>1. \A k \in 1..Len(x) : 0 + k \in 1..Len(l) /\ x[k] = l[0 + k]
      BY <1>3, <1>p
    <3>2. QED
      BY <1>3, <3>1, MadeOfPart
  <2>2. MadeOf(y, c)
    <3>1. PICK e : e = b - 1
      OBVIOUS
    <3>2. e \in Nat
      BY <1>2, <3>1
    <3>3. \A k \in 1..Len(y) : e + k \in 1..Len(l) /\ y[k] = l[e + k]
      BY <1>4, <1>5, <1>p, <3>1
    <3>4. QED
      BY <1>4, <3>2, <3>3, MadeOfPart
  <2>3. QED
    BY <2>1, <2>2
<1>7. \A k \in 1..Len(x), j \in 1..Len(y) : x[k].text[Len(x[k].text)] < y[j].text[1]
  <2>1. SUFFICES ASSUME NEW k \in 1..g, NEW j \in 1..n
                 PROVE  x[k].text[Len(x[k].text)] < y[j].text[1]
    BY <1>3, <1>4
  <2>2. PICK i : i = b + j - 1
    OBVIOUS
  <2>3. i \in 1..m /\ k \in 1..m /\ k < i
    BY <1>2, <1>3, <1>5, <2>2
  <2>4. l[k].text[Len(l[k].text)] < l[i].text[1]
    BY <1>p, <2>3 DEF MadeOf
  <2>5. QED
    BY <1>3, <1>4, <2>2, <2>4
<1>8. r = x \o y
  BY <1>p DEF IsConcat
<1>9. /\ MadeOf(r, c)
      /\ Heads(r) = Heads(x) \cup Heads(y) /\ Texts(r) = Texts(x) \cup Texts(y)
  <2>1. ComesBefore(x, y)
    BY <1>7 DEF ComesBefore
  <2>2. IsConcat(r, x, y)
    BY <1>8 DEF IsConcat
  <2>3. QED
    BY <1>6, <2>1, <2>2, MadeOfConcat
<1>10. /\ Len(r) = g + n /\ \A k \in 1..g : r[k] = l[k]
       /\ r[a] = l[b] /\ r[g + n] = l[m]
  <2>1. Len(r) = g + n /\ \A k \in 1..(g + n) : r[k] = IF k <= g THEN x[k] ELSE y[k - g]
    <3>1. x \o y \in Seq(ChatMessages) /\ Len(x \o y) = Len(x) + Len(y)
          /\ \A k \in 1..(Len(x) + Len(y)) : (x \o y)[k] = IF k <= Len(x) THEN x[k] ELSE y[k - Len(x)]
      BY <1>3, <1>4, ConcatProperties
    <3>2. QED
      BY <1>3, <1>4, <1>8, <3>1
  <2>2. \A k \in 1..g : k \in 1..(g + n) /\ k <= g
    BY <1>2
  <2>3. /\ a \in 1..(g + n) /\ ~(a <= g) /\ a - g = 1 /\ 1 \in 1..n /\ b + 1 - 1 = b
        /\ g + n \in 1..(g + n) /\ ~(g + n <= g) /\ (g + n) - g = n /\ n \in 1..n
    BY <1>2
  <2>4. r[a] = y[1] /\ r[g + n] = y[n]
    BY <2>1, <2>3
  <2>5. y[1] = l[b] /\ y[n] = l[m]
    BY <1>2, <1>4, <2>3
  <2>6. QED
    BY <1>3, <2>1, <2>2, <2>4, <2>5
<1>11. ASSUME NEW k \in 1..m, k < a \/ b <= k
       PROVE  \/ \E j \in 1..g : x[j] = l[k]
              \/ \E j \in 1..n : y[j] = l[k]
  <2>1. CASE k < a
    <3>1. k \in 1..g
      BY <1>1, <1>2, <2>1
    <3>2. QED
      BY <1>3, <3>1
  <2>2. CASE b <= k
    <3>1. k - b + 1 \in 1..n /\ b + (k - b + 1) - 1 = k
      BY <1>1, <1>p, <2>2
    <3>2. y[k - b + 1] = l[k]
      BY <1>4, <3>1
    <3>3. QED
      BY <3>1, <3>2
  <2>3. QED
    BY <1>11, <2>1, <2>2
<1>12. ASSUME NEW k \in 1..m, k < a \/ b <= k, NEW i \in 1..Len(l[k].text)
       PROVE  l[k].text[i] \in Texts(r)
  <2>1. CASE \E j \in 1..g : x[j] = l[k]
    <3>1. PICK j \in 1..g : x[j] = l[k]
      BY <2>1
    <3>2. l[k].text[i] \in Texts(x)
      BY <1>3, <3>1, TextsIs
    <3>3. QED
      BY <1>9, <3>2
  <2>2. CASE \E j \in 1..n : y[j] = l[k]
    <3>1. PICK j \in 1..n : y[j] = l[k]
      BY <2>2
    <3>2. l[k].text[i] \in Texts(y)
      BY <1>4, <3>1, TextsIs
    <3>3. QED
      BY <1>9, <3>2
  <2>3. QED
    BY <1>11, <1>12, <2>1, <2>2
<1>13. ASSUME NEW k \in 1..m, k < a \/ b <= k PROVE l[k].text[1] \in Heads(r)
  <2>1. /\ \A j \in 1..g : x[j].text[1] \in Heads(x)
        /\ \A j \in 1..n : y[j].text[1] \in Heads(y)
    BY <1>3, <1>4 DEF Heads
  <2>2. \/ \E j \in 1..g : x[j] = l[k]
        \/ \E j \in 1..n : y[j] = l[k]
    BY <1>11, <1>13
  <2>3. QED
    BY <1>9, <2>1, <2>2
<1>14. ASSUME NEW i \in Heads(r)
       PROVE  \E k \in 1..m : (k < a \/ b <= k) /\ l[k].text[1] = i
  <2>1. CASE i \in Heads(x)
    <3>1. PICK k \in 1..g : i = x[k].text[1]
      BY <1>3, <2>1 DEF Heads
    <3>2. k \in 1..m /\ k < a
      BY <1>2, <1>3, <3>1
    <3>3. QED
      BY <1>3, <3>1, <3>2
  <2>2. CASE i \in Heads(y)
    <3>1. PICK k \in 1..n : i = y[k].text[1]
      BY <1>4, <2>2 DEF Heads
    <3>2. b + k - 1 \in 1..m /\ b <= b + k - 1
      BY <1>2, <1>5
    <3>3. QED
      BY <1>4, <3>1, <3>2
  <2>3. QED
    BY <1>9, <1>14, <2>1, <2>2
<1>15. ASSUME NEW k \in 1..m
       PROVE  /\ l[k].text[1] \in 1..Len(c) /\ l[k].role = c[l[k].text[1]].role
              /\ l[k].calls = c[l[k].text[1]].calls
  BY <1>p, MadeOfIs, SMTT(60)
<1>16. ASSUME NEW i \in 1..Len(c), IsResult(c[i]), i \in Heads(r) PROVE i - 1 \in Heads(r)
  <2>1. PICK k \in 1..m : (k < a \/ b <= k) /\ l[k].text[1] = i
    BY <1>14, <1>16
  <2>2. IsResult(l[k])
    BY <1>15, <1>16, <2>1 DEF IsResult
  <2>3. ~(k < a) /\ k # b
    <3>1. k # b
      BY <2>2 DEF IsResult, IsUser
    <3>2. SUFFICES ASSUME k < a PROVE FALSE
      BY <3>1
    <3>3. k \in 1..(a - 1)
      BY <1>1, <2>1, <3>2
    <3>4. QED
      BY <2>2, <3>3 DEF IsSystem, IsResult
  <2>4. b <= k - 1
    BY <1>1, <2>1, <2>3
  <2>5. k - 1 \in 1..m /\ l[k - 1].text[1] = i - 1
    <3>1. StartsAt(l, k, i)
      BY <1>p, <2>1 DEF StartsAt
    <3>2. StartsAt(l, k - 1, i - 1)
      BY <1>16, <3>1, NextTo
    <3>3. QED
      BY <1>p, <3>2 DEF StartsAt
  <2>6. QED
    BY <1>13, <2>4, <2>5
<1>17. ASSUME NEW i \in 1..Len(c), IsResult(c[i]), i - 1 \in Heads(r) PROVE i \in Heads(r)
  <2>1. i \in Nat /\ i # 1 /\ i - 1 \in 1..Len(c) /\ (IsResult(c[i - 1]) \/ IsCaller(c[i - 1]))
    BY <1>17, ResultHasCaller
  <2>2. PICK k \in 1..m : (k < a \/ b <= k) /\ l[k].text[1] = i - 1
    BY <1>14, <1>17
  <2>3. l[k].role = c[i - 1].role
    BY <1>15, <2>2
  <2>4. ~(k < a)
    <3>1. SUFFICES ASSUME k < a PROVE FALSE
      OBVIOUS
    <3>2. k \in 1..(a - 1)
      BY <1>1, <3>1
    <3>3. QED
      BY <2>1, <2>3, <3>2 DEF IsSystem, IsResult, IsCaller
  <2>5. PICK h : h = i - 1
    OBVIOUS
  <2>6. h + 1 = i /\ l[k].text[1] = h
    BY <2>1, <2>2, <2>5
  <2>7. k + 1 \in 1..m /\ l[k + 1].text[1] = i
    <3>1. h + 1 \in 1..Len(c) /\ IsResult(c[h + 1])
      BY <1>17, <2>6
    <3>2. h + 1 \in 1..Len(c) /\ IsResult(c[h + 1])
            => StartsAt(l, k + 1, h + 1)
      <4>1. StartsAt(l, k, h)
        BY <1>p, <2>6 DEF StartsAt
      <4>2. QED
        BY <4>1, NextTo
    <3>3. QED
      BY <1>p, <2>6, <3>1, <3>2 DEF StartsAt
  <2>8. b <= k + 1
    BY <1>1, <2>2, <2>4
  <2>9. QED
    BY <1>13, <2>7, <2>8
<1>18. TakenWhole(r, c)
  BY <1>16, <1>17 DEF TakenWhole
<1>19. QED
  BY <1>9, <1>10, <1>12, <1>18, <1>p

\* What is cut: from the first message that is no system message to the first
\* of a user's.
CutAt(r, l, a, b) ==
  /\ a \in 1..Len(l) /\ b \in a..Len(l) /\ IsUser(l[b])
  /\ \A k \in 1..(a - 1) : IsSystem(l[k])
  /\ \A k \in a..(b - 1) : ~IsUser(l[k])
  /\ r = Before(l, a) \o From(l, b)

LEMMA UserFirstIs ==
  ASSUME NEW l, Len(l) \in Nat \ {0}, IsUser(l[Len(l)])
  PROVE  \E a, b : CutAt(UserFirst(l), l, a, b)
<1>p. PICK m, P, a : /\ m = Len(l) /\ P = {i \in 1..Len(l) : ~IsSystem(l[i])}
                     /\ a = FirstOf({i \in 1..Len(l) : ~IsSystem(l[i])}, Len(l) + 1)
  OBVIOUS
<1>p2. PICK Q, b : /\ Q = {i \in a..Len(l) : IsUser(l[i])}
                   /\ b = FirstOf({i \in a..Len(l) : IsUser(l[i])}, Len(l) + 1)
  OBVIOUS
<1>1. UserFirst(l) = Before(l, a) \o From(l, b)
  BY <1>p, <1>p2 DEF UserFirst
<1>2. a \in P /\ \A x \in P : a <= x
  <2>1. m \in P
    BY <1>p DEF IsUser, IsSystem
  <2>2. P \in SUBSET Nat /\ P # {} /\ a = FirstOf(P, m + 1)
    BY <1>p, <2>1
  <2>3. QED
    BY <2>2, FirstOfIs
<1>3. b \in Q /\ \A x \in Q : b <= x
  <2>1. a \in 1..m
    BY <1>2, <1>p
  <2>2. m \in Q
    BY <1>p, <1>p2, <2>1
  <2>3. b = FirstOf(Q, m + 1)
    BY <1>p, <1>p2
  <2>4. Q \in SUBSET Nat
    BY <1>p2, <2>1
  <2>5. QED
    BY <2>2, <2>3, <2>4, FirstOfIs
<1>4. a \in 1..m /\ b \in a..m /\ IsUser(l[b]) /\ m \in Nat
  BY <1>2, <1>3, <1>p, <1>p2
<1>5. ASSUME NEW k \in 1..(a - 1) PROVE IsSystem(l[k])
  <2>1. k \in 1..m /\ ~(a <= k)
    BY <1>4
  <2>2. QED
    BY <1>2, <1>p, <2>1
<1>6. ASSUME NEW k \in a..(b - 1) PROVE ~IsUser(l[k])
  <2>1. k \in a..m /\ ~(b <= k)
    BY <1>4
  <2>2. QED
    BY <1>3, <1>p, <1>p2, <2>1
<1>7. QED
  BY <1>1, <1>4, <1>5, <1>6, <1>p DEF CutAt

\* A list that has the last message of the conversation ends with it.
LEMMA LastOfMade ==
  ASSUME NEW c, NEW l, MadeOf(l, c), Len(c) \in Nat, Len(c) \in Texts(l), NEW m, m = Len(l)
  PROVE  /\ m \in Nat \ {0} /\ l[m].text[Len(l[m].text)] = Len(c)
         /\ l[m].role = c[Len(c)].role
<1>1. m \in Nat
  BY LenProperties DEF MadeOf
<1>p. PICK n : n = Len(c)
  OBVIOUS
<1>2. PICK k \in 1..m : \E x \in 1..Len(l[k].text) : n = l[k].text[x]
  BY <1>p, TextsIs
<1>3. PICK t : t = l[k].text
  OBVIOUS
<1>4. /\ t[Len(t)] \in 1..n /\ n \in ToSet(t)
      /\ \A i \in ToSet(t) : i <= t[Len(t)] /\ c[i].role = l[k].role
  <2>1. /\ t[Len(t)] \in 1..Len(c)
        /\ \A i \in ToSet(t) : i \in 1..Len(c) /\ t[1] <= i /\ i <= t[Len(t)] /\ c[i].role = l[k].role
        /\ \A x \in 1..Len(t) : t[x] \in ToSet(t)
    BY <1>3, MadeOfIs
  <2>2. PICK x \in 1..Len(t) : n = t[x]
    BY <1>2, <1>3
  <2>3. QED
    BY <1>p, <2>1, <2>2
<1>5. t[Len(t)] = n /\ c[n].role = l[k].role
  <2>1. n <= t[Len(t)] /\ c[n].role = l[k].role
    BY <1>4
  <2>2. QED
    BY <1>4, <1>p, <2>1
<1>6. k = m
  <2>1. SUFFICES ASSUME k # m PROVE FALSE
    OBVIOUS
  <2>2. m \in 1..m /\ k < m
    BY <1>1, <2>1
  <2>3. t[Len(t)] < l[m].text[1]
    BY <1>3, <2>2 DEF MadeOf
  <2>4. l[m].text[1] \in 1..n
    BY <1>p, <2>2, MadeOfIs
  <2>5. PICK z : z = l[m].text[1]
    OBVIOUS
  <2>6. z \in 1..n /\ n < z
    BY <1>5, <2>3, <2>4, <2>5
  <2>7. QED
    BY <1>p, <2>6
<1>7. QED
  BY <1>1, <1>3, <1>5, <1>6, <1>p

\* What follows the system messages of a list that was cut starts with a user's.
LEMMA CutIsAsked ==
  ASSUME NEW r \in Seq(ChatMessages), NEW a \in Nat \ {0}, IsUser(r[a]),
         \A k \in 1..(a - 1) : IsSystem(r[k]), WithoutSystem(r) # <<>>
  PROVE  IsUser(Head(WithoutSystem(r)))
<1>p. PICK T, H, o : /\ T = {msg \in Range(r) : ~IsSystem(msg)} /\ H = {msg \in ChatMessages : IsUser(msg)}
                     /\ o = WithoutSystem(r)
  OBVIOUS
<1>1. o = Only(r, T) /\ o # <<>>
  BY <1>p DEF WithoutSystem
<1>2. Len(r) \in Nat /\ \A i \in 1..Len(r) : r[i] \in ChatMessages /\ (r[i] \in T <=> ~IsSystem(r[i]))
  <2>1. \A i \in 1..Len(r) : r[i] \in Range(r)
    BY LenProperties DEF Range
  <2>2. \A i \in 1..Len(r) : r[i] \in ChatMessages
    BY ElementOfSeq
  <2>3. QED
    BY <1>p, <2>1, <2>2, LenProperties
<1>3. ASSUME NEW i \in 1..Len(r), r[i] \in T
      PROVE  r[i] \in H \/ \E j \in 1..(i - 1) : r[j] \in T
  <2>1. ~IsSystem(r[i])
    BY <1>2, <1>3
  <2>2. ~(i \in 1..(a - 1))
    BY <2>1
  <2>3. i = a \/ a \in 1..(i - 1)
    BY <1>2, <2>2
  <2>4. CASE i = a
    BY <1>2, <1>p, <2>4
  <2>5. CASE a \in 1..(i - 1)
    <3>1. a \in 1..Len(r)
      BY <1>2, <2>5
    <3>2. r[a] \in T
      BY <1>2, <3>1 DEF IsUser, IsSystem
    <3>3. QED
      BY <2>5, <3>2
  <2>6. QED
    BY <2>3, <2>4, <2>5
<1>4. o[1] \in H
  BY <1>1, <1>3, OnlyHead
<1>5. QED
  BY <1>4, <1>p

-----------------------------------------------------------------------------
(* The rewritten list.                                                     *)

LEMMA SentIsMade ==
  ASSUME NEW c, Conversation(c), Len(c) > 0, IsUser(c[Len(c)]), NEW numbers,
         NEW r, r = Rewritten(c, numbers)
  PROVE  \E l, h, a, b :
           /\ Joins(l, c, Retained(c, numbers), h) /\ CutAt(r, l, a, b)
           /\ IsUser(l[Len(l)]) /\ l[Len(l)].text[Len(l[Len(l)].text)] = Len(c)
<1>p. PICK l : l = Whole(c, numbers)
  OBVIOUS
<1>1. PICK h : Joins(l, c, Retained(c, numbers), h)
  BY <1>p, JoinedIs
<1>2. Len(c) \in Nat /\ TailStart(c) \in 1..Len(c)
  BY TailStartIs, LenProperties DEF Conversation
<1>3. MadeOf(l, c) /\ Len(c) \in Texts(l)
  <2>1. h \in TailStart(c)..Len(c) /\ h..Len(c) \subseteq Texts(l)
    BY <1>1 DEF Joins
  <2>2. Len(c) \in h..Len(c)
    BY <1>2, <2>1
  <2>3. QED
    BY <1>1, <2>1, <2>2 DEF Joins
<1>4. PICK m : m = Len(l)
  OBVIOUS
<1>5. m \in Nat \ {0} /\ l[m].text[Len(l[m].text)] = Len(c) /\ l[m].role = c[Len(c)].role
  BY <1>2, <1>3, <1>4, LastOfMade
<1>6. IsUser(l[m])
  BY <1>5 DEF IsUser
<1>7. \E a, b : CutAt(r, l, a, b)
  <2>1. r = UserFirst(l)
    BY <1>p DEF Rewritten, Whole
  <2>2. QED
    BY <1>4, <1>5, <1>6, <2>1, UserFirstIs
<1>8. QED
  BY <1>1, <1>4, <1>5, <1>6, <1>7

\* The messages of the rewritten list are the ones that the cut leaves.
LEMMA CutIs ==
  ASSUME NEW c, Conversation(c), NEW l, NEW K, NEW h, Joins(l, c, K, h),
         NEW r, NEW a, NEW b, CutAt(r, l, a, b)
  PROVE  /\ MadeOf(r, c) /\ TakenWhole(r, c)
         /\ Len(r) = (a - 1) + (Len(l) - b + 1)
         /\ \A k \in 1..(a - 1) : r[k] = l[k]
         /\ r[a] = l[b] /\ r[Len(r)] = l[Len(l)]
         /\ \A k \in 1..Len(l) : k < a \/ b <= k =>
              \A x \in 1..Len(l[k].text) : l[k].text[x] \in Texts(r)
<1>1. MadeOf(l, c) /\ TakenWhole(l, c)
  BY DEF Joins
<1>2. /\ a \in 1..Len(l) /\ b \in a..Len(l) /\ IsUser(l[b])
      /\ \A k \in 1..(a - 1) : IsSystem(l[k])
  BY DEF CutAt
<1>3. IsConcat(r, Before(l, a), From(l, b))
  BY DEF CutAt, IsConcat
<1>4. QED
  BY <1>1, <1>2, <1>3, CutKeeps

LEMMA RewrittenIsWellFormed ==
  ASSUME NEW c, Conversation(c), Len(c) > 0, IsUser(c[Len(c)]), NEW numbers,
         NEW r, r = Rewritten(c, numbers)
  PROVE  /\ WellFormed(r) /\ r # <<>> /\ IsUser(Last(r)) /\ Last(Last(r).text) = Len(c)
<1>1. PICK l, h, a, b :
        /\ Joins(l, c, Retained(c, numbers), h) /\ CutAt(r, l, a, b)
        /\ IsUser(l[Len(l)]) /\ l[Len(l)].text[Len(l[Len(l)].text)] = Len(c)
  BY SentIsMade
<1>2. /\ MadeOf(r, c) /\ TakenWhole(r, c) /\ Len(r) = (a - 1) + (Len(l) - b + 1)
      /\ r[a] = l[b] /\ r[Len(r)] = l[Len(l)] /\ \A k \in 1..(a - 1) : r[k] = l[k]
  BY <1>1, CutIs
<1>3. /\ a \in 1..Len(l) /\ b \in a..Len(l) /\ IsUser(l[b]) /\ \A k \in 1..(a - 1) : IsSystem(l[k])
  BY <1>1 DEF CutAt
<1>4. l \in Seq(ChatMessages) /\ r \in Seq(ChatMessages) /\ Len(l) \in Nat
  BY <1>1, <1>2, LenProperties DEF Joins, MadeOf
<1>5. r # <<>>
  <2>1. Len(r) # 0
    BY <1>2, <1>3, <1>4
  <2>2. QED
    BY <1>4, <2>1, EmptySeq
<1>6. WithoutSystem(r) # <<>> => IsUser(Head(WithoutSystem(r)))
  <2>1. a \in Nat \ {0} /\ IsUser(r[a]) /\ \A k \in 1..(a - 1) : IsSystem(r[k])
    BY <1>2, <1>3, <1>4
  <2>2. QED
    BY <1>4, <2>1, CutIsAsked
<1>7. Grouped(r)
  BY <1>2, TakenIsGrouped
<1>8. WellFormed(r)
  BY <1>6, <1>7 DEF WellFormed, Grouped
<1>9. IsUser(Last(r)) /\ Last(Last(r).text) = Len(c)
  BY <1>1, <1>2 DEF Last
<1>10. QED
  BY <1>5, <1>8, <1>9

\* What is not before a user's message that is in the list is not cut.
LEMMA AskedStays ==
  ASSUME NEW c, Conversation(c), NEW l, NEW K, NEW h, Joins(l, c, K, h),
         NEW r, NEW a, NEW b, CutAt(r, l, a, b),
         NEW q \in Texts(l), IsUser(c[q]), NEW i \in Texts(l), q <= i
  PROVE  i \in Texts(r)
<1>p. PICK m : m = Len(l)
  OBVIOUS
<1>1. MadeOf(l, c) /\ m \in Nat /\ Len(c) \in Nat
  BY <1>p, LenProperties DEF Joins, MadeOf, Conversation
<1>2. PICK k \in 1..m : \E x \in 1..Len(l[k].text) : q = l[k].text[x]
  BY <1>p, TextsIs
<1>3. PICK j \in 1..m : \E x \in 1..Len(l[j].text) : i = l[j].text[x]
  BY <1>p, TextsIs
<1>4. q \in 1..Len(c) /\ l[k].text[1] <= q /\ c[q].role = l[k].role
  <2>1. q \in ToSet(l[k].text)
    BY <1>1, <1>2, <1>p, MadeOfIs
  <2>2. QED
    BY <1>1, <1>p, <2>1, MadeOfIs
<1>5. i \in 1..Len(c) /\ i <= l[j].text[Len(l[j].text)]
  <2>1. i \in ToSet(l[j].text)
    BY <1>1, <1>3, <1>p, MadeOfIs
  <2>2. QED
    BY <1>1, <1>p, <2>1, MadeOfIs
<1>6. k <= j
  <2>1. SUFFICES ASSUME j < k PROVE FALSE
    BY <1>1
  <2>2. PICK e, f : e = l[j].text[Len(l[j].text)] /\ f = l[k].text[1]
    OBVIOUS
  <2>3. e < f
    BY <1>1, <1>p, <2>1, <2>2 DEF MadeOf
  <2>4. e \in 1..Len(c) /\ f \in 1..Len(c)
    BY <1>1, <1>p, <2>2, MadeOfIs
  <2>5. i <= e /\ f <= q
    BY <1>4, <1>5, <2>2
  <2>6. QED
    BY <1>1, <1>4, <1>5, <2>3, <2>4, <2>5
<1>7. b <= k /\ b \in Nat
  <2>1. IsUser(l[k]) /\ ~IsSystem(l[k])
    BY <1>4 DEF IsUser, IsSystem
  <2>2. /\ a \in 1..m /\ b \in a..m /\ \A n \in 1..(a - 1) : IsSystem(l[n])
        /\ \A n \in a..(b - 1) : ~IsUser(l[n])
    BY <1>p DEF CutAt
  <2>3. k \notin 1..(a - 1) /\ k \notin a..(b - 1)
    BY <2>1, <2>2
  <2>4. QED
    BY <1>1, <2>2, <2>3
<1>8. b <= j
  BY <1>6, <1>7
<1>9. \A n \in 1..Len(l) : n < a \/ b <= n =>
        \A x \in 1..Len(l[n].text) : l[n].text[x] \in Texts(r)
  BY CutIs
<1>10. QED
  BY <1>3, <1>8, <1>9, <1>p

\* What of a conversation the rewriting may not lose.
Honours(r, c, numbers) ==
  LET gone == 1..Len(c) \ Texts(r)
  IN /\ \A i \in gone :
          /\ numbers = KeepAll \/ TurnAt(c, i) \in numbers =>
               i >= TailStart(c) \/ TurnAt(c, i) = 0
          /\ IsUser(c[i]) /\ (\A j \in 1..Len(c) : ~IsSystem(c[j])) =>
               TurnAt(c, i) \in Inventory(c)
     /\ \A i \in 1..Len(r), j \in 1..Len(r) :
          i < j => Last(r[i].text) < Head(r[j].text)

LEMMA WithoutSystemIs ==
  ASSUME NEW c \in Seq(ChatMessages), \A j \in 1..Len(c) : ~IsSystem(c[j])
  PROVE  WithoutSystem(c) = c
<1>p. PICK T : T = {msg \in Range(c) : ~IsSystem(msg)}
  OBVIOUS
<1>1. ToSet(c) = {c[i] : i \in 1..Len(c)} /\ DOMAIN c = 1..Len(c)
  BY SetOf, LenProperties
<1>2. \A i \in 1..Len(c) : c[i] \in T
  BY <1>1, <1>p DEF Range
<1>3. ToSet(c) \subseteq T
  BY <1>1, <1>2
<1>4. Only(c, T) = c
  BY <1>3, OnlyAll
<1>5. QED
  BY <1>4, <1>p DEF WithoutSystem

LEMMA RewrittenHonours ==
  ASSUME NEW c, Conversation(c), Len(c) > 0, IsUser(c[Len(c)]), NEW numbers,
         NEW r, r = Rewritten(c, numbers)
  PROVE  Honours(r, c, numbers)
<1>p. PICK K, s, n : K = Retained(c, numbers) /\ s = TailStart(c) /\ n = Len(c)
  OBVIOUS
<1>1. PICK l, h, a, b : Joins(l, c, K, h) /\ CutAt(r, l, a, b)
  BY <1>p, SentIsMade
<1>2. /\ s \in 1..n /\ n \in Nat /\ h \in s..n /\ \A i \in s..(h - 1) : ~IsUser(c[i])
      /\ Texts(l) = K \cup h..n
  BY <1>1, <1>p, TailStartIs, LenProperties DEF Conversation, Joins
<1>3. \A i \in K : i \in Texts(l)
  BY <1>2
<1>4. ASSUME NEW i \in 1..n, i \notin Texts(r), numbers = KeepAll \/ TurnAt(c, i) \in numbers,
             ~(i >= s), TurnAt(c, i) # 0
      PROVE  FALSE
  <2>1. PICK q \in 1..i : IsUser(c[q]) /\ TurnAt(c, q) = TurnAt(c, i)
    BY <1>4, TurnIsAsked
  <2>2. i \in Places(c) /\ q \in Places(c) /\ q <= i
    BY <1>2, <1>4, <1>p DEF Places
  <2>3. i \in K /\ q \in K
    BY <1>4, <1>p, <2>1, <2>2 DEF Retained
  <2>4. i \in Texts(l) /\ q \in Texts(l)
    BY <1>3, <2>3
  <2>5. i \in Texts(r)
    BY <1>1, <2>1, <2>2, <2>4, AskedStays
  <2>6. QED
    BY <1>4, <2>5
<1>5. ASSUME NEW i \in 1..n, i \notin Texts(r), IsUser(c[i]), \A j \in 1..n : ~IsSystem(c[j])
      PROVE  TurnAt(c, i) \in Inventory(c)
  <2>1. i \notin Texts(l)
    <3>1. SUFFICES ASSUME i \in Texts(l) PROVE FALSE
      OBVIOUS
    <3>2. i <= i
      OBVIOUS
    <3>3. i \in Texts(r)
      BY <1>1, <1>5, <3>1, <3>2, AskedStays
    <3>4. QED
      BY <1>5, <3>3
  <2>2. i \notin h..n /\ i \notin s..(h - 1)
    BY <1>2, <1>5, <2>1
  <2>3. i \in 1..(s - 1)
    BY <1>2, <2>2
  <2>4. WithoutSystem(c) = c
    BY <1>5, <1>p, WithoutSystemIs DEF Conversation
  <2>5. Inventory(c) = {TurnAt(c, j) : j \in 1..(s - 1)}
    BY <1>p, <2>4 DEF Inventory
  <2>6. QED
    BY <2>3, <2>5
<1>6. ASSUME NEW i \in 1..Len(r), NEW j \in 1..Len(r), i < j
      PROVE  Last(r[i].text) < Head(r[j].text)
  <2>1. MadeOf(r, c)
    BY <1>1, CutIs
  <2>2. r[i].text[Len(r[i].text)] < r[j].text[1]
    BY <1>6, <2>1 DEF MadeOf
  <2>3. QED
    BY <2>2 DEF Last
<1>7. QED
  BY <1>4, <1>5, <1>6, <1>p DEF Honours

-----------------------------------------------------------------------------
(* The conversation.                                                       *)

\* Messages that are told apart by no more than their text.
SameKind(msg, other) ==
  msg.role = other.role /\ msg.calls = other.calls /\ msg.of = other.of

\* Results follow their calls where a conversation goes on as it did.
LEMMA GroupedConcat ==
  ASSUME NEW x, NEW y, Grouped(x), Grouped(y), Len(x) \in Nat, Len(y) \in Nat,
         NEW l, Len(l) = Len(x) + Len(y),
         \A k \in 1..Len(x) : SameKind(l[k], x[k]),
         \A k \in 1..Len(y) : SameKind(l[Len(x) + k], y[k])
  PROVE  Grouped(l)
<1>p. PICK m, n : m = Len(x) /\ n = Len(y)
  OBVIOUS
<1>1. m \in Nat /\ n \in Nat /\ Len(l) = m + n
  BY <1>p
<1>2. \A k \in 1..m : /\ IsResult(l[k]) <=> IsResult(x[k])
                      /\ IsCaller(l[k]) <=> IsCaller(x[k])
                      /\ l[k].of = x[k].of /\ l[k].calls = x[k].calls
  BY <1>p DEF SameKind, IsResult, IsCaller
<1>3. \A k \in 1..n : /\ IsResult(l[m + k]) <=> IsResult(y[k])
                      /\ IsCaller(l[m + k]) <=> IsCaller(y[k])
                      /\ l[m + k].of = y[k].of /\ l[m + k].calls = y[k].calls
  BY <1>p DEF SameKind, IsResult, IsCaller
<1>4. /\ \A i \in 1..m : IsResult(x[i]) => \E j \in 1..(i - 1) : IsCaller(x[j]) /\ i \in ResultsAfter(x, j)
      /\ \A i \in 1..m : IsCaller(x[i]) => {x[j].of : j \in ResultsAfter(x, i)} = x[i].calls
  BY <1>p DEF Grouped
<1>5. /\ \A i \in 1..n : IsResult(y[i]) => \E j \in 1..(i - 1) : IsCaller(y[j]) /\ i \in ResultsAfter(y, j)
      /\ \A i \in 1..n : IsCaller(y[i]) => {y[j].of : j \in ResultsAfter(y, i)} = y[i].calls
  BY <1>p DEF Grouped
<1>6. ASSUME n > 0 PROVE ~IsResult(l[m + 1])
  <2>1. 1 \in 1..n /\ 1..(1 - 1) = {}
    BY <1>1, <1>6
  <2>2. ~IsResult(y[1])
    BY <1>5, <2>1
  <2>3. QED
    BY <1>3, <2>1, <2>2
<1>7. /\ \A i, j : j \in ResultsAfter(x, i) <=>
            j \in (i + 1)..m /\ \A k \in (i + 1)..j : IsResult(x[k])
      /\ \A i, j : j \in ResultsAfter(y, i) <=>
            j \in (i + 1)..n /\ \A k \in (i + 1)..j : IsResult(y[k])
      /\ \A i, j : j \in ResultsAfter(l, i) <=>
            j \in (i + 1)..(m + n) /\ \A k \in (i + 1)..j : IsResult(l[k])
  BY <1>1, <1>p DEF ResultsAfter
<1>8. ASSUME NEW i \in 1..m PROVE ResultsAfter(l, i) = ResultsAfter(x, i)
  <2>1. ASSUME NEW j \in ResultsAfter(l, i) PROVE j \in ResultsAfter(x, i)
    <3>1. j \in (i + 1)..(m + n) /\ \A k \in (i + 1)..j : IsResult(l[k])
      BY <1>7
    <3>2. j <= m
      <4>1. SUFFICES ASSUME ~(j <= m) PROVE FALSE
        OBVIOUS
      <4>2. m + 1 \in (i + 1)..j /\ n > 0
        BY <1>1, <3>1, <4>1
      <4>3. QED
        BY <1>6, <3>1, <4>2
    <3>3. j \in (i + 1)..m /\ \A k \in (i + 1)..j : k \in 1..m
      BY <1>1, <3>1, <3>2
    <3>4. \A k \in (i + 1)..j : IsResult(x[k])
      BY <1>2, <3>1, <3>3
    <3>5. QED
      BY <1>7, <3>3, <3>4
  <2>2. ASSUME NEW j \in ResultsAfter(x, i) PROVE j \in ResultsAfter(l, i)
    <3>1. j \in (i + 1)..m /\ \A k \in (i + 1)..j : IsResult(x[k])
      BY <1>7
    <3>2. j \in (i + 1)..(m + n) /\ \A k \in (i + 1)..j : k \in 1..m
      BY <1>1, <3>1
    <3>3. \A k \in (i + 1)..j : IsResult(l[k])
      BY <1>2, <3>1, <3>2
    <3>4. QED
      BY <1>7, <3>2, <3>3
  <2>3. QED
    BY <2>1, <2>2
<1>9. ASSUME NEW i \in 1..n, NEW j \in Int, j \in ResultsAfter(y, i) PROVE m + j \in ResultsAfter(l, m + i)
  <2>1. j \in (i + 1)..n /\ \A k \in (i + 1)..j : IsResult(y[k])
    BY <1>7, <1>9
  <2>2. m + j \in ((m + i) + 1)..(m + n)
    BY <1>1, <2>1
  <2>3. ASSUME NEW k \in ((m + i) + 1)..(m + j) PROVE IsResult(l[k])
    <3>1. PICK e : e = k - m
      OBVIOUS
    <3>2. e \in (i + 1)..j /\ k = m + e /\ e \in 1..n
      BY <1>1, <2>1, <3>1
    <3>3. QED
      BY <1>3, <2>1, <3>2
  <2>4. QED
    BY <1>7, <2>2, <2>3
<1>10. ASSUME NEW i \in 1..n, NEW j, j \in ResultsAfter(l, m + i)
       PROVE  j - m \in ResultsAfter(y, i) /\ j - m \in 1..n /\ m + (j - m) = j
  <2>1. j \in ((m + i) + 1)..(m + n) /\ \A k \in ((m + i) + 1)..j : IsResult(l[k])
    BY <1>7, <1>10
  <2>2. PICK d : d = j - m
    OBVIOUS
  <2>3. d \in (i + 1)..n /\ d \in 1..n /\ m + d = j
    BY <1>1, <2>1, <2>2
  <2>4. ASSUME NEW k \in (i + 1)..d PROVE IsResult(y[k])
    <3>1. m + k \in ((m + i) + 1)..j /\ k \in 1..n
      BY <1>1, <2>3
    <3>2. QED
      BY <1>3, <2>1, <3>1
  <2>5. QED
    BY <1>7, <2>2, <2>3, <2>4
<1>11. \A k \in 1..(m + n) : k \in 1..m \/ (k - m \in 1..n /\ m + (k - m) = k)
  BY <1>1
<1>12. ASSUME NEW i \in 1..(m + n), IsResult(l[i])
       PROVE  \E j \in 1..(i - 1) : IsCaller(l[j]) /\ i \in ResultsAfter(l, j)
  <2>1. CASE i \in 1..m
    <3>1. PICK j \in 1..(i - 1) : IsCaller(x[j]) /\ i \in ResultsAfter(x, j)
      BY <1>2, <1>4, <1>12, <2>1
    <3>2. j \in 1..m
      BY <1>1, <2>1
    <3>3. QED
      BY <1>2, <1>8, <3>1, <3>2
  <2>2. CASE i - m \in 1..n /\ m + (i - m) = i
    <3>1. PICK e : e = i - m
      OBVIOUS
    <3>2. e \in 1..n /\ i = m + e /\ e \in Int
      BY <2>2, <3>1
    <3>3. PICK j \in 1..(e - 1) : IsCaller(y[j]) /\ e \in ResultsAfter(y, j)
      BY <1>3, <1>5, <1>12, <3>2
    <3>4. j \in 1..n /\ m + j \in 1..(i - 1)
      BY <1>1, <3>2
    <3>5. IsCaller(l[m + j]) /\ i \in ResultsAfter(l, m + j)
      BY <1>3, <1>9, <3>2, <3>3, <3>4
    <3>6. QED
      BY <3>4, <3>5
  <2>3. QED
    BY <1>11, <2>1, <2>2
<1>13. ASSUME NEW i \in 1..(m + n), IsCaller(l[i])
       PROVE  {l[j].of : j \in ResultsAfter(l, i)} = l[i].calls
  <2>1. CASE i \in 1..m
    <3>1. ResultsAfter(l, i) = ResultsAfter(x, i) /\ {x[j].of : j \in ResultsAfter(x, i)} = l[i].calls
      BY <1>2, <1>4, <1>8, <1>13, <2>1
    <3>2. \A j \in ResultsAfter(x, i) : l[j].of = x[j].of
      <4>1. SUFFICES ASSUME NEW j \in ResultsAfter(x, i) PROVE l[j].of = x[j].of
        OBVIOUS
      <4>2. j \in (i + 1)..m
        BY <1>7
      <4>3. j \in 1..m
        BY <1>1, <2>1, <4>2
      <4>4. QED
        BY <1>2, <4>3
    <3>3. {l[j].of : j \in ResultsAfter(x, i)} = {x[j].of : j \in ResultsAfter(x, i)}
      BY <3>2
    <3>4. QED
      BY <3>1, <3>3
  <2>2. CASE i - m \in 1..n /\ m + (i - m) = i
    <3>1. PICK e : e = i - m
      OBVIOUS
    <3>2. e \in 1..n /\ i = m + e
      BY <2>2, <3>1
    <3>3. {y[j].of : j \in ResultsAfter(y, e)} = l[i].calls
      BY <1>3, <1>5, <1>13, <3>2
    <3>4. ASSUME NEW j \in ResultsAfter(l, i) PROVE \E d \in ResultsAfter(y, e) : l[j].of = y[d].of
      <4>1. j - m \in ResultsAfter(y, e) /\ j - m \in 1..n /\ m + (j - m) = j
        BY <1>10, <3>2
      <4>2. PICK d : d = j - m
        OBVIOUS
      <4>3. d \in ResultsAfter(y, e) /\ d \in 1..n /\ m + d = j
        BY <4>1, <4>2
      <4>4. l[j].of = y[d].of
        BY <1>3, <4>3
      <4>5. QED
        BY <4>3, <4>4
    <3>5. ASSUME NEW d \in ResultsAfter(y, e) PROVE \E j \in ResultsAfter(l, i) : l[j].of = y[d].of
      <4>1. d \in (e + 1)..n
        BY <1>7
      <4>2. d \in 1..n /\ d \in Int
        BY <1>1, <3>2, <4>1
      <4>3. m + d \in ResultsAfter(l, i)
        BY <1>9, <3>2, <4>2
      <4>4. l[m + d].of = y[d].of
        BY <1>3, <4>2
      <4>5. QED
        BY <4>3, <4>4
    <3>6. {l[j].of : j \in ResultsAfter(l, i)} = {y[j].of : j \in ResultsAfter(y, e)}
      BY <3>4, <3>5, SMTT(60)
    <3>7. QED
      BY <3>3, <3>6
  <2>3. QED
    BY <1>11, <2>1, <2>2
<1>14. QED
  BY <1>1, <1>12, <1>13 DEF Grouped

\* Without calls and results there is nothing to keep together.
LEMMA PlainIsGrouped ==
  ASSUME NEW msgs, \A i \in 1..Len(msgs) : ~IsResult(msgs[i]) /\ ~IsCaller(msgs[i])
  PROVE  Grouped(msgs)
BY DEF Grouped

LEMMA ClientMessages ==
  /\ {Question, Late, Answer} \subseteq ChatMessages
  /\ \A ids \in SUBSET Nat : Calls(ids) \in ChatMessages /\ Calls(ids).calls = ids
  /\ \A id \in Nat, tool \in {"informational", "file"}, body \in {"big", "parts"} :
       Result(id, tool, body) \in ChatMessages /\ Result(id, tool, body).of = id
<1>1. ASSUME NEW role \in {"user", "assistant", "tool", "system"}, NEW calls \in SUBSET Nat,
             NEW of \in Nat \cup {NoCall}, NEW tool \in {"none", "informational", "file"},
             NEW body \in Bodies
      PROVE  Message(role, calls, of, tool, body) \in ChatMessages
  BY EmptySeq DEF Message, ChatMessages
<1>2. {"small", "big", "parts", "marked"} \subseteq Bodies
  BY DEF Bodies
<1>3. {Question, Late, Answer} \subseteq ChatMessages
  BY <1>1, <1>2 DEF Question, Late, Answer
<1>4. ASSUME NEW ids \in SUBSET Nat PROVE Calls(ids) \in ChatMessages /\ Calls(ids).calls = ids
  <2>1. Calls(ids) \in ChatMessages
    BY <1>1, <1>2 DEF Calls
  <2>2. QED
    BY <2>1 DEF Calls, Message
<1>5. ASSUME NEW id \in Nat, NEW tool \in {"informational", "file"}, NEW body \in {"big", "parts"}
      PROVE  Result(id, tool, body) \in ChatMessages /\ Result(id, tool, body).of = id
  <2>1. Result(id, tool, body) \in ChatMessages
    BY <1>1, <1>2 DEF Result
  <2>2. QED
    BY <2>1 DEF Result, Message
<1>6. QED
  BY <1>3, <1>4, <1>5

LEMMA ClientRoles ==
  /\ ~IsResult(Question) /\ ~IsCaller(Question)
  /\ ~IsResult(Late) /\ ~IsCaller(Late)
  /\ ~IsResult(Answer) /\ ~IsCaller(Answer)
  /\ \A ids : ~IsResult(Calls(ids))
  /\ \A id, tool, body : IsResult(Result(id, tool, body)) /\ ~IsCaller(Result(id, tool, body))
BY DEF Question, Late, Answer, Calls, Result, Message, IsResult, IsCaller

\* Calls and their results.
LEMMA OneCallIsGrouped ==
  ASSUME NEW call, NEW one, IsCaller(call), IsResult(one), {one.of} = call.calls,
         NEW l, l = <<call, one>>
  PROVE  Grouped(l)
<1>1. Len(l) = 2 /\ l[1] = call /\ l[2] = one
  OBVIOUS
<1>2. ~IsResult(call) /\ ~IsCaller(one)
  BY DEF IsCaller, IsResult
<1>3. ResultsAfter(l, 1) = {2}
  <2>1. (1 + 1)..2 = {2} /\ \A j \in {2} : (1 + 1)..j = {2}
    OBVIOUS
  <2>2. QED
    BY <1>1, <2>1 DEF ResultsAfter
<1>4. \A i \in 1..2 : i = 1 \/ i = 2
  OBVIOUS
<1>5. 1 \in 1..(2 - 1)
  OBVIOUS
<1>6. QED
  BY <1>1, <1>2, <1>3, <1>4, <1>5 DEF Grouped

LEMMA TwoCallsAreGrouped ==
  ASSUME NEW call, NEW one, NEW other, IsCaller(call), IsResult(one), IsResult(other),
         {one.of, other.of} = call.calls, NEW l, l = <<call, one, other>>
  PROVE  Grouped(l)
<1>1. Len(l) = 3 /\ l[1] = call /\ l[2] = one /\ l[3] = other
  OBVIOUS
<1>2. ~IsResult(call) /\ ~IsCaller(one) /\ ~IsCaller(other)
  BY DEF IsCaller, IsResult
<1>3. ResultsAfter(l, 1) = {2, 3}
  <2>1. (1 + 1)..3 = {2, 3} /\ (1 + 1)..2 = {2}
    OBVIOUS
  <2>2. QED
    BY <1>1, <2>1 DEF ResultsAfter
<1>4. \A i \in 1..3 : i = 1 \/ i = 2 \/ i = 3
  OBVIOUS
<1>5. 1 \in 1..(2 - 1) /\ 1 \in 1..(3 - 1)
  OBVIOUS
<1>6. QED
  BY <1>1, <1>2, <1>3, <1>4, <1>5 DEF Grouped

\* What a client adds to its conversation.
LEMMA AdditionsAre ==
  ASSUME Len(conv) \in Nat, NEW added \in Additions
  PROVE  added \in Seq(ChatMessages) /\ Grouped(added) /\ Len(added) \in Nat \ {0}
<1>1. \/ added = <<Question>> \/ added = <<Late, Question>> \/ added = <<Answer, Question>>
      \/ added = <<Calls({Len(conv)}), Result(Len(conv), "informational", "big")>>
      \/ added = <<Calls({0, 1}), Result(0, "file", "big"), Result(1, "informational", "parts")>>
  BY Zenon DEF Additions
<1>2. {Question, Late, Answer} \subseteq ChatMessages
  BY ClientMessages
<1>3. CASE added = <<Question>> \/ added = <<Late, Question>> \/ added = <<Answer, Question>>
  <2>1. added \in Seq(ChatMessages) /\ Len(added) \in Nat \ {0}
    <3>1. CASE added = <<Question>>
      BY <1>2, <3>1
    <3>2. CASE added = <<Late, Question>>
      BY <1>2, <3>2
    <3>3. CASE added = <<Answer, Question>>
      BY <1>2, <3>3
    <3>4. QED
      BY <1>3, <3>1, <3>2, <3>3
  <2>2. \A i \in 1..Len(added) : added[i] \in {Question, Late, Answer}
    BY <1>3
  <2>3. Grouped(added)
    BY <2>2, ClientRoles, PlainIsGrouped
  <2>4. QED
    BY <2>1, <2>3
<1>4. ASSUME NEW ids \in SUBSET Nat, ids # {} PROVE IsCaller(Calls(ids))
  BY <1>4 DEF Calls, Message, IsCaller
<1>5. CASE added = <<Calls({Len(conv)}), Result(Len(conv), "informational", "big")>>
  <2>1. PICK call, one : call = Calls({Len(conv)}) /\ one = Result(Len(conv), "informational", "big")
    OBVIOUS
  <2>2. added = <<call, one>>
    BY <1>5, <2>1
  <2>3. call \in ChatMessages /\ call.calls = {Len(conv)} /\ one \in ChatMessages /\ one.of = Len(conv)
    BY <2>1, ClientMessages
  <2>4. IsCaller(call)
    BY <1>4, <2>1
  <2>5. IsResult(one)
    BY <2>1, ClientRoles
  <2>6. Grouped(added)
    BY <2>2, <2>3, <2>4, <2>5, OneCallIsGrouped
  <2>7. added \in Seq(ChatMessages) /\ Len(added) \in Nat \ {0}
    BY <2>2, <2>3
  <2>8. QED
    BY <2>6, <2>7
<1>6. CASE added = <<Calls({0, 1}), Result(0, "file", "big"), Result(1, "informational", "parts")>>
  <2>1. PICK call, one, other : /\ call = Calls({0, 1}) /\ one = Result(0, "file", "big")
                                /\ other = Result(1, "informational", "parts")
    OBVIOUS
  <2>2. added = <<call, one, other>>
    BY <1>6, <2>1
  <2>3. call \in ChatMessages /\ call.calls = {0, 1}
    BY <2>1, ClientMessages
  <2>4. one \in ChatMessages /\ one.of = 0 /\ other \in ChatMessages /\ other.of = 1
    BY <2>1, ClientMessages
  <2>5. IsCaller(call)
    BY <1>4, <2>1
  <2>6. IsResult(one) /\ IsResult(other)
    BY <2>1, ClientRoles
  <2>7. Grouped(added)
    BY <2>2, <2>3, <2>4, <2>5, <2>6, TwoCallsAreGrouped
  <2>8. added \in Seq(ChatMessages) /\ Len(added) \in Nat \ {0}
    BY <2>2, <2>3, <2>4
  <2>9. QED
    BY <2>7, <2>8
<1>7. QED
  BY <1>1, <1>3, <1>5, <1>6

\* The conversation that a request has.
LEMMA NumberedIs ==
  ASSUME NEW x, Conversation(x), NEW y \in Seq(ChatMessages), Grouped(y), NEW c, c = Numbered(x \o y)
  PROVE  Conversation(c) /\ Len(c) = Len(x) + Len(y)
<1>p. PICK l, m, n : l = x \o y /\ m = Len(x) /\ n = Len(y)
  OBVIOUS
<1>1. x \in Seq(ChatMessages) /\ Grouped(x) /\ m \in Nat /\ n \in Nat
  BY <1>p, LenProperties DEF Conversation
<1>2. /\ l \in Seq(ChatMessages) /\ Len(l) = m + n
      /\ \A k \in 1..(m + n) : l[k] = IF k <= m THEN x[k] ELSE y[k - m]
  BY <1>1, <1>p, ConcatProperties
<1>3. c = [i \in 1..(m + n) |-> [l[i] EXCEPT !.text = <<i>>]]
  BY <1>2, <1>p DEF Numbered
<1>4. \A i \in 1..(m + n) : c[i] \in ChatMessages /\ c[i].text = <<i>> /\ SameKind(c[i], l[i])
  <2>1. SUFFICES ASSUME NEW i \in 1..(m + n)
                 PROVE  c[i] \in ChatMessages /\ c[i].text = <<i>> /\ SameKind(c[i], l[i])
    OBVIOUS
  <2>2. PICK msg, t : msg = l[i] /\ t = <<i>>
    OBVIOUS
  <2>3. msg \in ChatMessages /\ t \in Seq(Nat)
    BY <1>1, <1>2, <2>2, ElementOfSeq
  <2>4. c[i] = [msg EXCEPT !.text = t]
    BY <1>3, <2>2
  <2>5. c[i] \in ChatMessages /\ c[i].text = t /\ SameKind(c[i], msg)
    BY <2>3, <2>4 DEF ChatMessages, SameKind
  <2>6. QED
    BY <2>2, <2>5
<1>5. c \in Seq(ChatMessages) /\ Len(c) = m + n
  <2>1. m + n \in Nat
    BY <1>1
  <2>2. c = [i \in 1..(m + n) |-> c[i]]
    BY <1>3
  <2>3. c \in [1..(m + n) -> ChatMessages]
    BY <1>4, <2>2
  <2>4. QED
    BY <2>1, <2>3, ListOf
<1>6. \A k \in 1..m : SameKind(c[k], x[k])
  <2>1. \A k \in 1..m : k \in 1..(m + n) /\ k <= m
    BY <1>1
  <2>2. QED
    BY <1>2, <1>4, <2>1
<1>7. \A k \in 1..n : SameKind(c[m + k], y[k])
  <2>1. \A k \in 1..n : m + k \in 1..(m + n) /\ ~(m + k <= m) /\ (m + k) - m = k
    BY <1>1
  <2>2. QED
    BY <1>2, <1>4, <2>1
<1>8. Grouped(c)
  BY <1>1, <1>5, <1>6, <1>7, <1>p, GroupedConcat
<1>9. QED
  BY <1>4, <1>5, <1>8, <1>p DEF Conversation

-----------------------------------------------------------------------------
(* The requests.                                                           *)

\* A request that waits has a conversation that ends with its question, the
\* loop starts without a choice, and what was rewritten by a choice was
\* rewritten from that conversation.
Asked == conv # <<>> /\ IsUser(Last(conv))

SentInv ==
  /\ Conversation(conv)
  /\ phase \in {"inline", "topup", "again", "loop"} => Asked
  /\ phase = "loop" => choice = NoChoice
  /\ Rewrote => sent = Rewritten(conv, choice.retained) /\ Asked

LEMMA SentStarts == CurationInit => SentInv
<1>1. SUFFICES ASSUME CurationInit PROVE SentInv
  OBVIOUS
<1>2. conv = <<>> /\ phase = "idle"
  BY <1>1 DEF CurationInit
<1>3. Conversation(conv)
  BY <1>2, EmptySeq DEF Conversation, Grouped
<1>4. QED
  BY <1>2, <1>3 DEF SentInv, Rewrote

LEMMA ServeKeepsSent ==
  ASSUME SentInv, Asked, NEW by, Serve(by)
  PROVE  SentInv'
<1>1. /\ phase' = "sent" /\ choice' = by /\ sent' = Rewritten(conv, by.retained)
      /\ conv' = conv
  BY DEF Serve
<1>2. QED
  BY <1>1 DEF SentInv, Rewrote, Asked

LEMMA RequestKeepsSent ==
  ASSUME SentInv, NEW eligible \in BOOLEAN, NEW addition \in Additions, Request(eligible, addition)
  PROVE  SentInv'
<1>1. Conversation(conv)' /\ conv' # <<>>
  <2>1. Conversation(conv) /\ Len(conv) \in Nat
    BY LenProperties DEF SentInv, Conversation
  <2>2. addition \in Seq(ChatMessages) /\ Grouped(addition) /\ Len(addition) \in Nat \ {0}
    BY <2>1, AdditionsAre
  <2>3. conv' = Numbered(conv \o addition)
    BY DEF Request
  <2>4. PICK c : c = conv'
    OBVIOUS
  <2>5. Conversation(c) /\ Len(c) = Len(conv) + Len(addition)
    BY <2>1, <2>2, <2>3, <2>4, NumberedIs
  <2>6. Len(c) # 0
    BY <2>1, <2>2, <2>5
  <2>7. c # <<>>
    BY <2>6, EmptySeq
  <2>8. QED
    BY <2>4, <2>5, <2>7
<1>2. CASE eligible /\ IsUser(Last(conv')) /\ Cardinality(TurnsOf(conv')) >= ColdStart
  <2>1. /\ phase' = IF Usable(briefing, turn') THEN "inline" ELSE Missed
        /\ choice' = IF Usable(briefing, turn') THEN briefing ELSE NoChoice
    BY <1>2 DEF Request
  <2>2. phase' # "sent" /\ (phase' = "loop" => choice' = NoChoice)
    BY <2>1 DEF Missed
  <2>3. QED
    BY <1>1, <1>2, <2>2 DEF SentInv, Rewrote, Asked, NoChoice, Choice
<1>3. CASE ~(eligible /\ IsUser(Last(conv')) /\ Cardinality(TurnsOf(conv')) >= ColdStart)
  <2>1. phase' = "sent" /\ choice' = NoChoice
    BY <1>3 DEF Request
  <2>2. ~Rewrote'
    BY <2>1 DEF Rewrote, NoChoice, Choice
  <2>3. QED
    BY <1>1, <2>1, <2>2 DEF SentInv
<1>4. QED
  BY <1>2, <1>3

LEMMA CurationKeepsSent ==
  ASSUME SentInv, [CurationNext]_curationVars
  PROVE  SentInv'
<1>1. ASSUME NEW eligible \in BOOLEAN, NEW addition \in Additions, Request(eligible, addition)
      PROVE  SentInv'
  BY <1>1, RequestKeepsSent
<1>2. CASE InlineServes
  <2>1. Asked
    BY <1>2 DEF SentInv, InlineServes
  <2>2. \E by : Serve(by)
    BY <1>2 DEF InlineServes
  <2>3. QED
    BY <2>1, <2>2, ServeKeepsSent
<1>3. ASSUME NEW next \in {"topup", "again", "loop"}, GoTo(next), Asked PROVE SentInv'
  <2>1. phase' = next /\ choice' = NoChoice /\ conv' = conv
    BY <1>3 DEF GoTo
  <2>2. choice' = NoChoice'
    BY <2>1 DEF NoChoice, Choice
  <2>3. QED
    BY <1>3, <2>1, <2>2 DEF SentInv, Rewrote, Asked
<1>4. CASE InlineFails
  <2>1. Asked
    BY <1>4 DEF SentInv, InlineFails
  <2>2. \E next \in {"topup", "loop"} : GoTo(next)
    BY <1>4 DEF InlineFails, Missed
  <2>3. QED
    BY <1>3, <2>1, <2>2
<1>5. CASE TopUp
  <2>1. /\ phase' \in {"again", "loop"} /\ (phase' = "loop" => choice' = NoChoice)
        /\ conv' = conv /\ Asked
    BY <1>5 DEF TopUp, SentInv
  <2>2. phase' = "loop" => choice' = NoChoice'
    BY <2>1 DEF NoChoice, Choice
  <2>3. QED
    BY <2>1, <2>2 DEF SentInv, Rewrote, Asked
<1>6. CASE LoopServes
  <2>1. Asked
    BY <1>6 DEF SentInv, LoopServes
  <2>2. \E by : Serve(by)
    BY <1>6 DEF LoopServes
  <2>3. QED
    BY <2>1, <2>2, ServeKeepsSent
<1>7. CASE LoopFails
  <2>1. phase' = "sent" /\ conv' = conv /\ choice' = NoChoice'
    BY <1>7 DEF LoopFails, SentInv, NoChoice, Choice
  <2>2. QED
    BY <2>1 DEF SentInv, Rewrote
<1>8. CASE Answered
  BY <1>8 DEF Answered, SentInv, Rewrote, Conversation
<1>9. CASE ExtractionEnds \/ PassEnds \/ UNCHANGED curationVars
  <2>1. UNCHANGED <<conv, phase, choice, sent>>
    BY <1>9 DEF ExtractionEnds, PassEnds, curationVars
  <2>2. QED
    BY <2>1 DEF SentInv, Rewrote, Asked, NoChoice, Choice
<1>10. QED
  BY <1>1, <1>2, <1>4, <1>5, <1>6, <1>7, <1>8, <1>9 DEF CurationNext

LEMMA AskedIs ==
  ASSUME SentInv, Rewrote
  PROVE  /\ Conversation(conv) /\ Len(conv) > 0 /\ IsUser(conv[Len(conv)])
         /\ sent = Rewritten(conv, choice.retained)
<1>1. Conversation(conv) /\ Asked /\ sent = Rewritten(conv, choice.retained)
  BY DEF SentInv
<1>2. conv \in Seq(ChatMessages) /\ conv # <<>>
  BY <1>1 DEF Conversation, Asked
<1>3. Len(conv) \in Nat /\ Len(conv) # 0
  BY <1>2, EmptySeq, LenProperties
<1>4. QED
  BY <1>1, <1>3 DEF Asked, Last

LEMMA SentIsKept == CurationSpec => []SentInv
<1>1. SentInv /\ [CurationNext]_curationVars => SentInv'
  BY CurationKeepsSent
<1>2. QED
  BY <1>1, SentStarts, PTL DEF CurationSpec

\* What goes upstream of a curated request is a list of messages that a
\* provider accepts, whatever conversation and selection it was rewritten from,
\* and it ends with the question (proxy/rewrite.py, rewrite_messages).
THEOREM SentIsAccepted == CurationSpec => []SentIsWellFormed
<1>1. SentInv => SentIsWellFormed
  <2>1. SUFFICES ASSUME SentInv, Rewrote
                 PROVE  WellFormed(sent) /\ IsUser(Last(sent)) /\ Last(Last(sent).text) = Len(conv)
    BY DEF SentIsWellFormed
  <2>2. PICK c, r : c = conv /\ r = sent
    OBVIOUS
  <2>3. Conversation(c) /\ Len(c) > 0 /\ IsUser(c[Len(c)]) /\ r = Rewritten(c, choice.retained)
    BY <2>1, <2>2, AskedIs
  <2>4. WellFormed(r) /\ IsUser(Last(r)) /\ Last(Last(r).text) = Len(c)
    BY <2>3, RewrittenIsWellFormed
  <2>5. QED
    BY <2>2, <2>4
<1>2. QED
  BY <1>1, SentIsKept, PTL

\* Nothing that was retained is lost but at the head of the tail, no question is
\* lost that was not offered, and the order is the client's (proxy/rewrite.py,
\* curator/prompts.py).
THEOREM SelectionsAreHonoured == CurationSpec => []SelectionHonoured
<1>1. SentInv => SelectionHonoured
  <2>1. SUFFICES ASSUME SentInv, Rewrote PROVE Honours(sent, conv, choice.retained)
    BY DEF SelectionHonoured, Honours
  <2>2. PICK c, r : c = conv /\ r = sent
    OBVIOUS
  <2>3. Conversation(c) /\ Len(c) > 0 /\ IsUser(c[Len(c)]) /\ r = Rewritten(c, choice.retained)
    BY <2>1, <2>2, AskedIs
  <2>4. Honours(r, c, choice.retained)
    BY <2>3, RewrittenHonours
  <2>5. QED
    BY <2>2, <2>4
<1>2. QED
  BY <1>1, SentIsKept, PTL

-----------------------------------------------------------------------------
(* The length of the blocks of an assembly.                                 *)

LEMMA LengthDefined ==
  ASSUME NEW c, Len(c) \in Nat, \A k \in 1..Len(c) : c[k].chars \in Int
  PROVE  \E f \in [0..Len(c) -> Int] :
           /\ f = [n \in 0..Len(c) |-> IF n = 0 THEN -1 ELSE f[n - 1] + c[n].chars + 1]
           /\ LengthOf(c) = f[Len(c)]
<1>p. PICK N, step : N = Len(c) /\ step = [p \in Int \X (1..N) |-> p[1] + c[p[2]].chars + 1]
  OBVIOUS
<1>1. N \in Nat /\ -1 \in Int
  BY <1>p
<1>2. step \in [Int \X (1..N) -> Int]
  <2>1. ASSUME NEW p \in Int \X (1..N) PROVE p[1] + c[p[2]].chars + 1 \in Int
    BY <1>p
  <2>2. QED
    BY <1>p, <2>1
<1>3. PICK f \in [0..N -> Int] : StepByStep(f, -1, step, N)
  BY <1>1, <1>2, RecursionDefined
<1>4. f = [n \in 0..N |-> IF n = 0 THEN -1 ELSE f[n - 1] + c[n].chars + 1]
  <2>1. f = [n \in 0..N |-> IF n = 0 THEN -1 ELSE step[<<f[n - 1], n>>]]
    BY <1>3 DEF StepByStep
  <2>2. ASSUME NEW n \in 0..N, n # 0 PROVE step[<<f[n - 1], n>>] = f[n - 1] + c[n].chars + 1
    <3>1. n \in 1..N /\ n - 1 \in 0..N
      BY <1>1, <2>2
    <3>2. <<f[n - 1], n>> \in Int \X (1..N)
      BY <3>1
    <3>3. QED
      BY <1>p, <3>2
  <2>3. QED
    BY <2>1, <2>2
<1>. DEFINE length[n \in 0..Len(c)] == IF n = 0 THEN -1 ELSE length[n - 1] + c[n].chars + 1
<1>5. length = [n \in 0..N |-> IF n = 0 THEN -1 ELSE length[n - 1] + c[n].chars + 1]
  <2>1. \E g : g = [n \in 0..Len(c) |-> IF n = 0 THEN -1 ELSE g[n - 1] + c[n].chars + 1]
    BY <1>4, <1>p
  <2>2. QED
    BY <2>1, <1>p
<1>6. LengthOf(c) = length[N]
  BY <1>p DEF LengthOf
<1>7. length[N] = f[N]
  <2>. HIDE DEF length
  <2>1. length[0] = f[0]
    BY <1>1, <1>4, <1>5
  <2>2. ASSUME NEW n \in 1..N, length[n - 1] = f[n - 1] PROVE length[n] = f[n]
    <3>1. n \in 0..N /\ n # 0
      BY <1>1
    <3>2. length[n] = length[n - 1] + c[n].chars + 1 /\ f[n] = f[n - 1] + c[n].chars + 1
      BY <1>4, <1>5, <3>1
    <3>3. QED
      BY <2>2, <3>2
  <2>3. \A n \in 1..N : length[n - 1] = f[n - 1] => length[n] = f[n]
    BY <2>2
  <2>4. QED
    BY <1>1, <2>1, <2>3, RecursionAlike, ZenonT(60)
<1>8. QED
  BY <1>4, <1>6, <1>7, <1>p

LEMMA LengthEmpty == LengthOf(<<>>) = -1
<1>p. PICK c : c = <<>>
  OBVIOUS
<1>1. Len(c) = 0
  BY <1>p
<1>2. PICK f \in [0..Len(c) -> Int] :
        /\ f = [n \in 0..Len(c) |-> IF n = 0 THEN -1 ELSE f[n - 1] + c[n].chars + 1]
        /\ LengthOf(c) = f[Len(c)]
  BY <1>1, LengthDefined
<1>3. QED
  BY <1>1, <1>2, <1>p

LEMMA LengthAppend ==
  ASSUME NEW P, \A p \in P : p.chars \in Int, NEW c \in Seq(P), NEW e \in P
  PROVE  LengthOf(c) \in Int /\ LengthOf(Append(c, e)) = LengthOf(c) + e.chars + 1
<1>p. PICK t, m : t = Append(c, e) /\ m = Len(c)
  OBVIOUS
<1>1. /\ t \in Seq(P) /\ Len(t) = m + 1 /\ m \in Nat /\ t[m + 1] = e
      /\ \A i \in 1..m : t[i] = c[i]
  BY <1>p, AppendProperties, LenProperties
<1>2. (\A k \in 1..m : c[k].chars \in Int) /\ (\A k \in 1..(m + 1) : t[k].chars \in Int)
  BY <1>1, <1>p, ElementOfSeq
<1>3. PICK f \in [0..m -> Int] :
        /\ f = [n \in 0..m |-> IF n = 0 THEN -1 ELSE f[n - 1] + c[n].chars + 1]
        /\ LengthOf(c) = f[m]
  BY <1>1, <1>2, <1>p, LengthDefined
<1>4. PICK g \in [0..(m + 1) -> Int] :
        /\ g = [n \in 0..(m + 1) |-> IF n = 0 THEN -1 ELSE g[n - 1] + t[n].chars + 1]
        /\ LengthOf(t) = g[m + 1]
  <2>1. Len(t) \in Nat /\ \A k \in 1..Len(t) : t[k].chars \in Int
    BY <1>1, <1>2
  <2>2. QED
    BY <1>1, <2>1, LengthDefined
<1>5. g[0] = f[0]
  BY <1>1, <1>3, <1>4
<1>6. ASSUME NEW n \in 1..m, g[n - 1] = f[n - 1] PROVE g[n] = f[n]
  <2>1. n \in 0..m /\ n \in 0..(m + 1) /\ n # 0 /\ t[n] = c[n]
    BY <1>1
  <2>2. g[n] = g[n - 1] + t[n].chars + 1 /\ f[n] = f[n - 1] + c[n].chars + 1
    BY <1>3, <1>4, <2>1
  <2>3. QED
    BY <1>6, <2>1, <2>2
<1>7. g[m] = f[m]
  <2>1. m \in Nat /\ \A n \in 1..m : g[n - 1] = f[n - 1] => g[n] = f[n]
    BY <1>1, <1>6
  <2>2. QED
    BY <1>5, <2>1, RecursionAlike, Zenon
<1>8. g[m + 1] = g[m] + e.chars + 1
  <2>1. m + 1 \in 0..(m + 1) /\ m + 1 # 0 /\ (m + 1) - 1 = m
    BY <1>1
  <2>2. g[m + 1] = g[(m + 1) - 1] + t[m + 1].chars + 1
    BY <1>4, <2>1
  <2>3. QED
    BY <1>1, <2>1, <2>2
<1>9. f[m] \in Int
  BY <1>1
<1>10. QED
  BY <1>3, <1>4, <1>7, <1>8, <1>9, <1>p

-----------------------------------------------------------------------------
(* What the budget takes of an order.                                       *)

Pieces(files) == [place : DOMAIN files, chars : Int, cut : BOOLEAN]
Fillings(files) == [code : Seq(Pieces(files)), room : Int, full : BOOLEAN]

\* The blocks are of the first m of the order, of all of them that have a text.
TakenTo(files, order, c, m) ==
  /\ \A k \in 1..Len(c) : \E a \in 1..m : c[k].place = order[a]
  /\ \A a \in 1..m : files[order[a]].size > 0 => \E k \in 1..Len(c) : c[k].place = order[a]
  /\ c # <<>> /\ files[order[1]].size > 0 => c[1].place = order[1]

EndsCut(c) == c # <<>> /\ c[Len(c)].cut

\* What is left of the room, or what the last block has over it.
FitsIn(v, room) ==
  IF EndsCut(v.code)
    THEN LengthOf(v.code) <= room + Fence + CutNote
    ELSE LengthOf(v.code) + 1 + v.room = room /\ (v.code # <<>> => v.room >= 0)

Filled(files, order, room, n, v) ==
  /\ v \in Fillings(files)
  /\ \A k \in 1..Len(v.code) : v.code[k].cut => k = Len(v.code) /\ v.full
  /\ FitsIn(v, room)
  /\ \E m \in 0..n : TakenTo(files, order, v.code, m) /\ (~v.full => m = n)

Sized(files) == \A i \in DOMAIN files : files[i].size \in Nat

LEMMA TakenMore ==
  ASSUME NEW files, NEW order, NEW n \in Nat, NEW c \in Seq(Pieces(files)), NEW e \in Pieces(files),
         TakenTo(files, order, c, n), e.place = order[n + 1]
  PROVE  TakenTo(files, order, Append(c, e), n + 1)
<1>p. PICK t, m : t = Append(c, e) /\ m = Len(c)
  OBVIOUS
<1>1. /\ Len(t) = m + 1 /\ m \in Nat /\ t[m + 1] = e
      /\ \A i \in 1..m : t[i] = c[i]
  BY <1>p, AppendProperties, LenProperties
<1>2. /\ \A k \in 1..m : \E a \in 1..n : c[k].place = order[a]
      /\ \A a \in 1..n : files[order[a]].size > 0 => \E k \in 1..m : c[k].place = order[a]
      /\ c # <<>> /\ files[order[1]].size > 0 => c[1].place = order[1]
  BY <1>p DEF TakenTo
<1>3. \A k \in 1..(m + 1) : \E a \in 1..(n + 1) : t[k].place = order[a]
  <2>1. SUFFICES ASSUME NEW k \in 1..(m + 1) PROVE \E a \in 1..(n + 1) : t[k].place = order[a]
    OBVIOUS
  <2>2. CASE k = m + 1
    <3>1. n + 1 \in 1..(n + 1)
      OBVIOUS
    <3>2. QED
      BY <1>1, <2>2, <3>1
  <2>3. CASE k # m + 1
    <3>1. k \in 1..m
      BY <1>1, <2>3
    <3>2. PICK a \in 1..n : c[k].place = order[a]
      BY <1>2, <3>1
    <3>3. a \in 1..(n + 1) /\ t[k] = c[k]
      BY <1>1, <3>1
    <3>4. QED
      BY <3>2, <3>3
  <2>4. QED
    BY <2>2, <2>3
<1>4. \A a \in 1..(n + 1) : files[order[a]].size > 0 => \E k \in 1..(m + 1) : t[k].place = order[a]
  <2>1. SUFFICES ASSUME NEW a \in 1..(n + 1), files[order[a]].size > 0
                 PROVE  \E k \in 1..(m + 1) : t[k].place = order[a]
    OBVIOUS
  <2>2. CASE a = n + 1
    <3>1. m + 1 \in 1..(m + 1)
      BY <1>1
    <3>2. QED
      BY <1>1, <2>2, <3>1
  <2>3. CASE a # n + 1
    <3>1. a \in 1..n
      BY <2>3
    <3>2. PICK k \in 1..m : c[k].place = order[a]
      BY <1>2, <2>1, <3>1
    <3>3. k \in 1..(m + 1) /\ t[k] = c[k]
      BY <1>1
    <3>4. QED
      BY <3>2, <3>3
  <2>4. QED
    BY <2>2, <2>3
<1>5. ASSUME files[order[1]].size > 0 PROVE t[1].place = order[1]
  <2>1. CASE c = <<>>
    <3>1. m = 0
      BY <1>p, <2>1
    <3>2. \A k \in 1..m : FALSE
      BY <3>1
    <3>3. n = 0
      <4>1. SUFFICES ASSUME n # 0 PROVE FALSE
        OBVIOUS
      <4>2. 1 \in 1..n
        BY <4>1
      <4>3. QED
        BY <1>2, <1>5, <3>2, <4>2
    <3>4. m + 1 = 1 /\ n + 1 = 1
      BY <3>1, <3>3
    <3>5. QED
      BY <1>1, <3>4
  <2>2. CASE c # <<>>
    <3>1. m # 0
      BY <1>p, <2>2, EmptySeq
    <3>2. 1 \in 1..m
      BY <1>1, <3>1
    <3>3. t[1] = c[1]
      BY <1>1, <3>2
    <3>4. QED
      BY <1>2, <1>5, <2>2, <3>3
  <2>3. QED
    BY <2>1, <2>2
<1>6. QED
  BY <1>1, <1>3, <1>4, <1>5, <1>p DEF TakenTo

\* One more of the order is looked at.
LEMMA FilledMore ==
  ASSUME NEW files, Sized(files), NEW order \in Seq(DOMAIN files), NEW room \in Int,
         NEW n \in Nat, n + 1 \in 1..Len(order), NEW v, Filled(files, order, room, n, v)
  PROVE  Filled(files, order, room, n + 1, Taken(files, v, order[n + 1]))
<1>p. PICK i, w, c, size :
        /\ i = order[n + 1] /\ w = Taken(files, v, i) /\ c = v.code /\ size = files[i].size
  OBVIOUS
<1>1. i \in DOMAIN files /\ size \in Nat
  BY <1>p, ElementOfSeq DEF Sized
<1>2. /\ v \in Fillings(files) /\ c \in Seq(Pieces(files)) /\ v.room \in Int /\ v.full \in BOOLEAN
      /\ \A k \in 1..Len(c) : c[k].cut => k = Len(c) /\ v.full
      /\ FitsIn(v, room) /\ Len(c) \in Nat
  BY <1>p, LenProperties DEF Filled, Fillings
<1>3. PICK m \in 0..n : TakenTo(files, order, c, m) /\ (~v.full => m = n)
  BY <1>p DEF Filled
<1>t. n + 1 \in Nat /\ m \in 0..(n + 1) /\ n + 1 \in 0..(n + 1)
  OBVIOUS
<1>w. w = IF v.full \/ size = 0 THEN v
          ELSE IF size + 1 <= v.room
            THEN [v EXCEPT !.code = Append(@, Piece(i, size, FALSE)), !.room = RoomAfter(@, size + 1)]
          ELSE IF v.room > MinCut
            THEN [v EXCEPT !.full = TRUE,
                    !.code = Append(@, Piece(i, v.room + CutNote +
                                                  (IF files[i].fenced THEN Fence ELSE 0), TRUE))]
          ELSE [v EXCEPT !.full = TRUE]
  BY <1>p DEF Taken
<1>u. ~v.full => ~EndsCut(c)
  <2>1. SUFFICES ASSUME ~v.full, EndsCut(c) PROVE FALSE
    OBVIOUS
  <2>2. Len(c) # 0
    BY <1>2, <2>1, EmptySeq DEF EndsCut
  <2>3. Len(c) \in 1..Len(c)
    BY <1>2, <2>2
  <2>4. QED
    BY <1>2, <2>1, <2>3 DEF EndsCut
<1>a. ASSUME NEW e \in Pieces(files)
      PROVE  /\ Append(c, e) \in Seq(Pieces(files)) /\ Append(c, e) # <<>>
             /\ Len(Append(c, e)) = Len(c) + 1 /\ Append(c, e)[Len(c) + 1] = e
             /\ \A k \in 1..Len(c) : Append(c, e)[k] = c[k]
             /\ LengthOf(c) \in Int /\ LengthOf(Append(c, e)) = LengthOf(c) + e.chars + 1
  <2>1. \A q \in Pieces(files) : q.chars \in Int
    BY DEF Pieces
  <2>2. LengthOf(c) \in Int /\ LengthOf(Append(c, e)) = LengthOf(c) + e.chars + 1
    BY <1>2, <2>1, LengthAppend
  <2>3. /\ Append(c, e) \in Seq(Pieces(files))
        /\ Len(Append(c, e)) = Len(c) + 1 /\ Append(c, e)[Len(c) + 1] = e
        /\ \A k \in 1..Len(c) : Append(c, e)[k] = c[k]
    BY <1>2, AppendProperties
  <2>4. Append(c, e) # <<>>
    <3>1. Len(c) + 1 # 0
      BY <1>2
    <3>2. QED
      BY <2>3, <3>1, EmptySeq
  <2>5. QED
    BY <2>2, <2>3, <2>4
<1>4. CASE v.full \/ size = 0
  <2>1. w = v
    BY <1>4, <1>w
  <2>2. \E k \in 0..(n + 1) : TakenTo(files, order, c, k) /\ (~v.full => k = n + 1)
    <3>1. CASE v.full
      BY <1>3, <1>t, <3>1
    <3>2. CASE ~v.full
      <4>1. m = n /\ size = 0
        BY <1>3, <1>4, <3>2
      <4>2. /\ \A k \in 1..Len(c) : \E a \in 1..n : c[k].place = order[a]
            /\ \A a \in 1..n : files[order[a]].size > 0 => \E k \in 1..Len(c) : c[k].place = order[a]
            /\ c # <<>> /\ files[order[1]].size > 0 => c[1].place = order[1]
        BY <1>3, <4>1 DEF TakenTo
      <4>3. \A k \in 1..Len(c) : \E a \in 1..(n + 1) : c[k].place = order[a]
        <5>1. \A a \in 1..n : a \in 1..(n + 1)
          OBVIOUS
        <5>2. QED
          BY <4>2, <5>1
      <4>4. \A a \in 1..(n + 1) : files[order[a]].size > 0 => \E k \in 1..Len(c) : c[k].place = order[a]
        <5>1. \A a \in 1..(n + 1) : a \in 1..n \/ a = n + 1
          OBVIOUS
        <5>2. ~(files[order[n + 1]].size > 0)
          BY <1>p, <4>1
        <5>3. QED
          BY <4>2, <5>1, <5>2
      <4>5. TakenTo(files, order, c, n + 1)
        BY <4>2, <4>3, <4>4 DEF TakenTo
      <4>6. QED
        BY <1>t, <4>5
    <3>3. QED
      BY <3>1, <3>2
  <2>3. Filled(files, order, room, n + 1, v)
    BY <1>2, <1>p, <2>2 DEF Filled
  <2>4. QED
    BY <1>p, <2>1, <2>3
<1>5. CASE ~v.full /\ size # 0 /\ size + 1 <= v.room
  <2>e. PICK e, d : e = Piece(i, size, FALSE) /\ d = Append(c, e)
    OBVIOUS
  <2>1. e \in Pieces(files) /\ e.place = i /\ e.chars = size /\ e.cut = FALSE
    BY <1>1, <2>e DEF Piece, Pieces
  <2>2. /\ d \in Seq(Pieces(files)) /\ d # <<>> /\ Len(d) = Len(c) + 1 /\ d[Len(c) + 1] = e
        /\ \A k \in 1..Len(c) : d[k] = c[k]
        /\ LengthOf(c) \in Int /\ LengthOf(d) = LengthOf(c) + size + 1
    BY <1>a, <2>1, <2>e
  <2>3. w = [v EXCEPT !.code = d, !.room = v.room - (size + 1)]
    BY <1>5, <1>w, <1>p, <2>e DEF RoomAfter
  <2>4. /\ w \in Fillings(files) /\ w.code = d /\ w.room = v.room - (size + 1) /\ w.full = FALSE
    <3>1. PICK r, y : r = v.room - (size + 1) /\ y = [v EXCEPT !.code = d]
      OBVIOUS
    <3>2. r \in Int
      BY <1>1, <1>2, <3>1
    <3>3. y \in Fillings(files) /\ y.code = d /\ y.full = v.full
      BY <1>2, <2>2, <3>1 DEF Fillings
    <3>4. w = [y EXCEPT !.room = r]
      BY <2>3, <3>1
    <3>5. w \in Fillings(files) /\ w.code = y.code /\ w.room = r /\ w.full = y.full
      BY <3>2, <3>3, <3>4 DEF Fillings
    <3>6. v.full = FALSE
      BY <1>2, <1>5
    <3>7. QED
      BY <3>1, <3>3, <3>5, <3>6
  <2>5. \A k \in 1..Len(d) : ~d[k].cut
    <3>1. \A k \in 1..Len(d) : k \in 1..Len(c) \/ k = Len(c) + 1
      BY <1>2, <2>2
    <3>2. \A k \in 1..Len(c) : ~c[k].cut
      BY <1>2, <1>5
    <3>3. QED
      BY <2>1, <2>2, <3>1, <3>2
  <2>6. FitsIn(w, room)
    <3>1. LengthOf(c) + 1 + v.room = room
      BY <1>2, <1>5, <1>u, <1>p DEF FitsIn
    <3>2. ~EndsCut(d)
      BY <2>1, <2>2 DEF EndsCut
    <3>3. LengthOf(d) + 1 + (v.room - (size + 1)) = room /\ v.room - (size + 1) >= 0
      <4>1. PICK r, l : r = v.room /\ l = LengthOf(c)
        OBVIOUS
      <4>2. r \in Int /\ l \in Int /\ size + 1 <= r /\ l + 1 + r = room /\ size \in Nat
        BY <1>1, <1>2, <1>5, <2>2, <3>1, <4>1
      <4>3. (l + size + 1) + 1 + (r - (size + 1)) = room /\ r - (size + 1) >= 0
        BY <4>2
      <4>4. QED
        BY <2>2, <4>1, <4>3
    <3>4. QED
      BY <2>4, <3>2, <3>3 DEF FitsIn
  <2>7. TakenTo(files, order, d, n + 1)
    <3>1. TakenTo(files, order, c, n)
      BY <1>3, <1>5
    <3>2. QED
      BY <1>2, <1>p, <2>1, <2>e, <3>1, TakenMore
  <2>8. Filled(files, order, room, n + 1, w)
    BY <1>t, <2>4, <2>5, <2>6, <2>7 DEF Filled
  <2>9. QED
    BY <1>p, <2>8
<1>6. CASE ~v.full /\ size # 0 /\ ~(size + 1 <= v.room) /\ v.room > MinCut
  <2>x. PICK x : x = v.room + CutNote + (IF files[i].fenced THEN Fence ELSE 0)
    OBVIOUS
  <2>y. x \in Int /\ x <= v.room + CutNote + Fence
    BY <1>2, <2>x DEF CutNote, Fence
  <2>e. PICK e, d : e = Piece(i, x, TRUE) /\ d = Append(c, e)
    OBVIOUS
  <2>1. e \in Pieces(files) /\ e.place = i /\ e.chars = x /\ e.cut = TRUE
    BY <1>1, <2>e, <2>y DEF Piece, Pieces
  <2>2. /\ d \in Seq(Pieces(files)) /\ d # <<>> /\ Len(d) = Len(c) + 1 /\ d[Len(c) + 1] = e
        /\ \A k \in 1..Len(c) : d[k] = c[k]
        /\ LengthOf(c) \in Int /\ LengthOf(d) = LengthOf(c) + x + 1
    BY <1>a, <2>1, <2>e
  <2>3. w = [v EXCEPT !.full = TRUE, !.code = d]
    BY <1>6, <1>w, <1>p, <2>e, <2>x
  <2>4. w \in Fillings(files) /\ w.code = d /\ w.full = TRUE
    BY <1>2, <2>2, <2>3 DEF Fillings
  <2>5. \A k \in 1..Len(d) : d[k].cut => k = Len(d)
    <3>1. \A k \in 1..Len(d) : k \in 1..Len(c) \/ k = Len(d)
      BY <1>2, <2>2
    <3>2. \A k \in 1..Len(c) : ~c[k].cut
      BY <1>2, <1>6
    <3>3. QED
      BY <2>2, <3>1, <3>2
  <2>6. FitsIn(w, room)
    <3>1. LengthOf(c) + 1 + v.room = room
      BY <1>2, <1>6, <1>u, <1>p DEF FitsIn
    <3>2. EndsCut(d)
      BY <2>1, <2>2 DEF EndsCut
    <3>3. LengthOf(d) <= room + Fence + CutNote
      <4>1. PICK r, l : r = v.room /\ l = LengthOf(c)
        OBVIOUS
      <4>2. r \in Int /\ l \in Int /\ l + 1 + r = room /\ x \in Int /\ x <= r + CutNote + Fence
        BY <1>2, <2>2, <2>y, <3>1, <4>1
      <4>3. l + x + 1 <= room + Fence + CutNote
        BY <4>2 DEF Fence, CutNote
      <4>4. QED
        BY <2>2, <4>1, <4>3
    <3>4. QED
      BY <2>4, <3>2, <3>3 DEF FitsIn
  <2>7. TakenTo(files, order, d, n + 1)
    <3>1. TakenTo(files, order, c, n)
      BY <1>3, <1>6
    <3>2. QED
      BY <1>2, <1>p, <2>1, <2>e, <3>1, TakenMore
  <2>8. Filled(files, order, room, n + 1, w)
    BY <1>t, <2>4, <2>5, <2>6, <2>7 DEF Filled
  <2>9. QED
    BY <1>p, <2>8
<1>7. CASE ~v.full /\ size # 0 /\ ~(size + 1 <= v.room) /\ ~(v.room > MinCut)
  <2>1. w = [v EXCEPT !.full = TRUE]
    BY <1>7, <1>w
  <2>2. w \in Fillings(files) /\ w.code = c /\ w.room = v.room /\ w.full = TRUE
    BY <1>2, <1>p, <2>1 DEF Fillings
  <2>3. FitsIn(w, room)
    BY <1>2, <1>p, <2>2 DEF FitsIn
  <2>4. Filled(files, order, room, n + 1, w)
    BY <1>2, <1>3, <1>t, <2>2, <2>3 DEF Filled
  <2>5. QED
    BY <1>p, <2>4
<1>8. QED
  BY <1>4, <1>5, <1>6, <1>7

LEMMA TakenType ==
  ASSUME NEW files, Sized(files), NEW v \in Fillings(files), NEW i \in DOMAIN files
  PROVE  Taken(files, v, i) \in Fillings(files)
<1>1. v.code \in Seq(Pieces(files)) /\ v.room \in Int /\ v.full \in BOOLEAN /\ files[i].size \in Nat
  BY DEF Fillings, Sized
<1>p. PICK a, b, x :
        /\ x = v.room + CutNote + (IF files[i].fenced THEN Fence ELSE 0)
        /\ a = Append(v.code, Piece(i, files[i].size, FALSE))
        /\ b = Append(v.code, Piece(i, x, TRUE))
  OBVIOUS
<1>2. a \in Seq(Pieces(files)) /\ b \in Seq(Pieces(files))
  <2>1. x \in Int
    BY <1>1, <1>p DEF CutNote, Fence
  <2>2. Piece(i, files[i].size, FALSE) \in Pieces(files) /\ Piece(i, x, TRUE) \in Pieces(files)
    BY <1>1, <2>1 DEF Piece, Pieces
  <2>3. QED
    BY <1>1, <1>p, <2>2, AppendProperties
<1>3. Taken(files, v, i) = IF v.full \/ files[i].size = 0 THEN v
        ELSE IF files[i].size + 1 <= v.room
          THEN [v EXCEPT !.code = a, !.room = v.room - (files[i].size + 1)]
        ELSE IF v.room > MinCut THEN [v EXCEPT !.full = TRUE, !.code = b]
        ELSE [v EXCEPT !.full = TRUE]
  BY <1>p DEF Taken, RoomAfter
<1>4. /\ [v EXCEPT !.code = a, !.room = v.room - (files[i].size + 1)] \in Fillings(files)
      /\ [v EXCEPT !.full = TRUE, !.code = b] \in Fillings(files)
      /\ [v EXCEPT !.full = TRUE] \in Fillings(files)
  <2>1. PICK r, y : r = v.room - (files[i].size + 1) /\ y = [v EXCEPT !.code = a]
    OBVIOUS
  <2>2. r \in Int
    BY <1>1, <2>1
  <2>3. y \in Fillings(files)
    BY <1>1, <1>2, <2>1 DEF Fillings
  <2>4. [y EXCEPT !.room = r] \in Fillings(files)
    BY <2>2, <2>3 DEF Fillings
  <2>5. PICK z : z = [v EXCEPT !.full = TRUE]
    OBVIOUS
  <2>6. z \in Fillings(files)
    BY <1>1, <2>5 DEF Fillings
  <2>7. [z EXCEPT !.code = b] \in Fillings(files)
    BY <1>2, <2>6 DEF Fillings
  <2>8. QED
    BY <2>1, <2>4, <2>5, <2>6, <2>7
<1>5. QED
  BY <1>3, <1>4

LEMMA FillIs ==
  ASSUME NEW files, Sized(files), NEW order \in Seq(DOMAIN files), NEW room \in Int
  PROVE  \E v : Filled(files, order, room, Len(order), v) /\ Fill(files, order, room) = v.code
<1>p. PICK N, X, start, step :
        /\ N = Len(order) /\ X = Fillings(files)
        /\ start = [code |-> <<>>, room |-> room, full |-> FALSE]
        /\ step = [p \in X \X (1..N) |-> Taken(files, p[1], order[p[2]])]
  OBVIOUS
<1>1. N \in Nat
  BY <1>p, LenProperties
<1>2. start \in X
  <2>1. <<>> \in Seq(Pieces(files))
    BY EmptySeq
  <2>2. QED
    BY <1>p, <2>1 DEF Fillings
<1>3. step \in [X \X (1..N) -> X]
  <2>1. ASSUME NEW p \in X \X (1..N) PROVE Taken(files, p[1], order[p[2]]) \in X
    <3>1. PICK v, i : v = p[1] /\ i = order[p[2]]
      OBVIOUS
    <3>2. v \in Fillings(files) /\ i \in DOMAIN files
      BY <1>p, <3>1, ElementOfSeq
    <3>3. Taken(files, v, i) \in Fillings(files)
      BY <3>2, TakenType
    <3>4. QED
      BY <1>p, <3>1, <3>3
  <2>2. QED
    BY <1>p, <2>1
<1>4. PICK f \in [0..N -> X] : StepByStep(f, start, step, N)
  BY <1>1, <1>2, <1>3, RecursionDefined
<1>5. f = [n \in 0..N |-> IF n = 0 THEN start ELSE Taken(files, f[n - 1], order[n])]
  <2>1. f = [n \in 0..N |-> IF n = 0 THEN start ELSE step[<<f[n - 1], n>>]]
    BY <1>4 DEF StepByStep
  <2>2. ASSUME NEW n \in 0..N, n # 0 PROVE step[<<f[n - 1], n>>] = Taken(files, f[n - 1], order[n])
    <3>1. n \in 1..N /\ n - 1 \in 0..N
      BY <1>1, <2>2
    <3>2. f[n - 1] \in X
      BY <1>4, <3>1
    <3>3. <<f[n - 1], n>> \in X \X (1..N)
      BY <3>1, <3>2
    <3>4. QED
      BY <1>p, <3>3
  <2>3. QED
    BY <2>1, <2>2
<1>. DEFINE filled[n \in 0..Len(order)] ==
              IF n = 0 THEN [code |-> <<>>, room |-> room, full |-> FALSE]
              ELSE Taken(files, filled[n - 1], order[n])
<1>6. filled = [n \in 0..N |-> IF n = 0 THEN start ELSE Taken(files, filled[n - 1], order[n])]
  <2>1. \E g : g = [n \in 0..Len(order) |->
                      IF n = 0 THEN [code |-> <<>>, room |-> room, full |-> FALSE]
                      ELSE Taken(files, g[n - 1], order[n])]
    BY <1>5, <1>p
  <2>2. QED
    BY <2>1, <1>p
<1>7. Fill(files, order, room) = filled[N].code
  BY <1>p DEF Fill
<1>8. filled[N] = f[N]
  <2>. HIDE DEF filled
  <2>1. filled[0] = f[0]
    BY <1>1, <1>5, <1>6
  <2>2. ASSUME NEW n \in 1..N, filled[n - 1] = f[n - 1] PROVE filled[n] = f[n]
    <3>1. n \in 0..N /\ n # 0
      BY <1>1
    <3>2. filled[n] = Taken(files, filled[n - 1], order[n]) /\ f[n] = Taken(files, f[n - 1], order[n])
      BY <1>5, <1>6, <3>1
    <3>3. QED
      BY <2>2, <3>2
  <2>3. \A n \in 1..N : filled[n - 1] = f[n - 1] => filled[n] = f[n]
    BY <2>2
  <2>4. QED
    BY <1>1, <2>1, <2>3, RecursionAlike, ZenonT(60)
<1>. HIDE DEF filled
<1>. DEFINE I == {n \in Nat : n <= N => Filled(files, order, room, n, f[n])}
<1>9. 0 \in I
  <2>1. f[0] = start
    BY <1>1, <1>5
  <2>2. /\ start \in Fillings(files) /\ start.code = <<>> /\ start.room = room /\ start.full = FALSE
        /\ Len(<<>>) = 0
    BY <1>2, <1>p
  <2>3. FitsIn(start, room)
    <3>1. ~EndsCut(<<>>) /\ LengthOf(<<>>) + 1 + room = room
      BY LengthEmpty DEF EndsCut
    <3>2. QED
      BY <2>2, <3>1 DEF FitsIn
  <2>4. TakenTo(files, order, <<>>, 0)
    BY <2>2 DEF TakenTo
  <2>5. 0 \in 0..0 /\ \A k \in 1..0 : FALSE
    OBVIOUS
  <2>6. Filled(files, order, room, 0, start)
    BY <2>2, <2>3, <2>4, <2>5 DEF Filled
  <2>7. QED
    BY <2>1, <2>6
<1>10. ASSUME NEW n \in Nat, n \in I PROVE n + 1 \in I
  <2>1. SUFFICES ASSUME n + 1 <= N PROVE Filled(files, order, room, n + 1, f[n + 1])
    OBVIOUS
  <2>2. n <= N /\ n + 1 \in 1..Len(order) /\ n + 1 \in 0..N /\ n + 1 # 0 /\ (n + 1) - 1 = n
    BY <1>1, <1>p, <2>1
  <2>v. PICK v : v = f[n]
    OBVIOUS
  <2>3. Filled(files, order, room, n, v)
    BY <1>10, <2>2, <2>v
  <2>4. Filled(files, order, room, n + 1, Taken(files, v, order[n + 1]))
    BY <2>2, <2>3, FilledMore
  <2>5. f[n + 1] = Taken(files, v, order[n + 1])
    BY <1>5, <2>2, <2>v
  <2>6. QED
    BY <2>4, <2>5
<1>11. Filled(files, order, room, N, f[N])
  <2>. HIDE DEF I
  <2>1. Nat \subseteq I
    BY <1>9, <1>10, SetInduction
  <2>2. N \in I
    BY <1>1, <2>1
  <2>3. QED
    BY <1>1, <2>2 DEF I
<1>12. QED
  BY <1>7, <1>8, <1>11, <1>p

-----------------------------------------------------------------------------
(* The orders.                                                              *)

\* The files of a briefing, and what refers to what of them.
LEMMA FilesAre ==
  ASSUME NEW files \in Seq(Fetched)
  PROVE  /\ Sized(files) /\ IsFiniteSet(DOMAIN files) /\ DOMAIN files = 1..Len(files)
         /\ Len(files) \in Nat /\ \A i \in DOMAIN files : files[i] \in Fetched /\ files[i].path \in Int
<1>1. Len(files) \in Nat /\ DOMAIN files = 1..Len(files)
  BY LenProperties
<1>2. \A i \in DOMAIN files : files[i] \in Fetched
  BY <1>1, ElementOfSeq
<1>3. \A i \in DOMAIN files : files[i].path \in Int /\ files[i].size \in Nat
  BY <1>2, AssemblyAssumption
<1>4. IsFiniteSet(1..Len(files))
  BY <1>1, FS_Interval
<1>5. QED
  BY <1>1, <1>2, <1>3, <1>4 DEF Sized

LEMMA ScoresAre ==
  ASSUME NEW files \in Seq(Fetched), NEW query \in Queries
  PROVE  Scores(files, query) \in [DOMAIN files -> Int]
<1>1. ASSUME NEW file \in Fetched PROVE Scored(file, query) \in Int
  <2>p. PICK row, n : row = file.row /\ n = ReasonNumber(row)
    OBVIOUS
  <2>1. row = Unknown \/ (row.inOutline \in Nat /\ row.turn \in Nat)
    BY <2>p, AssemblyAssumption
  <2>2. n \in Nat
    <3>1. CASE row = Unknown
      BY <2>p, <3>1 DEF ReasonNumber
    <3>2. CASE row # Unknown
      BY <2>p, <2>1, <3>2 DEF ReasonNumber
    <3>3. QED
      BY <3>1, <3>2
  <2>3. Importance(row) \in Int
    BY <2>2, <2>p DEF Importance, AtMost
  <2>4. IsFiniteSet(query) /\ IsFiniteSet(query \cap file.words)
    BY AssemblyAssumption, FS_Subset
  <2>5. Cardinality(query) \in Nat /\ Cardinality(query \cap file.words) \in Nat
    BY <2>4, FS_CardinalityType
  <2>6. QED
    <3>1. PICK a, b, c : a = Importance(row) /\ b = Cardinality(query) /\ c = Cardinality(query \cap file.words)
      OBVIOUS
    <3>2. a * b + 10 * c \in Int
      BY <2>3, <2>5, <3>1
    <3>3. QED
      BY <2>p, <3>1, <3>2 DEF Scored
<1>2. \A i \in DOMAIN files : Scored(files[i], query) \in Int
  BY <1>1, FilesAre
<1>3. QED
  BY <1>2 DEF Scores

\* deps is of these files.
GraphOf(files, deps) == DOMAIN deps = {files[i].path : i \in DOMAIN files}

LEMMA DependantsAre ==
  ASSUME NEW files \in Seq(Fetched), NEW deps, GraphOf(files, deps)
  PROVE  IsFiniteSet(DOMAIN deps) /\ Dependants(files, deps) \in [DOMAIN files -> Int]
<1>1. IsFiniteSet(DOMAIN deps)
  <2>1. IsFiniteSet({files[i].path : i \in DOMAIN files})
    <3>1. PICK T, f : T = {files[i].path : i \in DOMAIN files} /\ f = [i \in DOMAIN files |-> files[i].path]
      OBVIOUS
    <3>2. f \in [DOMAIN files -> T] /\ \A t \in T : \E i \in DOMAIN files : f[i] = t
      BY <3>1
    <3>3. f \in Surjection(DOMAIN files, T)
      BY <3>2 DEF Surjection
    <3>4. IsFiniteSet(DOMAIN files)
      BY FilesAre
    <3>5. IsFiniteSet(T)
      BY <3>3, <3>4, FS_Surjection
    <3>6. QED
      BY <3>1, <3>5
  <2>2. QED
    BY <2>1 DEF GraphOf
<1>2. ASSUME NEW p \in DOMAIN deps PROVE InDegree(deps)[p] \in Int
  <2>1. IsFiniteSet({q \in DOMAIN deps : p \in deps[q]})
    BY <1>1, FS_Subset
  <2>2. Cardinality({q \in DOMAIN deps : p \in deps[q]}) \in Nat
    BY <2>1, FS_CardinalityType
  <2>3. QED
    BY <2>2 DEF InDegree
<1>3. \A i \in DOMAIN files : files[i].path \in DOMAIN deps
  BY DEF GraphOf
<1>4. \A i \in DOMAIN files : InDegree(deps)[files[i].path] \in Int
  BY <1>2, <1>3
<1>5. QED
  BY <1>1, <1>4 DEF Dependants

\* The places of a briefing in an order with the pairs that R has.
Orders(files, o, R) == o \in Seq(DOMAIN files) /\ ToSet(o) = DOMAIN files /\ Pairwise(o, R)

LEMMA ByScoreIs ==
  ASSUME NEW files \in Seq(Fetched), NEW query \in Queries
  PROVE  Orders(files, ByScore(files, query), HighestFirst(DOMAIN files, Scores(files, query)))
         /\ Len(ByScore(files, query)) = Len(files)
<1>p. PICK D, R, f : D = DOMAIN files /\ f = Scores(files, query) /\ R = HighestFirst(D, f)
  OBVIOUS
<1>1. IsFiniteSet(D) /\ D = 1..Len(files) /\ Len(files) \in Nat
  BY <1>p, FilesAre
<1>2. D \in SUBSET Int /\ f \in [D -> Int]
  BY <1>1, <1>p, ScoresAre
<1>3. SortedBy(D, R)
  BY <1>2, <1>p, HighestFirstSorts
<1>4. /\ InOrderOf(D, R) \in Seq(D) /\ Len(InOrderOf(D, R)) = Cardinality(D)
      /\ ToSet(InOrderOf(D, R)) = D /\ Pairwise(InOrderOf(D, R), R)
  BY <1>1, <1>3, InOrderIs
<1>5. Cardinality(D) = Len(files)
  <2>1. PICK m : m = Len(files)
    OBVIOUS
  <2>2. Cardinality(1..m) = IF 1 > m THEN 0 ELSE m - 1 + 1
    <3>1. m \in Int /\ 1 \in Int
      BY <1>1, <2>1
    <3>2. QED
      BY <3>1, FS_Interval, Zenon
  <2>3. Cardinality(1..m) = m
    BY <1>1, <2>1, <2>2
  <2>4. QED
    BY <1>1, <2>1, <2>3
<1>6. ByScore(files, query) = InOrderOf(D, R)
  BY <1>p DEF ByScore
<1>7. QED
  BY <1>4, <1>5, <1>6, <1>p DEF Orders

LEMMA ByTopologyIs ==
  ASSUME NEW files \in Seq(Fetched), NEW deps, GraphOf(files, deps)
  PROVE  Orders(files, ByTopology(files, deps), FoundationsFirst(files, deps))
         /\ Len(ByTopology(files, deps)) = Len(files)
<1>p. PICK D, R, n : D = DOMAIN files /\ n = Dependants(files, deps) /\ R = FoundationsFirst(files, deps)
  OBVIOUS
<1>1. IsFiniteSet(D) /\ D = 1..Len(files) /\ Len(files) \in Nat /\ \A i \in D : files[i].path \in Int
  BY <1>p, FilesAre
<1>2. n \in [D -> Int] /\ D \subseteq Int
  BY <1>1, <1>p, DependantsAre
<1>g. PICK g : g = [i \in D |-> files[i].path]
  OBVIOUS
<1>r. \A x, y \in D : <<x, y>> \in R <=> \/ n[x] > n[y]
                                         \/ n[x] = n[y] /\ g[x] < g[y]
                                         \/ n[x] = n[y] /\ g[x] = g[y] /\ x < y
  BY <1>g, <1>p DEF FoundationsFirst
<1>i. \A x \in D : x \in Int /\ n[x] \in Int /\ g[x] \in Int
  BY <1>1, <1>2, <1>g
<1>3. SortedBy(D, R)
  <2>1. \A x \in D : <<x, x>> \notin R
    BY <1>i, <1>r
  <2>2. ASSUME NEW x \in D, NEW y \in D, NEW z \in D, <<x, y>> \in R, <<y, z>> \in R
        PROVE  <<x, z>> \in R
    <3>p. PICK nx, ny, nz, gx, gy, gz : /\ nx = n[x] /\ ny = n[y] /\ nz = n[z]
                                        /\ gx = g[x] /\ gy = g[y] /\ gz = g[z]
      OBVIOUS
    <3>1. /\ nx \in Int /\ ny \in Int /\ nz \in Int /\ gx \in Int /\ gy \in Int /\ gz \in Int
          /\ x \in Int /\ y \in Int /\ z \in Int
      BY <1>i, <3>p
    <3>2. nx > ny \/ (nx = ny /\ gx < gy) \/ (nx = ny /\ gx = gy /\ x < y)
      BY <1>r, <2>2, <3>p
    <3>3. ny > nz \/ (ny = nz /\ gy < gz) \/ (ny = nz /\ gy = gz /\ y < z)
      BY <1>r, <2>2, <3>p
    <3>4. nx > nz \/ (nx = nz /\ gx < gz) \/ (nx = nz /\ gx = gz /\ x < z)
      BY <3>1, <3>2, <3>3
    <3>5. QED
      BY <1>r, <3>4, <3>p
  <2>3. ASSUME NEW x \in D, NEW y \in D, x # y PROVE <<x, y>> \in R \/ <<y, x>> \in R
    BY <1>i, <1>r, <2>3
  <2>4. QED
    BY <2>1, <2>2, <2>3 DEF SortedBy
<1>4. /\ InOrderOf(D, R) \in Seq(D) /\ Len(InOrderOf(D, R)) = Cardinality(D)
      /\ ToSet(InOrderOf(D, R)) = D /\ Pairwise(InOrderOf(D, R), R)
  BY <1>1, <1>3, InOrderIs
<1>5. Cardinality(D) = Len(files)
  <2>1. PICK m : m = Len(files)
    OBVIOUS
  <2>2. Cardinality(1..m) = IF 1 > m THEN 0 ELSE m - 1 + 1
    <3>1. m \in Int /\ 1 \in Int
      BY <1>1, <2>1
    <3>2. QED
      BY <3>1, FS_Interval, Zenon
  <2>3. Cardinality(1..m) = m
    BY <1>1, <2>1, <2>2
  <2>4. QED
    BY <1>1, <2>1, <2>3
<1>6. ByTopology(files, deps) = InOrderOf(D, R)
  BY <1>p DEF ByTopology
<1>7. QED
  BY <1>4, <1>5, <1>6, <1>p DEF Orders

\* An exemplar that no other one is before.
BestModel(files, query, i) ==
  /\ i \in Models(files)
  /\ \A j \in Models(files) :
       \/ Scores(files, query)[i] > Scores(files, query)[j]
       \/ Scores(files, query)[i] = Scores(files, query)[j] /\ i <= j

OtherPaths(files) == ((DOMAIN files) \X (DOMAIN files)) \ SamePath(files)

LEMMA ModelsFirst ==
  ASSUME NEW files \in Seq(Fetched), NEW query \in Queries, NEW i, BestModel(files, query, i)
  PROVE  /\ Only(ByScore(files, query), Models(files)) # <<>>
         /\ Only(ByScore(files, query), Models(files))[1] = i
<1>p. PICK D, M, f, R, s, o :
        /\ D = DOMAIN files /\ M = Models(files) /\ f = Scores(files, query) /\ R = HighestFirst(D, f)
        /\ s = ByScore(files, query) /\ o = Only(s, M)
  OBVIOUS
<1>1. s \in Seq(D) /\ ToSet(s) = D /\ Pairwise(s, R)
  BY <1>p, ByScoreIs DEF Orders
<1>2. o \in Seq(D \cap M) /\ ToSet(o) = ToSet(s) \cap M /\ Pairwise(o, R)
  BY <1>1, <1>p, OnlyType, OnlySet, OnlyPairwise
<1>3. i \in M /\ M \subseteq D
  BY <1>p DEF BestModel, Models
<1>4. ToSet(o) = {o[k] : k \in 1..Len(o)} /\ Len(o) \in Nat /\ ToSet(o) = M
  BY <1>1, <1>2, <1>3, SetOf, LenProperties
<1>5. PICK k \in 1..Len(o) : o[k] = i
  BY <1>3, <1>4
<1>6. 1 \in 1..Len(o) /\ Len(o) # 0
  BY <1>4
<1>7. o # <<>>
  BY <1>6, EmptySeq
<1>8. o[1] \in M
  BY <1>4, <1>6
<1>9. k = 1
  <2>1. SUFFICES ASSUME k # 1 PROVE FALSE
    OBVIOUS
  <2>2. 1 < k
    BY <1>4, <2>1
  <2>j. PICK j : j = o[1]
    OBVIOUS
  <2>3. <<j, i>> \in R
    BY <1>2, <1>5, <1>6, <2>2, <2>j DEF Pairwise
  <2>4. f[j] > f[i] \/ (f[j] = f[i] /\ j < i)
    BY <2>3, <1>p DEF HighestFirst
  <2>5. f[i] > f[j] \/ (f[i] = f[j] /\ i <= j)
    BY <1>8, <1>p, <2>j DEF BestModel
  <2>6. f[i] \in Int /\ f[j] \in Int /\ i \in Int /\ j \in Int
    <3>1. f \in [D -> Int] /\ i \in D /\ j \in D
      BY <1>3, <1>8, <1>p, <2>j, ScoresAre
    <3>2. D = 1..Len(files)
      BY <1>p, FilesAre
    <3>3. QED
      BY <3>1, <3>2
  <2>7. QED
    BY <2>4, <2>5, <2>6
<1>10. QED
  BY <1>5, <1>7, <1>9, <1>p

\* Of two orders of a briefing's places, the one and the other by turns.
LEMMA TurnsAre ==
  ASSUME NEW files \in Seq(Fetched), NEW s \in Seq(DOMAIN files), NEW t \in Seq(DOMAIN files),
         Len(s) = Len(files), Len(t) = Len(files)
  PROVE  FlattenSeq([k \in DOMAIN files |-> <<s[k], t[k]>>]) \in Seq(DOMAIN files)
<1>p. PICK D, N, l : D = DOMAIN files /\ N = Len(files) /\ l = [k \in D |-> <<s[k], t[k]>>]
  OBVIOUS
<1>1. D = 1..N /\ N \in Nat
  BY <1>p, FilesAre
<1>2. ASSUME NEW k \in 1..N PROVE <<s[k], t[k]>> \in Seq(D)
  <2>1. s[k] \in D /\ t[k] \in D
    BY <1>2, <1>p, ElementOfSeq
  <2>2. QED
    BY <2>1
<1>3. l \in [1..N -> Seq(D)]
  BY <1>1, <1>2, <1>p
<1>4. l \in Seq(Seq(D))
  BY <1>1, <1>3, ListOf
<1>5. QED
  BY <1>4, <1>p, FlattenType

LEMMA ByBothIs ==
  ASSUME NEW files \in Seq(Fetched), NEW query \in Queries, NEW deps, GraphOf(files, deps)
  PROVE  LET o == ByBoth(files, query, deps)
         IN  /\ o \in Seq(DOMAIN files) /\ Pairwise(o, OtherPaths(files))
             /\ \A i : BestModel(files, query, i) => o # <<>> /\ o[1] = i
<1>p. PICK D, s, t, m, turns, head, list, R, o :
        /\ D = DOMAIN files /\ s = ByScore(files, query) /\ t = ByTopology(files, deps)
        /\ m = Only(s, Models(files)) /\ turns = FlattenSeq([k \in DOMAIN files |-> <<s[k], t[k]>>])
        /\ head = (IF m = <<>> THEN <<>> ELSE <<m[1]>>) /\ list = head \o turns
        /\ R = SamePath(files) /\ o = FirstOnly(list, R)
  OBVIOUS
<1>1. s \in Seq(D) /\ Len(s) = Len(files) /\ t \in Seq(D) /\ Len(t) = Len(files)
  BY <1>p, ByScoreIs, ByTopologyIs DEF Orders
<1>2. turns \in Seq(D)
  BY <1>1, <1>p, TurnsAre
<1>3. m \in Seq(D)
  <2>1. m \in Seq(D \cap Models(files))
    BY <1>1, <1>p, OnlyType
  <2>2. QED
    BY <2>1, SeqWider
<1>4. head \in Seq(D) /\ (m # <<>> => Len(head) = 1 /\ head[1] = m[1])
  <2>1. CASE m = <<>>
    BY <1>p, <2>1, EmptySeq
  <2>2. CASE m # <<>>
    <3>1. Len(m) \in Nat /\ Len(m) # 0
      BY <1>3, <2>2, EmptySeq, LenProperties
    <3>2. 1 \in 1..Len(m)
      BY <3>1
    <3>3. m[1] \in D
      BY <1>3, <3>2, ElementOfSeq
    <3>4. head = <<m[1]>>
      BY <1>p, <2>2
    <3>5. QED
      BY <2>2, <3>3, <3>4
  <2>3. QED
    BY <2>1, <2>2
<1>5. list \in Seq(D) /\ Len(list) = Len(head) + Len(turns) /\ Len(head) \in Nat /\ Len(turns) \in Nat
      /\ \A k \in 1..(Len(head) + Len(turns)) : list[k] = IF k <= Len(head) THEN head[k] ELSE turns[k - Len(head)]
  <2>1. list = head \o turns /\ head \in Seq(D) /\ turns \in Seq(D)
    BY <1>2, <1>4, <1>p
  <2>2. Len(head) \in Nat /\ Len(turns) \in Nat
    BY <2>1, LenProperties
  <2>3. QED
    BY <2>1, <2>2, ConcatProperties
<1>6. o \in Seq(D) /\ Pairwise(o, (D \X D) \ R)
  <2>1. Pairwise(list, D \X D)
    <3>1. \A k \in 1..Len(list) : list[k] \in D
      BY <1>5, ElementOfSeq
    <3>2. QED
      BY <3>1 DEF Pairwise
  <2>2. QED
    BY <1>5, <1>p, <2>1, FirstOnlyIs
<1>7. ASSUME NEW i, BestModel(files, query, i) PROVE o # <<>> /\ o[1] = i
  <2>1. m # <<>> /\ m[1] = i
    BY <1>7, <1>p, ModelsFirst
  <2>2. Len(head) = 1 /\ head[1] = i
    BY <1>4, <2>1
  <2>3. 1 \in 1..(Len(head) + Len(turns)) /\ Len(list) # 0 /\ 1 <= Len(head)
    BY <1>5, <2>2
  <2>4. list # <<>> /\ list[1] = i
    BY <1>5, <2>2, <2>3, EmptySeq
  <2>5. list \in Seq(D) /\ o = FirstOnly(list, R)
    BY <1>5, <1>p
  <2>6. o # <<>> /\ o[1] = list[1]
    BY <2>4, <2>5, FirstOnlyHead, Zenon
  <2>7. QED
    BY <2>4, <2>6
<1>8. o = ByBoth(files, query, deps)
  BY <1>p DEF ByBoth
<1>9. QED
  BY <1>6, <1>7, <1>8, <1>p DEF OtherPaths

-----------------------------------------------------------------------------
(* The map, and the whole block.                                            *)

LEMMA WholeLinesAre ==
  ASSUME NEW n \in Nat
  PROVE  WholeLines(n) \in Int /\ WholeLines(n) <= n
<1>p. PICK m : m = LineLength + 1
  OBVIOUS
<1>1. m \in Nat \ {0} /\ LineLength \in Nat
  BY <1>p, AssemblyAssumption
<1>2. PICK q : q = n \div m
  OBVIOUS
<1>3. q \in Int /\ n = m * q + (n % m) /\ n % m \in 0..(m - 1)
  BY <1>1, <1>2
<1>4. m * q <= n /\ m * q \in Int /\ q * m = m * q
  BY <1>1, <1>3
<1>5. WholeLines(n) = IF n > LineLength THEN q * m - 1 ELSE n
  BY <1>2, <1>p DEF WholeLines
<1>6. QED
  BY <1>4, <1>5

LEMMA MapFits ==
  ASSUME NEW lines \in Nat, NEW share \in Nat
  PROVE  MapLength(lines, share) \in Int /\ MapLength(lines, share) <= share
<1>p. PICK all, capped :
        /\ all = lines * (LineLength + 1) - 1
        /\ capped = IF all <= MapCap THEN all ELSE WholeLines(MapCap) + CapNote
  OBVIOUS
<1>1. all \in Int
  <2>1. LineLength \in Nat
    BY AssemblyAssumption
  <2>2. QED
    BY <1>p, <2>1
<1>2. capped \in Int
  <2>1. MapCap \in Nat
    BY DEF MapCap
  <2>2. WholeLines(MapCap) \in Int
    BY <2>1, WholeLinesAre
  <2>3. QED
    BY <1>1, <1>p, <2>2 DEF CapNote
<1>3. MapLength(lines, share) =
        IF lines = 0 \/ share <= 0 THEN 0
        ELSE IF capped <= share THEN capped
        ELSE IF share <= FitNote THEN 0 ELSE WholeLines(share - FitNote) + FitNote
  BY <1>p DEF MapLength
<1>4. CASE share > FitNote
  <2>1. share - FitNote \in Nat
    BY <1>4 DEF FitNote
  <2>2. WholeLines(share - FitNote) \in Int /\ WholeLines(share - FitNote) <= share - FitNote
    BY <2>1, WholeLinesAre
  <2>3. QED
    BY <1>2, <1>3, <2>2 DEF FitNote
<1>5. CASE ~(share > FitNote)
  BY <1>2, <1>3, <1>5 DEF FitNote
<1>6. QED
  BY <1>4, <1>5

LEMMA MapLinesAre ==
  ASSUME NEW files \in Seq(Fetched), NEW deps, GraphOf(files, deps),
         NEW kind \in {"none", "task", "indegree"}
  PROVE  MapLines(kind, files, deps) \in Nat
<1>p. PICK n, few, found :
        /\ n = Cardinality({p \in DOMAIN deps : deps[p] # {}})
        /\ few = AtMost(Len(files), 6)
        /\ found = IF \E p \in DOMAIN deps : deps[p] # {} THEN 1 ELSE 0
  OBVIOUS
<1>1. n \in Nat
  <2>1. IsFiniteSet({p \in DOMAIN deps : deps[p] # {}})
    BY DependantsAre, FS_Subset
  <2>2. QED
    BY <1>p, <2>1, FS_CardinalityType
<1>2. few \in Nat /\ found \in Nat
  BY <1>p, LenProperties DEF AtMost
<1>3. CASE kind = "none"
  BY <1>3 DEF MapLines
<1>4. CASE kind = "task"
  <2>1. MapLines(kind, files, deps) = IF files = <<>> THEN 0 ELSE 2 + few + found
    BY <1>4, <1>p DEF MapLines
  <2>2. QED
    BY <1>2, <2>1
<1>5. CASE kind = "indegree"
  <2>1. MapLines(kind, files, deps) = IF found = 0 THEN 0 ELSE 2 + n
    BY <1>5, <1>p DEF MapLines
  <2>2. QED
    BY <1>1, <2>1
<1>6. QED
  BY <1>3, <1>4, <1>5

\* Every order is one of the briefing's places, and each protects what it is for.
LEMMA OrdersAre ==
  ASSUME NEW files \in Seq(Fetched), NEW query \in Queries, NEW deps, GraphOf(files, deps),
         NEW order \in {"fifo", "scored", "topological", "combo"}
  PROVE  LET o == OrderOf(order, files, query, deps)
         IN  /\ o \in Seq(DOMAIN files)
             /\ order = "scored" => Orders(files, o, HighestFirst(DOMAIN files, Scores(files, query)))
             /\ order = "topological" => Orders(files, o, FoundationsFirst(files, deps))
             /\ order = "combo" => Pairwise(o, OtherPaths(files))
                  /\ \A i : BestModel(files, query, i) => o # <<>> /\ o[1] = i
<1>p. PICK o : o = OrderOf(order, files, query, deps)
  OBVIOUS
<1>1. CASE order = "fifo"
  <2>1. o = [i \in DOMAIN files |-> i]
    BY <1>1, <1>p DEF OrderOf
  <2>2. DOMAIN files = 1..Len(files) /\ Len(files) \in Nat
    BY FilesAre
  <2>3. o \in [1..Len(files) -> DOMAIN files]
    BY <2>1, <2>2
  <2>4. o \in Seq(DOMAIN files)
    BY <2>2, <2>3, ListOf
  <2>5. QED
    BY <1>1, <1>p, <2>4
<1>2. CASE order = "scored"
  <2>1. o = ByScore(files, query)
    BY <1>2, <1>p DEF OrderOf
  <2>2. Orders(files, o, HighestFirst(DOMAIN files, Scores(files, query)))
    BY <2>1, ByScoreIs
  <2>3. QED
    BY <1>2, <1>p, <2>2 DEF Orders
<1>3. CASE order = "topological"
  <2>1. o = ByTopology(files, deps)
    BY <1>3, <1>p DEF OrderOf
  <2>2. Orders(files, o, FoundationsFirst(files, deps))
    BY <2>1, ByTopologyIs
  <2>3. QED
    BY <1>3, <1>p, <2>2 DEF Orders
<1>4. CASE order = "combo"
  <2>1. o = ByBoth(files, query, deps)
    BY <1>4, <1>p DEF OrderOf
  <2>2. /\ o \in Seq(DOMAIN files) /\ Pairwise(o, OtherPaths(files))
        /\ \A i : BestModel(files, query, i) => o # <<>> /\ o[1] = i
    BY <2>1, ByBothIs
  <2>3. QED
    BY <1>4, <1>p, <2>2
<1>5. QED
  BY <1>1, <1>2, <1>3, <1>4

\* What is left out comes after what is taken, if the order has it.
LEMMA LeftOutIsLater ==
  ASSUME NEW files, NEW o \in Seq(DOMAIN files), NEW c, NEW m \in 0..Len(o), TakenTo(files, o, c, m),
         NEW R, Pairwise(o, R),
         NEW i \in ChosenOf(c), NEW j \in ToSet(o), j \notin ChosenOf(c), files[j].size > 0,
         DOMAIN c = 1..Len(c)
  PROVE  <<i, j>> \in R
<1>1. ChosenOf(c) = {c[k].place : k \in 1..Len(c)}
  BY DEF ChosenOf
<1>2. PICK a \in 1..m : i = o[a]
  BY <1>1 DEF TakenTo
<1>3. Len(o) \in Nat /\ ToSet(o) = {o[b] : b \in 1..Len(o)}
  BY SetOf, LenProperties
<1>4. PICK b \in 1..Len(o) : j = o[b]
  BY <1>3
<1>5. b \notin 1..m
  <2>1. SUFFICES ASSUME b \in 1..m PROVE FALSE
    OBVIOUS
  <2>2. PICK k \in 1..Len(c) : c[k].place = o[b]
    BY <1>4, <2>1 DEF TakenTo
  <2>3. QED
    BY <1>1, <1>4, <2>2
<1>6. a \in 1..Len(o) /\ a < b
  BY <1>3, <1>5
<1>7. QED
  BY <1>2, <1>4, <1>6 DEF Pairwise

LEMMA AssembledFits ==
  ASSUME NEW files \in Seq(Fetched), NEW query \in Queries, NEW deps, GraphOf(files, deps),
         NEW order \in {"fifo", "scored", "topological", "combo"},
         NEW map \in {"none", "task", "indegree"}, NEW budget \in Allowances, NEW pools \in PoolSizes,
         NEW opts, opts = [order |-> order, map |-> map, budget |-> budget, pools |-> pools]
  PROVE  Fits(files, query, opts, Assembled(files, query, opts, deps))
<1>p. PICK share, length, head, room, o, c, made :
        /\ share = (budget * MapShare) \div 100
        /\ length = MapLength(MapLines(map, files, deps), share)
        /\ head = length + pools + (IF length > 0 /\ pools > 0 THEN 2 ELSE 0)
        /\ room = budget - head - Header
        /\ o = OrderOf(order, files, query, deps)
        /\ c = Fill(files, o, room)
        /\ made = Assembled(files, query, opts, deps)
  OBVIOUS
<1>1. budget \in Nat /\ pools \in Nat
  BY AssemblyAssumption
<1>2. share \in Nat
  BY <1>1, <1>p DEF MapShare
<1>3. length \in Int /\ length <= share
  BY <1>2, <1>p, MapLinesAre, MapFits
<1>4. head \in Int /\ room \in Int
  <2>1. PICK x : x = IF length > 0 /\ pools > 0 THEN 2 ELSE 0
    OBVIOUS
  <2>2. x \in Int
    BY <2>1
  <2>3. head = length + pools + x /\ room = budget - head - Header
    BY <1>p, <2>1
  <2>4. head \in Int
    BY <1>1, <1>3, <2>2, <2>3
  <2>5. room \in Int
    BY <1>1, <2>3, <2>4 DEF Header
  <2>6. QED
    BY <2>4, <2>5
<1>r. room = budget - head - Header
  BY <1>p
<1>5. made = [made |-> TRUE, map |-> length, head |-> head, code |-> c, deps |-> deps]
  BY <1>p DEF Assembled
<1>6. /\ o \in Seq(DOMAIN files)
      /\ order = "scored" => Orders(files, o, HighestFirst(DOMAIN files, Scores(files, query)))
      /\ order = "topological" => Orders(files, o, FoundationsFirst(files, deps))
      /\ order = "combo" => Pairwise(o, OtherPaths(files))
           /\ \A i : BestModel(files, query, i) => o # <<>> /\ o[1] = i
  BY <1>p, OrdersAre
<1>s. Sized(files)
  BY FilesAre
<1>7. PICK v : Filled(files, o, room, Len(o), v) /\ c = v.code
  <2>1. o \in Seq(DOMAIN files) /\ room \in Int
    BY <1>4, <1>6
  <2>2. \E v : Filled(files, o, room, Len(o), v) /\ Fill(files, o, room) = v.code
    BY <1>s, <2>1, FillIs, Zenon
  <2>3. c = Fill(files, o, room)
    BY <1>p
  <2>4. QED
    BY <2>2, <2>3, Zenon
<1>8. /\ c \in Seq(Pieces(files)) /\ v.room \in Int /\ Len(c) \in Nat /\ DOMAIN c = 1..Len(c)
      /\ \A k \in 1..Len(c) : c[k].cut => k = Len(c)
      /\ FitsIn(v, room)
  BY <1>7, LenProperties DEF Filled, Fillings
<1>9. PICK m \in 0..Len(o) : TakenTo(files, o, c, m)
  BY <1>7 DEF Filled
<1>c. ChosenOf(c) = {c[k].place : k \in 1..Len(c)}
  BY <1>8 DEF ChosenOf
<1>10. ASSUME c # <<>>
       PROVE  head + Header + LengthOf(c) <= budget + (IF c[Len(c)].cut THEN Fence + CutNote ELSE 0)
  <2>l. PICK l, x : l = LengthOf(c) /\ x = (IF c[Len(c)].cut THEN Fence + CutNote ELSE 0)
    OBVIOUS
  <2>1. l \in Int
    <3>1. \A k \in 1..Len(c) : c[k].chars \in Int
      <4>1. ASSUME NEW k \in 1..Len(c) PROVE c[k] \in Pieces(files)
        BY <1>8, ElementOfSeq
      <4>2. QED
        BY <4>1 DEF Pieces
    <3>2. PICK f \in [0..Len(c) -> Int] : LengthOf(c) = f[Len(c)]
      BY <1>8, <3>1, LengthDefined
    <3>3. Len(c) \in 0..Len(c)
      <4>1. PICK n : n = Len(c)
        OBVIOUS
      <4>2. n \in Nat
        BY <1>8, <4>1
      <4>3. n \in 0..n
        BY <4>2
      <4>4. QED
        BY <4>1, <4>3
    <3>4. QED
      BY <2>l, <3>2, <3>3
  <2>2. l <= room + x
    <3>1. CASE c[Len(c)].cut
      <4>1. l <= room + Fence + CutNote
        BY <1>7, <1>8, <1>10, <2>l, <3>1 DEF FitsIn, EndsCut
      <4>2. x = Fence + CutNote
        BY <2>l, <3>1
      <4>3. QED
        BY <1>4, <2>1, <4>1, <4>2 DEF Fence, CutNote
    <3>2. CASE ~c[Len(c)].cut
      <4>1. l + 1 + v.room = room /\ v.room >= 0
        BY <1>7, <1>8, <1>10, <2>l, <3>2 DEF FitsIn, EndsCut
      <4>r. PICK r : r = v.room
        OBVIOUS
      <4>2. l + 1 + r = room /\ r >= 0 /\ r \in Int /\ x = 0
        BY <1>8, <2>l, <3>2, <4>1, <4>r
      <4>3. QED
        BY <1>4, <2>1, <4>2
    <3>3. QED
      BY <3>1, <3>2
  <2>3. x \in Int
    BY <2>l DEF Fence, CutNote
  <2>4. head + Header + l <= budget + x
    BY <1>1, <1>4, <1>r, <2>1, <2>2, <2>3 DEF Header
  <2>5. QED
    BY <2>4, <2>l
<1>11. ASSUME NEW i \in ChosenOf(c), NEW j \in {x \in DOMAIN files : files[x].size > 0} \ ChosenOf(c)
       PROVE  /\ order = "scored" => Scores(files, query)[i] >= Scores(files, query)[j]
              /\ order = "topological" => Dependants(files, deps)[i] >= Dependants(files, deps)[j]
  <2>1. ASSUME NEW R, Orders(files, o, R) PROVE <<i, j>> \in R
    <3>1. ToSet(o) = DOMAIN files /\ Pairwise(o, R)
      BY <2>1 DEF Orders
    <3>2. j \in ToSet(o) /\ j \notin ChosenOf(c) /\ files[j].size > 0
      BY <1>11, <3>1
    <3>3. QED
      BY <1>6, <1>8, <1>9, <3>1, <3>2, LeftOutIsLater
  <2>2. ASSUME order = "scored" PROVE Scores(files, query)[i] >= Scores(files, query)[j]
    <3>p. PICK f : f = Scores(files, query)
      OBVIOUS
    <3>1. <<i, j>> \in HighestFirst(DOMAIN files, f)
      BY <1>6, <2>1, <2>2, <3>p
    <3>2. i \in DOMAIN files /\ j \in DOMAIN files /\ (f[i] > f[j] \/ f[i] = f[j])
      BY <3>1 DEF HighestFirst
    <3>3. f \in [DOMAIN files -> Int]
      BY <3>p, ScoresAre
    <3>4. f[i] \in Int /\ f[j] \in Int
      BY <3>2, <3>3
    <3>5. QED
      BY <3>2, <3>4, <3>p
  <2>3. ASSUME order = "topological" PROVE Dependants(files, deps)[i] >= Dependants(files, deps)[j]
    <3>p. PICK n : n = Dependants(files, deps)
      OBVIOUS
    <3>1. <<i, j>> \in FoundationsFirst(files, deps)
      BY <1>6, <2>1, <2>3
    <3>2. i \in DOMAIN files /\ j \in DOMAIN files /\ (n[i] > n[j] \/ n[i] = n[j])
      BY <3>1, <3>p DEF FoundationsFirst
    <3>3. n \in [DOMAIN files -> Int]
      BY <3>p, DependantsAre
    <3>4. n[i] \in Int /\ n[j] \in Int
      BY <3>2, <3>3
    <3>5. QED
      BY <3>2, <3>4, <3>p
  <2>4. QED
    BY <2>2, <2>3
<1>12. ASSUME order = "combo", NEW i \in ChosenOf(c), NEW j \in ChosenOf(c), files[i].path = files[j].path
       PROVE  i = j
  <2>1. PICK a \in 1..m, b \in 1..m : i = o[a] /\ j = o[b]
    BY <1>9, <1>c DEF TakenTo
  <2>2. /\ Len(o) \in Nat /\ a \in 1..Len(o) /\ b \in 1..Len(o) /\ a \in Int /\ b \in Int
        /\ i \in DOMAIN files /\ j \in DOMAIN files
    BY <1>6, <2>1, ElementOfSeq, LenProperties
  <2>3. <<i, j>> \in SamePath(files) /\ <<j, i>> \in SamePath(files)
    BY <1>12, <2>2 DEF SamePath
  <2>4. ~(a < b) /\ ~(b < a)
    BY <1>6, <1>12, <2>1, <2>2, <2>3 DEF Pairwise, OtherPaths
  <2>5. a = b
    BY <2>2, <2>4
  <2>6. QED
    BY <2>1, <2>5
<1>13. ASSUME order = "combo", NEW i \in Models(files), c # <<>>, files[i].size > 0,
              \A j \in Models(files) : \/ Scores(files, query)[i] > Scores(files, query)[j]
                                       \/ Scores(files, query)[i] = Scores(files, query)[j] /\ i <= j
       PROVE  c[1].place = i
  <2>1. BestModel(files, query, i)
    BY <1>13 DEF BestModel
  <2>2. o[1] = i
    BY <1>6, <1>13, <2>1
  <2>3. QED
    BY <1>9, <1>13, <2>2 DEF TakenTo
<1>14. Fits(files, query, opts, made)
  <2>1. /\ opts.budget = budget /\ opts.order = order /\ made.head = head /\ made.map = length
        /\ made.code = c /\ made.deps = deps
    BY <1>5
  <2>2. length <= (budget * MapShare) \div 100
    BY <1>3, <1>p
  <2>3. QED
    BY <1>8, <1>10, <1>11, <1>12, <1>13, <2>1, <2>2 DEF Fits
<1>15. QED
  BY <1>14, <1>p

-----------------------------------------------------------------------------
(* The block of an assembly is made of its briefing and options, and they   *)
(* stay.                                                                    *)

AssemblyInv ==
  /\ briefed = [files |-> briefed.files, query |-> briefed.query] /\ briefed.files \in Seq(Fetched)
  /\ AssemblyFits

LEMMA AssemblyStarts == AssemblyInit => AssemblyInv
BY EmptySeq DEF AssemblyInit, AssemblyInv, AssemblyFits

LEMMA AssemblyKeepsInv == AssemblyInv /\ [AssemblyNext]_assemblyVars => AssemblyInv'
<1>. SUFFICES ASSUME AssemblyInv, [AssemblyNext]_assemblyVars PROVE AssemblyInv'
  OBVIOUS
<1>0. /\ briefed = [files |-> briefed.files, query |-> briefed.query] /\ briefed.files \in Seq(Fetched)
      /\ AssemblyFits
  BY DEF AssemblyInv
<1>1. ASSUME NEW file \in Fetched, Brief(file) PROVE AssemblyInv'
  <2>p. PICK files, query, more : files = briefed.files /\ query = briefed.query /\ more = Append(files, file)
    OBVIOUS
  <2>1. briefed' = [files |-> more, query |-> query] /\ assembly' = NoAssembly
    BY <1>0, <1>1, <2>p DEF Brief
  <2>2. more \in Seq(Fetched)
    BY <1>0, <2>p, AppendProperties
  <2>3. QED
    BY <2>1, <2>2 DEF AssemblyInv, AssemblyFits
<1>2. ASSUME NEW deps \in Graph(briefed.files), NEW query \in Queries,
             NEW order \in {"fifo", "scored", "topological", "combo"},
             NEW map \in {"none", "task", "indegree"}, NEW budget \in Allowances, NEW pools \in PoolSizes,
             Assemble(deps, query, order, map, budget, pools)
      PROVE  AssemblyInv'
  <2>p. PICK files, opts : /\ files = briefed.files
                           /\ opts = [order |-> order, map |-> map, budget |-> budget, pools |-> pools]
    OBVIOUS
  <2>1. /\ briefed' = [files |-> files, query |-> query] /\ options' = opts
        /\ assembly' = Assembled(files, query, opts, deps)
    BY <1>0, <1>2, <2>p DEF Assemble
  <2>2. GraphOf(files, deps)
    BY <2>p DEF Graph, DependenciesOf, GraphOf
  <2>3. files \in Seq(Fetched)
    BY <1>0, <2>p
  <2>4. Fits(files, query, opts, Assembled(files, query, opts, deps))
    BY <2>2, <2>3, <2>p, AssembledFits
  <2>5. QED
    BY <2>1, <2>3, <2>4 DEF AssemblyInv, AssemblyFits
<1>3. CASE UNCHANGED assemblyVars
  BY <1>0, <1>3 DEF assemblyVars, AssemblyInv, AssemblyFits
<1>4. QED
  BY <1>1, <1>2, <1>3 DEF AssemblyNext

\* The block keeps its budget but for the note and fence of the file that is cut,
\* which is the last; the map has its share; and what is left out is never what
\* the order is there to protect (curator/deterministic_assembler.py).
THEOREM BlocksFit == AssemblySpec => []AssemblyFits
<1>1. AssemblyInv /\ [AssemblyNext]_assemblyVars => AssemblyInv'
  BY AssemblyKeepsInv
<1>2. AssemblyInv => AssemblyFits
  BY DEF AssemblyInv
<1>3. QED
  BY <1>1, <1>2, AssemblyStarts, PTL DEF AssemblySpec
================================================================================
