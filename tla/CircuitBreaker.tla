--------------------------- MODULE CircuitBreaker ---------------------------
(***************************************************************************)
(* The per-session circuit breaker of                                      *)
(* archolith_proxy/proxy/circuit_breaker.py: whether the synthetic tools   *)
(* may be injected into a session's requests, with the session's token     *)
(* budget in the same record.  The records live in an OrderedDict of       *)
(* bounded size that forgets the session used least recently.              *)
(***************************************************************************)
EXTENDS Integers, Sequences, FiniteSets, SequencesExt

CONSTANTS
  Sessions,        \* session ids
  Tracked,         \* _MAX_CIRCUIT_SESSIONS
  MaxConsecutive,  \* synthetic_circuit_max_consecutive
  MaxTotal,        \* synthetic_circuit_max_total
  Cooldown,        \* synthetic_circuit_cooldown_s, in ticks of the clock
  Budget           \* max_input_tokens_per_session, 0 if unlimited

ASSUME BreakerAssumption ==
  /\ Tracked \in Nat \ {0}
  /\ MaxConsecutive \in Nat \ {0}
  /\ MaxTotal \in Nat \ {0}
  /\ Cooldown \in Nat \ {0}
  /\ Budget \in Nat

\* disabled_until = 0: the breaker is closed.
Closed == -1

\* The ticks still to pass before disabled_until, instead of that time.
Fresh == [streak |-> 0, total |-> 0, cooling |-> Closed, hard |-> FALSE, tokens |-> 0]

VARIABLES
  circuit,   \* _sessions; Fresh for a session that is not in it
  lru        \* its keys, the one used least recently in front

breakerVars == <<circuit, lru>>

BreakerInit ==
  /\ circuit = [s \in Sessions |-> Fresh]
  /\ lru = <<>>

-----------------------------------------------------------------------------
\* The session that has to go for s to be tracked.
Evicted(s) ==
  IF s \in ToSet(lru) \/ Len(lru) < Tracked THEN {} ELSE {Head(lru)}

\* get_circuit_state for s, whose record then becomes new.
Update(s, new) ==
  /\ circuit' = [x \in Sessions |-> IF x = s THEN new
                                    ELSE IF x \in Evicted(s) THEN Fresh
                                    ELSE circuit[x]]
  /\ lru' = Append(SelectSeq(lru, LAMBDA x : x # s /\ x \notin Evicted(s)), s)

\* Mutant of Allowed: the hard limit is only looked at when the breaker opens.
AllowedAfterCooldown(s) == circuit[s].cooling \in {Closed, 0}

\* What is_synthetic_allowed answers.
Allowed(s) == ~circuit[s].hard /\ circuit[s].cooling \in {Closed, 0}

\* is_synthetic_allowed: an elapsed cooldown closes the breaker.
Ask(s) ==
  Update(s, IF ~circuit[s].hard /\ circuit[s].cooling = 0
              THEN [circuit[s] EXCEPT !.streak = 0, !.cooling = Closed]
              ELSE circuit[s])

\* record_synthetic_failure: the hard limit first, else the cooldown.
Failure(s) ==
  LET c == [circuit[s] EXCEPT !.streak = @ + 1, !.total = @ + 1]
  IN Update(s, IF c.total >= MaxTotal THEN [c EXCEPT !.hard = TRUE]
               ELSE IF c.streak >= MaxConsecutive
                 THEN [c EXCEPT !.cooling = Cooldown]
               ELSE c)

\* record_synthetic_success.
Success(s) == Update(s, [circuit[s] EXCEPT !.streak = 0])

\* add_session_tokens, on a record; what exceeds the budget makes no difference.
Charged(c, t) ==
  [c EXCEPT !.tokens = IF @ + t > Budget THEN Budget ELSE @ + t]

\* is_session_over_budget, of a record.
OverBudget(c) == Budget > 0 /\ c.tokens >= Budget

\* Time passes.
Tick ==
  /\ \E s \in Sessions : circuit[s].cooling > 0
  /\ circuit' = [s \in Sessions |->
       [circuit[s] EXCEPT !.cooling = IF @ > 0 THEN @ - 1 ELSE @]]
  /\ UNCHANGED lru
=============================================================================
