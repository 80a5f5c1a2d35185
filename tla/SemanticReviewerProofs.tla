----------------------- MODULE SemanticReviewerProofs -----------------------
(***************************************************************************)
(* Theorems about the calls of a semantic review, for any answers, retry   *)
(* budgets and review policy.                                              *)
(***************************************************************************)
EXTENDS SemanticReviewer, TLAPS, BoundedRecursion, SequenceTheorems

(* Calls of one attempt. *)
Budget == MaxModelRetries + 1

(* Calls made so far, against attempts and the failed calls of this one.   *)
Spent ==
  /\ pc \in {"context", "call"} => Len(calls) <= attempt * Budget + tries
  /\ pc = "parse" => Len(calls) <= attempt * Budget + Budget
  /\ CallBudget

(* The calls counted by tries are the last ones. *)
Failing ==
  /\ pc \in {"context", "call"} =>
       /\ tries <= Len(calls)
       /\ \A i \in (Len(calls) - tries + 1)..Len(calls) : ~calls[i]
  /\ OnlyExhaustionIsAnError

Open ==
  /\ pc \in {"context", "call", "parse"} => outcome = NoOutcome /\ ~modelError
  /\ pc # "done" => action = "none"
  /\ FailsClosed

Explained ==
  /\ pc = "context" => raw = NoAnswer /\ shown = "none"
  /\ pc = "parse" => raw \in Answers
  /\ RetryExplainsLastAnswer

ReviewInv == TypeOK /\ Spent /\ Failing /\ Open /\ Explained

-----------------------------------------------------------------------------

(* Another attempt has the calls of one more budget; the last attempt is   *)
(* within the whole.                                                       *)
LEMMA BudgetGrows ==
  ASSUME NEW a \in Nat
  PROVE  /\ a * Budget \in Nat /\ (a + 1) * Budget = a * Budget + Budget
         /\ a <= MaxParseRetries => a * Budget + Budget <= (MaxParseRetries + 1) * Budget
BY ReviewerAssumption DEF Budget

LEMMA InitInv == Init => ReviewInv
<1> SUFFICES ASSUME Init PROVE ReviewInv
  OBVIOUS
<1> USE ReviewerAssumption DEF Init
<1>1. TypeOK
  <2>1. <<>> \in Seq(BOOLEAN)
    OBVIOUS
  <2>2. 0 \in 0..MaxParseRetries /\ 0 \in 0..MaxModelRetries
    OBVIOUS
  <2> QED
    BY <2>1, <2>2 DEF TypeOK
<1>2. Spent
  BY BudgetGrows DEF Spent, CallBudget, Budget
<1>3. Failing /\ Open /\ Explained
  BY DEF Failing, OnlyExhaustionIsAnError, Open, FailsClosed, Explained, RetryExplainsLastAnswer
<1> QED
  BY <1>1, <1>2, <1>3 DEF ReviewInv

(* A call that is recorded. *)
LEMMA Recorded ==
  ASSUME TypeOK, NEW b \in BOOLEAN, calls' = Append(calls, b)
  PROVE  /\ calls' \in Seq(BOOLEAN) /\ Len(calls') = Len(calls) + 1 /\ Len(calls) \in Nat
         /\ calls'[Len(calls) + 1] = b
         /\ \A i \in 1..Len(calls) : calls'[i] = calls[i]
BY DEF TypeOK

LEMMA NextInv ==
  ASSUME ReviewInv, [Next]_vars
  PROVE  ReviewInv'
<1> USE ReviewerAssumption DEF ReviewInv, vars, callVars, contextVars
<1> DEFINE n == Len(calls)
<1>0. n \in Nat /\ attempt \in Nat /\ tries \in Nat /\ Budget \in Nat /\ n' = Len(calls')
  BY DEF TypeOK, Budget
<1>1. CASE BuildContext
  <2>1. TypeOK' /\ Spent' /\ Open' /\ Explained'
    BY <1>1 DEF BuildContext, TypeOK, Spent, CallBudget, Budget, Open, FailsClosed, Explained,
                RetryExplainsLastAnswer
  <2>2. Failing'
    BY <1>1 DEF BuildContext, Failing, OnlyExhaustionIsAnError
  <2> QED
    BY <2>1, <2>2
<1>2. CASE ModelAnswers
  <2>1. calls' \in Seq(BOOLEAN) /\ Len(calls') = Len(calls) + 1
    BY <1>2, Recorded DEF ModelAnswers
  <2>2. TypeOK'
    BY <1>2, <2>1 DEF ModelAnswers, TypeOK
  <2>3. Spent'
    <3>1. Len(calls') <= attempt * Budget + Budget
      BY <1>0, <1>2, <2>1, BudgetGrows DEF ModelAnswers, Spent, TypeOK, Budget
    <3> QED
      BY <1>0, <1>2, <3>1, BudgetGrows DEF ModelAnswers, Spent, TypeOK, CallBudget, Budget
  <2>4. Failing' /\ Open' /\ Explained'
    BY <1>2 DEF ModelAnswers, Failing, OnlyExhaustionIsAnError, Open, FailsClosed, Explained,
                RetryExplainsLastAnswer
  <2> QED
    BY <2>2, <2>3, <2>4
<1>3. CASE ModelFails
  <2>1. /\ calls' \in Seq(BOOLEAN) /\ Len(calls') = Len(calls) + 1
        /\ ~calls'[Len(calls) + 1] /\ \A i \in 1..Len(calls) : calls'[i] = calls[i]
    BY <1>3, Recorded DEF ModelFails
  <2>2. TypeOK'
    <3>1. CASE tries < MaxModelRetries
      <4>1. tries' \in 0..MaxModelRetries /\ pc' = pc /\ modelError' = modelError
        BY <1>0, <1>3, <3>1 DEF ModelFails
      <4> QED
        BY <1>3, <2>1, <4>1 DEF ModelFails, TypeOK
    <3>2. CASE ~(tries < MaxModelRetries)
      <4>1. tries' = tries /\ pc' = "decide" /\ modelError' = TRUE
        BY <1>3, <3>2 DEF ModelFails
      <4> QED
        BY <1>3, <2>1, <4>1 DEF ModelFails, TypeOK
    <3> QED
      BY <3>1, <3>2
  <2>3. Spent'
    <3>1. Len(calls') <= attempt * Budget + tries + 1 /\ tries <= MaxModelRetries
      BY <1>0, <1>3, <2>1, BudgetGrows DEF ModelFails, Spent, TypeOK
    <3>2. Len(calls') <= attempt * Budget + Budget
      BY <1>0, <2>1, <3>1, BudgetGrows DEF Budget
    <3> QED
      BY <1>0, <1>3, <2>1, <3>1, <3>2, BudgetGrows DEF ModelFails, Spent, TypeOK, CallBudget, Budget
  <2>4. /\ tries + 1 <= Len(calls')
        /\ \A i \in (Len(calls') - tries)..Len(calls') : ~calls'[i]
    BY <1>0, <1>3, <2>1 DEF ModelFails, Failing
  <2>5. Failing'
    BY <1>0, <1>3, <2>1, <2>4 DEF ModelFails, Failing, OnlyExhaustionIsAnError, TypeOK, Open
  <2>6. Open' /\ Explained'
    BY <1>3 DEF ModelFails, Open, FailsClosed, Explained, RetryExplainsLastAnswer
  <2> QED
    BY <2>2, <2>3, <2>5, <2>6
<1>4. CASE AcceptAnswer
  <2>1. TypeOK' /\ Spent'
    BY <1>4 DEF AcceptAnswer, TypeOK, Spent, CallBudget
  <2>2. Failing' /\ Open' /\ Explained'
    BY <1>4 DEF AcceptAnswer, Failing, OnlyExhaustionIsAnError, Open, FailsClosed, Explained,
                RetryExplainsLastAnswer
  <2> QED
    BY <2>1, <2>2
<1>5. CASE RejectAnswer
  <2>1. TypeOK'
    BY <1>5 DEF RejectAnswer, TypeOK
  <2>2. Spent'
    BY <1>0, <1>5, BudgetGrows DEF RejectAnswer, Spent, CallBudget
  <2>3. Failing'
    BY <1>0, <1>5 DEF RejectAnswer, Failing, OnlyExhaustionIsAnError
  <2>4. Open' /\ Explained'
    BY <1>5 DEF RejectAnswer, Open, FailsClosed, Explained, RetryExplainsLastAnswer
  <2> QED
    BY <2>1, <2>2, <2>3, <2>4
<1>6. CASE Decided
  <2>1. TypeOK' /\ Spent'
    BY <1>6 DEF Decided, TypeOK, Spent, CallBudget
  <2>2. Failing' /\ Open' /\ Explained'
    BY <1>6 DEF Decided, Failing, OnlyExhaustionIsAnError, Open, FailsClosed, Explained,
                RetryExplainsLastAnswer
  <2> QED
    BY <2>1, <2>2
<1>7. CASE UNCHANGED vars
  <2>1. TypeOK' /\ Spent'
    BY <1>7 DEF TypeOK, Spent, CallBudget
  <2>2. Failing' /\ Open' /\ Explained'
    BY <1>7 DEF Failing, OnlyExhaustionIsAnError, Open, FailsClosed, Explained,
                RetryExplainsLastAnswer
  <2> QED
    BY <2>1, <2>2
<1> QED
  BY <1>1, <1>2, <1>3, <1>4, <1>5, <1>6, <1>7 DEF Next, Terminated

LEMMA Invariance == Spec => []ReviewInv
BY InitInv, NextInv, PTL DEF Spec

-----------------------------------------------------------------------------

(* A review spends at most (parse retries + 1) * (model retries + 1) calls,*)
(* in whichever order calls fail and answers do not parse.                 *)
THEOREM CallsBounded == Spec => []CallBudget
<1>1. ReviewInv => CallBudget
  BY DEF ReviewInv, Spent
<1> QED
  BY <1>1, Invariance, PTL

(* A model error is reported only after a whole budget of calls has failed *)
(* in a row.                                                               *)
THEOREM ErrorsAreExhaustion == Spec => []OnlyExhaustionIsAnError
<1>1. ReviewInv => OnlyExhaustionIsAnError
  BY DEF ReviewInv, Failing
<1> QED
  BY <1>1, Invariance, PTL

(* No candidate is accepted or revised without an outcome that was parsed  *)
(* from the last answer.                                                   *)
THEOREM ReviewFailsClosed == Spec => []FailsClosed
<1>1. ReviewInv => FailsClosed
  BY DEF ReviewInv, Open
<1> QED
  BY <1>1, Invariance, PTL

(* A retry prompt explains the error of the answer it follows.             *)
THEOREM RetriesExplain == Spec => []RetryExplainsLastAnswer
<1>1. ReviewInv => RetryExplainsLastAnswer
  BY DEF ReviewInv, Explained
<1> QED
  BY <1>1, Invariance, PTL

-----------------------------------------------------------------------------
(* What a decision rests on                                                *)

(* A parsed risk, and what the parser and the evidence check guarantee.    *)
Sound(risk) ==
  /\ risk.severity \in Severities
  /\ risk.severity = "blocking" => risk.evidence # <<>> /\ risk.examples # <<>>
  /\ IsSequence(risk.evidence)
  /\ \A j \in DOMAIN risk.evidence : Exists(risk.evidence[j])

Validated(o) ==
  /\ o.verdict \in Verdicts
  /\ IsSequence(o.risks)
  /\ \A i, k \in DOMAIN o.risks : o.risks[i].id = o.risks[k].id => i = k
  /\ \A i \in DOMAIN o.risks : Sound(o.risks[i])

LEMMA SequenceFacts ==
  ASSUME NEW s, IsSequence(s)
  PROVE  /\ Len(s) \in Nat /\ DOMAIN s = 1..Len(s)
         /\ s # <<>> <=> DOMAIN s # {}
         /\ \A n \in Nat \ {0} : IsSequence(AtMost(s, n)) /\ DOMAIN AtMost(s, n) \subseteq DOMAIN s
<1> DEFINE S == {s[i] : i \in DOMAIN s}
<1>1. s \in Seq(S)
  BY DEF IsSequence
<1>2. Len(s) \in Nat /\ DOMAIN s = 1..Len(s) /\ (s # <<>> <=> DOMAIN s # {})
  BY <1>1
<1>3. ASSUME NEW n \in Nat \ {0}
      PROVE  IsSequence(AtMost(s, n)) /\ DOMAIN AtMost(s, n) \subseteq DOMAIN s
  <2> DEFINE t == AtMost(s, n)
             m == IF Len(s) < n THEN Len(s) ELSE n
  <2>1. m \in 0..Len(s) /\ t = SubSeq(s, 1, m)
    BY <1>2 DEF AtMost
  <2>2. t \in Seq(S) /\ Len(t) = m /\ \A i \in 1..m : t[i] = s[i]
    BY <1>1, <2>1
  <2>3. DOMAIN t = 1..m
    BY <2>1, <2>2
  <2>4. t \in Seq({t[i] : i \in DOMAIN t})
    BY <2>2, <2>3
  <2>5. IsSequence(t)
    BY <2>4 DEF IsSequence
  <2> HIDE DEF t
  <2>6. DOMAIN t \subseteq DOMAIN s
    BY <1>2, <2>1, <2>3
  <2> QED
    BY <2>5, <2>6 DEF t
<1> QED
  BY <1>2, <1>3

LEMMA ParsedIsValidated ==
  ASSUME NEW a \in Answers, AnswerError(a) = "none"
  PROVE  Validated(Parsed(a))
<1> DEFINE r == a.risks
           o == Parsed(a)
<1>1. /\ ParseError(a) = "none" /\ EvidenceHolds(o)
  BY DEF AnswerError
<1>2. a.form = "object" /\ a.verdict \in Verdicts
  BY <1>1 DEF ParseError
<1>3. Distinct(Ids(r)) /\ \A i \in DOMAIN r : WellFormed(ParsedRisks(a)[i])
  BY <1>1, <1>2 DEF ParseError
<1>4. IsSequence(r) /\ \A i \in DOMAIN r : IsSequence(r[i].evidence)
  BY <1>2, AnswersAssumption
<1>5. /\ o.verdict = a.verdict /\ o.risks = ParsedRisks(a)
      /\ o.risks = [i \in DOMAIN r |-> Normalized(r[i])]
  BY DEF Parsed, ParsedRisks
<1>6. IsSequence(o.risks)
  <2>1. DOMAIN r = 1..Len(r) /\ Len(r) \in Nat
    BY <1>4, SequenceFacts
  <2> QED
    BY <1>5, <2>1 DEF IsSequence
<1>7. ASSUME NEW i \in DOMAIN r
      PROVE  /\ o.risks[i].id = r[i].id
             /\ Sound(o.risks[i])
  <2>1. o.risks[i] = Normalized(r[i])
    BY <1>5
  <2>2. o.risks[i].id = r[i].id /\ o.risks[i].evidence = AtMost(r[i].evidence, MaxEvidence)
    BY <2>1 DEF Normalized
  <2>3. WellFormed(o.risks[i])
    BY <1>3, <1>5
  <2>4. IsSequence(o.risks[i].evidence)
    <3>1. IsSequence(r[i].evidence) /\ MaxEvidence \in Nat \ {0}
      BY <1>4, ParserAssumption
    <3>2. IsSequence(AtMost(r[i].evidence, MaxEvidence))
      BY <3>1, SequenceFacts
    <3> QED
      BY <2>2, <3>2
  <2>5. \A j \in DOMAIN o.risks[i].evidence : Exists(o.risks[i].evidence[j])
    BY <1>1, <1>5 DEF EvidenceHolds
  <2> QED
    BY <2>2, <2>3, <2>4, <2>5 DEF Sound, WellFormed
<1>8. \A i, k \in DOMAIN r : r[i].id = r[k].id => i = k
  BY <1>3 DEF Distinct, Ids
<1>9. DOMAIN o.risks = DOMAIN r
  BY <1>5
<1> HIDE DEF o, r
<1>10. Validated(o)
  BY <1>2, <1>5, <1>6, <1>7, <1>8, <1>9 DEF Validated
<1> QED
  BY <1>10 DEF o

(* A decision made, from an outcome that was validated. *)
Decision ==
  /\ cues \subseteq {Delimiter, TieBreaking, Precondition}
  /\ outcome = NoOutcome \/ Validated(outcome)
  /\ pc = "done" =>
       /\ action = IF outcome = NoOutcome THEN "needs_review"
                   ELSE DecideById(outcome, cues, used, MaxRevisions)
       /\ action = "revise" =>
            LET ids == DecisiveIds(outcome, cues)
            IN  named = FeedbackIds(outcome, cues, ids) /\ told \in FeedbackTexts(outcome, cues, ids)

LEMMA DecisionInvariant == Spec => [](ReviewInv /\ Decision)
<1>1. Init => Decision
  BY DEF Init, Decision
<1>2. ReviewInv /\ Decision /\ [Next]_vars => Decision'
  <2> SUFFICES ASSUME ReviewInv, Decision, [Next]_vars PROVE Decision'
    OBVIOUS
  <2> USE DEF Decision, vars, callVars, contextVars
  <2>1. CASE BuildContext
    BY <2>1 DEF BuildContext, CuesIn, Scan, CuesOf
  <2>2. CASE ModelAnswers \/ ModelFails \/ RejectAnswer
    BY <2>2 DEF ModelAnswers, ModelFails, RejectAnswer
  <2>3. CASE AcceptAnswer
    <3>1. Validated(Parsed(raw))
      BY <2>3, ParsedIsValidated DEF AcceptAnswer, ReviewInv, Explained
    <3> QED
      BY <2>3, <3>1 DEF AcceptAnswer
  <2>4. CASE Decided
    BY <2>4 DEF Decided
  <2>5. CASE UNCHANGED vars
    BY <2>5
  <2> QED
    BY <2>1, <2>2, <2>3, <2>4, <2>5 DEF Next, Terminated
<1> QED
  BY <1>1, <1>2, Invariance, PTL DEF Spec

(* The feedback is recorded with what the decision rests on, no more and   *)
(* no less.                                                                *)
LEMMA FeedbackIsDecisive ==
  ASSUME NEW o, NEW c, DecisiveIds(o, c) # {}
  PROVE  FeedbackIds(o, c, DecisiveIds(o, c)) = DecisiveIds(o, c)
<1> DEFINE D == DecisiveIds(o, c)
           ids == {o.risks[i].id : i \in DOMAIN o.risks}
           names == {x.id : x \in c}
<1>1. D \subseteq ids \cup names
  BY DEF DecisiveIds, Blockers, Promoted
<1>2. {o.risks[i].id : i \in SelectedRisks(o, D)} = ids \cap D
  BY DEF SelectedRisks
<1>3. {x.id : x \in SelectedCues(c, D)} = names \cap D
  BY DEF SelectedCues
<1> QED
  BY <1>1, <1>2, <1>3 DEF FeedbackIds

(* What is left of it after the cut was selected.                          *)
LEMMA TextIsSelected ==
  ASSUME NEW o, NEW c, NEW ids, NEW text \in FeedbackTexts(o, c, ids)
  PROVE  text.risks \subseteq SelectedRisks(o, ids) /\ text.cues \subseteq SelectedCues(c, ids)
<1>1. CASE text \in {[risks |-> {i \in SelectedRisks(o, ids) : i <= n}, cues |-> {}] : n \in 0..Len(o.risks)}
  <2> PICK n \in 0..Len(o.risks) : text = [risks |-> {i \in SelectedRisks(o, ids) : i <= n}, cues |-> {}]
    BY <1>1
  <2> QED
    OBVIOUS
<1>2. CASE text \in {[risks |-> SelectedRisks(o, ids), cues |-> k] : k \in SUBSET SelectedCues(c, ids)}
  <2> PICK k \in SUBSET SelectedCues(c, ids) : text = [risks |-> SelectedRisks(o, ids), cues |-> k]
    BY <1>2
  <2> QED
    OBVIOUS
<1> QED
  BY <1>1, <1>2 DEF FeedbackTexts

(* A risk with a decisive id is proved, unless cues decide and it is a     *)
(* warning.                                                                *)
LEMMA DecisiveIsProved ==
  ASSUME NEW o, NEW c, Validated(o), NEW i \in DOMAIN o.risks,
         o.risks[i].id \in DecisiveIds(o, c)
  PROVE  \/ o.risks[i].evidence # <<>> /\ o.risks[i].examples # <<>>
         \/ o.risks[i].severity = "warning" /\ DecisiveIds(o, c) = {x.id : x \in c}
<1>1. CASE o.risks[i].id \in Blockers(o) \cup Promoted(o, c)
  <2>1. PICK k \in DOMAIN o.risks :
          /\ o.risks[k].id = o.risks[i].id
          /\ \/ o.risks[k].severity = "blocking"
             \/ o.risks[k].evidence # <<>> /\ o.risks[k].examples # <<>>
    BY <1>1 DEF Blockers, Promoted
  <2>2. k = i
    BY <2>1 DEF Validated
  <2> QED
    BY <2>1, <2>2 DEF Validated, Sound
<1>2. CASE o.risks[i].id \notin Blockers(o) \cup Promoted(o, c)
  <2>1. Blockers(o) = {} /\ DecisiveIds(o, c) = {x.id : x \in c}
    BY <1>2 DEF DecisiveIds
  <2>2. o.risks[i].severity # "blocking"
    BY <2>1 DEF Blockers
  <2> QED
    BY <2>1, <2>2 DEF Validated, Sound, Severities
<1> QED
  BY <1>1, <1>2

(* A revision is recorded with exactly what it rests on, at least one risk *)
(* or cue, and whatever the limit leaves of the text tells of proved risks *)
(* and of cues only, but for a warning named like the cue that decides.    *)
THEOREM RevisionsAreGrounded == Spec => []RevisionIsGrounded
<1>1. ReviewInv /\ Decision => RevisionIsGrounded
  <2> SUFFICES ASSUME ReviewInv, Decision, action = "revise" PROVE RevisionIsGrounded
    BY DEF RevisionIsGrounded
  <2> DEFINE D == DecisiveIds(outcome, cues)
  <2>1. pc = "done" /\ outcome # NoOutcome /\ Validated(outcome)
    BY DEF ReviewInv, Open, FailsClosed, Decision
  <2>2. D # {}
    BY <2>1 DEF Decision, DecideById
  <2>3. named = D /\ told \in FeedbackTexts(outcome, cues, D)
    BY <2>1, <2>2, FeedbackIsDecisive DEF Decision
  <2> HIDE DEF D
  <2>4. told.risks \subseteq SelectedRisks(outcome, D) /\ told.cues \subseteq SelectedCues(cues, D)
    BY <2>3, TextIsSelected
  <2>5. ASSUME NEW i \in told.risks
        PROVE  /\ i \in DOMAIN outcome.risks /\ outcome.risks[i].id \in D
               /\ \/ Proved(outcome.risks[i])
                  \/ outcome.risks[i].severity = "warning" /\ named = {c.id : c \in cues}
    <3>1. i \in DOMAIN outcome.risks /\ outcome.risks[i].id \in D
      BY <2>2, <2>4 DEF SelectedRisks
    <3>2. \/ outcome.risks[i].evidence # <<>> /\ outcome.risks[i].examples # <<>>
          \/ outcome.risks[i].severity = "warning" /\ named = {c.id : c \in cues}
      BY <2>1, <2>3, <3>1, DecisiveIsProved DEF D
    <3>3. Sound(outcome.risks[i])
      BY <2>1, <3>1 DEF Validated
    <3>4. outcome.risks[i].evidence # <<>> => DOMAIN outcome.risks[i].evidence # {}
      BY <3>3, SequenceFacts DEF Sound
    <3> QED
      BY <3>1, <3>2, <3>3, <3>4 DEF Sound, Proved
  <2>6. {c.id : c \in told.cues} \subseteq D
    BY <2>4 DEF SelectedCues
  <2> QED
    BY <2>2, <2>3, <2>5, <2>6 DEF RevisionIsGrounded, D
<1> QED
  BY <1>1, DecisionInvariant, PTL

(* ReviewPolicy, which the model of the engine uses, is a sound            *)
(* abstraction: it makes the same decision from the kinds of the risks.    *)
THEOREM DecisionsAgree == Spec => []DecisionAgrees
<1>1. ReviewInv /\ Decision => DecisionAgrees
  <2> SUFFICES ASSUME Decision, pc = "done"
               PROVE  /\ AbstractReview \in Abstract!Review
                      /\ action = Abstract!Decide(AbstractReview, used, MaxRevisions)
    BY DEF DecisionAgrees
  <2> DEFINE kinds == {Kind(outcome.risks[i]) : i \in DOMAIN outcome.risks}
             review == [outcome |-> [verdict |-> outcome.verdict, risks |-> kinds],
                        cued |-> cues # {}]
  <2>1. AbstractReview = review
    BY DEF AbstractReview
  <2>2. kinds \subseteq Abstract!RiskKind /\ ("promoted" \in kinds => cues # {})
    BY DEF Kind, Abstract!RiskKind
  <2>3. CASE outcome = NoOutcome
    <3>1. outcome.verdict = "none" /\ kinds = {}
      BY <2>3 DEF NoOutcome
    <3>2. action = "needs_review"
      BY <2>3 DEF Decision
    <3> QED
      BY <2>1, <3>1, <3>2 DEF Abstract!Review, Abstract!Outcome, Abstract!RiskKind, Abstract!Decide
  <2>4. CASE outcome # NoOutcome
    <3>1. Validated(outcome) /\ action = DecideById(outcome, cues, used, MaxRevisions)
      BY <2>4 DEF Decision
    <3>2. outcome.verdict \in Verdicts
      BY <3>1 DEF Validated
    <3>3. outcome.risks # <<>> <=> kinds # {}
      BY <3>1, SequenceFacts DEF Validated
    <3>4. "blocking" \in kinds <=> Blockers(outcome) # {}
      BY DEF Kind, Blockers
    <3>5. ASSUME Blockers(outcome) = {}
          PROVE  "promoted" \in kinds <=> Promoted(outcome, cues) # {}
      <4>1. \A i \in DOMAIN outcome.risks : outcome.risks[i].severity = "warning"
        BY <3>1, <3>5 DEF Validated, Sound, Severities, Blockers
      <4> QED
        BY <4>1 DEF Kind, Promoted
    <3>6. Abstract!Actionable(review) <=> DecisiveIds(outcome, cues) # {}
      BY <3>4, <3>5 DEF Abstract!Actionable, DecisiveIds
    <3>7. review \in Abstract!Review
      BY <2>2, <3>2 DEF Abstract!Review, Abstract!Outcome, Verdicts
    <3>8. action = Abstract!Decide(review, used, MaxRevisions)
      <4> HIDE DEF kinds
      <4>1. /\ review.outcome.verdict = outcome.verdict /\ review.outcome.risks = kinds
            /\ outcome.verdict # "none"
        BY <3>2 DEF Verdicts
      <4> HIDE DEF review
      <4> QED
        BY <3>1, <3>3, <3>6, <4>1 DEF Abstract!Decide, DecideById
    <3> QED
      BY <2>1, <3>7, <3>8
  <2> QED
    BY <2>3, <2>4
<1> QED
  BY <1>1, DecisionInvariant, PTL

-----------------------------------------------------------------------------
(* The scanner                                                             *)

LEMMA GuardIsRecognized ==
  ASSUME NEW s \in Sources, NEW f \in s.functions, NEW b \in f.branches, NEW c \in b.comparisons
  PROVE  Recognized(c) <=> \A v \in NonPositive : Holds(c, v)
<1>1. /\ c.op \in {"<", "<=", ">", ">="} /\ c.swapped \in BOOLEAN /\ c.bound \in Int
      /\ \E v \in NonPositive : v < c.bound
      /\ NonPositive \subseteq {v \in Int : v <= 0} /\ 0 \in NonPositive
  <2>1. Values \subseteq Int /\ 0 \in Values
    BY SourcesAssumption
  <2>2. /\ c.op \in {"<", "<=", ">", ">="} /\ c.swapped \in BOOLEAN /\ c.bound \in Int
        /\ \E v \in NonPositive : v < c.bound
    BY SourcesAssumption, Zenon
  <2>3. NonPositive \subseteq {v \in Int : v <= 0} /\ 0 \in NonPositive
    <3>1. \A v \in NonPositive : v \in Values /\ v <= 0
      BY DEF NonPositive
    <3>2. 0 \in NonPositive
      <4>1. 0 <= 0
        OBVIOUS
      <4> QED
        BY <2>1, <4>1, Zenon DEF NonPositive
    <3> QED
      BY <2>1, <3>1, <3>2
  <2> QED
    BY <2>2, <2>3
<1> DEFINE All == \A v \in NonPositive : Holds(c, v)
           Good == \/ c.op = (IF c.swapped THEN ">=" ELSE "<=") /\ c.bound >= 0
                   \/ c.op = (IF c.swapped THEN ">" ELSE "<") /\ c.bound > 0
<1>2. Good <=> All
  <2>1. CASE c.op = "<"
    BY <1>1, <2>1 DEF Holds
  <2>2. CASE c.op = "<="
    BY <1>1, <2>2 DEF Holds
  <2>3. CASE c.op = ">"
    BY <1>1, <2>3 DEF Holds
  <2>4. CASE c.op = ">="
    BY <1>1, <2>4 DEF Holds
  <2> QED
    BY <1>1, <2>1, <2>2, <2>3, <2>4
<1> QED
  BY <1>2 DEF Recognized

(* The cue about declared positive inputs disappears exactly for           *)
(* comparisons that hold of every non-positive value below which something *)
(* raises, for every integer bound; and where comparisons are joined by    *)
(* "or" and raise directly, every non-positive argument is rejected.       *)
THEOREM GuardCuesAreExact == Spec => []GuardCueIsExact
<1>1. ASSUME NEW s \in Sources PROVE GuardCueExact(s)
  <2> SUFFICES ASSUME s.parses PROVE GuardCueExact(s)
    BY DEF GuardCueExact
  <2> DEFINE declaring == {f \in s.functions : f.public /\ f.declares}
             raising(f) == {b \in f.branches : b.raises # {}}
             guarded(f, p) == \E b \in raising(f) : \E c \in b.comparisons :
                                c.param = p /\ \A v \in NonPositive : Holds(c, v)
  <2>1. Precondition # Delimiter /\ Precondition # TieBreaking
    BY DEF Precondition, Delimiter, TieBreaking
  <2>2. Precondition \in CuesOf(s) <=> \E f \in s.functions : Unenforced(f)
    BY <2>1 DEF CuesOf
  <2>3. ASSUME NEW f \in declaring, NEW p
        PROVE  (\E b \in f.branches : Guards(b, p)) <=> guarded(f, p)
    BY GuardIsRecognized DEF Guards
  <2>4. Precondition \notin CuesOf(s) <=> \A f \in declaring : \A p \in f.params : guarded(f, p)
    <3> HIDE DEF guarded
    <3> QED
      BY <2>2, <2>3 DEF Unenforced
  <2>5. ASSUME Precondition \notin CuesOf(s),
               NEW f \in declaring, \A b \in raising(f) : b.join = "or" /\ "then" \in b.raises,
               NEW args \in [f.params -> Values], NEW p \in f.params, args[p] <= 0
        PROVE  \E b \in raising(f) : Rejects(b, args)
    <3>1. guarded(f, p)
      BY <2>4, <2>5
    <3>2. PICK b \in raising(f) : \E c \in b.comparisons : c.param = p /\ \A v \in NonPositive : Holds(c, v)
      BY <3>1
    <3>3. PICK c \in b.comparisons : c.param = p /\ \A v \in NonPositive : Holds(c, v)
      BY <3>2
    <3>4. args[p] \in NonPositive
      BY <2>5 DEF NonPositive
    <3>5. Holds(c, args[c.param])
      BY <3>3, <3>4
    <3>6. b.join = "or" /\ "then" \in b.raises
      BY <2>5
    <3>7. Satisfied(b, args) <=> \E x \in b.comparisons : Holds(x, args[x.param])
      BY <3>6 DEF Satisfied
    <3> QED
      BY <3>5, <3>6, <3>7 DEF Rejects
  <2>6. /\ Precondition \notin CuesOf(s) <=> \A f \in declaring : \A p \in f.params : guarded(f, p)
        /\ Precondition \notin CuesOf(s) =>
             \A f \in declaring :
               (\A b \in raising(f) : b.join = "or" /\ "then" \in b.raises) =>
                 \A args \in [f.params -> Values] :
                   (\E p \in f.params : args[p] <= 0) => \E b \in raising(f) : Rejects(b, args)
    BY <2>4, <2>5
  <2> QED
    BY <2>6 DEF GuardCueExact
<1>2. GuardCueIsExact
  BY <1>1 DEF GuardCueIsExact
<1> QED
  BY <1>2, PTL

(* One character of re.sub().                                              *)
SubstitutedNext(text, call, done, n) ==
  IF text[n] \in call.excluded THEN Append(done \o EmptyMatch(call), text[n])
  ELSE IF call.quantifier \in {"+", "*"} /\ n > 1 /\ text[n - 1] \notin call.excluded THEN done
  ELSE done \o call.repl

(* What it has written after each of the N characters of the text.         *)
Writes(h, N, text, call) ==
  /\ h \in [0..N -> Seq(Chars)]
  /\ h[0] = <<>>
  /\ \A n \in 1..N : h[n] = SubstitutedNext(text, call, h[n - 1], n)
  /\ Substituted(text, call) = h[N] \o EmptyMatch(call)

LEMMA SubstitutedUnfolds ==
  ASSUME NEW text \in Seq(Chars), NEW call, call.repl \in Seq(Chars)
  PROVE  \E h : Writes(h, Len(text), text, call)
<1> DEFINE N == Len(text)
           S == Seq(Chars)
           Next1(s, n) == SubstitutedNext(text, call, s, n)
           Body(h, n) == IF n = 0 THEN <<>> ELSE Next1(h[n - 1], n)
           step == [n \in 1..N |-> [s \in S |-> Next1(s, n)]]
           sub == CHOOSE h : h = [n \in 0..N |-> Body(h, n)]
<1>1. N \in Nat /\ \A n \in 1..N : text[n] \in Chars
  OBVIOUS
<1>2. Substituted(text, call) = sub[N] \o EmptyMatch(call)
  BY DEF Substituted, SubstitutedNext
<1>0. EmptyMatch(call) \in Seq(Chars)
  BY DEF EmptyMatch
<1>3. \A n \in 1..N : \A s \in S : Next1(s, n) \in S
  BY <1>0, <1>1 DEF SubstitutedNext
<1> HIDE DEF N, Next1
<1>4. <<>> \in S /\ step \in Steps(N, S)
  <2>1. <<>> \in S
    OBVIOUS
  <2> HIDE DEF S
  <2> QED
    BY <1>3, <2>1 DEF Steps
<1>5. IsDefined(N, S, <<>>, step)
  <2> HIDE DEF S, step
  <2> QED
    BY <1>1, <1>4, RecursiveFunction
<1> HIDE DEF S
<1>6. PICK g \in [0..N -> S] : g[0] = <<>> /\ \A n \in 1..N : g[n] = step[n][g[n - 1]]
  BY <1>5 DEF IsDefined
<1>7. \A n \in 0..N : g[n] = Body(g, n)
  <2> TAKE n \in 0..N
  <2>1. CASE n = 0
    BY <1>6, <2>1
  <2>2. CASE n # 0
    <3>1. n \in 1..N /\ n - 1 \in 0..N
      BY <1>1, <2>2
    <3>2. g[n - 1] \in S
      BY <1>6, <3>1
    <3> QED
      BY <1>6, <2>2, <3>1, <3>2
  <2> QED
    BY <2>1, <2>2
<1> HIDE DEF Body
<1>8. g = [n \in 0..N |-> Body(g, n)]
  BY <1>6, <1>7
<1>9. sub = [n \in 0..N |-> Body(sub, n)]
  BY <1>8
<1> HIDE DEF sub
<1>10. 0 \in 0..N /\ \A n \in 1..N : n \in 0..N /\ n # 0
  BY <1>1
<1>11. sub[0] = <<>> /\ \A n \in 1..N : sub[n] = Next1(sub[n - 1], n)
  BY <1>9, <1>10 DEF Body
<1> DEFINE P == {n \in 0..N : sub[n] \in S}
<1>12. 0 \in P
  BY <1>4, <1>10, <1>11
<1>13. ASSUME NEW n \in 1..N, n - 1 \in P PROVE n \in P
  BY <1>3, <1>10, <1>11, <1>13
<1>14. \A n \in 0..N : n \in P
  <2> HIDE DEF P
  <2> QED
    BY <1>1, <1>12, <1>13, BoundedInduction
<1>15. sub \in [0..N -> S]
  BY <1>9, <1>14
<1>16. Writes(sub, N, text, call)
  BY <1>2, <1>11, <1>15 DEF Writes, Next1, S
<1> QED
  BY <1>16 DEF N

(* A delimiter that the class keeps may stand before an inserted one.      *)
LEMMA InsertedMayRepeat ==
  ASSUME NEW d \in Chars, NEW call, call.repl = <<d>>, d \in call.excluded,
         Chars \ call.excluded # {}, MaxText \in Nat, MaxText >= 2
  PROVE  \E text \in Texts : Doubled(Substituted(text, call), d)
<1>1. PICK x \in Chars : x \notin call.excluded
  OBVIOUS
<1> DEFINE text == <<d, x>>
<1>2. text \in Texts
  <2>1. text \in [1..2 -> Chars] /\ 2 \in 0..MaxText
    OBVIOUS
  <2> HIDE DEF text
  <2> QED
    BY <2>1 DEF Texts
<1>3. text \in Seq(Chars) /\ Len(text) = 2 /\ text[1] = d /\ text[2] = x /\ <<d>> \in Seq(Chars)
  OBVIOUS
<1> HIDE DEF text
<1>4. PICK h : Writes(h, 2, text, call)
  <2>1. \E h : Writes(h, Len(text), text, call)
    BY <1>3, SubstitutedUnfolds
  <2> QED
    BY <1>3, <2>1
<1> DEFINE e == EmptyMatch(call)
<1>5. /\ h[1] = SubstitutedNext(text, call, <<>>, 1)
      /\ h[2] = SubstitutedNext(text, call, h[1], 2)
      /\ Substituted(text, call) = h[2] \o e
  BY <1>4 DEF Writes
<1>6. e \in {<<>>, <<d>>}
  BY DEF EmptyMatch
<1>7. h[1] = Append(<<>> \o e, d)
  BY <1>3, <1>5 DEF SubstitutedNext
<1>8. h[2] = h[1] \o <<d>>
  BY <1>1, <1>3, <1>5 DEF SubstitutedNext
<1> HIDE DEF e
<1>9. CASE e = <<>>
  <2> DEFINE t == (Append(<<>> \o <<>>, d) \o <<d>>) \o <<>>
  <2>1. Substituted(text, call) = t
    BY <1>5, <1>7, <1>8, <1>9, Zenon
  <2>2. Len(t) = 2 /\ t[1] = d /\ t[2] = d
    OBVIOUS
  <2> HIDE DEF t
  <2>3. Doubled(t, d)
    BY <2>2 DEF Doubled
  <2> QED
    BY <1>2, <2>1, <2>3
<1>10. CASE e = <<d>>
  <2> DEFINE t == (Append(<<>> \o <<d>>, d) \o <<d>>) \o <<d>>
  <2>1. Substituted(text, call) = t
    BY <1>5, <1>7, <1>8, <1>10, Zenon
  <2>2. Len(t) = 4 /\ t[1] = d /\ t[2] = d
    OBVIOUS
  <2> HIDE DEF t
  <2>3. Doubled(t, d)
    BY <2>2 DEF Doubled
  <2> QED
    BY <1>2, <2>1, <2>3
<1> QED
  BY <1>6, <1>9, <1>10

(* One that the class replaces comes out alone.                            *)
Single(s, d) == ~Doubled(s, d)
EndsIn(s, d) == Len(s) # 0 /\ s[Len(s)] = d

LEMMA AddedStaysSingle ==
  ASSUME NEW s \in Seq(Chars), NEW d, NEW e \in Chars, Single(s, d), ~(EndsIn(s, d) /\ e = d)
  PROVE  Single(Append(s, e), d) /\ (EndsIn(Append(s, e), d) => e = d)
<1> DEFINE t == Append(s, e)
<1>1. /\ Len(s) \in Nat /\ Len(t) = Len(s) + 1 /\ t[Len(s) + 1] = e
      /\ \A i \in 1..Len(s) : t[i] = s[i]
  OBVIOUS
<1> HIDE DEF t
<1>2. ASSUME NEW i \in 1..(Len(t) - 1), t[i] = d, t[i + 1] = d PROVE FALSE
  <2>1. CASE i = Len(s)
    <3>1. Len(s) # 0 /\ s[Len(s)] = d /\ e = d
      BY <1>1, <1>2, <2>1
    <3> QED
      BY <3>1 DEF EndsIn
  <2>2. CASE i # Len(s)
    <3>1. i \in 1..(Len(s) - 1) /\ i \in 1..Len(s) /\ i + 1 \in 1..Len(s)
      BY <1>1, <2>2
    <3>2. s[i] = d /\ s[i + 1] = d
      BY <1>1, <1>2, <3>1
    <3> QED
      BY <3>1, <3>2 DEF Single, Doubled
  <2> QED
    BY <2>1, <2>2
<1> QED
  BY <1>1, <1>2 DEF t, Single, Doubled, EndsIn

LEMMA ReplacedStaysSingle ==
  ASSUME NEW d \in Chars, NEW call, call.repl = <<d>>, call.quantifier = "+",
         d \notin call.excluded, NEW text \in Seq(Chars)
  PROVE  ~Doubled(Substituted(text, call), d)
<1> DEFINE N == Len(text)
<1>1. N \in Nat /\ (\A n \in 1..N : text[n] \in Chars) /\ <<d>> \in Seq(Chars)
  OBVIOUS
<1>0. PICK h : Writes(h, N, text, call)
  BY <1>1, SubstitutedUnfolds
<1> HIDE DEF N
<1>2. /\ h \in [0..N -> Seq(Chars)]
      /\ h[0] = <<>>
      /\ \A n \in 1..N : h[n] = SubstitutedNext(text, call, h[n - 1], n)
      /\ Substituted(text, call) = h[N] \o <<>>
  BY <1>0 DEF Writes, EmptyMatch
<1> DEFINE Good(n) == Single(h[n], d) /\ (EndsIn(h[n], d) => n # 0 /\ text[n] \notin call.excluded)
           P == {n \in 0..N : Good(n)}
<1>3. 0 \in P
  <2>1. Len(h[0]) = 0
    BY <1>2
  <2>2. Single(h[0], d) /\ ~EndsIn(h[0], d)
    BY <2>1 DEF Single, Doubled, EndsIn
  <2> QED
    BY <1>1, <2>2
<1>4. ASSUME NEW n \in 1..N, n - 1 \in P PROVE n \in P
  <2>1. n \in 0..N /\ n - 1 \in 0..N /\ n # 0 /\ (n > 1 <=> n - 1 # 0)
    BY <1>1
  <2>2. h[n] = SubstitutedNext(text, call, h[n - 1], n)
    BY <1>2, Zenon
  <2>3. h[n - 1] \in Seq(Chars) /\ text[n] \in Chars
    BY <1>1, <1>2, <2>1
  <2>4. Good(n - 1)
    BY <1>4
  <2>5. CASE text[n] \in call.excluded
    <3>0. h[n] = Append(h[n - 1] \o <<>>, text[n]) /\ text[n] # d
      BY <2>2, <2>5 DEF SubstitutedNext, EmptyMatch
    <3>1. h[n] = Append(h[n - 1], text[n]) /\ text[n] # d
      BY <2>3, <3>0
    <3>2. Single(h[n], d) /\ ~EndsIn(h[n], d)
      BY <2>3, <2>4, <3>1, AddedStaysSingle
    <3> QED
      BY <2>1, <3>2
  <2>6. CASE text[n] \notin call.excluded /\ n > 1 /\ text[n - 1] \notin call.excluded
    <3>1. h[n] = h[n - 1]
      BY <2>2, <2>6 DEF SubstitutedNext
    <3> QED
      BY <2>1, <2>4, <2>6, <3>1
  <2>7. CASE text[n] \notin call.excluded /\ ~(n > 1 /\ text[n - 1] \notin call.excluded)
    <3>1. h[n] = h[n - 1] \o <<d>>
      BY <2>2, <2>7 DEF SubstitutedNext
    <3>2. h[n] = Append(h[n - 1], d)
      BY <2>3, <3>1
    <3>3. ~EndsIn(h[n - 1], d)
      BY <2>1, <2>4, <2>7
    <3>4. Single(h[n], d)
      BY <2>3, <2>4, <3>2, <3>3, AddedStaysSingle
    <3> QED
      BY <2>1, <2>7, <3>4
  <2> QED
    BY <2>5, <2>6, <2>7
<1>5. \A n \in 0..N : n \in P
  <2> HIDE DEF P
  <2> QED
    BY <1>1, <1>3, <1>4, BoundedInduction
<1>6. N \in 0..N
  BY <1>1
<1>7. h[N] \in Seq(Chars) /\ Single(h[N], d)
  BY <1>2, <1>5, <1>6
<1>8. Substituted(text, call) = h[N]
  BY <1>2, <1>7
<1> QED
  BY <1>7, <1>8 DEF Single

(* The cue about inserted delimiters is raised exactly for substitutions   *)
(* that can leave a run, for every quantifier and texts of any length; it  *)
(* misses only those without "+" whose class replaces the delimiter.       *)
THEOREM RepeatCuesAreExact == Spec => []RepeatCueIsExact
<1>1. ASSUME NEW s \in Sources, NEW c \in s.calls
      PROVE  Inserts(c) <=> MayRepeat(c) /\ (c.quantifier = "+" \/ c.repl[1] \in c.excluded)
  <2> SUFFICES ASSUME Substitutes(c)
               PROVE  c.repl[1] \in c.excluded <=>
                        /\ \E text \in Texts : Doubled(Substituted(text, c), c.repl[1])
                        /\ c.quantifier = "+" \/ c.repl[1] \in c.excluded
    BY DEF Inserts, MayRepeat
  <2> DEFINE d == c.repl[1]
  <2>1. /\ c.repl \in Seq(Chars) /\ Chars \ c.excluded # {}
        /\ MaxText \in Nat /\ MaxText >= 2
    BY SourcesAssumption DEF Substitutes
  <2>2. d \in Chars /\ c.repl = <<d>>
    BY <2>1 DEF Substitutes
  <2> HIDE DEF d
  <2>3. d \in c.excluded => \E text \in Texts : Doubled(Substituted(text, c), d)
    BY <2>1, <2>2, InsertedMayRepeat
  <2>4. \A text \in Texts : text \in Seq(Chars)
    BY <2>1, SeqDef DEF Texts
  <2>5. d \notin c.excluded /\ c.quantifier = "+" =>
          \A text \in Texts : ~Doubled(Substituted(text, c), d)
    BY <2>2, <2>4, ReplacedStaysSingle
  <2> QED
    BY <2>3, <2>5 DEF d
<1>2. ASSUME NEW s \in Sources PROVE RepeatCueExact(s)
  <2> SUFFICES ASSUME s.parses, s.ops = {}, \A c \in s.calls : ~Collapses(c)
               PROVE  Delimiter \in CuesOf(s) <=>
                        \E c \in s.calls : MayRepeat(c) /\ (c.quantifier = "+" \/ c.repl[1] \in c.excluded)
    BY DEF RepeatCueExact
  <2>1. Delimiter # Precondition /\ Delimiter # TieBreaking
    BY DEF Precondition, Delimiter, TieBreaking
  <2>2. Delimiter \in CuesOf(s) <=> RepeatRisk(s)
    BY <2>1 DEF CuesOf
  <2>3. RepeatRisk(s) <=> \E c \in s.calls : Inserts(c)
    BY DEF RepeatRisk
  <2> QED
    BY <1>1, <2>2, <2>3
<1>3. RepeatCueIsExact
  BY <1>2 DEF RepeatCueIsExact
<1> QED
  BY <1>3, PTL
=============================================================================
