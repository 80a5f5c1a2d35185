-------------------------- MODULE SemanticReviewer --------------------------
(***************************************************************************)
(* One semantic review: review/context.py collects the context and the     *)
(* structural cues, review/reviewer.py calls the reviewer model (with      *)
(* retries of calls inside retries of unparsable answers), and the engine  *)
(* decides and words the feedback.                                         *)
(***************************************************************************)
EXTENDS ReviewParser, RiskScanner

CONSTANTS Answers,        \* what the reviewer model may say
          Sources,        \* sources a candidate may have changed
          Items,          \* lists of context items a review may start from
          MaxChars,       \* of the review context
          MaxParseRetries, MaxModelRetries, MaxRevisions

NoAnswer == [form |-> "none"]

ASSUME ReviewerAssumption ==
  /\ MaxParseRetries \in Nat /\ MaxModelRetries \in Nat
  /\ MaxRevisions \in Nat /\ MaxChars \in Nat
  /\ NoAnswer \notin Answers

(* Answers come from JSON, branches from comparisons with a literal, and   *)
(* substitutions from string literals; below each number there is an       *)
(* integer to tell it from a guard, and no class excludes all characters.  *)
IsSequence(s) == s \in Seq({s[i] : i \in DOMAIN s})

ASSUME AnswersAssumption ==
  \A a \in Answers : a.form = "object" =>
    /\ IsSequence(a.risks)
    /\ \A i \in DOMAIN a.risks : IsSequence(a.risks[i].evidence) /\ IsSequence(a.risks[i].examples)

ASSUME SourcesAssumption ==
  /\ Values \subseteq Int /\ 0 \in Values
  /\ \A s \in Sources : \A f \in s.functions : \A b \in f.branches : \A c \in b.comparisons :
       /\ c.op \in {"<", "<=", ">", ">="} /\ c.swapped \in BOOLEAN
       /\ c.bound \in Int /\ \E v \in NonPositive : v < c.bound
  /\ MaxText \in Nat /\ MaxText >= 2
  /\ \A s \in Sources : \A c \in s.calls : c.class = "negated" =>
       /\ c.repl \in Seq(Chars) /\ Chars \ c.excluded # {}
       /\ c.quantifier \in {"+", "*", "?", "none"}

NoOutcome == [verdict |-> "none", risks |-> <<>>]
NoText == [risks |-> {}, cues |-> {}]

VARIABLES
  pc,          \* "context", "call", "parse", "decide" or "done"
  used,        \* state.semantic_revisions_used
  cues,        \* structural cues found
  attempt,     \* parse attempts made before this one
  tries,       \* calls of this attempt that failed
  shown,       \* the error the prompt explains
  raw,         \* execution.raw_output
  outcome, parseError, modelError,   \* of the ReviewExecution
  calls,       \* execution.model_calls: whether each one succeeded
  action,      \* of the decision
  named,       \* active_review_ids: the ids the feedback is recorded with
  told         \* the entries of the feedback that are not cut

callVars == <<attempt, tries, shown, raw, outcome, parseError, modelError, calls>>
contextVars == <<used, cues>>
vars == <<pc, contextVars, callVars, action, named, told>>

Init ==
  /\ pc = "context" /\ used \in 0..MaxRevisions
  /\ cues = {}
  /\ attempt = 0 /\ tries = 0 /\ shown = "none" /\ raw = NoAnswer
  /\ outcome = NoOutcome /\ parseError = "none" /\ modelError = FALSE
  /\ calls = <<>>
  /\ action = "none" /\ named = {} /\ told = NoText

-----------------------------------------------------------------------------
(* ReviewContextProvider.build: items are rendered in order until the      *)
(* header of the next does not fit; only rendered changed files reach the  *)
(* scanner, with their whole content.                                      *)

Header == 1

(* Characters used by the first n items; the last may be cut. *)
Used(items) ==
  LET used_[n \in 0..Len(items)] ==
        IF n = 0 THEN 0
        ELSE LET before == used_[n - 1]
                 left == MaxChars - before - Header
             IN  IF before + Header >= MaxChars THEN MaxChars
                 ELSE before + Header + (IF items[n].size < left THEN items[n].size ELSE left)
  IN  used_

Rendered(items) == {n \in 1..Len(items) : Used(items)[n - 1] + Header < MaxChars}

CuesIn(items) ==
  Scan({items[n].source : n \in {k \in Rendered(items) : items[k].changed}})

BuildContext ==
  /\ pc = "context"
  /\ \E items \in Items : cues' = CuesIn(items)
  /\ pc' = "call"
  /\ UNCHANGED <<used, callVars, action, named, told>>

-----------------------------------------------------------------------------
(* _generate_with_retry(). Every call is recorded, also one that raised.   *)

ModelAnswers ==
  /\ pc = "call"
  /\ raw' \in Answers /\ calls' = Append(calls, TRUE)
  /\ pc' = "parse"
  /\ UNCHANGED <<contextVars, attempt, tries, shown, outcome, parseError, modelError, action, named, told>>

(* Mutant: the retry counter of calls survives an unparsable answer. *)
ModelFailsForGood ==
  /\ pc = "call"
  /\ calls' = Append(calls, FALSE)
  /\ IF tries + attempt < MaxModelRetries
     THEN tries' = tries + 1 /\ UNCHANGED <<pc, modelError>>
     ELSE modelError' = TRUE /\ pc' = "decide" /\ UNCHANGED tries
  /\ UNCHANGED <<contextVars, attempt, shown, raw, outcome, parseError, action, named, told>>

(* A call raises, or answers with no text. *)
ModelFails ==
  /\ pc = "call"
  /\ calls' = Append(calls, FALSE)
  /\ IF tries < MaxModelRetries
     THEN tries' = tries + 1 /\ UNCHANGED <<pc, modelError>>
     ELSE modelError' = TRUE /\ pc' = "decide" /\ UNCHANGED tries
  /\ UNCHANGED <<contextVars, attempt, shown, raw, outcome, parseError, action, named, told>>

(* Mutant: the last parse error is kept although a later answer parses. *)
AcceptKeepsError ==
  /\ pc = "parse" /\ AnswerError(raw) = "none"
  /\ outcome' = Parsed(raw) /\ UNCHANGED parseError
  /\ pc' = "decide"
  /\ UNCHANGED <<contextVars, attempt, tries, shown, raw, modelError, calls, action, named, told>>

AcceptAnswer ==
  /\ pc = "parse" /\ AnswerError(raw) = "none"
  /\ outcome' = Parsed(raw) /\ parseError' = "none"
  /\ pc' = "decide"
  /\ UNCHANGED <<contextVars, attempt, tries, shown, raw, modelError, calls, action, named, told>>

(* Mutant: the retry prompt explains the first error for ever. *)
RejectExplainsFirst ==
  /\ pc = "parse" /\ AnswerError(raw) # "none"
  /\ parseError' = AnswerError(raw)
  /\ IF attempt < MaxParseRetries
     THEN /\ shown' = (IF shown = "none" THEN parseError' ELSE shown)
          /\ attempt' = attempt + 1 /\ tries' = 0 /\ pc' = "call"
     ELSE pc' = "decide" /\ UNCHANGED <<shown, attempt, tries>>
  /\ UNCHANGED <<contextVars, raw, outcome, modelError, calls, action, named, told>>

(* Mutant: one parse retry too many. *)
RejectOffByOne ==
  /\ pc = "parse" /\ AnswerError(raw) # "none"
  /\ parseError' = AnswerError(raw)
  /\ IF attempt <= MaxParseRetries
     THEN shown' = parseError' /\ attempt' = attempt + 1 /\ tries' = 0 /\ pc' = "call"
     ELSE pc' = "decide" /\ UNCHANGED <<shown, attempt, tries>>
  /\ UNCHANGED <<contextVars, raw, outcome, modelError, calls, action, named, told>>

RejectAnswer ==
  /\ pc = "parse" /\ AnswerError(raw) # "none"
  /\ parseError' = AnswerError(raw)
  /\ IF attempt < MaxParseRetries
     THEN shown' = parseError' /\ attempt' = attempt + 1 /\ tries' = 0 /\ pc' = "call"
     ELSE pc' = "decide" /\ UNCHANGED <<shown, attempt, tries>>
  /\ UNCHANGED <<contextVars, raw, outcome, modelError, calls, action, named, told>>

-----------------------------------------------------------------------------
(* RepairEngine._run_semantic_review after the call, and the feedback of   *)
(* _apply_review_decision; the engine's iteration limit is in RepairEngine.*)
Decided ==
  /\ pc = "decide"
  /\ action' = IF outcome = NoOutcome THEN "needs_review"
               ELSE DecideById(outcome, cues, used, MaxRevisions)
  /\ LET ids == DecisiveIds(outcome, cues)
     IN  IF action' = "revise"
         THEN named' = FeedbackIds(outcome, cues, ids) /\ told' \in FeedbackTexts(outcome, cues, ids)
         ELSE named' = {} /\ told' = NoText
  /\ pc' = "done"
  /\ UNCHANGED <<contextVars, callVars>>

Terminated == pc = "done" /\ UNCHANGED vars

Next ==
  \/ BuildContext \/ ModelAnswers \/ ModelFails \/ AcceptAnswer \/ RejectAnswer
  \/ Decided \/ Terminated

(* One thread; a call of the model answers, fails or times out. *)
Spec == Init /\ [][Next]_vars /\ WF_vars(Next)

-----------------------------------------------------------------------------
(* Properties                                                              *)

TypeOK ==
  /\ pc \in {"context", "call", "parse", "decide", "done"}
  /\ used \in 0..MaxRevisions
  /\ attempt \in 0..MaxParseRetries /\ tries \in 0..MaxModelRetries
  /\ modelError \in BOOLEAN
  /\ raw \in Answers \cup {NoAnswer}
  /\ calls \in Seq(BOOLEAN)

(* A review spends at most so many calls, whatever the order in which      *)
(* calls fail and answers do not parse.                                    *)
CallBudget == Len(calls) <= (MaxParseRetries + 1) * (MaxModelRetries + 1)

(* review/reviewer.py:40: "A single API hiccup must not discard an         *)
(* otherwise correct candidate": a model error is reported only after a    *)
(* whole budget of calls has failed in a row, also when answers that did   *)
(* not parse came before.                                                  *)
OnlyExhaustionIsAnError ==
  modelError => /\ Len(calls) > MaxModelRetries
                /\ \A i \in (Len(calls) - MaxModelRetries)..Len(calls) : ~calls[i]

(* The review fails closed: an outcome comes with no error, from the last  *)
(* answer, and no action other than needs_review without one.              *)
FailsClosed ==
  /\ outcome # NoOutcome => parseError = "none" /\ ~modelError /\ outcome = Parsed(raw)
  /\ action \notin {"none", "needs_review"} => outcome # NoOutcome

(* A retry prompt explains what was wrong with the answer it follows, also *)
(* after failed calls in between.                                          *)
RetryExplainsLastAnswer ==
  pc = "call" => shown = IF raw = NoAnswer THEN "none" ELSE AnswerError(raw)

(* A risk with a counterexample and with evidence that exists. *)
Proved(risk) ==
  /\ risk.examples # <<>>
  /\ \E j \in DOMAIN risk.evidence : Exists(risk.evidence[j])

(* A revision is recorded with exactly the ids that the decision rests on, *)
(* at least one, and the repair model is told of nothing else, whatever    *)
(* part of the text the limit cuts: of proved risks (docs/design.md:94:    *)
(* "renders only validated risks and counterexample properties") and of    *)
(* cues that were found. An unproved one is told only if it is a warning   *)
(* that the reviewer named like a cue, and then no risk decided.           *)
RevisionIsGrounded ==
  action = "revise" =>
    /\ named # {} /\ named = DecisiveIds(outcome, cues)
    /\ {outcome.risks[i].id : i \in told.risks} \cup {c.id : c \in told.cues} \subseteq named
    /\ \A i \in told.risks :
         Proved(outcome.risks[i]) \/ (outcome.risks[i].severity = "warning" /\ named = {c.id : c \in cues})

(* ReviewPolicy, which knows an outcome by the kinds of its risks only and *)
(* is what RepairEngine uses, makes the same decision.                     *)
Abstract == INSTANCE ReviewPolicy

Kind(risk) ==
  IF risk.severity = "blocking" THEN "blocking"
  ELSE IF /\ risk.evidence # <<>> /\ risk.examples # <<>>
          /\ \E c \in cues : c.category = risk.category
  THEN "promoted" ELSE "warning"

AbstractReview ==
  [outcome |-> [verdict |-> outcome.verdict,
                risks |-> {Kind(outcome.risks[i]) : i \in DOMAIN outcome.risks}],
   cued |-> cues # {}]

DecisionAgrees ==
  pc = "done" => /\ AbstractReview \in Abstract!Review
                 /\ action = Abstract!Decide(AbstractReview, used, MaxRevisions)

(* Whatever source is scanned next, the cue about declared positive inputs *)
(* disappears exactly for comparisons that hold of what is to be rejected. *)
GuardCueIsExact == pc = "context" => \A s \in Sources : GuardCueExact(s)

(* The cue about inserted delimiters is raised exactly for those that can  *)
(* repeat, as far as the scanner knows them.                               *)
RepeatCueIsExact == pc = "context" => \A s \in Sources : RepeatCueExact(s)
=============================================================================
