------------------------------ MODULE Scoring ------------------------------
(***************************************************************************)
(* From a model's raw plan to a number on a recruiter's screen:            *)
(* question_plan/generator.py shapes the model's reply into a rubric and   *)
(* questions, scoring/rubric_scorer.py grades the transcript criterion by  *)
(* criterion, scoring/aggregator.py turns the grades into one number, and  *)
(* scoring/service.py stores them.  Beside it, reports/candidate.py turns  *)
(* the same transcript into the feedback the candidate reads.              *)
(*                                                                         *)
(* Decimals are integers: a weight in a reply in REPLY_SCALE-ths, however  *)
(* fine the model answers (Decimal's 28 digits are left out), a stored     *)
(* weight in ten-thousandths (Numeric(5,4)), a score and the coverage in   *)
(* hundredths.  A quote, and what a turn says, are members of small sets:  *)
(* the normalised substring test is membership.  A text checked against    *)
(* the resume is the number of its words and how many the resume has; one  *)
(* checked against what was said is its set of content words.              *)
(***************************************************************************)
EXTENDS Integers, Sequences, FiniteSets, FiniteSetsExt, Functions

CONSTANTS
  Labels,       \* the names of criteria, and what a question may be tagged with
  Replies,      \* the plans the language model may answer with
  Transcripts,  \* the transcripts an interview may leave
  Quotes,       \* what may be quoted: [text, chars, words]
  Praises,      \* the lists of strengths the model may give: [text, words]
  Scores,       \* the scores the model may propose, in hundredths
  REPLY_SCALE,  \* how finely the model may write a weight: one is so many
  MIN_CRITERIA, MAX_CRITERIA, MIN_GROUNDED_QUESTIONS,
  MaxScorings,  \* bound: deliveries of score_interview
  NONE, RAISED  \* no value (Python's None); the exception of a failed call

Criterion == [name : Labels, weight : Int]
Found == [words : Nat, found : Nat]
Question == [competency : Labels \cup {NONE}, evidence : Found, body : Found]
Plan == [criteria : Seq(Criterion), questions : Seq(Question)]
Said == [speaker : {"CANDIDATE", "INTERVIEWER"}, says : SUBSET Quotes]

(* The code keeps six criteria; what rounding leaves over could outweigh a *)
(* criterion only if there were more than a hundred.                       *)
ASSUME ScoringAssumption ==
  /\ MIN_CRITERIA \in Nat \ {0} /\ MAX_CRITERIA \in MIN_CRITERIA..100
  /\ REPLY_SCALE \in Nat \ {0}
  /\ MIN_GROUNDED_QUESTIONS \in Nat \ {0} /\ MaxScorings \in Nat
  /\ NONE \notin Int /\ NONE \notin Plan
  /\ Scores \subseteq Int /\ Replies \subseteq Plan /\ Transcripts \subseteq Seq(Said)
  /\ \A p \in Praises : p \in Seq({p[k] : k \in DOMAIN p})

MIN_BAND == 100
MAX_BAND == 500
MIN_COVERAGE == 50
WEIGHT_SCALE == 10000
MIN_QUOTE_CHARS == 12
MIN_STRENGTH_CONTENT_WORDS == 3
Bands == {"STRONG_HIRE", "HIRE", "BORDERLINE", "NO_HIRE", "INSUFFICIENT_EVIDENCE"}

(* Decimal.quantize of n / d, by the default rounding and by ROUND_HALF_UP. *)
HalfEven(n, d) ==
  LET q == n \div d  r == 2 * (n % d) IN
  IF r > d \/ (r = d /\ q % 2 = 1) THEN q + 1 ELSE q
HalfUp(n, d) == (2 * n + d) \div (2 * d)

WeightsOf(rows) == [i \in DOMAIN rows |-> rows[i].weight]
Total(criteria) == SumFunction(WeightsOf(criteria))
Names(criteria) == {criteria[i].name : i \in DOMAIN criteria}
Below(S, i) == {j \in S : j < i}
Nth(S, k) == CHOOSE i \in S : Cardinality(Below(S, i)) = k - 1

(* The elements of s at the places S, in their order.                      *)
Pick(s, S) == [k \in 1..Cardinality(S) |-> s[Nth(S, k)]]

----------------------------------------------------------------------------
(* The rubric and the questions: generator.py *)

(* nim_client.complete_structured: one of the replies the schema accepts, at *)
(* once or after the one repair turn, or an exception.                      *)
complete_structured(accepted) == accepted \cup {RAISED}

(* Mutant: the first criteria count as the heaviest.                        *)
HeavierByPlace(criteria, i, j) == i < j

Heavier(criteria, i, j) ==
  \/ criteria[i].weight > criteria[j].weight
  \/ criteria[i].weight = criteria[j].weight /\ i < j

(* _trim_overlong_rubric: the heaviest MAX_CRITERIA, in the reply's order;  *)
(* `c in kept` also lets an equal twin of a kept criterion through.         *)
Trimmed(criteria) ==
  LET ranked == {i \in DOMAIN criteria :
                   Cardinality({j \in DOMAIN criteria : Heavier(criteria, j, i)}) < MAX_CRITERIA}
      kept == {i \in DOMAIN criteria : \E k \in ranked : criteria[k] = criteria[i]}
  IN IF Len(criteria) <= MAX_CRITERIA THEN criteria ELSE Pick(criteria, kept)

(* GeneratedPlan: the replies the schema accepts.                           *)
PlanAccepted(reply) ==
  LET criteria == Trimmed(reply.criteria) IN
  /\ Len(criteria) \in MIN_CRITERIA..MAX_CRITERIA
  /\ reply.questions # <<>>
  /\ \A i \in DOMAIN criteria : criteria[i].weight \in 1..REPLY_SCALE
  /\ Cardinality(Names(criteria)) = Len(criteria)
  /\ 2 * Total(criteria) \in REPLY_SCALE..(3 * REPLY_SCALE)

PlanReplies == complete_structured({reply \in Replies : PlanAccepted(reply)})

(* Each weight over the total, at the column's scale.                       *)
RescaledOnly(criteria) ==
  [i \in DOMAIN criteria |->
     [criteria[i] EXCEPT !.weight = HalfEven(@ * WEIGHT_SCALE, Total(criteria))]]

(* _normalise_weights: what rounding left over goes onto the heaviest.      *)
Normalised(criteria) ==
  LET scaled == RescaledOnly(criteria)
      heaviest == CHOOSE i \in DOMAIN scaled : \A j \in DOMAIN scaled \ {i} : Heavier(scaled, i, j)
  IN [scaled EXCEPT ![heaviest].weight = @ + WEIGHT_SCALE - Total(scaled)]

(* _drop_unmatched_competencies: a tag that names no criterion is cleared.  *)
Matched(questions, names) ==
  [i \in DOMAIN questions |->
     [questions[i] EXCEPT !.competency = IF @ \in names THEN @ ELSE NONE]]

Shaped(reply) ==
  LET criteria == Normalised(Trimmed(reply.criteria)) IN
  [criteria |-> criteria, questions |-> Matched(reply.questions, Names(criteria))]

(* _ungrounded: the citation or the body is not about the resume.           *)
Grounded(question) ==
  /\ question.evidence.words > 0
  /\ 10 * question.evidence.found >= 6 * question.evidence.words
  /\ question.body.words > 0
  /\ 4 * question.body.found >= question.body.words

Ungrounded(plan) == {i \in DOMAIN plan.questions : ~ Grounded(plan.questions[i])}

(* generate: what the repair could not ground is dropped, if enough is left. *)
Repaired(plan) ==
  LET still == Ungrounded(plan)  sound == DOMAIN plan.questions \ still IN
  IF Cardinality(sound) >= MIN_GROUNDED_QUESTIONS
  THEN [plan EXCEPT !.questions = Pick(@, sound)]
  ELSE plan

----------------------------------------------------------------------------
(* Grading: rubric_scorer.py *)

(* Mutant: the interviewer's words count as well.                           *)
CitableAnywhere(said, quote) == {i \in DOMAIN said : quote \in said[i].says}

Citable(said, quote) ==
  {i \in DOMAIN said : said[i].speaker = "CANDIDATE" /\ quote \in said[i].says}

(* verify_evidence: the ordinal is the first turn the quote was found in.   *)
verify_evidence(citations, said) ==
  LET found == Pick(citations, {k \in DOMAIN citations :
                      citations[k].chars >= MIN_QUOTE_CHARS /\ Citable(said, citations[k]) # {}})
  IN [k \in DOMAIN found |-> [quote |-> found[k], turn_ordinal |-> Min(Citable(said, found[k]))]]

Verdicts == [score : Scores \cup {NONE}, evidence : {<<>>} \cup {<<q>> : q \in Quotes}]
InBand(verdict) == verdict.score = NONE \/ verdict.score \in MIN_BAND..MAX_BAND
Ungraded(rationale) == [score |-> NONE, rationale |-> rationale, evidence |-> <<>>]

(* score_criterion, of what the model answered.                             *)
GradedAs(verdict, said) ==
  IF verdict = RAISED THEN Ungraded("failed")
  ELSE LET evidence == verify_evidence(verdict.evidence, said) IN
       IF verdict.score # NONE /\ evidence = <<>> THEN Ungraded("discarded")
       ELSE [score |-> verdict.score, rationale |-> "model", evidence |-> evidence]

----------------------------------------------------------------------------
(* One number: aggregator.py *)

band_for(overall) ==
  CASE overall >= 450 -> "STRONG_HIRE"
    [] overall \in 350..449 -> "HIRE"
    [] overall \in 250..349 -> "BORDERLINE"
    [] OTHER -> "NO_HIRE"

Insufficient(coverage) ==
  [overall |-> NONE, recommendation |-> "INSUFFICIENT_EVIDENCE", coverage |-> coverage]

GradedRows(rows) == {i \in DOMAIN rows : rows[i].score # NONE}
WeightOver(rows, S) == SumFunctionOnSet(WeightsOf(rows), S)
Weighted(rows, S) == SumFunction([i \in S |-> rows[i].weight * rows[i].score])

(* Mutant: what was not graded counts as nothing.                           *)
MeanOverAll(rows) == HalfUp(Weighted(rows, GradedRows(rows)), WeightOver(rows, DOMAIN rows))

Mean(rows) == HalfUp(Weighted(rows, GradedRows(rows)), WeightOver(rows, GradedRows(rows)))

aggregate(rows, participated) ==
  LET total == WeightOver(rows, DOMAIN rows)
      graded == GradedRows(rows)
      coverage == HalfEven(100 * WeightOver(rows, graded), total)
      overall == Max({MIN_BAND, Min({MAX_BAND, Mean(rows)})})
  IN IF total <= 0 \/ graded = {}
     THEN IF participated /\ total > 0
          THEN [overall |-> MIN_BAND, recommendation |-> "NO_HIRE", coverage |-> 0]
          ELSE Insufficient(0)
     ELSE IF coverage < MIN_COVERAGE /\ ~ participated THEN Insufficient(coverage)
     ELSE [overall |-> overall, recommendation |-> band_for(overall), coverage |-> coverage]

----------------------------------------------------------------------------
(* The candidate's feedback: reports/candidate.py *)

(* Some of the strengths of one reply, and whose the summary is.            *)
Feedback ==
  [summary : {NONE, "NO_TRANSCRIPT_SUMMARY", "model"},
   strengths : {<<>>} \cup UNION {{Pick(p, S) : S \in SUBSET DOMAIN p} : p \in Praises}]

(* The row before any render, and the note for an interview that left       *)
(* nothing to work from.                                                    *)
NoFeedback == [summary |-> NONE, strengths |-> <<>>]
Apology == [summary |-> "NO_TRANSCRIPT_SUMMARY", strengths |-> <<>>]

Vocabulary(said) ==
  UNION {q.words : q \in UNION {said[i].says : i \in {j \in DOMAIN said : said[j].speaker = "CANDIDATE"}}}

(* _drop_ungrounded_strengths: praise with enough words to judge and none   *)
(* of the candidate's own; all of it stands if the candidate used none.     *)
WithoutInvented(praise, vocabulary) ==
  IF vocabulary = {} THEN praise
  ELSE Pick(praise, {k \in DOMAIN praise :
         \/ Cardinality(praise[k].words) < MIN_STRENGTH_CONTENT_WORDS
         \/ praise[k].words \cap vocabulary # {}})

Silent(said) == \A i \in DOMAIN said : said[i].says = {}

(* generate, of what the model answered; it never raises.                   *)
FeedbackOf(praise, said) ==
  IF Silent(said) \/ praise = RAISED THEN Apology
  ELSE [summary |-> "model", strengths |-> WithoutInvented(praise, Vocabulary(said))]

----------------------------------------------------------------------------
VARIABLES
  stage,      \* "planning", "repairing", "applying", "planned", "grading",
              \* "graded", "over"
  answer,     \* until the interview: the reply the plan was read from, and
              \* whether the CV had words to ground it in
  plan,       \* the plan in hand, and stored once "planned"
  transcript, \* the interview's turns
  results,    \* the grades of the scoring under way
  score,      \* the score row and its criterion rows
  feedback,   \* what the candidate's report says
  scorings    \* deliveries of score_interview so far

scoringVars == <<stage, answer, plan, transcript, results, score, feedback, scorings>>

Score(status, rows, outcome) ==
  [status |-> status, rows |-> rows, overall |-> outcome.overall,
   recommendation |-> outcome.recommendation, coverage |-> outcome.coverage]

(* The row before any scoring has stored a result.                          *)
Unscored == Score("PENDING", <<>>, Insufficient(0))

ScoringInit ==
  /\ stage = "planning"
  /\ answer = NONE /\ plan = NONE /\ transcript = <<>> /\ results = <<>> /\ scorings = 0
  /\ score = Unscored /\ feedback = NoFeedback

(* A valid reply is kept, and goes back to the model once if the CV has     *)
(* words and some question is not about them.                               *)
generate ==
  /\ stage = "planning"
  /\ \E reply \in PlanReplies \ {RAISED}, resume \in BOOLEAN :
       /\ answer' = [reply |-> reply, resume |-> resume] /\ plan' = Shaped(reply)
       /\ stage' = IF resume /\ Ungrounded(plan') # {} THEN "repairing" ELSE "applying"
  /\ UNCHANGED <<transcript, results, score, feedback, scorings>>

(* The repair's reply replaces the plan whole.                              *)
generate_repairs ==
  /\ stage = "repairing"
  /\ \E reply \in PlanReplies \ {RAISED} :
       /\ answer' = [answer EXCEPT !.reply = reply] /\ plan' = Repaired(Shaped(reply))
  /\ stage' = "applying"
  /\ UNCHANGED <<transcript, results, score, feedback, scorings>>

(* The repair call raises: the valid plan in hand is lost with it, and the  *)
(* task starts over.  (The first call raising leaves nothing to lose.)      *)
generate_raises ==
  /\ stage = "repairing" /\ RAISED \in PlanReplies
  /\ stage' = "planning" /\ answer' = NONE /\ plan' = NONE
  /\ UNCHANGED <<transcript, results, score, feedback, scorings>>

(* The table's CHECK: a weight that was rounded to nothing is refused.      *)
Storable(criteria) == \A i \in DOMAIN criteria : criteria[i].weight > 0

(* The task writes the plan in hand.                                        *)
apply_generated ==
  /\ stage = "applying" /\ Storable(plan.criteria)
  /\ stage' = "planned"
  /\ UNCHANGED <<answer, plan, transcript, results, score, feedback, scorings>>

(* The database refuses the rows or fails: the task raises and starts over. *)
apply_raises ==
  /\ stage = "applying"
  /\ stage' = "planning" /\ answer' = NONE /\ plan' = NONE
  /\ UNCHANGED <<transcript, results, score, feedback, scorings>>

(* The interview the plan was for is held.                                  *)
Interviewed ==
  /\ stage = "planned"
  /\ transcript' \in Transcripts /\ answer' = NONE /\ stage' = "over"
  /\ UNCHANGED <<plan, results, score, feedback, scorings>>

Participated == \E i \in DOMAIN transcript : transcript[i].speaker = "CANDIDATE" /\ transcript[i].says # {}

(* _score, the first transaction: mark_scoring leaves the last result.      *)
score_begins ==
  /\ stage = "over" /\ scorings < MaxScorings
  /\ stage' = IF Participated THEN "grading" ELSE "graded"
  /\ results' = <<>> /\ scorings' = scorings + 1
  /\ score' = [score EXCEPT !.status = "SCORING"]
  /\ UNCHANGED <<answer, plan, transcript, feedback>>

(* score_all takes the criteria one after the other.                        *)
score_criterion ==
  /\ stage = "grading"
  /\ \E verdict \in complete_structured({v \in Verdicts : InBand(v)}) :
       results' = Append(results, GradedAs(verdict, transcript))
  /\ stage' = IF Len(results') = Len(plan.criteria) THEN "graded" ELSE "grading"
  /\ UNCHANGED <<answer, plan, transcript, score, feedback, scorings>>

(* weights_and_scores: each grade beside its criterion's weight.            *)
weights_and_scores ==
  [i \in DOMAIN results |->
     [weight |-> plan.criteria[i].weight, score |-> results[i].score,
      rationale |-> results[i].rationale, evidence |-> results[i].evidence]]

(* Mutant: the last scoring's rows are not deleted.                         *)
RowsAppended == score.rows \o weights_and_scores

(* The criterion rows store leaves: the old ones are deleted first.         *)
Rows == weights_and_scores

(* _score, the second transaction: store replaces rows and outcome at once. *)
store ==
  /\ stage = "graded"
  /\ score' = Score("READY", Rows, aggregate(weights_and_scores, Participated))
  /\ stage' = "over" /\ results' = <<>>
  /\ UNCHANGED <<answer, plan, transcript, feedback, scorings>>

(* The database fails or the worker is killed: the grades are lost, the row *)
(* says SCORING and keeps what was stored.  Nothing calls mark_failed.      *)
score_raises ==
  /\ stage \in {"grading", "graded"}
  /\ stage' = "over" /\ results' = <<>>
  /\ UNCHANGED <<answer, plan, transcript, score, feedback, scorings>>

(* _render_candidate, up to the stored feedback: the chain sends it behind  *)
(* the scoring, and a redelivery may run it beside another one.  It reads   *)
(* the transcript only; a render that fails leaves what was stored.         *)
render_candidate ==
  /\ stage \in {"over", "grading", "graded"}
  /\ \E praise \in complete_structured(Praises) : feedback' = FeedbackOf(praise, transcript)
  /\ UNCHANGED <<stage, answer, plan, transcript, results, score, scorings>>

ScoringNext ==
  \/ generate \/ generate_repairs \/ generate_raises
  \/ apply_generated \/ apply_raises \/ Interviewed
  \/ score_begins \/ score_criterion \/ store \/ score_raises
  \/ render_candidate

ScoringSpec == ScoringInit /\ [][ScoringNext]_scoringVars

----------------------------------------------------------------------------
Grades == [score : (Scores \cap (MIN_BAND..MAX_BAND)) \cup {NONE},
           rationale : {"failed", "discarded", "model"},
           evidence : {<<>>} \cup [1..1 -> [quote : Quotes, turn_ordinal : DOMAIN transcript]]]

(* `kept` is `criteria` shaped: each kept one has a place among the others, *)
(* their order stands, and none that was dropped is heavier.  Each weighs   *)
(* its share of what the kept ones weighed in the reply, to the nearest     *)
(* ten-thousandth; only `topped`, the heaviest or within a ten-thousandth   *)
(* of it, carries what that rounding left over of all the others.           *)
RubricFollows(criteria, kept) ==
  \E place \in [DOMAIN kept -> DOMAIN criteria], topped \in DOMAIN kept :
    LET raw == [k \in DOMAIN kept |-> criteria[place[k]].weight]
        total == SumFunction(raw)
        off(k) == kept[k].weight * total - raw[k] * WEIGHT_SCALE
        roundings(k) == IF k = topped THEN Len(kept) - 1 ELSE 1
    IN
    /\ \A k \in DOMAIN kept : criteria[place[k]].name = kept[k].name
    /\ \A k, l \in DOMAIN kept : k < l => place[k] < place[l]
    /\ \A i \in DOMAIN criteria \ {place[k] : k \in DOMAIN kept}, k \in DOMAIN kept :
         criteria[i].weight <= raw[k]
    /\ \A k \in DOMAIN kept :
         /\ (raw[k] - raw[topped]) * WEIGHT_SCALE <= total
         /\ 2 * off(k) <= roundings(k) * total /\ -2 * off(k) <= roundings(k) * total

(* Every variable in its range: a stage of the pipeline, a rubric of the    *)
(* size the schema asks for, grades in the band, an overall in the band.    *)
ScoringTypeOK ==
  /\ stage \in {"planning", "repairing", "applying", "planned", "over", "grading", "graded"}
  /\ answer \in [reply : Replies, resume : BOOLEAN] \cup {NONE} /\ scorings \in 0..MaxScorings
  /\ plan # NONE =>
       /\ Len(plan.criteria) \in MIN_CRITERIA..MAX_CRITERIA
       /\ \A i \in DOMAIN plan.criteria : plan.criteria[i].weight \in 0..WEIGHT_SCALE
       /\ stage \notin {"repairing", "applying"} => Storable(plan.criteria)
  /\ plan = NONE <=> stage = "planning"
  /\ \A i \in DOMAIN results : results[i] \in Grades
  /\ score.status \in {"PENDING", "SCORING", "READY"}
  /\ score.overall \in (MIN_BAND..MAX_BAND) \cup {NONE} /\ score.coverage \in 0..100
  /\ score.recommendation \in Bands
  /\ score.overall = NONE <=> score.recommendation = "INSUFFICIENT_EVIDENCE"
  /\ feedback \in Feedback
  /\ feedback.strengths # <<>> => feedback.summary = "model"

(* However badly the model counts and however finely, the rubric it is      *)
(* shaped into weighs exactly one at the precision it is stored at, names   *)
(* no criterion twice and is what every tag a question keeps refers to.     *)
(* Shaping keeps what the model said of importance as far as that precision *)
(* goes: nothing it dropped outweighed what it kept, and each criterion     *)
(* weighs its share to the nearest ten-thousandth, but for one of the       *)
(* heaviest, which takes up what the others' rounding left                  *)
(* (generator.py:76-219).                                                   *)
RubricSound ==
  plan # NONE =>
    /\ Total(plan.criteria) = WEIGHT_SCALE
    /\ Cardinality(Names(plan.criteria)) = Len(plan.criteria)
    /\ \A i \in DOMAIN plan.questions :
         plan.questions[i].competency \in Names(plan.criteria) \cup {NONE}
    /\ answer # NONE => RubricFollows(answer.reply.criteria, plan.criteria)

(* What generator.py:173-175 says of the rescaling: the relative importance *)
(* the model gave its criteria is preserved exactly.  At the least, one it  *)
(* called heavier than another is not stored as the lighter of the two.     *)
(* The code breaks it for weights that lie closer than a ten-thousandth:    *)
(* what rounding leaves over goes to the first of the rounded ties.         *)
HeavierStaysHeavier ==
  stage = "planned" =>
    \A i, j \in DOMAIN answer.reply.criteria, k, l \in DOMAIN plan.criteria :
      LET heavy == answer.reply.criteria[i]  light == answer.reply.criteria[j] IN
      /\ heavy.name = plan.criteria[k].name /\ light.name = plan.criteria[l].name
      /\ heavy.weight > light.weight
      => plan.criteria[k].weight >= plan.criteria[l].weight

(* Every stored grade rests on words the candidate said: a score has a      *)
(* citation, and each citation names a turn of the candidate's that holds   *)
(* the quote (rubric_scorer.py:125-158, 197-213).  So does the praise the   *)
(* candidate reads, as far as there are words to judge it by: it shares one *)
(* with a turn of theirs (reports/candidate.py:34-49).                      *)
GradesRestOnSpeech ==
  /\ \A i \in DOMAIN score.rows :
       /\ score.rows[i].score # NONE => score.rows[i].evidence # <<>>
       /\ \A k \in DOMAIN score.rows[i].evidence :
            LET cited == score.rows[i].evidence[k] IN
            /\ transcript[cited.turn_ordinal].speaker = "CANDIDATE"
            /\ cited.quote \in transcript[cited.turn_ordinal].says
  /\ Silent(transcript) => feedback.strengths = <<>>
  /\ \A k \in DOMAIN feedback.strengths :
       LET item == feedback.strengths[k]
           theirs == {q \in Quotes : Citable(transcript, q) # {}}
       IN \/ Cardinality(item.words) < MIN_STRENGTH_CONTENT_WORDS
          \/ \E q \in theirs : q.words \cap item.words # {}
          \/ \A q \in theirs : q.words = {}

(* The number on the row is the mean of the grades beside it, to the nearest *)
(* hundredth and over the graded weights only, so it lies between the worst *)
(* and the best of them, and the coverage shown with it is the share of the *)
(* weights it rests on; where that is half of them or more there is such a  *)
(* number.  It holds while a later scoring runs or fails (aggregator.py:1-22, *)
(* scoring/service.py:87-119).                                               *)
OverallIsTheMean ==
  LET graded == GradedRows(score.rows)  weight == WeightOver(score.rows, graded)
      scores == {score.rows[i].score : i \in graded}
      error == score.overall * weight - Weighted(score.rows, graded)
      uncounted == score.coverage * WEIGHT_SCALE - 100 * weight
  IN graded # {} =>
       /\ 2 * uncounted <= WEIGHT_SCALE /\ -2 * uncounted <= WEIGHT_SCALE
       /\ score.coverage >= MIN_COVERAGE => score.overall # NONE
       /\ score.overall # NONE =>
            /\ score.overall \in Min(scores)..Max(scores)
            /\ 2 * error <= weight /\ -2 * error <= weight

(* Below half coverage there is no number at all, as aggregator.py:17-20,   *)
(* docs/architecture.md:160 and docs/api.md:207 have it.  The code breaks   *)
(* it: the task says the candidate took part, and that lifts the limit.     *)
NoNumberBelowHalf ==
  /\ GradedRows(score.rows) # {}
  /\ 100 * WeightOver(score.rows, GradedRows(score.rows)) < MIN_COVERAGE * WEIGHT_SCALE
  => score.overall = NONE

(* The criterion rows are one scoring's, whole: none, or one per criterion  *)
(* in the rubric's order with weights that sum to one; a redelivery never   *)
(* leaves two scorings mixed, and a candidate who said nothing has neither  *)
(* rows nor a number (scoring/service.py:1-9, scoring_tasks.py:155-178).    *)
RowsAreOneScoring ==
  /\ score.rows = <<>> \/ WeightsOf(score.rows) = WeightsOf(plan.criteria)
  /\ ~ Participated => score.rows = <<>> /\ score.overall = NONE

=============================================================================
