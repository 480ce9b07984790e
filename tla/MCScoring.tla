----------------------------- MODULE MCScoring -----------------------------
(* Instances of Scoring: at most three criteria kept of up to four, weights *)
(* that leave a rounding remainder either way, that tie only once rounded,  *)
(* that round to nothing; questions at and under both thresholds of         *)
(* grounding, a candidate who speaks or says nothing, a call nobody spoke   *)
(* on; praise for what the candidate said, for what only the interviewer    *)
(* said, and too thin to tell.                                              *)
EXTENDS Scoring

said == [text |-> "said", chars |-> 12, words |-> {"queue", "retries"}]
asked == [text |-> "asked", chars |-> 20, words |-> {"cluster", "rollout", "queue"}]
short == [text |-> "short", chars |-> 11, words |-> {}]
MCQuotes == {said, asked, short}

MCTranscripts ==
  LET turn(speaker, quotes) == [speaker |-> speaker, says |-> quotes]
      questions == <<turn("INTERVIEWER", {asked, said})>>
  IN {questions \o <<turn("CANDIDATE", {short}), turn("CANDIDATE", {said})>>,
      questions \o <<turn("CANDIDATE", {})>>, <<>>}

strength(words) == [text |-> "praise", words |-> words]
MCPraises ==
  {<<>>, <<strength({"cluster", "rollout", "scale"}), strength({"delivery", "pace"}),
           strength({"cluster", "queue", "scale"})>>}

criterion(name, weight) == [name |-> name, weight |-> weight]
question(competency, found, hits) ==
  [competency |-> competency, evidence |-> [words |-> 5, found |-> found],
   body |-> [words |-> 4, found |-> hits]]

Weights ==
  {<<55000>>, <<20000, 20000>>, <<60000, 100000>>, <<33333, 33334, 33333>>,
   <<20000, 33000, 33000, 55000>>, <<7000, 60000, 7000, 7000>>, <<80000, 4>>}
MCRubrics ==
  {[i \in DOMAIN ws |-> criterion(i, ws[i])] : ws \in Weights}
  \cup {<<criterion(1, 50000), criterion(1, 50000)>>,
        <<criterion(1, 50000), criterion(2, 20000), criterion(1, 50000), criterion(3, 20000)>>}
MCQuestions ==
  UNION {[1..n -> {question(1, 3, 1), question(4, 2, 1), question(2, 3, 0)}] : n \in 0..3}
OneRubric == <<criterion(1, 55000), criterion(2, 33000)>>
OneQuestion == <<question(1, 3, 1), question(4, 3, 1), question(2, 5, 1)>>
MCReplies ==
  {[criteria |-> c, questions |-> OneQuestion] : c \in MCRubrics}
  \cup {[criteria |-> OneRubric, questions |-> q] : q \in MCQuestions}
=============================================================================
