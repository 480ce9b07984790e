SPECIFICATION ScoringSpec
CONSTANTS
  NONE = NONE
  RAISED = RAISED
  Labels = {1, 2, 3, 4}
  REPLY_SCALE = 100000
  MIN_CRITERIA = 2
  MAX_CRITERIA = 3
  MIN_GROUNDED_QUESTIONS = 2
  MaxScorings = 2
  Scores = {100, 449, 550}
  Replies <- MCReplies
  Transcripts <- MCTranscripts
  Quotes <- MCQuotes
  Praises <- MCPraises
INVARIANTS
  RubricSound
  GradesRestOnSpeech
  OverallIsTheMean
  RowsAreOneScoring
CHECK_DEADLOCK FALSE
