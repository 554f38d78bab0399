\* Two threads make two calls; a raw peer sends any one document, alone,
\* before or behind a call, with batches of up to three requests.
CONSTANTS
    params_ <- Params
    Callers = {main, other}
    MaxCalls = 2
    MaxBatch = 3
SPECIFICATION Spec
INVARIANTS AnswersOnce BatchAnswers CodesAreRight ErrorEndsService OwnResponse
PROPERTIES BatchesAreAnswered CallsComplete
CHECK_DEADLOCK FALSE
