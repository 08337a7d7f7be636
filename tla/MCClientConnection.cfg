CONSTANTS
 a = a
 b = b
 Thread = {a, b}
 Modulus = 2
 MaxRequests = 2
 MaxEvents = 1
 Sends <- Kinds
 Uses <- Shared
 NullErrors = {TRUE, FALSE}
 Breaks = TRUE
 Refusals = TRUE
SPECIFICATION FairSpec
CHECK_DEADLOCK FALSE
INVARIANTS NoAnswerLost EventsAreSignalled AnswersMatch
PROPERTIES ReplyWaitsEnd EventWaitsEnd
