\* One request, from its head to the head of the answer; or the start of one HTTP/2
\* connection to the upstream.
SPECIFICATION MCSpec
CONSTANTS
    NULL = NULL
    Requests <- MCRequests
    Replies <- MCReplies
CHECK_DEADLOCK FALSE
INVARIANTS
    ForwardedHead
    TunnelOnlyByHandshake
    AnswerHead
    ProvedAsSent
