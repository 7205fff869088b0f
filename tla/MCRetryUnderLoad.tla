-------------------------- MODULE MCRetryUnderLoad --------------------------
EXTENDS RetryUnderLoad

CONSTANTS c1, c2

MCRequests == {c1, c2} \X (1..MaxAttempts)
MCStreaming == {<<c1, 1>>}

=============================================================================
