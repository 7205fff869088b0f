---------------------------- MODULE MCRateLimit ----------------------------
EXTENDS RateLimit

CONSTANTS r1, r2, r3, r4

=============================================================================
