--------------------------- MODULE MCRateLimiter ---------------------------
EXTENDS RateLimiter

=============================================================================
