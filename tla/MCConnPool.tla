----------------------------- MODULE MCConnPool -----------------------------
EXTENDS ConnPool

=============================================================================
