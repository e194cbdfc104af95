----------------------------- MODULE MCTokenStatus -----------------------------
EXTENDS TokenStatus
================================================================================
