-------------------------------- MODULE MCOutbox --------------------------------
EXTENDS Outbox

CONSTANTS e1, e2, e3

\* e1 goes to the dead letter queue at its first failure, the others would at
\* their second.
MCMaxRetries == [e \in Events |-> IF e = e1 THEN 1 ELSE 2]
================================================================================
