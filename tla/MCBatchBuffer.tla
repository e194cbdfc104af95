------------------------------ MODULE MCBatchBuffer ------------------------------
EXTENDS BatchBuffer
================================================================================
