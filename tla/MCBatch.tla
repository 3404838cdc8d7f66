------------------------------ MODULE MCBatch ------------------------------
EXTENDS Batch
=============================================================================
