---------------------------- MODULE MCTuneSearch ---------------------------
EXTENDS TuneSearch

MCAlim == <<40, 200>>
MCLr == <<10, 5>>
MCDefault == [alim |-> 127, lr |-> 7, flags |-> {}]
=============================================================================
