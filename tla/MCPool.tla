------------------------------ MODULE MCPool ------------------------------
EXTENDS Pool

TwoOrThree == {2, 3}
=============================================================================
