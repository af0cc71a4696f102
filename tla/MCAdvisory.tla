---------------------------- MODULE MCAdvisory ----------------------------
EXTENDS DeadlockSearch

ThreeOwners == 1..3
TwoKeys == 1..2
ThreeRequests == {<<1, "share", "session">>, <<1, "exclusive", "transaction">>,
                  <<2, "exclusive", "transaction">>}
=============================================================================
