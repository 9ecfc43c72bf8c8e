--------------------------- MODULE MCMasterData ---------------------------
EXTENDS MasterData

CONSTANTS t1, t2

MCTabs == {t1, t2}
MCNames == {"a"}
MCTasks == {"k1"}
MCStages == {"non-prod", "prod1"}
MCStored ==
    [id \in MCNames |->
        [name |-> "a", tasks |-> {<<"k0">>},
         plan |-> <<[stage |-> "non-prod", delayHours |-> 0], [stage |-> "prod1", delayHours |-> 168]>>]]

=============================================================================
