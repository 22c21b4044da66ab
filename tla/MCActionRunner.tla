--------------------------- MODULE MCActionRunner ---------------------------
(***************************************************************************)
(* ActionRunner with every setting of the success and failure actions,     *)
(* beside a warning action that has a cooldown, or a timeout action that   *)
(* has none.                                                               *)
(***************************************************************************)
EXTENDS ActionRunner

CONSTANT Cooldown

Nil == [configured |-> FALSE, onlyAfterHealthy |-> FALSE,
        cooldown |-> 0, command |-> FALSE]

Configured == [configured : {TRUE}, onlyAfterHealthy : BOOLEAN,
               cooldown : {0, Cooldown}, command : {TRUE}]

\* An action without a command only records the status.
Silent == [configured |-> TRUE, onlyAfterHealthy |-> FALSE,
           cooldown |-> Cooldown, command |-> FALSE]

OnTransition == [configured |-> TRUE, onlyAfterHealthy |-> TRUE,
                 cooldown |-> 0, command |-> TRUE]

SmallConfigurations ==
  {c \in [Kinds -> Configured \cup {Nil, Silent}] :
     /\ c["passing"] # Silent /\ c["critical"] # Silent
     /\ \/ c["warning"] = Silent /\ c["timeout"] = Nil
        \/ c["warning"] = Nil /\ c["timeout"] = OnTransition}
=============================================================================
