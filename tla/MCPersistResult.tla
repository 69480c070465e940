-------------------------- MODULE MCPersistResult --------------------------
(* PersistResult for TLC: two deliveries of one task, one of another.      *)
EXTENDS PersistResult

MCJobOf == [e \in {"a1", "a2", "b1"} |-> IF e = "b1" THEN "b" ELSE "a"]

\* Selected alike, or the other way round.
MCOrders == {[j \in {"a", "b"} |-> IF j = "a" THEN <<"s1", "s2">> ELSE q] :
                q \in {<<"s1", "s2">>, <<"s2", "s1">>}}

=============================================================================
