------------------------------ MODULE Queries ------------------------------
(***************************************************************************)
(* The queries of the interchain-events contract, on a committed storage.  *)
(***************************************************************************)
EXTENDS Subscriptions, SequencesExt

CONSTANTS
    DefaultLimit,   \* the limit of a list query that gives none (30)
    MaxLimit        \* the most a list query returns (100)

ASSUME LimitAssumption == DefaultLimit \in Nat /\ MaxLimit \in Nat

Lesser(a, b) == IF a < b THEN a ELSE b

(***************************************************************************)
(* query_list_subscriptions: at most `limit' subscriptions in the order of *)
(* their identifiers, from the first one after start_after, whatever their *)
(* status.                                                                 *)
(***************************************************************************)
query_list_subscriptions(k, start_after, limit) ==
    LET page == Lesser(IF limit = None THEN DefaultLimit ELSE limit, MaxLimit)
        ids == {id \in Ids(k) : start_after = None \/ id > start_after}
        sorted == SetToSortSeq(ids, <)
    IN  [i \in 1..Lesser(page, Len(sorted)) |-> k.subs[sorted[i]]]

=============================================================================
