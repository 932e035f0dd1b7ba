---------------------------- MODULE MCApiConnector ----------------------------
(* Instances of ApiConnector for TLC: the five paginations, and a configuration for *)
(* each way a walk can end early.                                                   *)
EXTENDS ApiConnector

Plain(type, size) == [type |-> type, size |-> size, maxPages |-> 0, ided |-> TRUE,
                      incremental |-> TRUE, creds |-> TRUE, broken |-> {}]
SmallConfigs == {Plain("none", 0), Plain("page", 1), Plain("offset", 0), Plain("cursor", 0),
                 Plain("link-header", 0),
                 [Plain("page", 0) EXCEPT !.maxPages = 1],
                 [Plain("offset", 1) EXCEPT !.broken = {<<1, 2>>}],
                 [Plain("cursor", 0) EXCEPT !.ided = FALSE],
                 [Plain("none", 0) EXCEPT !.creds = FALSE]}
SmallChanging == {<<1, 1>>, <<2, 1>>}
SmallStarts == {Records, Records \ {<<1, 1>>}}
=============================================================================
