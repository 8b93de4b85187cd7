---------------------------- MODULE MCWatchMode -----------------------------
(* Instance of WatchMode for model checking: scenarios that between them    *)
(* use every kind of step, alone and after one another.                     *)
EXTENDS WatchMode

S(kind) == [kind |-> kind, wired |-> TRUE, rules |-> FALSE, count |-> 0,
            expect |-> FALSE, inject |-> {}]

Produce2    == [S("produce") EXCEPT !.count = 2, !.inject = {2}]
ConsumeRule == [S("consume") EXCEPT !.rules = TRUE]
HTTPExpect  == [S("http") EXCEPT !.expect = TRUE]
HTTPFails   == [S("http") EXCEPT !.inject = {1}]
GRPCExpect  == [S("grpc") EXCEPT !.expect = TRUE]
WSCount     == [S("websocket") EXCEPT !.rules = TRUE, !.count = 2]
NotWired    == [S("sse") EXCEPT !.wired = FALSE]

MCStepLists == {
    <<Produce2, ConsumeRule>>,
    <<HTTPExpect, S("consume"), HTTPFails, S("sleep")>>,
    <<GRPCExpect, WSCount>>,
    <<S("sse"), NotWired>> }

\* One consume step with rules, for the run that looks at swallowed errors.
MCConsumeOnly == { <<ConsumeRule>> }
=============================================================================
