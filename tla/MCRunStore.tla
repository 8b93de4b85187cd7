---------------------------- MODULE MCRunStore ----------------------------
(* Instance of RunStore for model checking: a watch whose snapshots carry   *)
(* one row, two rows or two rows of one name, and an eval.                 *)
EXTENDS RunStore, TLC

CONSTANTS w, e, a, b

MCModeOf == (w :> "watch") @@ (e :> "eval")

Pass(n) == [name |-> n, passed |-> TRUE]
Fail(n) == [name |-> n, passed |-> FALSE]

MCRowChoices == (w :> {<<Pass(a)>>, <<Fail(b), Pass(a)>>, <<Pass(a), Fail(a)>>}) @@ (e :> {<<Pass(a)>>})

\* Handlers are interchangeable.
HandlerSymmetry == Permutations(Handlers)
=============================================================================
