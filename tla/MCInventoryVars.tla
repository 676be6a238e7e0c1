--------------------------- MODULE MCInventoryVars ---------------------------
(***************************************************************************)
(* The declarations of one variable that the runs of InventoryVars start   *)
(* from: two owners that declare it, in the combinations in which the      *)
(* layers meet, with and without a base column and an Ansible default.     *)
(***************************************************************************)
EXTENDS InventoryVars

S(base, ans, fields, defaults, globals, ofType) ==
    [base |-> base, ansible |-> ans, fields |-> fields, defaults |-> defaults,
     globals |-> globals, ofType |-> ofType]

Role(r) == <<"role", r>>
App(a) == <<"app", a>>
Status(i) == <<"status", i>>
Type(i) == <<"type", i>>

DeclaredSchemas == {
    S(FALSE, "set", {Role(1), Role(2)}, {Role(1), Role(2)}, <<>>, <<>>),
    S(TRUE, "absent", {Role(1), App(1)}, {Role(1), App(1)}, 1 :> 1, <<>>),
    S(FALSE, "absent", {Status(1), Status(2), Role(1)}, {Status(1), Role(1)},
      <<>>, 1 :> 0),
    S(FALSE, "null", {Type(1), App(1)}, {App(1)}, <<>>, <<>>),
    S(TRUE, "set", {Status(1), Role(2)}, {Status(1)}, <<>>, <<>>) }

\* Which of two requests of the matrix is which does not matter.
SameToggles == Permutations(Toggles)

\* A status field that is also an Ansible default.
TwoDefaults == {S(FALSE, "set", {Status(1)}, {Status(1)}, <<>>, <<>>)}
=============================================================================
