------------------------------ MODULE MCClients ------------------------------
(* One user who may type blanks or nothing, for model checking Clients. *)
EXTENDS Clients

MCNames == {<<"ann">>, <<>>}
MCPasswords == {<<"p", "w">>, <<>>}
MCPagePasswords == {<<"pw">>, <<>>}
MCRegistered == {None, "other"}
=============================================================================
