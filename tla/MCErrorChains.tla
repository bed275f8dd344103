---- MODULE MCErrorChains ----
(* Small instance of ErrorChains: at most two records of a call. *)
EXTENDS ErrorChains

SomeInfos == {<<"info">>, <<"ignorable">>, <<"ignorable", "info">>, <<"unreadable">>}
SomeFailures == {<<"error">>, <<"busy">>, <<"info", "error">>, <<"error", "unreadable">>}
====
