------------------------------- MODULE MCAuth -------------------------------
(***************************************************************************)
(* A small instance of Auth for TLC: a secret that is changed for another, *)
(* a server on the default port, one without auth; days of two seconds.    *)
(***************************************************************************)
EXTENDS Auth

CONSTANTS plain, odd

OldPair == [access |-> "key", secret |-> "old"]

NewPair == [access |-> "key", secret |-> "new"]

MCConfigs == {[auth |-> OldPair, port |-> 8080], [auth |-> NewPair, port |-> 8080],
              [auth |-> OldPair, port |-> 80], [auth |-> NoAuth, port |-> 8080]}

MCUrlCalls == {[method |-> "GET", key |-> plain], [method |-> "GET", key |-> odd]}

MCSdkCalls == {[method |-> "GET", key |-> plain, flags |-> <<"acl">>],
               [method |-> "GET", key |-> odd, flags |-> <<"acl", "acl">>],
               [method |-> "PUT", key |-> odd, flags |-> <<>>]}
=============================================================================
