------------------------------ MODULE MCLogin ------------------------------
(* A login of user u with password p, by clients that type every sequence  *)
(* of at most MaxData bytes with protocol commands anywhere in between.    *)
EXTENDS Login

MCUsername == <<"u">>
MCPassword == <<"p">>
MCNames    == {<<"u">>, <<"u", "+", "p">>, <<"p", "+", "u">>, <<"u", "p">>}
=============================================================================
