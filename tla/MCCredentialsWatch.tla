------------------------- MODULE MCCredentialsWatch -------------------------
(***************************************************************************)
(* Instances of CredentialsWatch for TLC: a Secret of two keys, before and *)
(* after one of its values was rotated.                                    *)
(***************************************************************************)
EXTENDS CredentialsWatch

Content(k, u) == <<<<"K">>, k, <<"U">>, u>>
RotatedVal == {Content(<<"x">>, <<"z">>), Content(<<"y">>, <<"z">>)}
=============================================================================
