--------------------------- MODULE MCInterceptor ---------------------------
(* Instances of Interceptor for TLC.                                       *)
EXTENDS Interceptor

FarPairs == {<<"f", "r2">>, <<"g", "h">>}
NoPairs == {}
=============================================================================
