--------------------------- MODULE MCGraphQLClient ---------------------------
(* GraphQLClient with two swaps side by side and one more found while the     *)
(* first of them is followed.                                                 *)
EXTENDS GraphQLClient
TwoSwapsAndOneInside == {<<>>, <<1>>, <<2>>, <<1, 1>>}
==============================================================================
