---------------------------- MODULE MCStoreFiles ----------------------------
(* A package with one migration, the same with another, and one whose first*)
(* migration has been edited.                                              *)
EXTENDS StoreFiles

MCPackages == {<<"init", "next">>, <<"edited">>}

Released == {<<"init">>}
=============================================================================
