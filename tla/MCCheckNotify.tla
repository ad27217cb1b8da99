--------------------------- MODULE MCCheckNotify ---------------------------
(* Threshold lists of the runs of CheckNotify: the default one; and that   *)
(* one with an empty one.                                                  *)
EXTENDS CheckNotify

DefaultList == {<<30, 7, 1>>}
TwoLists    == {<<30, 7, 1>>, <<>>}
=============================================================================
