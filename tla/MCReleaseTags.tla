---------------------------- MODULE MCReleaseTags ----------------------------
(* Instances of ReleaseTags for TLC. *)
EXTENDS ReleaseTags

\* Two stable versions of one major series, and a pre-release of the next; the
\* source tag of the first may be moved.
MCVersion == {<<1, 0, 0>>, <<1, 1, 0>>, <<2, 0, 0, 1>>}
MCArchive ==
    {<<<<1, 0, 0>>, "s1">>, <<<<1, 0, 0>>, "s2">>,
     <<<<1, 1, 0>>, "s1">>, <<<<2, 0, 0, 1>>, "s1">>}

MCOne == {<<1, 0, 0>>}
MCOneArchive == {<<<<1, 0, 0>>, "s1">>}
=============================================================================
