---------------------------- MODULE MCVerityDisk ----------------------------
(* A disk whose blocks hold two units and two digests, and two models, one *)
(* with a file in a directory, of which different files are wanted.        *)
EXTENDS ModelDisk, TLC

TwoRepos  == <<"m1", "m2">>
TheirFiles == ("m1" :> <<"a", "b/c">>) @@ ("m2" :> <<"d", "e">>)
NestedFiles == {"b/c"}
SomeIncludes == {{"a", "b/c", "d", "e"}, {"b/c", "d"}, {"a"}, {"b/c", "e"}}
=============================================================================
