---------------------------- MODULE MCRemoveTree ----------------------------
(***************************************************************************)
(* An instance of RemoveTree for TLC.  v is a version with a directory and *)
(* in it a link to one of its files (its receipt, to have few); npm may    *)
(* add a link to out, a directory of the user's with a link to itself.  w  *)
(* is a version with nothing but its receipt.                              *)
(***************************************************************************)
EXTENDS RemoveTree, TLC

MCDirs == {<<"v">>, <<"v", "lib">>, <<"w">>, <<"out">>}
MCFiles == {<<"v", "receipt.yml">>, <<"w", "receipt.yml">>}
MCLinks == {<<"v", "lib", "file">>, <<"v", "lib", "out">>, <<"out", "up">>}
MCShipped == {<<"v">>, <<"v", "lib">>, <<"v", "lib", "file">>, <<"v", "receipt.yml">>,
              <<"w">>, <<"w", "receipt.yml">>, <<"out">>, <<"out", "up">>}
MCNowhere == <<"nowhere">>
MCTarget ==
    (<<"v", "lib", "file">> :> <<"v", "receipt.yml">>) @@ (<<"v", "lib", "out">> :> <<"out">>)
        @@ (<<"out", "up">> :> <<"out">>)
=============================================================================
