----------------------------- MODULE MCExt2Tools -----------------------------
(* A small image for TLC: one name is the start of another, whose length is  *)
(* a multiple of four and the greatest.                                      *)
EXTENDS Ext2Properties

MCPrefixes == {<<"a", "abcd">>, <<".", "..">>}

Path(dirs, name) == [dirs |-> dirs, name |-> name]
MCRequests == {Path(<<>>, "a"), Path(<<>>, "abcd"),
               Path(<<"a">>, "a"), Path(<<"lost+found">>, "a")}
=============================================================================
