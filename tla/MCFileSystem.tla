---------------------------- MODULE MCFileSystem ----------------------------
(* Ten sectors of two bytes: five are left for files.  The directory has   *)
(* two entries, the second of which lies across two sectors, as entry 6 of *)
(* the code's ten does.  The last two names differ after FileNameMaxLen.   *)
EXTENDS FileSystem

Cells == [c \in Cell |-> IF c = <<2, "name">> THEN 2 ELSE 1]
Names == {<<"a">>, <<"b", "c">>, <<"b", "c", "d">>}
UnixFiles == {<<>>, <<0, 1, 1>>, <<1, 0, 0, 1>>}
Patches == {[position |-> 1, bytes |-> <<1, 0>>]}
=============================================================================
