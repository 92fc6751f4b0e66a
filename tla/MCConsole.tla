------------------------------ MODULE MCConsole -------------------------------
(* Console with commands that send one line, many lines, and lines nobody     *)
(* awaits.                                                                    *)
EXTENDS Console

OneOfEach == {"update", "list", "download"}
=============================================================================
