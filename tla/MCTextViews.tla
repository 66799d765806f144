----------------------------- MODULE MCTextViews -----------------------------
(***************************************************************************)
(* TextViews for TLC: all texts of up to seven bytes over an alphabet with *)
(* the two bytes of a line end, a blank, a slash, two digits and a letter, *)
(* and integers of eight bits.  The method is called "x" and the protocol  *)
(* "2", so that a whole request line ("x /0 2") has six bytes and leaves   *)
(* room for one blank more.                                                *)
(***************************************************************************)
EXTENDS TextViews

Bytes == {"CR", "LF", " ", "/", "0", "2", "x"}
OneMethod == {<<"x">>}
ShortProtocol == <<"2">>
=============================================================================
