------------------------------ MODULE MCImport ------------------------------
(***************************************************************************)
(* Dumps for module Import: the characters that separate and quote, and a  *)
(* comment that holds them.                                                *)
(***************************************************************************)
EXTENDS Import

MCComments == {<<"-", "-", "'", "nl", "/", "*", ";", "'", "*", "/", "#", ";", "nl">>}
MCSafe     == <<"a", "b">>
MCMaxSize  == <<3, 3, 2>>
=============================================================================
