---------------------------- MODULE MC_ServerPath ----------------------------
(* ServerPath over names of up to three bytes from a two-letter alphabet   *)
(* and buffers of up to five bytes: shorter, equal to and longer than      *)
(* ":" + name.                                                              *)
EXTENDS ServerPath

CONSTANTS blank

MCChars == {"a", "b"}
=============================================================================
