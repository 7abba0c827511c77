------------------------------- MODULE MCS3Sync -------------------------------
(* Instances of S3Sync for TLC: two texts, and a binary file that is one of    *)
(* them when it is read as UTF-8.                                              *)
EXTENDS S3Sync, TLC

CONSTANTS a, b, binary

Decoded == a :> a @@ b :> b @@ binary :> a
===============================================================================
