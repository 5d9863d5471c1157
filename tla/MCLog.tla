------------------------------- MODULE MCLog -------------------------------
(* Small instances of Log for TLC. *)
EXTENDS Log, TLC

CONSTANTS w1, w2

(* One writer goes around its buffer, the other logs a single byte. *)
MCMaxBytes == w1 :> 5 @@ w2 :> 1

(* One writer goes around a larger buffer. *)
MCMaxBytesOne == w1 :> 7
=============================================================================
