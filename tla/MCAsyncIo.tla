----------------------------- MODULE MCAsyncIo -----------------------------
(* Three resources and two operation structures; descriptors are small     *)
(* enough that the number a Linux accept gives can be a resource's index,  *)
(* as it is in example2.c, which has 100 resources.                        *)
EXTENDS AsyncIo
=============================================================================
