----------------------------- MODULE TcpHandle -----------------------------
(***************************************************************************)
(* The 32-bit handles of tcp/tcp.c.  The comment of pack_handle gives the  *)
(* index and the generation bits of their own; the shifts of the code make *)
(* the lowest bit of the index and the highest of the generation share one *)
(* bit, which is set when either is.                                       *)
(***************************************************************************)
EXTENDS Integers

CONSTANT GenBits    \* GEN_UPPER_BOUND_LOG2: 12

ASSUME GenBitsAssumption == GenBits \in Nat \ {0}

GEN_UPPER_BOUND == 2 ^ GenBits

(* The generations that leave the shared bit alone *)
SharedBit == 2 ^ (GenBits - 1)

(* Arithmetic of powers, which the provers do not know *)
ASSUME PowersAssumption ==
    SharedBit \in Nat \ {0} /\ GEN_UPPER_BOUND = 2 * SharedBit

(* type and parent server have bits of their own: they are kept as fields. *)
pack_handle(sdx, idx, gen) ==
    LET shared == IF idx % 2 = 1 \/ gen >= SharedBit THEN 1 ELSE 0
    IN  [sdx  |-> sdx,
         bits |-> (idx \div 2) * 4 * SharedBit + shared * 2 * SharedBit
                  + (gen % SharedBit) * 2]

IndexOf(h) == h.bits \div GEN_UPPER_BOUND
GenOf(h) == (h.bits \div 2) % GEN_UPPER_BOUND

(* Regeneration, as free_client and tcp_server_delete do it *)
NextGen(gen) == IF gen + 1 = GEN_UPPER_BOUND THEN 0 ELSE gen + 1
=============================================================================
