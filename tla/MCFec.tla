-------------------------------- MODULE MCFec --------------------------------
(* Instances of Fec for TLC. *)
EXTENDS Fec, TLC

CONSTANTS a1, a2, a3, quic, long, short

Alikes == {a1, a2, a3}

MCKind == [p \in Packets |-> IF p = quic THEN "Quic" ELSE "Turn"]
MCSize == [p \in Packets |-> IF p = long THEN 2 ELSE 1]

\* Three packets that are alike, or three that are not.
AlikeOrMixed == {Alikes, {quic, long, short}}
AllPackets == {Packets}
TwoSizes == {{long, short}}

\* For groups of up to three packets with up to two parity packets, where the
\* field arithmetic of the code changes the compressed bit of the recovered
\* flags: by 0xcb, 0xdb, 0xcb, 0xeb, from the FEC bit 0x20 of the shards present.
FlipsUpTo3(n, present, i) ==
    \/ n = 2 /\ present = {2, 3} /\ i = 1
    \/ n = 3 /\ present = {1, 2, 5} /\ i = 3
    \/ n = 3 /\ present = {2, 4, 5} /\ i \in {1, 3}

Symmetry == Permutations(Alikes)
=============================================================================
