------------------------------ MODULE MCBech32 ------------------------------
(* Hashes of zeros, of ones, and of bytes that are all different; a        *)
(* wrong character is a letter, a digit, a '1' or a '!'.                   *)
EXTENDS Bech32

MCDigests == {[i \in 1 .. 32 |-> 0], [i \in 1 .. 32 |-> 255], [i \in 1 .. 32 |-> (37 * i) % 256]}
MCMistakes == {33, 48, 49, 56, 65, 81, 98, 108, 112, 113, 122}
MCHrp == <<122, 105, 108>>
=============================================================================
