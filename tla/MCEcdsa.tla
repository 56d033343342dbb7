------------------------------- MODULE MCEcdsa -------------------------------
(***************************************************************************)
(* The curve y^2 = x^3 + 7 modulo 79, with 67 points: secp256k1 in small.  *)
(* Both numbers have seven bits, so that hashes and coordinates of n or    *)
(* more occur, and so do the multiples the ladder does not reach.          *)
(***************************************************************************)
EXTENDS Ecdsa

MCG == <<1, 18>>
MCKeys == 0 .. 68
MCNonces == 0 .. 68
MCInitialZs == {1, 40}
MCHashes == {0, 5, 67, 120}
MCVerifyKeys == {2, 30, 62}
MCRs == 0 .. 70
MCSs == {0, 1, 2, 33, 65, 66, 67, 68}
==============================================================================
