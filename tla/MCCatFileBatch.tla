--------------------------- MODULE MCCatFileBatch ---------------------------
(* Two readers, two connections, a file of each kind, one of them with a    *)
(* control character in its path.                                           *)
EXTENDS CatFileBatch, TLC

CONSTANTS r1, r2, c1, c2, a, b, big, dir, gone

MCReaders == {r1, r2}
MCConns   == {c1, c2}
MCBlobs   == {a, b}

Symmetry == Permutations(MCReaders) \union Permutations(MCConns)
=============================================================================
