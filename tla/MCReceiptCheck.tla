--------------------------- MODULE MCReceiptCheck ---------------------------
(* An instance of ReceiptCheck for TLC. *)
EXTENDS ReceiptCheck

CONSTANTS pa, pb, up, empty, small, other, large

MCPaths == {pa, pb, up}
MCUnsafe == {up}
MCContents == {empty, small, other, large}
MCSize == [c \in MCContents |-> IF c = empty THEN 0 ELSE IF c = large THEN 2 ELSE 1]

Claim(p, c, n) == [path |-> p, sha256 |-> c, bytes |-> n]

\* No artifact, one, two, one twice, one with a wrong size, one that is too
\* large, and one outside.
MCClaims ==
    {<<>>, <<Claim(pa, small, 1), Claim(pb, other, 1)>>, <<Claim(pa, small, 1), Claim(pa, small, 1)>>,
     <<Claim(pb, other, 0)>>, <<Claim(pa, large, 2)>>, <<Claim(pa, small, 1), Claim(up, small, 1)>>}
=============================================================================
