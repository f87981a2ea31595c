--------------------------- MODULE MCAddressPlan ---------------------------
(* Addresses of four bits.  The private ranges are 0xxx and 110x; a VPC may *)
(* have prefixes of three bits or more, so that the inputs below contain    *)
(* public, too short, uncanonical, nested and repeated blocks.              *)
EXTENDS AddressPlan, TLC

P(b1, b2, b3, b4, bits) == [addr |-> <<b1, b2, b3, b4>>, bits |-> bits]

MCPrivateRanges == {P(0, 0, 0, 0, 1), P(1, 1, 0, 0, 3)}

MCInputs ==
    {<<P(0, 0, 1, 1, 3)>>,                                        \* host bits set
     <<P(0, 1, 0, 0, 4), P(0, 0, 1, 1, 4)>>,                      \* within the first one
     <<P(0, 1, 0, 0, 3), P(1, 1, 0, 1, 3)>>,
     <<P(0, 1, 0, 0, 4), P(1, 1, 0, 0, 3), P(0, 1, 0, 1, 3)>>,    \* first and third overlap
     <<P(1, 0, 0, 0, 3)>>,                                        \* public
     <<P(0, 0, 0, 0, 2)>>,                                        \* too short
     <<>>}

MCSymmetry == Permutations(VPCIds) \cup Permutations(Requests)
=============================================================================
