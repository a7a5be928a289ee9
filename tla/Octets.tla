------------------------------- MODULE Octets -------------------------------
(***************************************************************************)
(* Octets, and numbers in network byte order: htonl and ntohl of the C     *)
(* library, as util/tokens.c and the parsers of the server use them.       *)
(***************************************************************************)
EXTENDS Integers, Sequences

CONSTANTS
  ByteBase,    \* values of an octet: 256 in the program
  LengthSize   \* octets of a number: sizeof(OM_uint32)

ASSUME OctetsAssumption == ByteBase \in Nat \ {0, 1} /\ LengthSize \in Nat \ {0}

Octet == 0 .. ByteBase - 1

\* Shifted(n)[k] is n without its k lowest octets.
Shifted(n) ==
  LET shift[k \in 0 .. LengthSize] ==
        IF k = 0 THEN n ELSE shift[k - 1] \div ByteBase
  IN  shift

\* n fits into a number.
Representable(n) == Shifted(n)[LengthSize] = 0

\* The octets of n, the highest first.
Htonl(n) ==
  [i \in 1 .. LengthSize |-> Shifted(n)[LengthSize - i] % ByteBase]

Ntohl(octets) ==
  LET value[k \in 0 .. Len(octets)] ==
        IF k = 0 THEN 0 ELSE value[k - 1] * ByteBase + octets[k]
  IN  value[Len(octets)]

=============================================================================
