------------------------------ MODULE QueryUid ------------------------------
(***************************************************************************)
(* The ids of queries (src/shared/Utils.cpp, as built without LOCALHOST)   *)
(* and how data_analysis/plot_utils.py takes them apart.  An id is a word  *)
(* of four octets, random bits and the number of the query; shifts are     *)
(* products and quotients, and ORs of parts that have no bit in common are *)
(* sums.  A part is given by how many values it has: in the code an octet  *)
(* has 2^8, the random bits 2^4, the number 2^28.                          *)
(***************************************************************************)
EXTENDS Integers

CONSTANTS OctetSize, RandomSize, NumberSize

ASSUME SizeAssumption ==
  OctetSize \in Nat \ {0} /\ RandomSize \in Nat \ {0} /\ NumberSize \in Nat \ {0}

Octets  == 0..OctetSize - 1
Randoms == 0..RandomSize - 1

(* Mutant: the random bits are not added below the address but into it.    *)
generate_local_uid_mixed(is, random) ==
  LET ip == (((is[3] * OctetSize) + is[3]) * OctetSize + is[3]) * OctetSize + is[0]
  IN  (ip + random) * NumberSize

(* is[3] is the first octet of the address and is[0] the last; is[3]       *)
(* stands for the second and the third, too.                               *)
generate_local_uid(is, random) ==
  LET ip == (((is[3] * OctetSize) + is[3]) * OctetSize + is[3]) * OctetSize + is[0]
  IN  ((ip * RandomSize) + random) * NumberSize

get_query_uid(local_uid, query_number) == local_uid + (query_number % NumberSize)

client_uid(query_uid)  == query_uid \div NumberSize
query_index(query_uid) == query_uid % NumberSize
=============================================================================
