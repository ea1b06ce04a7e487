------------------------------ MODULE UidSpace ------------------------------
(***************************************************************************)
(* Clients (src/Client/Client.cpp) that draw the ids of their queries      *)
(* 0, 1, 2, ... (QueryUid), each with an address and random bits of its    *)
(* own: clients started in the same second have the same random bits       *)
(* (srand(time)).  Bound: MaxNumber queries of a client.                   *)
(***************************************************************************)
EXTENDS QueryUid, Sequences, Functions

CONSTANTS Clients, MaxNumber

VARIABLES
  address,   \* address[c], as is[0..3]
  random,
  used       \* used[c]: the ids of c's queries so far, in order

vars == <<address, random, used>>

Init ==
  /\ address \in [Clients -> [0..3 -> Octets]]
  /\ random \in [Clients -> Randoms]
  /\ used = [c \in Clients |-> <<>>]

local_uid(c) == generate_local_uid(address[c], random[c])

Query(c) ==
  /\ Len(used[c]) < MaxNumber
  /\ used' = [used EXCEPT ![c] = Append(@, get_query_uid(local_uid(c), Len(@)))]
  /\ UNCHANGED <<address, random>>

Next == \E c \in Clients : Query(c)

Spec == Init /\ [][Next]_vars
-----------------------------------------------------------------------------
Ids(c) == Range(used[c])

(* plot_utils.py:28-29 finds every query under the client it is of, also   *)
(* when its number does not fit (Utils.cpp:29 cuts it), and finds the      *)
(* number of one that fits.                                                *)
RoundTrip ==
  \A c \in Clients : \A i \in DOMAIN used[c] :
    /\ client_uid(used[c][i]) = client_uid(local_uid(c))
    /\ i - 1 < NumberSize => query_index(used[c][i]) = i - 1

(* The id of a query comes again only after 2^28 queries of its client.    *)
RepeatsLate ==
  \A c \in Clients : \A i, j \in DOMAIN used[c] :
    used[c][i] = used[c][j] => (i - j) % NumberSize = 0

(* Clients whose addresses differ in the first or the last octet, or whose *)
(* random bits differ, never share an id, however many queries they make.  *)
(* Two hosts of one network whose middle octets differ may (Utils.cpp:20). *)
DistinctHosts ==
  \A c, d \in Clients :
    \/ Ids(c) \cap Ids(d) = {}
    \/ address[c][3] = address[d][3] /\ address[c][0] = address[d][0] /\ random[c] = random[d]

(* An id tells its query from the others as far as its bits go.            *)
UidsIdentify == RoundTrip /\ RepeatsLate /\ DistinctHosts
=============================================================================
