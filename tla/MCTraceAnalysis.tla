-------------------------- MODULE MCTraceAnalysis --------------------------
(* The ids of queries: a behaviour either follows two queries into the     *)
(* files and their analysis (TraceAnalysis) or draws the ids of two        *)
(* clients, past the wrap of the query number (UidSpace).                  *)
EXTENDS TraceAnalysis, TLC

CONSTANTS Clients, MaxNumber   \* of UidSpace

VARIABLES chosen, address, random, used

uidVars == <<address, random, used>>

Uids == INSTANCE UidSpace

Symmetry == Permutations(Queries)

(* A host, one whose address differs in a middle octet, and one whose      *)
(* address could not be read (`hostname -i` printed no IPv4 address).      *)
ThreeHosts ==
  {[is |-> [i \in 0..3 |-> IF i \in {0, 2} THEN 0 ELSE 1], random |-> 1],
   [is |-> [i \in 0..3 |-> IF i = 0 THEN 0 ELSE 1], random |-> 1],
   [is |-> [i \in 0..3 |-> 0], random |-> 0]}

EitherInit ==
  \/ /\ chosen = "analysis" /\ Init
     /\ address = <<>> /\ random = <<>> /\ used = <<>>
  \/ /\ chosen = "ids" /\ Uids!Init
     /\ host = <<>> /\ number = <<>> /\ pc = <<>> /\ over = <<>> /\ time = <<>>
     /\ clock = 0 /\ file = <<>>

EitherNext ==
  /\ UNCHANGED chosen
  /\ \/ chosen = "analysis" /\ Next /\ UNCHANGED uidVars
     \/ chosen = "ids" /\ Uids!Next /\ UNCHANGED vars

EitherSpec == EitherInit /\ [][EitherNext]_<<chosen, uidVars, vars>>

(* SpansTrue and PlottedAreQueries of TraceAnalysis                        *)
(* (data_analysis/plot_utils.py:22-37, 75-78, 97).                         *)
PlottedIsTrue == chosen = "analysis" => SpansTrue /\ PlottedAreQueries

(* UidsIdentify of UidSpace (src/shared/Utils.cpp:16-31).                  *)
UidsIdentify == chosen = "ids" => Uids!UidsIdentify
=============================================================================
