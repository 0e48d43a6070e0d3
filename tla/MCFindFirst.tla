---------------------------- MODULE MCFindFirst ----------------------------
(* FindFirst over every ordered directory of at most MaxFiles files, every   *)
(* timestamp at, between and outside their starts.                           *)
EXTENDS FindFirst

CONSTANT MaxFiles

MCInit == /\ mins \in UNION {[1..n -> Timestamps] : n \in 0..MaxFiles}
          /\ InOrder(mins)
          /\ timestamp \in Timestamps
          /\ left = 0
          /\ middle = 0
          /\ right = Len(mins)
          /\ phase = "searching"

MCSpec == MCInit /\ [][SearchNext]_searchVars /\ WF_searchVars(SearchOnce)
=============================================================================
