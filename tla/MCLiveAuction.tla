--------------------------- MODULE MCLiveAuction ---------------------------
(* Two halves of LiveAuction for TLC: one with two requests and much breaking, *)
(* one with many bids.                                                         *)
EXTENDS LiveAuction, TLC

VARIABLE half

Symmetry == Permutations(Instances) \cup Permutations(Conns) \cup Permutations(Clicks)

(* One bid commits and one own bid is under way; or one request is there at a  *)
(* time, and it breaks once before it comes back.                              *)
Within ==
  \/ half = "streams" /\ Cardinality(own) <= 1 /\ Cardinality(bids) <= 1
  \/ half = "bids" /\ reconnectingCount <= 1 /\ Cardinality({c \in Conns : conn[c] # NoConn}) <= 1

HalfInit == LiveInit /\ half \in {"streams", "bids"}
HalfNext == LiveNext /\ UNCHANGED half /\ Within'
HalfSpec == HalfInit /\ [][HalfNext]_<<liveVars, half>>
=============================================================================
