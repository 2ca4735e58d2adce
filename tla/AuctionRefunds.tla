--------------------------- MODULE AuctionRefunds ---------------------------
(***************************************************************************)
(* The backend of AuctionHouse with a record of the refunds that nobody    *)
(* will make any more.  A close leaves the losers' holds to a finalize in  *)
(* the memory of its process; a finalize that fails leaves them to a       *)
(* payload in the auction's row.  `lost` collects the bids of the finalizes*)
(* that were cut off before they had either, and those of the payloads     *)
(* that were erased once a sale had fallen through.  It is written here    *)
(* only to be named in the property: no step of the backend reads it.      *)
(***************************************************************************)
EXTENDS AuctionHouse

VARIABLE lost    \* bids whose refund was cut off or erased

(* The finalizes whose losers are known in memory only, ended by this step:    *)
(* the process stops, or the payload it has to write fails.                    *)
OnlyInMemory(f) == ~f.retry /\ f.step # "CLEAR"
CutOff ==
  UNION {f.losers : f \in {g \in finalizing :
                             OnlyInMemory(g) /\ (Crash \/ PayloadWriteFails(g))}}

(* The payloads this step takes out of the row of an auction whose order is    *)
(* cancelled: the reopening that cancels it, or any later close, deletion or   *)
(* finalize of that auction.                                                   *)
Erased ==
  UNION {(UNION auction[a].payload) \ (UNION auction'[a].payload) :
           a \in {x \in Auctions : order'[x].status = "CANCELLED"}}

RecordedNext == Next /\ lost' = lost \cup CutOff \cup Erased

RecordedSpec == Init /\ lost = {} /\ [][RecordedNext]_<<vars, lost>>

-----------------------------------------------------------------------------
(* A disqualified bid whose hold is not paid back is in the hands of a finalize *)
(* of its close that still runs or persists it, or in the payload of its        *)
(* auction - unless its process stopped, its payload could not be written, or   *)
(* its sale fell through.  No retry, payment, deletion, second finalize or      *)
(* close of the auction loses one otherwise.                                    *)
RefundsAreTracked ==
  \A b \in Bids : bid[b].status = "OUT" /\ b \in held \ released =>
    \/ \E f \in finalizing : b \in f.losers /\ OnlyInMemory(f)
    \/ b \in UNION auction[bid[b].auction].payload
    \/ b \in lost
=============================================================================
