-------------------------------- MODULE Venue --------------------------------
(***************************************************************************)
(* One instrument of one broker account, as the T-Invest adapter           *)
(* (server/app/execution/venues/tinvest.py) sees it: the entry order, the  *)
(* protective stop orders and the emergency order of ONE intent.  The      *)
(* broker itself is external; what the adapter asks it and how it reads an *)
(* answer is the adapter's code.                                           *)
(*                                                                         *)
(* The position is long; a short one is the mirror image.  Quantities are  *)
(* whole lots.                                                             *)
(***************************************************************************)
EXTENDS Integers, FiniteSets, FiniteSetsExt, Functions

CONSTANTS
  Planned,      \* lots of the entry order (planned_quantity = quantity_lots)
  StopIds,      \* ids the broker can give to stop orders: it refuses more
  NoStop,       \* "no provider_order_id" of a protection row
  VenueMay      \* what this broker may do, a subset of VenueFreedoms

VenueFreedoms ==
  { "DELAY",      \* a request whose answer was lost may arrive later
    "TRIGGER",    \* the price may reach a stop, which then sells its lots
    "DROP_STOP",  \* the broker may drop a working stop
    "END_ORDER" } \* the broker may cancel or reject an order that is not filled

ASSUME VenueAssumption ==
  /\ Planned \in Nat \ {0}
  /\ IsFiniteSet(StopIds) /\ NoStop \notin StopIds
  /\ VenueMay \subseteq VenueFreedoms

VARIABLES
  entry,  \* the limit entry order: where it is and how many lots it filled
  stops,  \* the stop order behind each id: where it is and its lots
  flat    \* the market order of the emergency flatten

\* "late": sent, not yet at the broker; "live": working at the broker
OrderPlaces == {"none", "late", "live", "filled", "ended"}
StopPlaces == {"none", "late", "live", "triggered", "dropped"}

VenueTypeOK ==
  /\ entry \in [at : OrderPlaces, filled : 0 .. Planned]
  /\ stops \in [StopIds -> [at : StopPlaces, lots : 0 .. Planned]]
  /\ flat \in [at : OrderPlaces, lots : 0 .. Planned]

VenueInit ==
  /\ entry = [at |-> "none", filled |-> 0]
  /\ stops = [i \in StopIds |-> [at |-> "none", lots |-> 0]]
  /\ flat = [at |-> "none", lots |-> 0]

(* ----------------------------- the position ---------------------------- *)
StopsAt(p) == {i \in StopIds : stops[i].at = p}
LotsOf(ids) == MapThenSumSet(LAMBDA i : stops[i].lots, ids)
Sold == LotsOf(StopsAt("triggered")) + (IF flat.at = "filled" THEN flat.lots ELSE 0)
Position == entry.filled - Sold

(* --------------------- what the adapter reads back --------------------- *)
\* _get_order_state by request id: not found until the request has arrived
Known(order) == order.at \notin {"none", "late"}

\* _entry_status_is_terminal over the report statuses of an order
Terminal(order) == order.at \in {"filled", "ended"}

\* _active_stop_orders / _matching_stop_legs: working stops at the exact price
Legs == StopsAt("live")

(* reconcile_protection, given the lots that must be covered and the id the *)
(* protection row holds: the outcome and the id it names.                   *)
ReadProtection(lots, id) ==
  LET covered == LotsOf(Legs) IN
  CASE covered < lots -> [outcome |-> "MISSING", id |-> NoStop]
    [] covered > lots -> [outcome |-> "UNKNOWN", id |-> NoStop]
    [] covered = lots /\ id \in Legs -> [outcome |-> "MATCHED", id |-> id]
    [] covered = lots /\ id \notin Legs /\ (\E i \in StopIds : Legs = {i}) ->
         [outcome |-> "MATCHED", id |-> CHOOSE i \in StopIds : Legs = {i}]
    [] OTHER -> [outcome |-> "UNKNOWN", id |-> NoStop]

(* ------------------ what a call of the adapter changes ----------------- *)
(* A post either reaches the broker or not, and its answer reaches the     *)
(* adapter or not: the fates of a request whose answer is lost.            *)
Fates == {"never", "arrived"} \cup (IF "DELAY" \in VenueMay THEN {"late"} ELSE {})

\* The broker remembers the request id: posting an order again creates none.
Posted(order, fate, new) ==
  CASE fate = "never" \/ Known(order) -> order
    [] fate = "arrived" /\ ~Known(order) -> [new EXCEPT !.at = "live"]
    [] OTHER -> [new EXCEPT !.at = "late"]

PostEntry(fate) ==
  entry' = Posted(entry, fate, [at |-> "live", filled |-> 0])

PostFlat(lots, fate) ==
  flat' = Posted(flat, fate, [at |-> "live", lots |-> lots])

\* mutant: an expansion posts the whole target beside the working stops
NothingArmed(lots) == 0

(* arm_protection for a target of lots: from two lots on it reads the      *)
(* working stops and posts only the difference.  PostStop posts a new stop *)
(* (the production stop has no request id, so every post is a new order).  *)
AlreadyArmed(lots) == IF lots > 1 THEN LotsOf(Legs) ELSE 0

PostStop(id, lots, fate) ==
  /\ stops[id].at = "none"
  /\ stops' = IF fate = "never" THEN stops
              ELSE [stops EXCEPT ![id] =
                     [at |-> IF fate = "late" THEN "late" ELSE "live",
                      lots |-> lots]]

(* --------------------- what the broker does by itself ------------------ *)
EntryArrives ==
  /\ entry.at = "late"
  /\ entry' = [entry EXCEPT !.at = "live"]
  /\ UNCHANGED <<stops, flat>>

EntryFills ==
  /\ entry.at = "live" /\ entry.filled < Planned
  /\ entry' = [at |-> IF entry.filled + 1 = Planned THEN "filled" ELSE "live",
               filled |-> entry.filled + 1]
  /\ UNCHANGED <<stops, flat>>

EntryEnds ==
  /\ "END_ORDER" \in VenueMay
  /\ entry.at = "live"
  /\ entry' = [entry EXCEPT !.at = "ended"]
  /\ UNCHANGED <<stops, flat>>

StopArrives ==
  \E i \in StopsAt("late") :
    /\ stops' = [stops EXCEPT ![i].at = "live"]
    /\ UNCHANGED <<entry, flat>>

StopTriggers ==
  /\ "TRIGGER" \in VenueMay
  /\ \E i \in Legs : stops' = [stops EXCEPT ![i].at = "triggered"]
  /\ UNCHANGED <<entry, flat>>

StopDropped ==
  /\ "DROP_STOP" \in VenueMay
  /\ \E i \in Legs : stops' = [stops EXCEPT ![i].at = "dropped"]
  /\ UNCHANGED <<entry, flat>>

FlatArrives ==
  /\ flat.at = "late"
  /\ flat' = [flat EXCEPT !.at = "live"]
  /\ UNCHANGED <<entry, stops>>

FlatFills ==
  /\ flat.at = "live"
  /\ flat' = [flat EXCEPT !.at = "filled"]
  /\ UNCHANGED <<entry, stops>>

FlatEnds ==
  /\ "END_ORDER" \in VenueMay
  /\ flat.at = "live"
  /\ flat' = [flat EXCEPT !.at = "ended"]
  /\ UNCHANGED <<entry, stops>>

VenueNext ==
  \/ EntryArrives \/ EntryFills \/ EntryEnds
  \/ StopArrives \/ StopTriggers \/ StopDropped
  \/ FlatArrives \/ FlatFills \/ FlatEnds
=============================================================================
