--------------------------- MODULE CurrencyRates ----------------------------
(***************************************************************************)
(* The exchange-rate snapshot of services/currency_rates.py: a JSON file   *)
(* read for every conversion, fetched anew when it is older than its time  *)
(* to live, used in spite of its age when the provider cannot be reached.  *)
(* The calls block the event loop, so no other turn runs between the read  *)
(* and the write.  Time is in units of which TTL make a snapshot old.      *)
(***************************************************************************)
EXTENDS Integers

CONSTANTS
    RateTables,   \* what a fetch may return: [currency -> quote], 0 for none
    TTL           \* FX_CACHE_TTL_DAYS

ASSUME CurrencyAssumption == TTL \in Nat \ {0}

VARIABLES
    cache,        \* the file: {} when it is missing or no JSON, else {[at, rates]} or {Malformed}
    now           \* _utc_now()

rateVars == <<cache, now>>

SnapshotIsFresh(s) == now - s.at < TTL

(* JSON that is not what the program writes, a list say. *)
Malformed == [shape |-> "list"]

Parsed == cache \ {Malformed}

(* Mutant: a snapshot never grows old. *)
CachedOfAnyAge == Parsed

FreshSnapshots == {s \in Parsed : SnapshotIsFresh(s)}

(* get_fx_snapshot: the snapshot to convert with, {} when there is none,  *)
(* and what it leaves in the file.                                         *)
Got(s, stale, file) == [snapshot |-> {[at |-> s.at, rates |-> s.rates, stale |-> stale]}, file |-> file]

Cached == {Got(s, FALSE, cache) : s \in FreshSnapshots}

Fetched ==
    {Got(s, FALSE, {s}) : s \in {[at |-> now, rates |-> t] : t \in {u \in RateTables : Parsed = cache /\ FreshSnapshots = {}}}}

Unreachable ==
    CASE FreshSnapshots # {} \/ Parsed # cache -> {}
      [] cache = {} -> {[snapshot |-> {}, file |-> {}]}
      [] OTHER -> {Got(s, TRUE, cache) : s \in cache}

(* _load_cached_snapshot catches what json.loads raises, and not what      *)
(* _parse_snapshot does; and _save_snapshot raises out of get_fx_snapshot. *)
(* A write cut short leaves a file that cannot be read.                    *)
SnapshotRaises ==
    /\ FreshSnapshots = {}
    /\ cache' \in IF Parsed = cache THEN {cache, {}} ELSE {cache}

(* convert_amount_to_usd: no snapshot or no quote, no amount. *)
QuotesOf(snapshot, currency) ==
    {[quote |-> s.rates[currency], age |-> now - s.at, stale |-> s.stale] :
        s \in {t \in snapshot : t.rates[currency] # 0}}
=============================================================================
