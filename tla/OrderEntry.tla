----------------------------- MODULE OrderEntry -----------------------------
(***************************************************************************)
(* Buying a position (bot/execution_engine.py, execute_entry): the orders  *)
(* of one call, which the ExecutionStateController                         *)
(* (bot/execution_state_controller.py) repeats by the category that        *)
(* bot/kraken_error_taxonomy.py gives to the text of a failure.            *)
(*                                                                         *)
(* The operators here are the entry's part of a step; PositionExit         *)
(* composes them with the record of the position and with its exits.       *)
(***************************************************************************)
EXTENDS Integers

CONSTANTS
  Size,         \* units that an entry buys
  max_retries   \* of each category that is tried again

RETRY == {"NONCE", "NETWORK"}
BACKOFF == {"RATE_LIMIT", "SERVICE"}
\* AUTH, PERMISSION, FUNDS, ORDER and UNKNOWN are one: the controller halts or fails.
Categories == RETRY \cup BACKOFF \cup {"STOP"}

ASSUME SizeAssumption == Size \in Nat
ASSUME RetriesAssumption == max_retries \in [RETRY \cup BACKOFF -> Nat]

VARIABLES
  held,   \* units in the account at the exchange
  resting, \* units of limit orders that the exchange accepted and has not filled
  entry,  \* the call of execute_entry that is under way, with its controller
  \* history
  sunk,   \* units that entries bought and did not record
  lost    \* orders of the latest entry that bought them, until it makes a record

entryVars == <<resting, entry, sunk, lost>>

EntryPCs == {"none", "submitting", "limit", "fallback", "bought"}
NoEntry == [pc |-> "none", retry_count |-> 0, backoff_count |-> 0]

EntryInit ==
  /\ held = 0
  /\ resting = 0
  /\ entry = NoEntry
  /\ sunk = 0
  /\ lost = 0

EntryTypeOK ==
  /\ held \in Int
  /\ resting \in Nat
  /\ entry \in [pc : EntryPCs, retry_count : Nat, backoff_count : Nat]
  /\ sunk \in Nat
  /\ lost \in Nat

EntryGo(pc) == entry' = [entry EXCEPT !.pc = pc]

Sink ==
  /\ sunk' = sunk + Size
  /\ lost' = lost + 1

-----------------------------------------------------------------------------
\* A market order goes through the controller; a limit order goes to the broker,
\* and has one market order to fall back on.
Submit(pc) ==
  /\ entry.pc = "none"
  /\ entry' = [NoEntry EXCEPT !.pc = pc]
  /\ lost' = 0
  /\ UNCHANGED <<held, resting, sunk>>

\* The order was filled.
Bought ==
  /\ entry.pc \in {"submitting", "limit", "fallback"}
  /\ held' = held + Size
  /\ EntryGo("bought")
  /\ UNCHANGED <<resting, sunk, lost>>

\* An open limit order passes for a purchase.
Accepted ==
  /\ entry.pc = "limit"
  /\ resting' = resting + Size
  /\ EntryGo("bought")
  /\ UNCHANGED <<held, sunk, lost>>

\* External: an open limit order is filled, whatever became of its record.
RestingFills ==
  /\ resting # 0 /\ Size <= resting
  /\ resting' = resting - Size
  /\ held' = held + Size
  /\ UNCHANGED <<entry, sunk, lost>>

\* The answer is a failure.  The order may have been filled all the same, or be
\* filled later by the worker whose acknowledgement timed out.
Failed(filled) ==
  /\ \/ ~filled /\ UNCHANGED <<held, sunk, lost>>
     \/ filled /\ Sink /\ held' = held + Size
  /\ UNCHANGED resting

\* External: of an order that it refuses for its nonce or its rate limits, the
\* exchange fills nothing.
Doubtful == Categories \ {"NONCE", "RATE_LIMIT"}

Limit(category) == IF max_retries[category] > 1 THEN max_retries[category] ELSE 1

\* Mutant of Retry: one retry too many.
RetryOnceMore(category) ==
  /\ category \in RETRY
  /\ entry.retry_count <= Limit(category)
  /\ entry' = [entry EXCEPT !.retry_count = @ + 1]

Retry(category) ==
  /\ category \in RETRY
  /\ entry.retry_count < Limit(category)
  /\ entry' = [entry EXCEPT !.retry_count = @ + 1]

BackOff(category) ==
  /\ category \in BACKOFF
  /\ entry.backoff_count < Limit(category)
  /\ entry' = [entry EXCEPT !.backoff_count = @ + 1]

\* Both counters are the controller's, shared by the categories of their policy.
Exhausted(category) ==
  /\ category \in RETRY => entry.retry_count >= Limit(category)
  /\ category \in BACKOFF => entry.backoff_count >= Limit(category)

GiveUp(category) == Exhausted(category) /\ entry' = NoEntry

SubmitFails(category, filled) ==
  /\ entry.pc = "submitting"
  /\ filled => category \in Doubtful
  /\ Failed(filled)
  /\ Retry(category) \/ BackOff(category) \/ GiveUp(category)

LimitFails(filled) ==
  /\ entry.pc = "limit"
  /\ Failed(filled)
  /\ EntryGo("fallback")

FallbackFails(filled) ==
  /\ entry.pc = "fallback"
  /\ Failed(filled)
  /\ entry' = NoEntry

\* No order id, no fill price, or a bad price and a sale that failed too:
\* execute_entry returns nothing, and records nothing.
Discard ==
  /\ entry.pc = "bought"
  /\ Sink
  /\ entry' = NoEntry
  /\ UNCHANGED <<held, resting>>

\* _close_bad_entry: a bad price is sold at once.
CloseBadEntry ==
  /\ entry.pc = "bought"
  /\ held' = held - Size
  /\ entry' = NoEntry
  /\ UNCHANGED <<resting, sunk, lost>>

Purchase ==
  \/ Bought \/ Accepted \/ Discard \/ CloseBadEntry
  \/ \E filled \in BOOLEAN :
       \/ \E category \in Categories : SubmitFails(category, filled)
       \/ LimitFails(filled) \/ FallbackFails(filled)

-----------------------------------------------------------------------------
(* Properties.                                                             *)

\* One call of execute_entry buys at most one position more than one category's
\* retries and one category's back-offs together, however failures of different
\* categories, each with a limit of its own, follow each other on the two shared
\* counters, and whatever the last answer hides.
LostBounded ==
  \E r \in RETRY, b \in BACKOFF : lost <= 1 + Limit(r) + Limit(b)
=============================================================================
