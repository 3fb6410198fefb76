---------------------------- MODULE PositionExit ----------------------------
(***************************************************************************)
(* Selling the position of one symbol (bot/execution_engine.py): the marks *)
(* that are to keep two exits apart, the engine's record of what is left,  *)
(* and what the exchange account really holds.                             *)
(*                                                                         *)
(* The calls of execute_exit come from threads that interleave at every    *)
(* lock window, and around the order pipeline, which answers for an order  *)
(* whose acknowledgement timed out while that order may still fill.  The   *)
(* check and the setting of a mark are separate lock windows, so that two  *)
(* exits may cross; crossed remembers that they did, and the properties    *)
(* say what holds as long as they have not.  The position is bought by the *)
(* orders of OrderEntry.                                                   *)
(***************************************************************************)
EXTENDS OrderEntry

CONSTANTS
  Exiters,     \* threads that manage the position
  DustLimit,   \* fewer units than these are worth less than 5 USD
  MaxEntries,  \* bound: calls of execute_entry
  MaxLate,     \* bound: units sold by orders that were reported as failed
  MaxBought    \* bound: units that entries, orders without a record and orders not
               \* yet filled may buy for a position to be recorded

ASSUME DustLimitAssumption == DustLimit \in Nat \ {0}
ASSUME MaxEntriesAssumption == MaxEntries \in Nat

VARIABLES
  tracked,    \* self.positions[symbol]: which position object, 0 if none
  opened,     \* calls of execute_entry so far; the i-th makes position object i
  remaining,  \* remaining[i]: position_size * remaining_size of object i
  closing,    \* symbol \in self.closing_positions
  active,     \* symbol \in self.active_exit_orders
  exit,       \* exit[t]: the call of execute_exit that t is in
  late,       \* an order, reported as failed, that may yet fill
  \* history
  crossed,    \* two threads worked on the position at once, or one removed the
              \* closing mark of the other
  adrift,     \* units that decisions took off the record before their sale, until
              \* exits crossed
  unreported  \* units sold by orders that were reported as failed

vars == <<tracked, opened, remaining, closing, active, exit, held, late,
          crossed, adrift, unreported, entryVars>>

Shares == {"all", "half"}
PCs == {"idle", "asked", "checked", "free", "found", "sized", "marking", "marked",
        "filled", "closed", "unmarking", "releasing", "raised", "reraised",
        "caught", "clearing"}
Positions == 1 .. MaxEntries
Exit == [pc: PCs, share: Shares, position: 0 .. MaxEntries, order: Nat]
Idle == [pc |-> "idle", share |-> "all", position |-> 0, order |-> 0]
Asked(share) == [pc |-> "asked", share |-> share, position |-> 0, order |-> 0]

\* The part of r units that an exit of size_pct share sells.
Part(r, share) == IF share = "all" THEN r ELSE r \div 2

Recorded == IF tracked = 0 THEN 0 ELSE remaining[tracked]

Init ==
  /\ EntryInit
  /\ tracked = 0
  /\ opened = 0
  /\ remaining = [i \in Positions |-> 0]
  /\ closing = FALSE
  /\ active = FALSE
  /\ exit = [t \in Exiters |-> Idle]
  /\ late = 0
  /\ crossed = FALSE
  /\ adrift = 0
  /\ unreported = 0

Go(t, pc) == exit' = [exit EXCEPT ![t].pc = pc]
Return(t) == exit' = [exit EXCEPT ![t] = Idle]
\* On the way out: the locals of the call are not read any more.
Leave(t, pc) == exit' = [exit EXCEPT ![t] = [Idle EXCEPT !.pc = pc]]

\* Between its check of closing_positions and its own mark.
Unmarked(t) == exit[t].pc \in {"checked", "free", "found", "sized"}
\* Between its own mark and its removal.
Marked(t) ==
  exit[t].pc \in {"marking", "marked", "filled", "closed", "unmarking", "raised"}
\* Has read the record for its order, and not yet written it.
Exposed(t) == exit[t].pc \in {"sized", "marking", "marked", "filled"}

history == <<crossed, adrift, unreported>>
books == <<tracked, opened, remaining, held, late>>
marks == <<closing, active>>

-----------------------------------------------------------------------------
(* What leads to an exit.                                                  *)

\* An entry is only considered without a position.
Enter(pc) ==
  /\ tracked = 0
  /\ opened < MaxEntries
  /\ opened' = opened + 1
  /\ Submit(pc)
  /\ UNCHANGED <<tracked, remaining, late, exit, marks, history>>

\* execute_entry records the position it bought.  Bound: MaxBought.
RecordEntry ==
  /\ entry.pc = "bought"
  /\ sunk + resting + opened * Size <= MaxBought
  /\ tracked' = opened
  /\ remaining' = [remaining EXCEPT ![opened] = Size]
  /\ entry' = NoEntry
  /\ lost' = 0
  /\ UNCHANGED <<opened, held, late, exit, marks, history, resting, sunk>>

\* What execute_entry does after its first window, to its end.
EntryStep ==
  \/ RecordEntry
  \/ Purchase /\ UNCHANGED <<tracked, opened, remaining, late, exit, marks, history>>

\* A stop, a take-profit level or an exit signal.
Ask(t, share) ==
  /\ exit[t].pc = "idle"
  /\ tracked # 0
  /\ exit' = [exit EXCEPT ![t] = Asked(share)]
  /\ UNCHANGED <<books, marks, history>>

\* check_stepped_profit_exits: a profit level ("half") or profit protection
\* ("all") takes its part off the record, before execute_exit is called for it.
TakeProfit(t, share) ==
  LET part == Part(Recorded, share) IN
  /\ exit[t].pc = "idle"
  /\ tracked # 0
  /\ exit' = [exit EXCEPT ![t] = Asked(share)]
  /\ remaining' = [remaining EXCEPT ![tracked] = @ - part]
  /\ crossed' = (crossed \/ \E u \in Exiters : Exposed(u))
  /\ adrift' = IF crossed' THEN adrift ELSE adrift + part
  /\ UNCHANGED <<tracked, opened, held, late, marks, unreported>>

-----------------------------------------------------------------------------
(* execute_exit up to its order.                                           *)

\* Mutant: the check of closing_positions is left out.
IgnoreClosing(t) ==
  /\ exit[t].pc = "asked"
  /\ Go(t, "checked")
  /\ crossed' = (crossed \/ \E u \in Exiters : Unmarked(u))
  /\ UNCHANGED <<books, marks, adrift, unreported>>

CheckClosing(t) ==
  /\ exit[t].pc = "asked"
  /\ IF closing
     THEN Return(t) /\ UNCHANGED crossed
     ELSE /\ Go(t, "checked")
          /\ crossed' = (crossed \/ \E u \in Exiters : Unmarked(u))
  /\ UNCHANGED <<books, marks, adrift, unreported>>

CheckActive(t) ==
  /\ exit[t].pc = "checked"
  /\ IF active THEN Return(t) ELSE Go(t, "free")
  /\ UNCHANGED <<books, marks, history>>

FindPosition(t) ==
  /\ exit[t].pc = "free"
  /\ IF tracked = 0 THEN Return(t) ELSE Go(t, "found")
  /\ UNCHANGED <<books, marks, history>>

\* Fetch the position, refuse dust, size the order.  A position that went away
\* raises a KeyError, which the outer handler catches.
ReadPosition(t) ==
  /\ exit[t].pc = "found"
  /\ IF tracked = 0 THEN Leave(t, "caught")
     ELSE IF Recorded < DustLimit THEN Return(t)
     ELSE exit' = [exit EXCEPT ![t].pc = "sized", ![t].position = tracked,
                               ![t].order = Part(Recorded, exit[t].share)]
  /\ UNCHANGED <<books, marks, history>>

\* Mutant: the symbol is not added to closing_positions.
LeaveUnmarked(t) ==
  /\ exit[t].pc = "sized"
  /\ Go(t, "marking")
  /\ UNCHANGED <<closing, active, books, history>>

MarkClosing(t) ==
  /\ exit[t].pc = "sized"
  /\ closing' = TRUE
  /\ Go(t, "marking")
  /\ UNCHANGED <<active, books, history>>

MarkActive(t) ==
  /\ exit[t].pc = "marking"
  /\ active' = TRUE
  /\ Go(t, "marked")
  /\ UNCHANGED <<closing, books, history>>

-----------------------------------------------------------------------------
(* The answer of the pipeline.                                             *)

\* The order was filled, or the reconciliation after a timeout found it filled.
Fill(t) ==
  /\ exit[t].pc = "marked"
  /\ held' = held - exit[t].order
  /\ Go(t, "filled")
  /\ UNCHANGED <<tracked, opened, remaining, late, marks, history>>

\* Mutant: a refusal is taken for a fill.
RefusedAsFilled(t) ==
  /\ exit[t].pc = "marked"
  /\ Go(t, "filled")
  /\ UNCHANGED <<books, marks, history>>

\* Mutant: a refusal returns with the marks set.
RefuseKeepsMarks(t) ==
  /\ exit[t].pc = "marked"
  /\ Return(t)
  /\ UNCHANGED <<books, marks, history>>

\* A gate, the order compiler or the exchange refused the order.
Refuse(t) ==
  /\ exit[t].pc = "marked"
  /\ Leave(t, "unmarking")
  /\ UNCHANGED <<books, marks, history>>

\* No acknowledgement in time and no proof of a fill: reported as rejected while
\* the worker thread goes on.  Bound: one undecided order at a time, MaxLate.
AckTimeout(t) ==
  /\ exit[t].pc = "marked"
  /\ late = 0
  /\ unreported + exit[t].order <= MaxLate
  /\ late' = exit[t].order
  /\ Leave(t, "unmarking")
  /\ UNCHANGED <<tracked, opened, remaining, held, marks, history>>

\* Mutant: the exception leaves execute_exit without its handlers.
RaiseUncaught(t) ==
  /\ exit[t].pc = "marked"
  /\ Return(t)
  /\ UNCHANGED <<books, marks, history>>

\* The submission raised, or what follows a record written down to nothing.
Raise(t) ==
  /\ exit[t].pc \in {"marked", "closed"}
  /\ Leave(t, "raised")
  /\ UNCHANGED <<books, marks, history>>

\* The answer to a filled order raised on its way to the record.  Bound: MaxLate.
RaiseFilled(t) ==
  /\ exit[t].pc = "filled"
  /\ late + unreported + exit[t].order <= MaxLate
  /\ unreported' = unreported + exit[t].order
  /\ Leave(t, "raised")
  /\ UNCHANGED <<books, marks, crossed, adrift>>

\* External: the exchange decides on the timed-out order.
SettleLate(filled) ==
  /\ late # 0
  /\ late' = 0
  /\ held' = IF filled THEN held - late ELSE held
  /\ unreported' = IF filled THEN unreported + late ELSE unreported
  /\ UNCHANGED <<tracked, opened, remaining, exit, marks, crossed, adrift>>

-----------------------------------------------------------------------------
(* execute_exit after its order.                                           *)

\* Mutant: the order is subtracted from whatever the record says by now.
SubtractOrder(t) ==
  LET i == exit[t].position IN
  /\ exit[t].pc = "filled"
  /\ remaining' = [remaining EXCEPT ![i] = @ - exit[t].order]
  /\ IF remaining[i] = exit[t].order THEN Go(t, "closed") ELSE Leave(t, "unmarking")
  /\ UNCHANGED <<tracked, opened, held, late, marks, history>>

\* remaining_size *= 1 - size_pct; an empty position is closed.
Apply(t) ==
  LET i == exit[t].position
      left == remaining[i] - Part(remaining[i], exit[t].share)
  IN
  /\ exit[t].pc = "filled"
  /\ remaining' = [remaining EXCEPT ![i] = left]
  /\ IF left = 0 THEN Go(t, "closed") ELSE Leave(t, "unmarking")
  /\ UNCHANGED <<tracked, opened, held, late, marks, history>>

\* close_position deletes by symbol.
Flush(t) ==
  /\ exit[t].pc = "closed"
  /\ tracked' = 0
  /\ Leave(t, "unmarking")
  /\ UNCHANGED <<opened, remaining, held, late, marks, history>>

\* The end of the call ("unmarking"), the handler around the order ("raised")
\* and the outer handler ("caught") each remove both marks.
DropClosing(t) ==
  /\ \/ exit[t].pc = "unmarking" /\ Go(t, "releasing")
     \/ exit[t].pc = "raised" /\ Go(t, "reraised")
     \/ exit[t].pc = "caught" /\ Go(t, "clearing")
  /\ closing' = FALSE
  /\ crossed' = (crossed \/ (closing /\ \E u \in Exiters \ {t} : Marked(u)))
  /\ UNCHANGED <<active, books, adrift, unreported>>

\* The handler around the order raises once more, into the outer handler.
DropActive(t) ==
  /\ \/ exit[t].pc \in {"releasing", "clearing"} /\ Return(t)
     \/ exit[t].pc = "reraised" /\ Go(t, "caught")
  /\ active' = FALSE
  /\ UNCHANGED <<closing, books, history>>

-----------------------------------------------------------------------------
Submission(t) ==
  CheckClosing(t) \/ CheckActive(t) \/ FindPosition(t) \/ ReadPosition(t)
  \/ MarkClosing(t) \/ MarkActive(t)

Answer(t) == Fill(t) \/ Refuse(t) \/ AckTimeout(t) \/ Raise(t) \/ RaiseFilled(t)

Settlement(t) == Apply(t) \/ Flush(t) \/ DropClosing(t) \/ DropActive(t)

ExitStep(t) ==
  (Submission(t) \/ Answer(t) \/ Settlement(t)) /\ UNCHANGED entryVars

Request(t, share) == (Ask(t, share) \/ TakeProfit(t, share)) /\ UNCHANGED entryVars

Next ==
  \/ \E pc \in {"submitting", "limit"} : Enter(pc)
  \/ EntryStep
  \/ \E filled \in BOOLEAN : SettleLate(filled) /\ UNCHANGED entryVars
  \/ RestingFills /\ UNCHANGED <<tracked, opened, remaining, late, exit, marks, history>>
  \/ \E t \in Exiters :
       ExitStep(t) \/ \E share \in Shares : Request(t, share)

Spec == Init /\ [][Next]_vars

\* A thread in execute_exit goes on: its locks are held for a moment only, and the
\* pipeline answers at the latest when the acknowledgement times out.
FairSpec == Spec /\ \A t \in Exiters : WF_vars(ExitStep(t))

-----------------------------------------------------------------------------
(* Properties.                                                             *)

\* Every variable has its type; in particular the record of a position never
\* becomes negative, and an undecided order is one the thread really sent.
TypeOK ==
  /\ EntryTypeOK
  /\ opened \in 0 .. MaxEntries
  /\ tracked \in 0 .. opened
  /\ remaining \in [Positions -> 0 .. Size]
  /\ closing \in BOOLEAN /\ active \in BOOLEAN
  /\ exit \in [Exiters -> Exit]
  /\ late \in Nat
  /\ crossed \in BOOLEAN
  /\ adrift \in Nat /\ unreported \in Nat
  /\ \A t \in Exiters : exit[t].pc \in {"sized", "marking", "marked", "filled", "closed"}
       => exit[t].position # 0

\* What is left of "Atomic position close lock to prevent double-sells": two
\* orders of the symbol are out at once only after two calls passed the check
\* before either had set its mark, or after an exception handler removed the
\* mark of a call it does not belong to.
OneExitAtATime ==
  \A t, u \in Exiters : t # u /\ Marked(t) /\ Marked(u) => crossed

\* A symbol stays marked only while a call is under way that will unmark it, on
\* every path through the two exception handlers: no exit blocks the later ones.
MarksHaveOwner ==
  /\ closing => \E t \in Exiters : Marked(t)
  /\ active => \E t \in Exiters : exit[t].pc \in
       {"marked", "filled", "closed", "unmarking", "releasing", "raised", "reraised"}

\* Between exits and purchases, the account holds what the engine records, plus
\* exactly what profit decisions took off the record without selling it and what
\* entries bought without recording it, minus exactly what orders sold that were
\* reported as failed and what limit orders were accepted for but have not bought.
Accounted ==
  (\A t \in Exiters : exit[t].pc # "filled") /\ entry.pc # "bought" =>
    crossed \/ held = Recorded + adrift + sunk - resting - unreported

\* close_position removes the position that was sold, not one that was opened
\* for the symbol since.
ClosesWhatItSold ==
  \A t \in Exiters :
    exit[t].pc = "closed" => crossed \/ exit[t].position = tracked

\* A closing mark is removed in the end, however the exits overlap and whatever
\* the pipeline answers: the symbol can be sold again.
MarkCleared == closing ~> ~closing
=============================================================================
