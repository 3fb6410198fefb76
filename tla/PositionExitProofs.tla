------------------------- MODULE PositionExitProofs -------------------------
(***************************************************************************)
(* PositionExit keeps its types, its marks and, as long as no two exits    *)
(* have crossed, its books, for any set of threads, any size of a          *)
(* position, any number of entries and any number of retries; and what one *)
(* entry can lose is bounded by its retries.                               *)
(***************************************************************************)
EXTENDS PositionExit, TLAPS

Working(t) == Unmarked(t) \/ Marked(t)
\* Works on a position it has read.
Engaged(t) == Exposed(t) \/ exit[t].pc = "closed"

ExitsOK ==
  /\ exit \in [Exiters -> Exit]
  /\ \A t \in Exiters : Engaged(t) => exit[t].position # 0

BooksOK ==
  /\ opened \in 0 .. MaxEntries
  /\ tracked \in 0 .. opened
  /\ remaining \in [Positions -> 0 .. Size]
  /\ held \in Int
  /\ late \in Nat

NotesOK ==
  /\ closing \in BOOLEAN /\ active \in BOOLEAN
  /\ crossed \in BOOLEAN
  /\ adrift \in Nat /\ unreported \in Nat

\* The two counters stay within the limit of a category of their policy.
Tries ==
  /\ \E r \in RETRY : entry.retry_count <= Limit(r)
  /\ \E b \in BACKOFF : entry.backoff_count <= Limit(b)

\* Every order that an entry lost was counted, or was its limit order.
LossCounted ==
  /\ entry.pc = "submitting" => lost <= entry.retry_count + entry.backoff_count
  /\ entry.pc = "limit" => lost = 0
  /\ entry.pc = "fallback" => lost <= 1
  /\ entry.pc = "bought" => lost <= entry.retry_count + entry.backoff_count \/ lost <= 1

Losses == EntryTypeOK /\ Tries /\ LossCounted /\ LostBounded

\* An entry begins, and so stays, without a position.
EntryOK ==
  /\ Losses
  /\ entry.pc # "none" => tracked = 0 /\ opened \in Positions

\* Until exits cross, one thread at most is between its check and its unmarking,
Alone == \A t, u \in Exiters : Working(t) /\ Working(u) => crossed \/ t = u
\* its mark stands,
Guarded == \A t \in Exiters : Marked(t) => crossed \/ closing
\* and what it has read is still so.
OnTracked ==
  \A t \in Exiters : Engaged(t) => crossed \/ (tracked # 0 /\ exit[t].position = tracked)
OrderIsPart ==
  \A t \in Exiters : Exposed(t) =>
    crossed \/ exit[t].order = Part(remaining[exit[t].position], exit[t].share)
SoldOut ==
  \A t \in Exiters : exit[t].pc = "closed" => crossed \/ remaining[exit[t].position] = 0

\* What entries bought off the record, for good or for now, less what they have on
\* record and not yet bought.
Pending == IF entry.pc = "bought" THEN Size ELSE 0
Unrecorded == sunk + Pending - resting

\* The books between exits, and between a fill and its record.
Balance == Recorded + adrift + Unrecorded - unreported
Settled == (\A t \in Exiters : exit[t].pc # "filled") => crossed \/ held = Balance
InFlight ==
  \A t \in Exiters : exit[t].pc = "filled" => crossed \/ held = Balance - exit[t].order

Types == ExitsOK /\ BooksOK /\ NotesOK
Reading == OnTracked /\ OrderIsPart /\ SoldOut
Books == Settled /\ InFlight
Lonely == Alone /\ Guarded

IInv == Types /\ EntryOK /\ MarksHaveOwner /\ Lonely /\ Reading /\ Books

USE SizeAssumption, DustLimitAssumption, MaxEntriesAssumption

-----------------------------------------------------------------------------
(* How a step changes one call, and what an exit sells.                    *)

LEMMA PartBound ==
  ASSUME NEW r \in Nat, NEW share \in Shares
  PROVE  Part(r, share) \in 0 .. r
<1>1. CASE share = "all"  BY <1>1 DEF Part
<1>2. CASE share # "all"
  <2>1. r \div 2 \in 0 .. r  OBVIOUS
  <2> QED  BY <1>2, <2>1 DEF Part
<1> QED  BY <1>1, <1>2

LEMMA PartOfNothing ==
  ASSUME NEW share \in Shares
  PROVE  Part(0, share) = 0
BY PartBound

LEMMA RecordedType ==
  ASSUME BooksOK
  PROVE  Recorded \in 0 .. Size
BY DEF BooksOK, Recorded, Positions

LEMMA UnrecordedKept ==
  ASSUME EntryOK, UNCHANGED entryVars
  PROVE  Unrecorded' = Unrecorded /\ Unrecorded \in Int
BY DEF EntryOK, Losses, EntryTypeOK, entryVars, Unrecorded, Pending

LEMMA EntryKept ==
  ASSUME EntryOK, UNCHANGED entryVars, opened' = opened, held' \in Int,
         tracked' = tracked \/ tracked' = 0 \/ entry.pc = "none"
  PROVE  EntryOK'
<1>1. EntryTypeOK'  BY DEF EntryOK, Losses, EntryTypeOK, entryVars
<1>2. Tries' /\ LostBounded'
  BY DEF EntryOK, Losses, Tries, LostBounded, Limit, entryVars
<1>3. LossCounted'  BY DEF EntryOK, Losses, LossCounted, entryVars
<1>4. (entry.pc # "none" => tracked = 0 /\ opened \in Positions)'
  BY DEF EntryOK, entryVars, Positions
<1> QED  BY <1>1, <1>2, <1>3, <1>4 DEF EntryOK, Losses

\* The step is about the call of t.
OnlyCall(t) ==
  /\ exit' \in [Exiters -> Exit]
  /\ \A u \in Exiters \ {t} : exit'[u] = exit[u]

\* t keeps what it has read.
KeepsLocals(t) ==
  /\ exit'[t].share = exit[t].share
  /\ exit'[t].position = exit[t].position
  /\ exit'[t].order = exit[t].order

LEMMA GoCall ==
  ASSUME exit \in [Exiters -> Exit], NEW t \in Exiters, NEW pc \in PCs, Go(t, pc)
  PROVE  OnlyCall(t) /\ exit'[t].pc = pc /\ KeepsLocals(t)
BY DEF Go, Exit, OnlyCall, KeepsLocals

LEMMA LeaveCall ==
  ASSUME exit \in [Exiters -> Exit], NEW t \in Exiters, NEW pc \in PCs, Leave(t, pc)
  PROVE  OnlyCall(t) /\ exit'[t].pc = pc
BY DEF Leave, Exit, Idle, Shares, OnlyCall

LEMMA ReturnCall ==
  ASSUME exit \in [Exiters -> Exit], NEW t \in Exiters, Return(t)
  PROVE  OnlyCall(t) /\ exit'[t].pc = "idle"
BY DEF Return, Exit, Idle, Shares, PCs, OnlyCall

LEMMA AskCall ==
  ASSUME exit \in [Exiters -> Exit], NEW t \in Exiters, NEW share \in Shares,
         exit' = [exit EXCEPT ![t] = Asked(share)]
  PROVE  OnlyCall(t) /\ exit'[t].pc = "asked"
BY DEF Exit, Asked, PCs, OnlyCall

-----------------------------------------------------------------------------
(* What the steps have in common.                                          *)

NoteGrows == crossed' \in BOOLEAN /\ (crossed => crossed')

ActiveOwner(t) == exit[t].pc \in
  {"marked", "filled", "closed", "unmarking", "releasing", "raised", "reraised"}

LEMMA MarksKept ==
  ASSUME MarksHaveOwner, NEW t \in Exiters, OnlyCall(t), UNCHANGED marks,
         Marked(t) => Marked(t)', ActiveOwner(t) => ActiveOwner(t)'
  PROVE  MarksHaveOwner'
<1>1. \A u \in Exiters \ {t} : Marked(u)' = Marked(u) /\ ActiveOwner(u)' = ActiveOwner(u)
  BY DEF OnlyCall, Marked, ActiveOwner
<1>2. (closing => \E u \in Exiters : Marked(u))'
  BY <1>1 DEF MarksHaveOwner, marks
<1>3. active => \E u \in Exiters : ActiveOwner(u)
  BY DEF MarksHaveOwner, ActiveOwner
<1>4. (active => \E u \in Exiters : ActiveOwner(u))'
  BY <1>1, <1>3 DEF marks
<1> QED  BY <1>2, <1>4 DEF MarksHaveOwner, ActiveOwner

LEMMA LonelyKept ==
  ASSUME Lonely, NotesOK, NEW t \in Exiters, OnlyCall(t), NoteGrows,
         closing' = closing, Working(t)' => Working(t), Marked(t)' => Marked(t)
  PROVE  Lonely'
<1>1. \A u \in Exiters : Working(u)' => Working(u)
  BY DEF OnlyCall, Working, Marked, Unmarked
<1>2. \A u \in Exiters : Marked(u)' => Marked(u)
  BY DEF OnlyCall, Marked
<1>3. Alone'  BY <1>1 DEF Alone, Lonely, NoteGrows, NotesOK
<1>4. Guarded'  BY <1>2 DEF Guarded, Lonely, NoteGrows, NotesOK
<1> QED  BY <1>3, <1>4 DEF Lonely

\* A call that moves without its order or the record being touched.
LEMMA ReadingKept ==
  ASSUME Reading, NotesOK, NEW t \in Exiters, OnlyCall(t), NoteGrows,
         UNCHANGED <<tracked, remaining>>,
         Engaged(t)' => Engaged(t) /\ KeepsLocals(t),
         Exposed(t)' => Exposed(t),
         exit'[t].pc = "closed" => exit[t].pc = "closed"
  PROVE  Reading'
<1>1. OnTracked'
  BY DEF OnTracked, Reading, OnlyCall, KeepsLocals, NoteGrows, NotesOK, Engaged, Exposed
<1>2. OrderIsPart'
  <2> SUFFICES ASSUME NEW u \in Exiters, Exposed(u)', ~crossed'
               PROVE  (exit[u].order = Part(remaining[exit[u].position], exit[u].share))'
    BY DEF OrderIsPart
  <2>1. Exposed(u) /\ ~crossed
    BY DEF OnlyCall, NoteGrows, NotesOK, Exposed
  <2>2. exit[u].order = Part(remaining[exit[u].position], exit[u].share)
    BY <2>1 DEF OrderIsPart, Reading
  <2>3. /\ exit'[u].order = exit[u].order
        /\ exit'[u].position = exit[u].position
        /\ exit'[u].share = exit[u].share
    BY DEF OnlyCall, KeepsLocals, Engaged
  <2> QED  BY <2>2, <2>3 DEF Part
<1>3. SoldOut'
  <2> SUFFICES ASSUME NEW u \in Exiters, exit'[u].pc = "closed", ~crossed'
               PROVE  remaining'[exit'[u].position] = 0
    BY DEF SoldOut
  <2>1. exit[u].pc = "closed" /\ ~crossed
    BY DEF OnlyCall, NoteGrows, NotesOK
  <2>2. exit'[u].position = exit[u].position
    BY DEF OnlyCall, KeepsLocals, Engaged
  <2> QED  BY <2>1, <2>2 DEF SoldOut, Reading
<1> QED  BY <1>1, <1>2, <1>3 DEF Reading

\* A call that moves without a fill.
LEMMA BooksKept ==
  ASSUME Books, NotesOK, EntryOK, UNCHANGED entryVars, NEW t \in Exiters, OnlyCall(t), NoteGrows,
         UNCHANGED <<tracked, remaining, held, adrift, unreported>>,
         exit[t].pc # "filled", exit'[t].pc # "filled"
  PROVE  Books'
<1>1. Balance' = Balance  BY UnrecordedKept DEF Balance, Recorded
<1>2. Settled'
  BY <1>1 DEF Settled, Books, OnlyCall, NoteGrows, NotesOK
<1>3. InFlight'
  BY <1>1 DEF InFlight, Books, OnlyCall, NoteGrows, NotesOK
<1> QED  BY <1>2, <1>3 DEF Books

\* The forms of a step, in the terms of these lemmas.
Quiet(t) ==
  /\ OnlyCall(t) /\ NoteGrows
  /\ closing' \in BOOLEAN /\ active' \in BOOLEAN
  /\ UNCHANGED <<tracked, opened, remaining, held, adrift, unreported, entryVars>>
  /\ late' \in Nat
  /\ Engaged(t)' => Engaged(t) /\ KeepsLocals(t)
  /\ Exposed(t)' => Exposed(t)
  /\ exit'[t].pc = "closed" => exit[t].pc = "closed"
  /\ exit[t].pc # "filled" /\ exit'[t].pc # "filled"

LEMMA QuietStep ==
  ASSUME IInv, NEW t \in Exiters, Quiet(t)
  PROVE  Types' /\ EntryOK' /\ Reading' /\ Books'
<1> USE DEF IInv, Types, Quiet
<1>1. ExitsOK'
  BY DEF ExitsOK, OnlyCall, KeepsLocals, Engaged, Exposed
<1>2. BooksOK'  BY DEF BooksOK
<1>3. NotesOK'  BY DEF NotesOK, NoteGrows
<1>4. Reading'  BY ReadingKept
<1>5. Books'  BY BooksKept
<1>6. EntryOK'  BY EntryKept DEF BooksOK
<1> QED  BY <1>1, <1>2, <1>3, <1>4, <1>5, <1>6

-----------------------------------------------------------------------------
(* The steps that leave the books alone.                                   *)

LEMMA AskStep ==
  ASSUME IInv, NEW t \in Exiters, NEW share \in Shares, Ask(t, share),
         UNCHANGED entryVars
  PROVE  IInv'
<1> USE DEF IInv, Types
<1>1. /\ OnlyCall(t)
      /\ exit[t].pc = "idle" /\ exit'[t].pc = "asked"
  BY AskCall DEF Ask, ExitsOK
<1>2. UNCHANGED <<books, marks, history>>  BY DEF Ask
<1>3. Quiet(t)
  BY <1>1, <1>2 DEF Quiet, NoteGrows, BooksOK, NotesOK, books, marks, history, Engaged, Exposed
<1>4. MarksHaveOwner'  BY <1>1, <1>2, MarksKept DEF Marked, ActiveOwner
<1>5. Lonely'
  BY <1>1, <1>2, <1>3, LonelyKept DEF Quiet, marks, Working, Marked, Unmarked
<1> QED  BY <1>3, <1>4, <1>5, QuietStep

LEMMA CheckClosingStep ==
  ASSUME IInv, NEW t \in Exiters, CheckClosing(t), UNCHANGED entryVars
  PROVE  IInv'
<1> USE DEF IInv, Types
<1>1. /\ OnlyCall(t)
      /\ exit[t].pc = "asked" /\ exit'[t].pc \in {"idle", "checked"}
  BY GoCall, ReturnCall DEF CheckClosing, ExitsOK, PCs
<1>2. UNCHANGED <<books, marks, adrift, unreported>>  BY DEF CheckClosing
<1>3. NoteGrows  BY DEF CheckClosing, NoteGrows, NotesOK
<1>4. Quiet(t)
  BY <1>1, <1>2, <1>3 DEF Quiet, BooksOK, NotesOK, books, marks, Engaged, Exposed
<1>5. MarksHaveOwner'  BY <1>1, <1>2, MarksKept DEF Marked, ActiveOwner
<1>6. Lonely'
  <2>1. CASE closing
    <3>1. exit'[t].pc = "idle"
      BY <2>1, ReturnCall DEF CheckClosing, ExitsOK
    <3> QED  BY <1>1, <1>2, <1>3, <3>1, LonelyKept DEF marks, Working, Marked, Unmarked
  <2>2. CASE ~closing
    <3> SUFFICES ASSUME ~crossed' PROVE Lonely'
      BY <1>3 DEF Lonely, Alone, Guarded, NoteGrows
    <3>1. ~crossed /\ \A u \in Exiters : ~Unmarked(u)
      BY <2>2 DEF CheckClosing, NotesOK
    <3>2. \A u \in Exiters : ~Marked(u)
      BY <2>2, <3>1 DEF Lonely, Guarded
    <3>3. \A u \in Exiters \ {t} : ~Working(u)'
      BY <1>1, <3>1, <3>2 DEF OnlyCall, Working, Marked, Unmarked
    <3>4. \A u \in Exiters : ~Marked(u)'
      BY <1>1, <3>2 DEF OnlyCall, Marked
    <3> QED  BY <3>3, <3>4 DEF Lonely, Alone, Guarded
  <2> QED  BY <2>1, <2>2
<1> QED  BY <1>4, <1>5, <1>6, QuietStep

LEMMA CheckActiveStep ==
  ASSUME IInv, NEW t \in Exiters, CheckActive(t), UNCHANGED entryVars
  PROVE  IInv'
<1> USE DEF IInv, Types
<1>1. /\ OnlyCall(t)
      /\ exit[t].pc = "checked" /\ exit'[t].pc \in {"idle", "free"}
  BY GoCall, ReturnCall DEF CheckActive, ExitsOK, PCs
<1>2. UNCHANGED <<books, marks, history>>  BY DEF CheckActive
<1>3. Quiet(t)
  BY <1>1, <1>2 DEF Quiet, NoteGrows, BooksOK, NotesOK, books, marks, history, Engaged, Exposed
<1>4. MarksHaveOwner'  BY <1>1, <1>2, MarksKept DEF Marked, ActiveOwner
<1>5. Lonely'
  BY <1>1, <1>2, <1>3, LonelyKept DEF Quiet, marks, Working, Marked, Unmarked
<1> QED  BY <1>3, <1>4, <1>5, QuietStep

LEMMA FindPositionStep ==
  ASSUME IInv, NEW t \in Exiters, FindPosition(t), UNCHANGED entryVars
  PROVE  IInv'
<1> USE DEF IInv, Types
<1>1. /\ OnlyCall(t)
      /\ exit[t].pc = "free" /\ exit'[t].pc \in {"idle", "found"}
  BY GoCall, ReturnCall DEF FindPosition, ExitsOK, PCs
<1>2. UNCHANGED <<books, marks, history>>  BY DEF FindPosition
<1>3. Quiet(t)
  BY <1>1, <1>2 DEF Quiet, NoteGrows, BooksOK, NotesOK, books, marks, history, Engaged, Exposed
<1>4. MarksHaveOwner'  BY <1>1, <1>2, MarksKept DEF Marked, ActiveOwner
<1>5. Lonely'
  BY <1>1, <1>2, <1>3, LonelyKept DEF Quiet, marks, Working, Marked, Unmarked
<1> QED  BY <1>3, <1>4, <1>5, QuietStep

LEMMA RefuseStep ==
  ASSUME IInv, NEW t \in Exiters, Refuse(t), UNCHANGED entryVars
  PROVE  IInv'
<1> USE DEF IInv, Types
<1>1. /\ OnlyCall(t)
      /\ exit[t].pc = "marked" /\ exit'[t].pc = "unmarking"
  BY LeaveCall DEF Refuse, ExitsOK, PCs
<1>2. UNCHANGED <<books, marks, history>>  BY DEF Refuse
<1>3. Quiet(t)
  BY <1>1, <1>2 DEF Quiet, NoteGrows, BooksOK, NotesOK, books, marks, history, Engaged, Exposed
<1>4. MarksHaveOwner'  BY <1>1, <1>2, MarksKept DEF Marked, ActiveOwner
<1>5. Lonely'
  BY <1>1, <1>2, <1>3, LonelyKept DEF Quiet, marks, Working, Marked, Unmarked
<1> QED  BY <1>3, <1>4, <1>5, QuietStep

LEMMA RaiseStep ==
  ASSUME IInv, NEW t \in Exiters, Raise(t), UNCHANGED entryVars
  PROVE  IInv'
<1> USE DEF IInv, Types
<1>1. /\ OnlyCall(t)
      /\ exit[t].pc \in {"marked", "closed"} /\ exit'[t].pc = "raised"
  BY LeaveCall DEF Raise, ExitsOK, PCs
<1>2. UNCHANGED <<books, marks, history>>  BY DEF Raise
<1>3. Quiet(t)
  BY <1>1, <1>2 DEF Quiet, NoteGrows, BooksOK, NotesOK, books, marks, history, Engaged, Exposed
<1>4. MarksHaveOwner'  BY <1>1, <1>2, MarksKept DEF Marked, ActiveOwner
<1>5. Lonely'
  BY <1>1, <1>2, <1>3, LonelyKept DEF Quiet, marks, Working, Marked, Unmarked
<1> QED  BY <1>3, <1>4, <1>5, QuietStep

LEMMA MarkClosingStep ==
  ASSUME IInv, NEW t \in Exiters, MarkClosing(t), UNCHANGED entryVars
  PROVE  IInv'
<1> USE DEF IInv, Types
<1>1. /\ OnlyCall(t) /\ KeepsLocals(t)
      /\ exit[t].pc = "sized" /\ exit'[t].pc = "marking"
  BY GoCall DEF MarkClosing, ExitsOK, PCs
<1>2. closing' = TRUE /\ UNCHANGED <<active, books, history>>  BY DEF MarkClosing
<1>3. Quiet(t)
  BY <1>1, <1>2 DEF Quiet, NoteGrows, BooksOK, NotesOK, books, history, Engaged, Exposed
<1>4. MarksHaveOwner'
  <2>1. Marked(t)'  BY <1>1 DEF Marked
  <2>2. \A u \in Exiters : ActiveOwner(u)' = ActiveOwner(u)
    BY <1>1 DEF OnlyCall, ActiveOwner
  <2> QED  BY <1>2, <2>1, <2>2 DEF MarksHaveOwner, ActiveOwner
<1>5. Lonely'
  <2>1. \A u \in Exiters : Working(u)' = Working(u)
    BY <1>1 DEF OnlyCall, Working, Marked, Unmarked
  <2> QED  BY <1>2, <2>1 DEF Lonely, Alone, Guarded, history
<1> QED  BY <1>3, <1>4, <1>5, QuietStep

LEMMA MarkActiveStep ==
  ASSUME IInv, NEW t \in Exiters, MarkActive(t), UNCHANGED entryVars
  PROVE  IInv'
<1> USE DEF IInv, Types
<1>1. /\ OnlyCall(t) /\ KeepsLocals(t)
      /\ exit[t].pc = "marking" /\ exit'[t].pc = "marked"
  BY GoCall DEF MarkActive, ExitsOK, PCs
<1>2. active' = TRUE /\ UNCHANGED <<closing, books, history>>  BY DEF MarkActive
<1>3. Quiet(t)
  BY <1>1, <1>2 DEF Quiet, NoteGrows, BooksOK, NotesOK, books, history, Engaged, Exposed
<1>4. MarksHaveOwner'
  <2>1. ActiveOwner(t)'  BY <1>1 DEF ActiveOwner
  <2>2. \A u \in Exiters : Marked(u)' = Marked(u)
    BY <1>1 DEF OnlyCall, Marked
  <2> QED  BY <1>2, <2>1, <2>2 DEF MarksHaveOwner, ActiveOwner
<1>5. Lonely'
  BY <1>1, <1>2, <1>3, LonelyKept DEF Quiet, Working, Marked, Unmarked
<1> QED  BY <1>3, <1>4, <1>5, QuietStep

LEMMA DropClosingStep ==
  ASSUME IInv, NEW t \in Exiters, DropClosing(t), UNCHANGED entryVars
  PROVE  IInv'
<1> USE DEF IInv, Types
<1>1. /\ OnlyCall(t)
      /\ exit[t].pc \in {"unmarking", "raised", "caught"}
      /\ exit'[t].pc \in {"releasing", "reraised", "clearing"}
      /\ ActiveOwner(t) => ActiveOwner(t)'
  BY GoCall DEF DropClosing, ExitsOK, PCs, ActiveOwner
<1>2. closing' = FALSE /\ UNCHANGED <<active, books, adrift, unreported>>
  BY DEF DropClosing
<1>3. NoteGrows  BY DEF DropClosing, NoteGrows, NotesOK
<1>4. Quiet(t)
  BY <1>1, <1>2, <1>3 DEF Quiet, BooksOK, NotesOK, books, Engaged, Exposed
<1>5. MarksHaveOwner'
  <2>1. \A u \in Exiters : ActiveOwner(u) => ActiveOwner(u)'
    BY <1>1 DEF OnlyCall, ActiveOwner
  <2> QED  BY <1>2, <2>1 DEF MarksHaveOwner, ActiveOwner
<1>6. Lonely'
  <2> SUFFICES ASSUME ~crossed' PROVE Lonely'
    BY <1>3 DEF Lonely, Alone, Guarded, NoteGrows
  <2>1. ~crossed /\ (closing => \A u \in Exiters \ {t} : ~Marked(u))
    BY DEF DropClosing, NotesOK
  <2>2. \A u \in Exiters \ {t} : ~Marked(u)
    BY <2>1 DEF Lonely, Guarded
  <2>3. \A u \in Exiters : ~Marked(u)'
    BY <1>1, <2>2 DEF OnlyCall, Marked
  <2>4. \A u \in Exiters : Working(u)' => Working(u)
    BY <1>1 DEF OnlyCall, Working, Marked, Unmarked
  <2> QED  BY <2>1, <2>3, <2>4 DEF Lonely, Alone, Guarded
<1> QED  BY <1>4, <1>5, <1>6, QuietStep

LEMMA DropActiveStep ==
  ASSUME IInv, NEW t \in Exiters, DropActive(t), UNCHANGED entryVars
  PROVE  IInv'
<1> USE DEF IInv, Types
<1>1. /\ OnlyCall(t)
      /\ exit[t].pc \in {"releasing", "clearing", "reraised"}
      /\ exit'[t].pc \in {"idle", "caught"}
  BY GoCall, ReturnCall DEF DropActive, ExitsOK, PCs
<1>2. active' = FALSE /\ UNCHANGED <<closing, books, history>>  BY DEF DropActive
<1>3. Quiet(t)
  BY <1>1, <1>2 DEF Quiet, NoteGrows, BooksOK, NotesOK, books, history, Engaged, Exposed
<1>4. MarksHaveOwner'
  <2>1. \A u \in Exiters : Marked(u)' = Marked(u)
    BY <1>1 DEF OnlyCall, Marked
  <2> QED  BY <1>2, <2>1 DEF MarksHaveOwner
<1>5. Lonely'
  BY <1>1, <1>2, <1>3, LonelyKept DEF Quiet, Working, Marked, Unmarked
<1> QED  BY <1>3, <1>4, <1>5, QuietStep

LEMMA AckTimeoutStep ==
  ASSUME IInv, NEW t \in Exiters, AckTimeout(t), UNCHANGED entryVars
  PROVE  IInv'
<1> USE DEF IInv, Types
<1>1. /\ OnlyCall(t)
      /\ exit[t].pc = "marked" /\ exit'[t].pc = "unmarking"
  BY LeaveCall DEF AckTimeout, ExitsOK, PCs
<1>2. UNCHANGED <<tracked, opened, remaining, held, marks, history>>
  BY DEF AckTimeout
<1>3. late' \in Nat  BY DEF AckTimeout, ExitsOK, Exit
<1>4. Quiet(t)
  BY <1>1, <1>2, <1>3 DEF Quiet, NoteGrows, NotesOK, marks, history, Engaged, Exposed
<1>5. MarksHaveOwner'  BY <1>1, <1>2, MarksKept DEF Marked, ActiveOwner
<1>6. Lonely'
  BY <1>1, <1>2, <1>4, LonelyKept DEF Quiet, marks, Working, Marked, Unmarked
<1> QED  BY <1>4, <1>5, <1>6, QuietStep

LEMMA ReadPositionStep ==
  ASSUME IInv, NEW t \in Exiters, ReadPosition(t), UNCHANGED entryVars
  PROVE  IInv'
<1> USE DEF IInv, Types
<1>1. exit[t].pc = "found" /\ UNCHANGED <<books, marks, history>>
  BY DEF ReadPosition
<1>2. CASE Leave(t, "caught") \/ Return(t)
  <2>1. OnlyCall(t) /\ exit'[t].pc \in {"caught", "idle"}
    BY <1>2, LeaveCall, ReturnCall DEF ExitsOK, PCs
  <2>2. Quiet(t)
    BY <1>1, <2>1 DEF Quiet, NoteGrows, BooksOK, NotesOK, books, marks, history,
                      Engaged, Exposed
  <2>3. MarksHaveOwner'  BY <1>1, <2>1, MarksKept DEF Marked, ActiveOwner
  <2>4. Lonely'
    BY <1>1, <2>1, <2>2, LonelyKept DEF Quiet, marks, Working, Marked, Unmarked
  <2> QED  BY <2>2, <2>3, <2>4, QuietStep
<1>3. CASE /\ tracked # 0
           /\ exit' = [exit EXCEPT ![t].pc = "sized", ![t].position = tracked,
                                   ![t].order = Part(Recorded, exit[t].share)]
  <2>1. tracked \in 0 .. MaxEntries  BY DEF BooksOK
  <2>2. Part(Recorded, exit[t].share) \in Nat
    BY RecordedType, PartBound DEF ExitsOK, Exit
  <2>3. /\ OnlyCall(t)
        /\ exit'[t].pc = "sized" /\ exit'[t].position = tracked
        /\ exit'[t].share = exit[t].share
        /\ exit'[t].order = Part(Recorded, exit[t].share)
    BY <1>3, <2>1, <2>2 DEF ExitsOK, Exit, PCs, OnlyCall
  <2>4. NoteGrows /\ UNCHANGED <<tracked, remaining, held, adrift, unreported>>
    BY <1>1 DEF NoteGrows, NotesOK, books, history
  <2>5. Types'
    <3>1. ExitsOK'
      BY <1>3, <2>3 DEF ExitsOK, OnlyCall, Engaged, Exposed
    <3>2. BooksOK'  BY <1>1 DEF BooksOK, books
    <3>3. NotesOK'  BY <1>1 DEF NotesOK, marks, history
    <3> QED  BY <3>1, <3>2, <3>3
  <2>6. MarksHaveOwner'  BY <1>1, <2>3, MarksKept DEF Marked, ActiveOwner
  <2>7. Lonely'
    BY <1>1, <2>3, <2>4, LonelyKept DEF marks, Working, Marked, Unmarked
  <2>8. Reading'
    <3>1. \A u \in Exiters \ {t} : exit'[u] = exit[u]  BY <2>3 DEF OnlyCall
    <3>2. OnTracked'
      BY <1>1, <1>3, <2>3, <2>4, <3>1
      DEF Reading, OnTracked, Engaged, Exposed, history
    <3>3. Recorded = remaining[tracked]  BY <1>3 DEF Recorded
    <3>4. OrderIsPart'
      BY <1>1, <2>3, <2>4, <3>1, <3>3
      DEF Reading, OrderIsPart, Exposed, history, Part
    <3>5. SoldOut'
      BY <1>1, <2>3, <2>4, <3>1 DEF Reading, SoldOut, history
    <3> QED  BY <3>2, <3>4, <3>5 DEF Reading
  <2>9. Books'  BY <1>1, <2>3, <2>4, BooksKept
  <2>10. EntryOK'  BY <1>1, EntryKept DEF BooksOK, books
  <2> QED  BY <2>5, <2>6, <2>7, <2>8, <2>9, <2>10
<1> QED  BY <1>2, <1>3 DEF ReadPosition

-----------------------------------------------------------------------------
(* The steps that write the books.                                         *)

LEMMA LimitBound ==
  ASSUME NEW category \in RETRY \cup BACKOFF
  PROVE  Limit(category) \in Nat /\ Limit(category) >= 1
BY RetriesAssumption DEF Limit

\* An entry that has lost nothing and tried nothing again.
LEMMA FreshEntry ==
  ASSUME entry'.retry_count = 0, entry'.backoff_count = 0, lost' = 0
  PROVE  Tries' /\ LostBounded'
<1>1. "NONCE" \in RETRY /\ "SERVICE" \in BACKOFF  BY DEF RETRY, BACKOFF
<1>2. /\ Limit("NONCE") \in Nat /\ Limit("NONCE") >= 1
      /\ Limit("SERVICE") \in Nat /\ Limit("SERVICE") >= 1
  BY <1>1, LimitBound
<1>3. 0 <= Limit("NONCE") /\ 0 <= Limit("SERVICE") /\ 0 <= 1 + Limit("NONCE") + Limit("SERVICE")
  BY <1>2
<1> QED  BY <1>1, <1>3 DEF Tries, LostBounded, Limit

LEMMA NewEntry ==
  ASSUME EntryTypeOK, NEW pc \in {"none", "submitting", "limit"},
         entry' = [pc |-> pc, retry_count |-> 0, backoff_count |-> 0],
         lost' = 0, held' \in Int, resting' = resting, sunk' = sunk
  PROVE  Losses'
<1>1. EntryTypeOK'  BY DEF EntryTypeOK, EntryPCs
<1>2. Tries' /\ LostBounded'  BY FreshEntry
<1>3. LossCounted'  BY DEF LossCounted
<1> QED  BY <1>1, <1>2, <1>3 DEF Losses

\* What one order more may lose.
LEMMA LossBound ==
  ASSUME EntryTypeOK, Tries, NEW n \in Nat,
         n <= 1 + entry.retry_count + entry.backoff_count \/ n <= 2
  PROVE  \E r \in RETRY, b \in BACKOFF : n <= 1 + Limit(r) + Limit(b)
<1>1. PICK r \in RETRY : entry.retry_count <= Limit(r)  BY DEF Tries
<1>2. PICK b \in BACKOFF : entry.backoff_count <= Limit(b)  BY DEF Tries
<1>3. Limit(r) \in Nat /\ Limit(r) >= 1 /\ Limit(b) \in Nat /\ Limit(b) >= 1
  BY LimitBound
<1>4. n <= 1 + Limit(r) + Limit(b)
  BY <1>1, <1>2, <1>3 DEF EntryTypeOK
<1> QED  BY <1>4

LEMMA FailedForm ==
  ASSUME EntryTypeOK, NEW filled \in BOOLEAN, Failed(filled)
  PROVE  /\ lost' \in Nat /\ lost' <= lost + 1
         /\ sunk' \in Nat /\ held' \in Int /\ held' = held + (sunk' - sunk)
         /\ resting' = resting
BY DEF EntryTypeOK, Failed, Sink

\* The form of a step between the first window of execute_entry and its end.
OneOrder ==
  /\ entry.pc # "none"
  /\ entry' \in [pc : EntryPCs, retry_count : Nat, backoff_count : Nat]
  /\ lost' \in Nat /\ lost' <= lost + 1
  /\ sunk' \in Nat /\ resting' \in Nat /\ held' \in Int
  /\ held' = held + (Unrecorded' - Unrecorded)

LEMMA OneOrderLosses ==
  ASSUME Losses, OneOrder, Tries', LossCounted'
  PROVE  Losses'
<1>1. EntryTypeOK'  BY DEF OneOrder, EntryTypeOK
<1>2. lost <= entry.retry_count + entry.backoff_count \/ lost <= 1
  BY DEF OneOrder, Losses, LossCounted, EntryTypeOK, EntryPCs
<1>3. /\ entry.retry_count \in Nat /\ entry.backoff_count \in Nat /\ lost \in Nat
      /\ lost' \in Nat /\ lost' <= lost + 1
  BY DEF Losses, EntryTypeOK, OneOrder
<1>4. lost' <= 1 + entry.retry_count + entry.backoff_count \/ lost' <= 2
  BY <1>2, <1>3
<1>5. \E r \in RETRY, b \in BACKOFF : lost' <= 1 + Limit(r) + Limit(b)
  BY <1>3, <1>4, LossBound DEF Losses
<1>6. LostBounded'  BY <1>5 DEF LostBounded, Limit
<1> QED  BY <1>1, <1>6 DEF Losses

LEMMA EndLosses ==
  ASSUME Losses, OneOrder, entry' = NoEntry
  PROVE  Losses'
<1>1. "NONCE" \in RETRY /\ "SERVICE" \in BACKOFF  BY DEF RETRY, BACKOFF
<1>2. 0 <= Limit("NONCE") /\ 0 <= Limit("SERVICE")  BY <1>1, LimitBound
<1>3. Tries'  BY <1>1, <1>2 DEF Tries, Limit, NoEntry
<1>4. LossCounted'  BY DEF LossCounted, NoEntry
<1> QED  BY <1>3, <1>4, OneOrderLosses

\* The steps of the controller.
LEMMA SubmitFailsLosses ==
  ASSUME Losses, NEW category \in Categories, NEW filled \in BOOLEAN,
         SubmitFails(category, filled)
  PROVE  Losses' /\ OneOrder
<1> USE DEF Losses
<1>1. /\ lost' \in Nat /\ lost' <= lost + 1
      /\ sunk' \in Nat /\ held' \in Int /\ held' = held + (sunk' - sunk)
      /\ resting' = resting /\ entry.pc = "submitting"
  BY FailedForm DEF SubmitFails
<1>2. lost <= entry.retry_count + entry.backoff_count
  BY <1>1 DEF LossCounted
<1>3. ASSUME entry' \in [pc : EntryPCs, retry_count : Nat, backoff_count : Nat],
             entry'.pc # "bought"
      PROVE  OneOrder
  BY <1>1, <1>3 DEF OneOrder, Unrecorded, Pending, EntryTypeOK
<1>4. CASE Retry(category)
  <2>1. /\ category \in RETRY /\ entry.retry_count < Limit(category)
        /\ entry' = [entry EXCEPT !.retry_count = @ + 1]
    BY <1>4 DEF Retry
  <2>2. /\ entry' \in [pc : EntryPCs, retry_count : Nat, backoff_count : Nat]
        /\ entry'.pc = "submitting"
        /\ entry'.retry_count = entry.retry_count + 1
        /\ entry'.backoff_count = entry.backoff_count
    BY <1>1, <2>1 DEF EntryTypeOK
  <2>3. entry'.retry_count <= Limit(category)
    BY <2>1, <2>2, LimitBound DEF EntryTypeOK
  <2>4. Tries'  BY <2>1, <2>2, <2>3 DEF Tries, Limit
  <2>5. LossCounted'  BY <1>1, <1>2, <2>2 DEF LossCounted, EntryTypeOK
  <2> QED  BY <1>3, <2>2, <2>4, <2>5, OneOrderLosses
<1>5. CASE BackOff(category)
  <2>1. /\ category \in BACKOFF /\ entry.backoff_count < Limit(category)
        /\ entry' = [entry EXCEPT !.backoff_count = @ + 1]
    BY <1>5 DEF BackOff
  <2>2. /\ entry' \in [pc : EntryPCs, retry_count : Nat, backoff_count : Nat]
        /\ entry'.pc = "submitting"
        /\ entry'.retry_count = entry.retry_count
        /\ entry'.backoff_count = entry.backoff_count + 1
    BY <1>1, <2>1 DEF EntryTypeOK
  <2>3. entry'.backoff_count <= Limit(category)
    BY <2>1, <2>2, LimitBound DEF EntryTypeOK
  <2>4. Tries'  BY <2>1, <2>2, <2>3 DEF Tries, Limit
  <2>5. LossCounted'  BY <1>1, <1>2, <2>2 DEF LossCounted, EntryTypeOK
  <2> QED  BY <1>3, <2>2, <2>4, <2>5, OneOrderLosses
<1>6. CASE GiveUp(category)
  <2>1. entry' = NoEntry  BY <1>6 DEF GiveUp
  <2> QED  BY <1>3, <2>1, EndLosses DEF NoEntry, EntryPCs
<1> QED  BY <1>4, <1>5, <1>6 DEF SubmitFails

LEMMA PurchaseLosses ==
  ASSUME Losses, Purchase
  PROVE  Losses' /\ OneOrder
<1> USE DEF Losses
<1>1. CASE Bought \/ Accepted
  <2>1. /\ entry.pc \in {"submitting", "limit", "fallback"}
        /\ \/ held' = held + Size /\ resting' = resting
           \/ held' = held /\ resting' = resting + Size
        /\ entry' = [entry EXCEPT !.pc = "bought"]
        /\ UNCHANGED <<sunk, lost>>
    BY <1>1 DEF Bought, Accepted, EntryGo
  <2>2. /\ entry' \in [pc : EntryPCs, retry_count : Nat, backoff_count : Nat]
        /\ entry'.pc = "bought"
        /\ entry'.retry_count = entry.retry_count
        /\ entry'.backoff_count = entry.backoff_count
    BY <2>1 DEF EntryTypeOK, EntryPCs
  <2>3. OneOrder
    BY <2>1, <2>2 DEF OneOrder, Unrecorded, Pending, EntryTypeOK
  <2>4. Tries'  BY <2>2 DEF Tries, Limit
  <2>5. LossCounted'  BY <2>1, <2>2 DEF LossCounted, EntryTypeOK
  <2> QED  BY <2>3, <2>4, <2>5, OneOrderLosses
<1>2. CASE Discard
  <2>1. OneOrder
    BY <1>2
    DEF Discard, Sink, NoEntry, OneOrder, Unrecorded, Pending, EntryTypeOK, EntryPCs
  <2> QED  BY <1>2, <2>1, EndLosses DEF Discard
<1>3. CASE CloseBadEntry
  <2>1. OneOrder
    BY <1>3
    DEF CloseBadEntry, NoEntry, OneOrder, Unrecorded, Pending, EntryTypeOK, EntryPCs
  <2> QED  BY <1>3, <2>1, EndLosses DEF CloseBadEntry
<1>4. ASSUME NEW filled \in BOOLEAN, NEW category \in Categories,
             SubmitFails(category, filled)
      PROVE  Losses' /\ OneOrder
  BY <1>4, SubmitFailsLosses
<1>5. ASSUME NEW filled \in BOOLEAN, LimitFails(filled)
      PROVE  Losses' /\ OneOrder
  <2>1. /\ entry.pc = "limit" /\ lost = 0
        /\ entry' = [entry EXCEPT !.pc = "fallback"]
        /\ lost' \in Nat /\ lost' <= lost + 1
        /\ sunk' \in Nat /\ held' \in Int /\ held' = held + (sunk' - sunk)
        /\ resting' = resting
    BY <1>5, FailedForm DEF LimitFails, EntryGo, LossCounted
  <2>2. /\ entry' \in [pc : EntryPCs, retry_count : Nat, backoff_count : Nat]
        /\ entry'.pc = "fallback"
        /\ entry'.retry_count = entry.retry_count
        /\ entry'.backoff_count = entry.backoff_count
    BY <2>1 DEF EntryTypeOK, EntryPCs
  <2>3. OneOrder
    BY <2>1, <2>2 DEF OneOrder, Unrecorded, Pending, EntryTypeOK
  <2>4. Tries'  BY <2>2 DEF Tries, Limit
  <2>5. LossCounted'  BY <2>1, <2>2 DEF LossCounted
  <2> QED  BY <2>3, <2>4, <2>5, OneOrderLosses
<1>6. ASSUME NEW filled \in BOOLEAN, FallbackFails(filled)
      PROVE  Losses' /\ OneOrder
  <2>1. /\ entry.pc = "fallback" /\ entry' = NoEntry
        /\ lost' \in Nat /\ lost' <= lost + 1
        /\ sunk' \in Nat /\ held' \in Int /\ held' = held + (sunk' - sunk)
        /\ resting' = resting
    BY <1>6, FailedForm DEF FallbackFails
  <2>2. OneOrder
    BY <2>1 DEF NoEntry, OneOrder, Unrecorded, Pending, EntryTypeOK, EntryPCs
  <2> QED  BY <2>1, <2>2, EndLosses
<1> QED  BY <1>1, <1>2, <1>3, <1>4, <1>5, <1>6 DEF Purchase

-----------------------------------------------------------------------------
(* The steps of an entry, and the late settlement.                         *)

\* Without a position, no exit is on one until exits have crossed.
LEMMA NobodyEngaged ==
  ASSUME IInv, tracked = 0
  PROVE  \A u \in Exiters : Engaged(u) => crossed
BY DEF IInv, Reading, OnTracked

\* A step of an entry that moves account and record alike.
LEMMA EntryBooks ==
  ASSUME IInv, tracked = 0, tracked' = 0 \/ tracked' = opened', EntryOK',
         UNCHANGED <<late, exit, marks, history>>,
         opened' \in opened .. MaxEntries,
         remaining' \in [Positions -> 0 .. Size], held' \in Int,
         held' = held + (Recorded' - Recorded) + (Unrecorded' - Unrecorded)
  PROVE  IInv'
<1> USE DEF IInv, Types
<1>1. Types'
  BY DEF ExitsOK, BooksOK, NotesOK, Engaged, Exposed, marks, history
<1>2. MarksHaveOwner'  BY DEF MarksHaveOwner, Marked, marks
<1>3. Lonely'
  BY DEF Lonely, Alone, Guarded, Working, Marked, Unmarked, marks, history
<1>4. \A u \in Exiters : Engaged(u) => crossed  BY NobodyEngaged
<1>5. Reading'
  BY <1>4 DEF Reading, OnTracked, OrderIsPart, SoldOut, Engaged, Exposed, history
<1>6. held = Balance => held' = Balance'
  <2>1. Unrecorded \in Int /\ Unrecorded' \in Int
    BY DEF EntryOK, Losses, EntryTypeOK, Unrecorded, Pending
  <2>2. Recorded \in Int /\ Recorded' \in Int
    BY <1>1 DEF Recorded, BooksOK, Positions
  <2>3. /\ adrift' = adrift /\ unreported' = unreported
        /\ adrift \in Int /\ unreported \in Int /\ held \in Int
    BY DEF BooksOK, NotesOK, history
  <2>4. Balance' = Balance + (Recorded' - Recorded) + (Unrecorded' - Unrecorded)
    BY <2>1, <2>2, <2>3 DEF Balance
  <2> QED  BY <2>1, <2>2, <2>3, <2>4
<1>7. Books'
  BY <1>4, <1>6 DEF Books, Settled, InFlight, Engaged, Exposed, history
<1> QED  BY <1>1, <1>2, <1>3, <1>5, <1>7

LEMMA EnterStep ==
  ASSUME IInv, NEW pc \in {"submitting", "limit"}, Enter(pc)
  PROVE  IInv'
<1> USE DEF IInv, Types
<1>1. /\ tracked = 0 /\ opened < MaxEntries /\ opened' = opened + 1
      /\ entry.pc = "none"
      /\ entry' = [pc |-> pc, retry_count |-> 0, backoff_count |-> 0]
      /\ lost' = 0 /\ UNCHANGED <<held, resting, sunk>>
      /\ UNCHANGED <<tracked, remaining, late, exit, marks, history>>
  BY DEF Enter, Submit, NoEntry
<1>2. opened' \in opened .. MaxEntries /\ opened' \in Positions
  BY <1>1 DEF BooksOK, Positions
<1>3. EntryOK'
  <2>1. Losses'  BY <1>1, NewEntry DEF EntryOK, Losses, BooksOK
  <2> QED  BY <1>1, <1>2, <2>1 DEF EntryOK, Positions
<1>4. Recorded' = Recorded /\ Recorded = 0 /\ Unrecorded' = Unrecorded
  BY <1>1 DEF Recorded, Unrecorded, Pending, NoEntry
<1>5. held' = held + (Recorded' - Recorded) + (Unrecorded' - Unrecorded)
  BY <1>1, <1>4 DEF BooksOK, EntryOK, Losses, EntryTypeOK, Unrecorded, Pending
<1> QED  BY <1>1, <1>2, <1>3, <1>5, EntryBooks DEF BooksOK

LEMMA RecordEntryStep ==
  ASSUME IInv, RecordEntry
  PROVE  IInv'
<1> USE DEF IInv, Types
<1>1. /\ entry.pc = "bought" /\ entry' = NoEntry /\ lost' = 0
      /\ tracked' = opened
      /\ remaining' = [remaining EXCEPT ![opened] = Size]
      /\ UNCHANGED <<opened, held, late, exit, marks, history, resting, sunk>>
  BY DEF RecordEntry
<1>2. tracked = 0 /\ opened \in Positions  BY <1>1 DEF EntryOK
<1>3. /\ remaining' \in [Positions -> 0 .. Size] /\ remaining'[opened] = Size
      /\ opened # 0 /\ opened' \in opened .. MaxEntries
  BY <1>1, <1>2 DEF BooksOK, Positions
<1>4. EntryOK'
  <2>1. entry' = [pc |-> "none", retry_count |-> 0, backoff_count |-> 0]
    BY <1>1 DEF NoEntry
  <2>2. Losses'  BY <1>1, <2>1, NewEntry DEF EntryOK, Losses, BooksOK
  <2> QED  BY <1>1, <2>2 DEF EntryOK, NoEntry
<1>5. /\ Recorded = 0 /\ Recorded' = Size
      /\ Unrecorded = sunk + Size - resting /\ Unrecorded' = sunk - resting
  BY <1>1, <1>2, <1>3 DEF Recorded, Unrecorded, Pending, NoEntry, EntryOK, Losses, EntryTypeOK
<1>6. held' = held + (Recorded' - Recorded) + (Unrecorded' - Unrecorded)
  BY <1>1, <1>5 DEF BooksOK, EntryOK, Losses, EntryTypeOK
<1> QED  BY <1>1, <1>2, <1>3, <1>4, <1>6, EntryBooks DEF BooksOK

LEMMA PurchaseStep ==
  ASSUME IInv, Purchase,
         UNCHANGED <<tracked, opened, remaining, late, exit, marks, history>>
  PROVE  IInv'
<1> USE DEF IInv, Types
<1>1. Losses' /\ OneOrder  BY PurchaseLosses DEF EntryOK
<1>2. tracked = 0 /\ opened \in Positions  BY <1>1 DEF OneOrder, EntryOK
<1>3. EntryOK'  BY <1>1, <1>2 DEF EntryOK, Positions
<1>4. Recorded = 0 /\ Recorded' = 0  BY <1>2 DEF Recorded
<1>5. held' = held + (Recorded' - Recorded) + (Unrecorded' - Unrecorded)
  <2>1. Unrecorded \in Int /\ Unrecorded' \in Int
    BY <1>3 DEF EntryOK, Losses, EntryTypeOK, Unrecorded, Pending
  <2>2. held + (Recorded' - Recorded) = held  BY <1>4 DEF BooksOK
  <2> QED  BY <1>1, <2>1, <2>2 DEF OneOrder
<1>6. held' \in Int /\ opened' \in opened .. MaxEntries
  BY <1>1, <1>2 DEF OneOrder, Positions
<1> QED  BY <1>2, <1>3, <1>5, <1>6, EntryBooks DEF BooksOK

LEMMA RestingFillsStep ==
  ASSUME IInv, RestingFills,
         UNCHANGED <<tracked, opened, remaining, late, exit, marks, history>>
  PROVE  IInv'
<1> USE DEF IInv, Types
<1>1. /\ UNCHANGED <<entry, sunk, lost>>
      /\ resting' \in Nat /\ held' \in Int
      /\ resting' = resting - Size /\ held' = held + Size
  BY DEF RestingFills, EntryOK, Losses, EntryTypeOK
<1>2. Types'
  BY <1>1 DEF ExitsOK, BooksOK, NotesOK, Engaged, Exposed, marks, history
<1>3. EntryOK'
  BY <1>1 DEF EntryOK, Losses, EntryTypeOK, Tries, Limit, LossCounted, LostBounded, Positions
<1>4. MarksHaveOwner'  BY DEF MarksHaveOwner, Marked, marks
<1>5. Lonely'
  BY DEF Lonely, Alone, Guarded, Working, Marked, Unmarked, marks, history
<1>6. Reading'
  BY DEF Reading, OnTracked, OrderIsPart, SoldOut, Engaged, Exposed, Part, history
<1>7. Recorded' = Recorded /\ Recorded \in Int
  BY RecordedType DEF Recorded
<1>8. Unrecorded' = Unrecorded + Size /\ Unrecorded \in Int
  BY <1>1 DEF Unrecorded, Pending, EntryOK, Losses, EntryTypeOK
<1>9. Balance' = Balance + Size /\ Balance \in Int
  BY <1>7, <1>8 DEF Balance, NotesOK, history
<1>10. \A u \in Exiters : exit[u].order \in Nat  BY DEF ExitsOK, Exit
<1>11. Books'
  BY <1>1, <1>9, <1>10 DEF Books, Settled, InFlight, history
<1> QED  BY <1>2, <1>3, <1>4, <1>5, <1>6, <1>11

LEMMA SettleLateStep ==
  ASSUME IInv, NEW filled \in BOOLEAN, SettleLate(filled), UNCHANGED entryVars
  PROVE  IInv'
<1> USE DEF IInv, Types
<1>1. /\ UNCHANGED <<tracked, opened, remaining, exit, marks, crossed, adrift>>
      /\ late' = 0
      /\ \/ held' = held - late /\ unreported' = unreported + late
         \/ held' = held /\ unreported' = unreported
  BY DEF SettleLate
<1>2. Types'
  BY <1>1 DEF ExitsOK, BooksOK, NotesOK, Engaged, Exposed, marks
<1>3. MarksHaveOwner'  BY <1>1 DEF MarksHaveOwner, Marked, marks
<1>4. Lonely'
  BY <1>1 DEF Lonely, Alone, Guarded, Working, Marked, Unmarked, marks
<1>5. Reading'
  BY <1>1 DEF Reading, OnTracked, OrderIsPart, SoldOut, Engaged, Exposed, Part
<1>6. Recorded' = Recorded /\ Recorded \in Int
  BY <1>1, RecordedType DEF Recorded
<1>7. Books'
  <2>1. \A n \in Nat : held = Balance - n => held' = Balance' - n
    BY <1>1, <1>6, UnrecordedKept DEF Balance, BooksOK, NotesOK
  <2>2. held = Balance => held' = Balance'
    BY <1>1, <1>6, UnrecordedKept DEF Balance, BooksOK, NotesOK
  <2>3. Settled'  BY <1>1, <2>2 DEF Books, Settled
  <2>4. InFlight'
    <3>1. \A u \in Exiters : exit[u].order \in Nat  BY DEF ExitsOK, Exit
    <3> QED  BY <1>1, <2>1, <3>1 DEF Books, InFlight
  <2> QED  BY <2>3, <2>4 DEF Books
<1>8. EntryOK'  BY <1>1, <1>2, EntryKept DEF BooksOK
<1> QED  BY <1>2, <1>3, <1>4, <1>5, <1>7, <1>8

LEMMA TakeProfitStep ==
  ASSUME IInv, NEW t \in Exiters, NEW share \in Shares, TakeProfit(t, share),
         UNCHANGED entryVars
  PROVE  IInv'
<1> USE DEF IInv, Types
<1> DEFINE part == Part(Recorded, share)
<1>1. /\ OnlyCall(t) /\ tracked # 0
      /\ exit[t].pc = "idle" /\ exit'[t].pc = "asked"
      /\ remaining' = [remaining EXCEPT ![tracked] = @ - part]
      /\ crossed' = (crossed \/ \E u \in Exiters : Exposed(u))
      /\ adrift' = IF crossed' THEN adrift ELSE adrift + part
      /\ UNCHANGED <<tracked, opened, held, late, marks, unreported>>
  BY AskCall DEF TakeProfit, ExitsOK
<1>2. /\ tracked \in Positions /\ Recorded = remaining[tracked]
      /\ Recorded \in 0 .. Size /\ part \in 0 .. Recorded
  BY <1>1, RecordedType, PartBound DEF BooksOK, Positions, Recorded
<1>3. Recorded' = Recorded - part /\ remaining' \in [Positions -> 0 .. Size]
  BY <1>1, <1>2 DEF Recorded, BooksOK
<1> HIDE DEF part
<1>4. NoteGrows  BY <1>1 DEF NoteGrows, NotesOK
<1>5. Types'
  <2>1. ExitsOK'  BY <1>1 DEF ExitsOK, OnlyCall, Engaged, Exposed
  <2>2. BooksOK'  BY <1>1, <1>3 DEF BooksOK
  <2>3. NotesOK'  BY <1>1, <1>2, <1>4 DEF NotesOK, NoteGrows, marks
  <2> QED  BY <2>1, <2>2, <2>3
<1>6. MarksHaveOwner'  BY <1>1, MarksKept DEF Marked, ActiveOwner
<1>7. Lonely'
  BY <1>1, <1>4, LonelyKept DEF marks, Working, Marked, Unmarked
<1>8. ASSUME ~crossed' PROVE Reading' /\ Books'
  <2>1. ~crossed /\ adrift' = adrift + part /\ \A u \in Exiters : ~Exposed(u)
    BY <1>1, <1>8 DEF NotesOK
  <2>2. \A u \in Exiters : ~Exposed(u)' /\ exit[u].pc # "filled" /\ exit'[u].pc # "filled"
    BY <1>1, <2>1 DEF OnlyCall, Exposed
  <2>3. OnTracked'
    BY <1>1, <2>1 DEF Reading, OnTracked, OnlyCall, Engaged, Exposed
  <2>4. OrderIsPart'  BY <2>2 DEF OrderIsPart
  <2>5. SoldOut'
    <3> SUFFICES ASSUME NEW u \in Exiters, exit'[u].pc = "closed"
                 PROVE  remaining'[exit'[u].position] = 0
      BY DEF SoldOut
    <3>1. exit'[u] = exit[u] /\ exit[u].pc = "closed"
      BY <1>1 DEF OnlyCall
    <3>2. exit[u].position = tracked /\ remaining[exit[u].position] = 0
      BY <2>1, <3>1 DEF Reading, OnTracked, SoldOut, Engaged
    <3>3. Recorded = 0 /\ part = 0  BY <1>2, <3>2
    <3> QED  BY <1>1, <1>2, <3>1, <3>2, <3>3 DEF BooksOK
  <2>6. Balance' = Balance
    BY <1>1, <1>2, <1>3, <2>1, UnrecordedKept DEF Balance, NotesOK
  <2>7. Books'
    BY <1>1, <2>1, <2>2, <2>6 DEF Books, Settled, InFlight
  <2> QED  BY <2>3, <2>4, <2>5, <2>7 DEF Reading
<1>9. ASSUME crossed' PROVE Reading' /\ Books'
  BY <1>9 DEF Reading, OnTracked, OrderIsPart, SoldOut, Books, Settled, InFlight
<1>10. EntryOK'  BY <1>1, EntryKept DEF BooksOK
<1> QED  BY <1>5, <1>6, <1>7, <1>8, <1>9, <1>10

LEMMA FillStep ==
  ASSUME IInv, NEW t \in Exiters, Fill(t), UNCHANGED entryVars
  PROVE  IInv'
<1> USE DEF IInv, Types
<1>1. /\ OnlyCall(t) /\ KeepsLocals(t)
      /\ exit[t].pc = "marked" /\ exit'[t].pc = "filled"
  BY GoCall DEF Fill, ExitsOK, PCs
<1>2. /\ held' = held - exit[t].order
      /\ UNCHANGED <<tracked, opened, remaining, late, marks, history>>
  BY DEF Fill
<1>3. NoteGrows  BY <1>2 DEF NoteGrows, NotesOK, history
<1>4. Types'
  <2>1. ExitsOK'  BY <1>1 DEF ExitsOK, OnlyCall, KeepsLocals, Engaged, Exposed
  <2>2. BooksOK'  BY <1>2 DEF BooksOK, ExitsOK, Exit
  <2>3. NotesOK'  BY <1>2 DEF NotesOK, marks, history
  <2> QED  BY <2>1, <2>2, <2>3
<1>5. MarksHaveOwner'  BY <1>1, <1>2, MarksKept DEF Marked, ActiveOwner
<1>6. Lonely'
  BY <1>1, <1>2, <1>3, LonelyKept DEF marks, Working, Marked, Unmarked
<1>7. Reading'
  BY <1>1, <1>2, <1>3, ReadingKept DEF Engaged, Exposed
<1>8. Books'
  <2> SUFFICES ASSUME ~crossed PROVE Books'
    BY <1>2 DEF Books, Settled, InFlight, history
  <2>1. \A u \in Exiters \ {t} : exit[u].pc # "filled" /\ exit'[u].pc # "filled"
    BY <1>1 DEF Lonely, Alone, Working, Marked, OnlyCall
  <2>2. held = Balance /\ Balance' = Balance
    BY <1>1, <1>2, <2>1, UnrecordedKept DEF Books, Settled, Balance, Recorded, history
  <2>3. exit'[t].order = exit[t].order  BY <1>1 DEF KeepsLocals
  <2> QED  BY <1>1, <1>2, <2>1, <2>2, <2>3 DEF Books, Settled, InFlight
<1>9. EntryOK'  BY <1>2, <1>4, EntryKept DEF BooksOK
<1> QED  BY <1>4, <1>5, <1>6, <1>7, <1>8, <1>9

\* The order is sold and not recorded: it moves from the call to unreported.
LEMMA RaiseFilledStep ==
  ASSUME IInv, NEW t \in Exiters, RaiseFilled(t), UNCHANGED entryVars
  PROVE  IInv'
<1> USE DEF IInv, Types
<1>1. /\ OnlyCall(t)
      /\ exit[t].pc = "filled" /\ exit'[t].pc = "raised"
  BY LeaveCall DEF RaiseFilled, ExitsOK, PCs
<1>2. /\ unreported' = unreported + exit[t].order
      /\ UNCHANGED <<books, marks, crossed, adrift>>
  BY DEF RaiseFilled
<1>3. NoteGrows  BY <1>2 DEF NoteGrows, NotesOK
<1>4. Types'
  <2>1. ExitsOK'  BY <1>1 DEF ExitsOK, OnlyCall, Engaged, Exposed
  <2>2. BooksOK'  BY <1>2 DEF BooksOK, books
  <2>3. NotesOK'  BY <1>2 DEF NotesOK, marks, ExitsOK, Exit
  <2> QED  BY <2>1, <2>2, <2>3
<1>5. MarksHaveOwner'  BY <1>1, <1>2, MarksKept DEF Marked, ActiveOwner
<1>6. Lonely'
  BY <1>1, <1>2, <1>3, LonelyKept DEF marks, Working, Marked, Unmarked
<1>7. Reading'
  BY <1>1, <1>2, <1>3, ReadingKept DEF books, Engaged, Exposed
<1>8. Books'
  <2> SUFFICES ASSUME ~crossed PROVE Books'
    BY <1>2 DEF Books, Settled, InFlight
  <2>1. \A u \in Exiters : exit'[u].pc # "filled"
    BY <1>1 DEF Lonely, Alone, Working, Marked, OnlyCall
  <2>2. held = Balance - exit[t].order
    BY <1>1 DEF Books, InFlight
  <2>3. Balance' = Balance - exit[t].order
    BY <1>2, RecordedType, UnrecordedKept DEF Balance, Recorded, NotesOK, ExitsOK, Exit, books
  <2> QED  BY <1>2, <2>1, <2>2, <2>3 DEF Books, Settled, InFlight, books
<1>9. EntryOK'  BY <1>2, <1>4, EntryKept DEF BooksOK, books
<1> QED  BY <1>4, <1>5, <1>6, <1>7, <1>8, <1>9

LEMMA ApplyStep ==
  ASSUME IInv, NEW t \in Exiters, Apply(t), UNCHANGED entryVars
  PROVE  IInv'
<1> USE DEF IInv, Types
<1> DEFINE i == exit[t].position
           part == Part(remaining[i], exit[t].share)
           left == remaining[i] - part
<1>1. /\ exit[t].pc = "filled"
      /\ remaining' = [remaining EXCEPT ![i] = left]
      /\ IF left = 0 THEN Go(t, "closed") ELSE Leave(t, "unmarking")
      /\ UNCHANGED <<tracked, opened, held, late, marks, history>>
  BY DEF Apply
<1>2. /\ i \in Positions /\ remaining[i] \in 0 .. Size
      /\ part \in 0 .. remaining[i]
  <2>1. i \in Positions
    BY <1>1 DEF ExitsOK, Exit, Engaged, Exposed, Positions
  <2>2. remaining[i] \in 0 .. Size  BY <2>1 DEF BooksOK
  <2> QED  BY <2>1, <2>2, PartBound DEF ExitsOK, Exit
<1>3. /\ OnlyCall(t)
      /\ \/ left = 0 /\ exit'[t].pc = "closed" /\ KeepsLocals(t)
         \/ exit'[t].pc = "unmarking"
  BY <1>1, GoCall, LeaveCall DEF ExitsOK, PCs
<1>4. remaining' \in [Positions -> 0 .. Size] /\ remaining'[i] = left
  BY <1>1, <1>2 DEF BooksOK
<1> HIDE DEF i, part, left
<1>5. NoteGrows  BY <1>1 DEF NoteGrows, NotesOK, history
<1>6. Types'
  <2>1. ExitsOK'
    BY <1>1, <1>3 DEF ExitsOK, OnlyCall, KeepsLocals, Engaged, Exposed
  <2>2. BooksOK'  BY <1>1, <1>4 DEF BooksOK
  <2>3. NotesOK'  BY <1>1 DEF NotesOK, marks, history
  <2> QED  BY <2>1, <2>2, <2>3
<1>7. MarksHaveOwner'  BY <1>1, <1>3, MarksKept DEF Marked, ActiveOwner
<1>8. Lonely'
  BY <1>1, <1>3, <1>5, LonelyKept DEF marks, Working, Marked, Unmarked
<1>9. ASSUME ~crossed PROVE Reading' /\ Books'
  <2>1. \A u \in Exiters \ {t} : ~Working(u) /\ exit'[u] = exit[u]
    BY <1>1, <1>3, <1>9 DEF Lonely, Alone, Working, Marked, OnlyCall
  <2>2. \A u \in Exiters \ {t} : ~Engaged(u)' /\ ~Exposed(u)'
                                 /\ exit'[u].pc \notin {"filled", "closed"}
    BY <2>1 DEF Working, Marked, Unmarked, Engaged, Exposed
  <2>3. tracked # 0 /\ i = tracked
    BY <1>1, <1>9 DEF Reading, OnTracked, Engaged, Exposed, i
  <2>4. OnTracked'
    BY <1>1, <1>3, <2>2, <2>3 DEF OnTracked, KeepsLocals, i, Engaged, Exposed
  <2>5. OrderIsPart'
    BY <1>3, <2>2 DEF OrderIsPart, Exposed
  <2>6. SoldOut'
    BY <1>3, <1>4, <2>2 DEF SoldOut, KeepsLocals, i
  <2>7. exit[t].order = part
    BY <1>1, <1>9 DEF Reading, OrderIsPart, Exposed, part, i
  <2>8. held = Balance - part
    BY <1>1, <1>9, <2>7 DEF Books, InFlight
  <2>9. Balance' = Balance - part
    BY <1>1, <1>2, <1>4, <2>3, UnrecordedKept DEF Balance, Recorded, left, NotesOK, history
  <2>10. Books'
    BY <1>1, <1>3, <2>2, <2>8, <2>9 DEF Books, Settled, InFlight
  <2> QED  BY <2>4, <2>5, <2>6, <2>10 DEF Reading
<1>10. ASSUME crossed PROVE Reading' /\ Books'
  BY <1>1, <1>10
  DEF Reading, OnTracked, OrderIsPart, SoldOut, Books, Settled, InFlight, history
<1>11. EntryOK'  BY <1>1, EntryKept DEF BooksOK
<1> QED  BY <1>6, <1>7, <1>8, <1>9, <1>10, <1>11

LEMMA FlushStep ==
  ASSUME IInv, NEW t \in Exiters, Flush(t), UNCHANGED entryVars
  PROVE  IInv'
<1> USE DEF IInv, Types
<1>1. /\ OnlyCall(t)
      /\ exit[t].pc = "closed" /\ exit'[t].pc = "unmarking"
  BY LeaveCall DEF Flush, ExitsOK, PCs
<1>2. tracked' = 0 /\ UNCHANGED <<opened, remaining, held, late, marks, history>>
  BY DEF Flush
<1>3. NoteGrows  BY <1>2 DEF NoteGrows, NotesOK, history
<1>4. Types'
  <2>1. ExitsOK'  BY <1>1 DEF ExitsOK, OnlyCall, Engaged, Exposed
  <2>2. BooksOK'  BY <1>2 DEF BooksOK
  <2>3. NotesOK'  BY <1>2 DEF NotesOK, marks, history
  <2> QED  BY <2>1, <2>2, <2>3
<1>5. MarksHaveOwner'  BY <1>1, <1>2, MarksKept DEF Marked, ActiveOwner
<1>6. Lonely'
  BY <1>1, <1>2, <1>3, LonelyKept DEF marks, Working, Marked, Unmarked
<1>7. ASSUME ~crossed PROVE Reading' /\ Books'
  <2>1. \A u \in Exiters : /\ ~Engaged(u)' /\ ~Exposed(u)'
                           /\ exit[u].pc # "filled"
                           /\ exit'[u].pc \notin {"filled", "closed"}
    BY <1>1, <1>7
    DEF Lonely, Alone, Working, Marked, Unmarked, OnlyCall, Engaged, Exposed
  <2>2. Recorded = 0 /\ Recorded' = 0
    BY <1>1, <1>2, <1>7 DEF Reading, OnTracked, SoldOut, Engaged, Recorded
  <2>3. held = Balance /\ Balance' = Balance
    BY <1>2, <1>7, <2>1, <2>2, UnrecordedKept DEF Books, Settled, Balance, history
  <2> QED
    BY <1>2, <2>1, <2>3
    DEF Reading, OnTracked, OrderIsPart, SoldOut, Books, Settled, InFlight
<1>8. ASSUME crossed PROVE Reading' /\ Books'
  BY <1>2, <1>8
  DEF Reading, OnTracked, OrderIsPart, SoldOut, Books, Settled, InFlight, history
<1>9. EntryOK'  BY <1>2, EntryKept DEF BooksOK
<1> QED  BY <1>4, <1>5, <1>6, <1>7, <1>8, <1>9

-----------------------------------------------------------------------------
(* The theorems.                                                           *)

LEMMA Initially ==
  Init => IInv
<1> SUFFICES ASSUME Init PROVE IInv
  OBVIOUS
<1>1. /\ \A t \in Exiters : exit[t] = Idle
      /\ exit = [t \in Exiters |-> Idle]
  BY DEF Init
<1>2. \A t \in Exiters : exit[t].pc = "idle"  BY <1>1 DEF Idle
<1>3. Idle \in Exit  BY DEF Idle, Exit, PCs, Shares
<1>4. Types
  <2>1. ExitsOK  BY <1>1, <1>2, <1>3 DEF ExitsOK, Engaged, Exposed
  <2>2. BooksOK  BY DEF Init, EntryInit, BooksOK
  <2>3. NotesOK  BY DEF Init, NotesOK
  <2> QED  BY <2>1, <2>2, <2>3 DEF Types
<1>5. MarksHaveOwner /\ Lonely
  BY <1>2 DEF Init, MarksHaveOwner, Lonely, Alone, Guarded, Working, Marked, Unmarked
<1>6. Reading
  BY <1>2 DEF Reading, OnTracked, OrderIsPart, SoldOut, Engaged, Exposed
<1>7. Books
  BY <1>2 DEF Init, EntryInit, NoEntry, Books, Settled, InFlight, Balance, Recorded,
              Unrecorded, Pending
<1>8. EntryOK
  <2>1. entry = NoEntry /\ held = 0 /\ resting = 0 /\ sunk = 0 /\ lost = 0
    BY DEF Init, EntryInit
  <2>2. EntryTypeOK  BY <2>1 DEF EntryTypeOK, NoEntry, EntryPCs
  <2>3. Tries  BY <2>1, LimitBound DEF Tries, NoEntry, RETRY, BACKOFF
  <2>4. LossCounted /\ LostBounded
    BY <2>1, LimitBound DEF LossCounted, LostBounded, NoEntry, RETRY, BACKOFF
  <2> QED  BY <2>1, <2>2, <2>3, <2>4 DEF EntryOK, Losses, NoEntry
<1> QED  BY <1>4, <1>5, <1>6, <1>7, <1>8 DEF IInv

LEMMA StutterStep ==
  ASSUME IInv, UNCHANGED vars
  PROVE  IInv'
<1> USE DEF IInv, vars
<1>1. Types'
  BY DEF Types, ExitsOK, BooksOK, NotesOK, Engaged, Exposed
<1>2. MarksHaveOwner' /\ Lonely'
  BY DEF MarksHaveOwner, Lonely, Alone, Guarded, Working, Marked, Unmarked
<1>3. Reading'
  BY DEF Reading, OnTracked, OrderIsPart, SoldOut, Engaged, Exposed, Part
<1>4. Books'
  BY DEF Books, Settled, InFlight, Balance, Recorded, Unrecorded, Pending, entryVars
<1>5. EntryOK'  BY <1>1, EntryKept DEF Types, BooksOK
<1> QED  BY <1>1, <1>2, <1>3, <1>4, <1>5

\* Types, owners of the marks, and, until exits cross, one exit alone on a
\* position it read and books that differ by its order only.
THEOREM ExitInvariance == Spec => []IInv
<1>1. IInv /\ [Next]_vars => IInv'
  <2> SUFFICES ASSUME IInv, [Next]_vars PROVE IInv'
    OBVIOUS
  <2>1. CASE \E pc \in {"submitting", "limit"} : Enter(pc)  BY <2>1, EnterStep
  <2>2. CASE EntryStep
    <3>1. CASE RecordEntry  BY <3>1, RecordEntryStep
    <3>2. CASE Purchase /\ UNCHANGED <<tracked, opened, remaining, late, exit, marks, history>>
      BY <3>2, PurchaseStep
    <3> QED  BY <2>2, <3>1, <3>2 DEF EntryStep
  <2>3. CASE \E filled \in BOOLEAN : SettleLate(filled) /\ UNCHANGED entryVars
    BY <2>3, SettleLateStep
  <2>4. CASE RestingFills /\ UNCHANGED <<tracked, opened, remaining, late, exit, marks, history>>
    BY <2>4, RestingFillsStep
  <2>5. ASSUME NEW t \in Exiters, ExitStep(t) PROVE IInv'
    <3>1. UNCHANGED entryVars  BY <2>5 DEF ExitStep
    <3>2. CASE Submission(t)
      BY <3>1, <3>2, CheckClosingStep, CheckActiveStep, FindPositionStep,
         ReadPositionStep, MarkClosingStep, MarkActiveStep
      DEF Submission
    <3>3. CASE Answer(t)
      BY <3>1, <3>3, FillStep, RefuseStep, AckTimeoutStep, RaiseStep,
         RaiseFilledStep
      DEF Answer
    <3>4. CASE Settlement(t)
      BY <3>1, <3>4, ApplyStep, FlushStep, DropClosingStep, DropActiveStep
      DEF Settlement
    <3> QED  BY <2>5, <3>2, <3>3, <3>4 DEF ExitStep
  <2>6. ASSUME NEW t \in Exiters, NEW share \in Shares, Request(t, share) PROVE IInv'
    BY <2>6, AskStep, TakeProfitStep DEF Request
  <2>7. CASE UNCHANGED vars  BY <2>7, StutterStep
  <2> QED  BY <2>1, <2>2, <2>3, <2>4, <2>5, <2>6, <2>7 DEF Next
<1> QED  BY <1>1, Initially, PTL DEF Spec

\* Every variable of the exit path keeps its type; a record is never negative.
THEOREM ExitTypes == Spec => []TypeOK
<1>1. IInv => TypeOK
  BY DEF IInv, Types, ExitsOK, BooksOK, NotesOK, EntryOK, Losses, TypeOK, Engaged, Exposed
<1> QED  BY <1>1, ExitInvariance, PTL

\* Two orders of a symbol are out at once only after two calls passed the check
\* together, or after a handler removed the mark of another call.
THEOREM NoDoubleSell == Spec => []OneExitAtATime
<1>1. IInv => OneExitAtATime
  BY DEF IInv, Lonely, Alone, Working, OneExitAtATime
<1> QED  BY <1>1, ExitInvariance, PTL

\* A mark stands only while a call is under way that will remove it.
THEOREM MarksAreOwned == Spec => []MarksHaveOwner
<1>1. IInv => MarksHaveOwner  BY DEF IInv
<1> QED  BY <1>1, ExitInvariance, PTL

\* Record and account differ by what was cut without a sale, what was sold without
\* a report and what was bought without a record, and by nothing else.
THEOREM BooksAgree == Spec => []Accounted
<1>1. IInv => Accounted
  <2> SUFFICES ASSUME IInv, \A t \in Exiters : exit[t].pc # "filled",
                      entry.pc # "bought", ~crossed
               PROVE  held = Recorded + adrift + sunk - resting - unreported
    BY DEF Accounted
  <2>1. Unrecorded = sunk - resting /\ sunk \in Int /\ resting \in Int
    BY DEF IInv, EntryOK, Losses, EntryTypeOK, Unrecorded, Pending
  <2>2. Recorded \in Int /\ adrift \in Int /\ unreported \in Int
    BY RecordedType DEF IInv, Types, NotesOK
  <2>3. held = Balance  BY DEF IInv, Books, Settled
  <2> QED  BY <2>1, <2>2, <2>3 DEF Balance
<1> QED  BY <1>1, ExitInvariance, PTL

\* One entry loses at most one position more than a category of each policy may
\* be tried again.
THEOREM LossIsBounded == Spec => []LostBounded
<1>1. IInv => LostBounded  BY DEF IInv, EntryOK, Losses
<1> QED  BY <1>1, ExitInvariance, PTL

\* close_position removes the position that was sold.
THEOREM ClosesItsOwn == Spec => []ClosesWhatItSold
<1>1. IInv => ClosesWhatItSold
  BY DEF IInv, Reading, OnTracked, Engaged, ClosesWhatItSold
<1> QED  BY <1>1, ExitInvariance, PTL
=============================================================================
