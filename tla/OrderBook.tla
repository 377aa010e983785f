----------------------------- MODULE OrderBook -----------------------------
(***************************************************************************)
(* One market from its PMXT rows to its disposition (transform_market):   *)
(* the rows of each outcome token are ordered and deduplicated, its book  *)
(* is rebuilt from the first snapshot on, the books are sampled as of     *)
(* each grid point, and the market is admitted or excluded.               *)
(*                                                                         *)
(* Rows with one receive time form a batch.  Their order in it is the one *)
(* of the source object, and only the last row of a batch prunes the book *)
(* to the best quotes it claims and is checked against them.              *)
(*                                                                         *)
(* Prices are ticks from 0 to One, which as best quotes claim an empty     *)
(* side.  A time unit is one grid interval of 200 ms.  Source times agree  *)
(* with the order of the rows.  Decoding is abstracted: every row has      *)
(* passed it, and a level with another price or a negative size, which     *)
(* fails the run, is left out.                                             *)
(***************************************************************************)
EXTENDS Integers, Sequences, FiniteSets, Functions

CONSTANTS
    Tokens,   \* the two outcome tokens, in sorted order
    One,      \* the price of 1, in ticks
    Start,    \* market_start_ns
    End,      \* market_end_ns
    Warmup,   \* the causal window before the start
    Inputs,   \* the rows that the source objects may hold of each token
    None      \* no claim, no gap, no outcome yet

Sides == {"BUY", "SELL"}
Outcomes == {"TIER_A", "SOURCE_GAP", "EVENT_CONFLICT", "NO_INITIAL_SNAPSHOT"}

\* Level: the prices that a level may have.
Prices == 0..One

\* A book maps each side to the sizes at its prices.
IsBook(book) ==
    /\ book = [s \in Sides |-> book[s]]
    /\ \A s \in Sides : \E P \in SUBSET Prices : book[s] \in [P -> Nat \ {0}]
NoBook == <<>>

\* decode_rows, _levels and _validate_event_shape: what is known of a row.
WellFormed(row) ==
    /\ row.recv \in Nat
    /\ row.best \in [Sides -> Int \cup {None}]
    /\ row.type = "book" => IsBook(row.levels)
    /\ row.type = "change" => row.side \in Sides /\ row.price \in Prices /\ row.size \in Nat

\* The market has two tokens, a window, and decoded rows.
ASSUME MarketAssumption ==
    /\ Len(Tokens) = 2 /\ Tokens[1] # Tokens[2]
    /\ One \in Nat \ {0}
    /\ Start \in Nat /\ End \in Nat /\ Warmup \in 0..Start /\ Start < End
    /\ None \notin Int \cup Outcomes
    /\ \A rows \in Inputs :
          /\ DOMAIN rows = {Tokens[1], Tokens[2]}
          /\ \A t \in DOMAIN rows : /\ Len(rows[t]) \in Nat
                                   /\ DOMAIN rows[t] = 1..Len(rows[t])
                                   /\ \A i \in DOMAIN rows[t] : WellFormed(rows[t][i])

VARIABLES
    raw,      \* the rows of each token, in the order of the source object
    pc, at,   \* the phase of the transformation, and its token
    states,   \* BookStates of each token: receive time and book
    grid,     \* the next grid point of the token
    index,    \* BookStates the sampling has passed
    gapStart, \* start of the open gap, or None
    samples,  \* sampled books: token, grid point and book
    gaps,     \* closed gaps: token, start and end
    outcome   \* tier or reason of exclusion

vars == <<raw, pc, at, states, grid, index, gapStart, samples, gaps, outcome>>

Token == Tokens[at]

-----------------------------------------------------------------------------
(* Ordering *)

\* market_receive_window_filter: the warm-up hour and the market itself.
Visible(row) == Start - Warmup <= row.recv /\ row.recv < End

\* order_and_deduplicate: the first of equal rows is kept.
Kept(rows) ==
    {i \in DOMAIN rows : Visible(rows[i]) /\ ~\E j \in 1..i - 1 : rows[j] = rows[i]}

\* order_key: receive time, then the place in the source.
Earlier(rows, i, j) ==
    rows[i].recv < rows[j].recv \/ (rows[i].recv = rows[j].recv /\ i < j)

\* Mutant: the rows stay in the order of the source.
UnorderedEvents(rows) ==
    LET kept == Kept(rows)
        Nth(n) == CHOOSE i \in kept : Cardinality({j \in kept : j < i}) = n - 1
    IN  [n \in 1..Cardinality(kept) |-> rows[Nth(n)]]

Events(rows) ==
    LET kept == Kept(rows)
        Nth(n) == CHOOSE i \in kept :
                      Cardinality({j \in kept : Earlier(rows, j, i)}) = n - 1
    IN  [n \in 1..Cardinality(kept) |-> rows[Nth(n)]]

-----------------------------------------------------------------------------
(* Reconstruction *)

\* Price p is a better quote than q.
Improves(side, p, q) == IF side = "BUY" THEN p > q ELSE p < q

\* The claim that a side is empty.
Sentinel(side) == IF side = "BUY" THEN 0 ELSE One

\* The best quote of a side, and the one a row claims; empty sides have none.
Best(book, side) ==
    {p \in DOMAIN book[side] : \A q \in DOMAIN book[side] : ~Improves(side, q, p)}
Claimed(row, side) == {row.best[side]} \ {Sentinel(side)}

Crossed(book) ==
    \E bid \in DOMAIN book["BUY"], ask \in DOMAIN book["SELL"] : bid >= ask

\* A level is removed by size 0 and replaced by any other size.
Updated(levels, row) ==
    IF row.size = 0 THEN Restrict(levels, DOMAIN levels \ {row.price})
    ELSE [p \in DOMAIN levels \cup {row.price} |-> IF p = row.price THEN row.size ELSE levels[p]]

\* A price better than the best quote the row claims is stale.
Stale(row, side, p) ==
    /\ row.best[side] # None
    /\ row.best[side] = Sentinel(side) \/ Improves(side, p, row.best[side])

Pruned(book, row) ==
    [s \in Sides |-> Restrict(book[s], {p \in DOMAIN book[s] : ~Stale(row, s, p)})]

\* Mutant: the book is pruned and checked only at the end of the stream.
EndsStream(events, i) == i = Len(events)

\* The next row arrives at another time.
EndsBatch(events, i) == i = Len(events) \/ events[i + 1].recv # events[i].recv

\* The book after row i.
BookAfter(book, events, i) ==
    LET row == events[i]
    IN  CASE row.type = "book" -> row.levels
          [] row.type = "change" ->
                LET updated == [book EXCEPT ![row.side] = Updated(book[row.side], row)]
                IN  IF EndsBatch(events, i) THEN Pruned(updated, row) ELSE updated
          [] OTHER -> book

\* The tick sizes do not chain, or a batch ends in a crossed book or in other
\* best quotes than claimed.
Conflicts(token, book, events, i) ==
    LET row == events[i]
    IN  \/ row.type = "tick" /\ token.tick # None /\ row.old # token.tick
        \/ /\ EndsBatch(events, i)
           /\ \/ Crossed(book)
              \/ \E s \in Sides : row.best[s] # None /\ Best(book, s) # Claimed(row, s)

\* _token_states for one row: rows before the first snapshot and trades are
\* passed over; the first conflict ends the market.
AfterRow(token, events, i) ==
    LET row == events[i]
        book == BookAfter(token.book, events, i)
    IN  IF \/ token.failed \/ row.type = "trade"
           \/ token.book = NoBook /\ row.type # "book"
        THEN token
        ELSE [book |-> book,
              tick |-> IF row.type = "tick" THEN row.new ELSE token.tick,
              failed |-> Conflicts(token, book, events, i),
              states |-> Append(token.states, [recv |-> row.recv, book |-> book])]

\* BookReconstructor on the events of one token.
Replayed(events) ==
    LET after[i \in 0..Len(events)] ==
            IF i = 0 THEN [book |-> NoBook, tick |-> None, failed |-> FALSE, states |-> <<>>]
            ELSE AfterRow(after[i - 1], events, i)
    IN  after[Len(events)]

-----------------------------------------------------------------------------
(* transform_market *)

Init ==
    /\ raw \in Inputs
    /\ pc = "reconstruct" /\ at = 1
    /\ states = [t \in DOMAIN raw |-> <<>>]
    /\ grid = Start /\ index = 0 /\ gapStart = None
    /\ samples = {} /\ gaps = {}
    /\ outcome = None

\* The phase goes over the tokens in their order.
NextToken(phase) ==
    IF at < Len(Tokens) THEN at' = at + 1 /\ UNCHANGED pc ELSE at' = 1 /\ pc' = phase

Exclude(reason) == outcome' = reason /\ pc' = "done" /\ UNCHANGED at

\* A market without any row has no book at all; else each token with rows
\* must replay without conflict from a snapshot.
Reconstruct ==
    /\ pc = "reconstruct"
    /\ LET events == Events(raw[Token])
           token == Replayed(events)
       IN  \/ /\ \A t \in DOMAIN raw : Events(raw[t]) = <<>>
              /\ Exclude("SOURCE_GAP")
              /\ UNCHANGED states
           \/ /\ token.failed
              /\ Exclude("EVENT_CONFLICT")
              /\ UNCHANGED states
           \/ /\ ~token.failed /\ token.states = <<>> /\ events # <<>>
              /\ Exclude("NO_INITIAL_SNAPSHOT")
              /\ UNCHANGED states
           \/ /\ ~token.failed /\ (token.states # <<>> \/ events = <<>>)
              /\ \E t \in DOMAIN raw : Events(raw[t]) # <<>>
              /\ states' = [states EXCEPT ![Token] = token.states]
              /\ NextToken("resample")
              /\ UNCHANGED outcome
    /\ UNCHANGED <<raw, grid, index, gapStart, samples, gaps>>

\* The number of the last state received by the grid point.
Received(S, g) == Cardinality({i \in DOMAIN S : S[i].recv <= g})

\* One grid point of resample_200ms: the state as of it is sampled and closes
\* an open gap, or the gap opens or goes on; the end of the market closes it.
Sample ==
    /\ pc = "resample" /\ grid < End
    /\ index' = Received(states[Token], grid)
    /\ LET open == IF gapStart = None THEN grid ELSE gapStart
           closed == IF gapStart = None THEN {} ELSE {<<Token, gapStart, grid>>}
       IN  IF index' = 0
           THEN /\ gapStart' = open
                /\ UNCHANGED <<samples, gaps>>
           ELSE /\ samples' = samples \cup {<<Token, grid, states[Token][index'].book>>}
                /\ gaps' = gaps \cup closed
                /\ gapStart' = None
    /\ grid' = grid + 1
    /\ UNCHANGED <<raw, pc, at, states, outcome>>

\* Mutant: the sampling of the next token does not start over.
EndGridInPlace ==
    /\ pc = "resample" /\ grid = End
    /\ gaps' = gaps \cup (IF gapStart = None THEN {} ELSE {<<Token, gapStart, End>>})
    /\ grid' = Start /\ gapStart' = None
    /\ NextToken("classify")
    /\ UNCHANGED <<raw, states, index, samples, outcome>>

\* Mutant: a gap that reaches the end of the market is not recorded.
EndGridUngapped ==
    /\ pc = "resample" /\ grid = End
    /\ grid' = Start /\ index' = 0 /\ gapStart' = None
    /\ NextToken("classify")
    /\ UNCHANGED <<raw, states, samples, gaps, outcome>>

\* Past the last grid point an open gap ends with the market.
EndGrid ==
    /\ pc = "resample" /\ grid = End
    /\ gaps' = gaps \cup (IF gapStart = None THEN {} ELSE {<<Token, gapStart, End>>})
    /\ grid' = Start /\ index' = 0 /\ gapStart' = None
    /\ NextToken("classify")
    /\ UNCHANGED <<raw, states, samples, outcome>>

\* classify: a market with a gap is excluded, any other is of the first tier.
Classify ==
    /\ pc = "classify"
    /\ Exclude(IF gaps = {} THEN "TIER_A" ELSE "SOURCE_GAP")
    /\ UNCHANGED <<raw, states, grid, index, gapStart, samples, gaps>>

Next == Reconstruct \/ Sample \/ EndGrid \/ Classify

Spec == Init /\ [][Next]_vars
=============================================================================
