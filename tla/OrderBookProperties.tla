------------------------ MODULE OrderBookProperties ------------------------
(***************************************************************************)
(* What a reader of the samples may rely on, stated on the rows of the    *)
(* source and not on the way they are processed.                          *)
(***************************************************************************)
EXTENDS OrderBook

-----------------------------------------------------------------------------
(* Reference: the level of one price as of a time *)

\* Row i comes no later than row j, by receive time and place.
NotAfter(rows, i, j) ==
    rows[i].recv < rows[j].recv \/ (rows[i].recv = rows[j].recv /\ i <= j)

\* The rows of a market: visible, and no repetition of an earlier one.
RowsOf(t) ==
    {i \in DOMAIN raw[t] :
        /\ raw[t][i].recv \in Start - Warmup..End - 1
        /\ \A j \in DOMAIN raw[t] : j < i => raw[t][j] # raw[t][i]}

\* Row i is the last one of its receive time.
ClosesBatch(t, i) ==
    \A j \in RowsOf(t) : raw[t][j].recv = raw[t][i].recv => j <= i

\* Row i gives price p of the side a size.
Quotes(t, i, side, p) ==
    LET row == raw[t][i]
    IN  \/ row.type = "book" /\ p \in DOMAIN row.levels[side]
        \/ row.type = "change" /\ row.side = side /\ row.price = p /\ row.size > 0

\* Row i claims a best quote worse than p, or none, when its batch is over.
Outbids(t, i, side, p) ==
    LET row == raw[t][i]
    IN  /\ row.type = "change" /\ ClosesBatch(t, i)
        /\ row.best[side] # None
        /\ IF side = "BUY" THEN p > row.best[side] \/ row.best[side] = 0
           ELSE p < row.best[side] \/ row.best[side] = One

\* Row i says something else about price p of the side.
Overrides(t, i, side, p) ==
    LET row == raw[t][i]
    IN  \/ row.type = "book"
        \/ row.type = "change" /\ row.side = side /\ row.price = p
        \/ Outbids(t, i, side, p)

\* Row i is a snapshot or comes after one.
Anchored(t, i) ==
    \E k \in RowsOf(t) : raw[t][k].type = "book" /\ NotAfter(raw[t], k, i)

\* The rows that quote price p as of time g and were not overridden since.
Standing(t, side, p, g) ==
    {i \in RowsOf(t) :
        /\ raw[t][i].recv <= g /\ Anchored(t, i)
        /\ Quotes(t, i, side, p) /\ ~Outbids(t, i, side, p)
        /\ \A j \in RowsOf(t) : Overrides(t, j, side, p) /\ raw[t][j].recv <= g =>
               NotAfter(raw[t], j, i)}

SizeQuoted(t, i, side, p) ==
    IF raw[t][i].type = "book" THEN raw[t][i].levels[side][p] ELSE raw[t][i].size

\* The book of token t as of time g.
BookAsOf(t, g) ==
    [s \in Sides |->
        [p \in {p \in Prices : Standing(t, s, p, g) # {}} |->
            SizeQuoted(t, CHOOSE i \in Standing(t, s, p, g) : TRUE, s, p)]]

-----------------------------------------------------------------------------

TypeOK ==
    /\ pc \in {"reconstruct", "resample", "classify", "done"}
    /\ at \in 1..Len(Tokens)
    /\ grid \in Start..End /\ gapStart \in {None} \cup Start..End
    /\ index \in 0..Len(states[Token])
    /\ outcome \in Outcomes \cup {None}
    /\ outcome # None <=> pc = "done"

\* Events after a grid point are never visible: every sample is the book that
\* the rows received by its grid point add up to, in whatever order the source
\* holds them and wherever a batch or an object ends
\* (docs/data-quality-policy.md, order_and_deduplicate, resample_200ms).
SamplesAreAsOf ==
    \A x \in samples : x[3] = BookAsOf(x[1], x[2])

\* Every grid point of an admitted market is sampled once for each token,
\* and in any other market sampled points and gaps divide the window.
GridDivided ==
    pc \in {"classify", "done"} =>
        /\ outcome = "TIER_A" => gaps = {}
        /\ \A t \in DOMAIN raw, g \in Start..End - 1 :
               outcome \notin {"EVENT_CONFLICT", "NO_INITIAL_SNAPSHOT"}
               /\ (\E u \in DOMAIN raw : RowsOf(u) # {}) =>
                   Cardinality({x \in samples : x[1] = t /\ x[2] = g})
                     + Cardinality({x \in gaps : x[1] = t /\ x[2] <= g /\ g < x[3]}) = 1

\* A book sampled after a batch that ends in a snapshot or a change is neither
\* crossed nor locked, and a market is admitted only if each token has a
\* snapshot by its start (docs/source-authority.md).
AdmittedIsSound ==
    outcome = "TIER_A" =>
        /\ \A t \in DOMAIN raw : \E i \in RowsOf(t) :
               raw[t][i].type = "book" /\ raw[t][i].recv <= Start
        /\ \A x \in samples :
               (\A i \in RowsOf(x[1]) : raw[x[1]][i].type = "trade" => ~ClosesBatch(x[1], i))
                   => ~Crossed(x[3])

\* docs/source-authority.md: a contradictory update after anchoring is an
\* EVENT_CONFLICT, so no admitted market has a crossed or locked book.
ContradictionIsConflict ==
    outcome = "TIER_A" => \A x \in samples : ~Crossed(x[3])
=============================================================================
