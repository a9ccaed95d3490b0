------------------------------ MODULE Scraping ------------------------------
(***************************************************************************)
(* What scrape and extract_grid read from a page (_scrape, _extract_grid   *)
(* of web-automator/app/player.py): a script run in the page and then in   *)
(* each of its frames, whose results are put together and written.         *)
(*                                                                         *)
(* A document is what the scripts' queries find in it, nested matches      *)
(* included: rows of tables, cells of grids, children of containers.  A    *)
(* text is a model value, trimmed; "" is no text.                          *)
(***************************************************************************)
EXTENDS Naturals, Sequences, SequencesExt

CONSTANTS Pages,     \* the sequences of documents a page and its frames may be
          Columns,   \* what an extract_grid step may give as columns, UNDEFINED for none
          Internal,  \* the keys of a grid's row that are the widget's own
          Texts,     \* the texts of cells and labels
          UNDEFINED

TableRow == [part: {"thead", "tbody", "tfoot"}, cells: Seq(Texts)]
Grid == [labels: Seq(Texts), rows: Seq(Seq(Texts))]
Container == [classed: BOOLEAN, chosen: BOOLEAN, rows: Seq(Seq(Texts))]

\* A page has its own document first; what a widget holds is left open.
ASSUME ScrapingAssumption ==
    \A page \in Pages:
        /\ page \in Seq(Range(page)) \ {<<>>}
        /\ \A d \in Range(page): /\ d.tables \in Seq(Seq(TableRow))
                                /\ d.grids \in Seq(Grid)
                                /\ d.containers \in Seq(Container)

VARIABLES
    job,       \* the step: "scrape" or "extract_grid"
    selector,  \* of a scrape: "table", the default, or "other"
    columns,   \* of an extract_grid: the keys it asks for, or UNDEFINED
    frames,    \* page.frames, each as it is when its turn comes
    turns,     \* how many had their turn
    missed,    \* which of them were passed over
    at,        \* "reading", "saving", "done" or "raised"
    tables,    \* the tables scraped
    result     \* the last result of the grid's script

scrVars == <<job, selector, columns, frames, turns, missed, at, tables, result>>

Nothing == [error |-> "none", headers |-> {}, data |-> <<>>]

ScrInit ==
    /\ job \in {"scrape", "extract_grid"}
    /\ selector \in IF job = "scrape" THEN {"table", "other"} ELSE {"other"}
    /\ columns \in IF job = "scrape" THEN {UNDEFINED} ELSE Columns
    /\ frames \in Pages
    /\ turns = 0
    /\ missed = {}
    /\ at = "reading"
    /\ tables = <<>>
    /\ result = Nothing

\* The elements of a sequence that pass, mapped.
Collect(s, Test(_), Map(_)) ==
    FlattenSeq([i \in DOMAIN s |-> IF Test(s[i]) THEN <<Map(s[i])>> ELSE <<>>])
Only(s, Test(_)) == Collect(s, Test, LAMBDA x: x)
Each(s, Map(_)) == [i \in DOMAIN s |-> Map(s[i])]
Indices(s) == [i \in DOMAIN s |-> i]
-----------------------------------------------------------------------------
(* Strategy 1: tables *)

\* The row in the thead, or else the first.
HeaderRow(t) ==
    IF \E i \in DOMAIN t: t[i].part = "thead"
    THEN SelectInSeq(t, LAMBDA tr: tr.part = "thead")
    ELSE 1

\* The rows of the tbody, or else all.
RowElements(t) ==
    LET body == Only(Indices(t), LAMBDA i: t[i].part = "tbody")
    IN  IF body # <<>> THEN body ELSE Indices(t)

\* Variant: the row the headers were taken from is not skipped.
HeaderTwice(t) ==
    [type |-> "table",
     headers |-> IF t = <<>> THEN <<>> ELSE t[HeaderRow(t)].cells,
     rows |-> Collect(RowElements(t), LAMBDA i: t[i].cells # <<>>, LAMBDA i: t[i].cells)]

FromTable(t) ==
    [type |-> "table",
     headers |-> IF t = <<>> THEN <<>> ELSE t[HeaderRow(t)].cells,
     rows |-> Collect(RowElements(t), LAMBDA i: i # HeaderRow(t) /\ t[i].cells # <<>>,
                      LAMBDA i: t[i].cells)]
-----------------------------------------------------------------------------
(* Strategy 2: grids of div elements *)

LabelsOf(g) == Only(g.labels, LAMBDA label: label # "")

\* Variant: a row is closed by the cell after its last.
FullLate(row, headers) == headers # <<>> /\ Len(row) > Len(headers)

\* A row is over when it has as many cells as there are headers.
Full(row, headers) == headers # <<>> /\ Len(row) >= Len(headers)

Put(acc, cell, headers) ==
    LET row == Append(acc.row, cell)
    IN  IF Full(row, headers)
        THEN [rows |-> Append(acc.rows, row), row |-> <<>>]
        ELSE [rows |-> acc.rows, row |-> row]

\* Cells one by one, in rows.
InRows(cells, headers) ==
    LET put[i \in 0..Len(cells)] ==
            IF i = 0 THEN [rows |-> <<>>, row |-> <<>>] ELSE Put(put[i - 1], cells[i], headers)
    IN  put[Len(cells)]

FromGrid(g) ==
    LET end == InRows(FlattenSeq(g.rows), LabelsOf(g))
    IN  [type |-> "jqxgrid", headers |-> LabelsOf(g),
         rows |-> IF end.row = <<>> THEN end.rows ELSE Append(end.rows, end.row)]
-----------------------------------------------------------------------------
(* Strategy 3: whatever has rows of one width *)

Matches(c, sel) == IF sel = "table" THEN c.classed ELSE c.chosen

\* The first row of two cells or more says how many they have.
FromContainer(c) ==
    LET wide == Only(c.rows, LAMBDA r: Len(r) >= 2)
    IN  Only(wide, LAMBDA r: Len(r) = Len(wide[1]))

FromContainers(d, sel) ==
    Collect(d.containers,
            LAMBDA c: Matches(c, sel) /\ Len(c.rows) >= 2 /\ Len(FromContainer(c)) >= 2,
            LAMBDA c: LET rows == FromContainer(c)
                      IN  [type |-> "div_grid", headers |-> rows[1], rows |-> Tail(rows)])
-----------------------------------------------------------------------------
\* _scrape's script in one document.  The selector narrows no tables: "s table, table"
\* matches every one.
Scraped(d, sel) ==
    LET IsFilled(r) == r.headers # <<>> \/ r.rows # <<>>
        found == Only(Each(d.tables, FromTable) \o Each(d.grids, FromGrid), IsFilled)
    IN  IF found = <<>> THEN FromContainers(d, sel) ELSE found

\* _extract_grid's script in one document.
Extracted(d) ==
    LET w == d.widget
        keys == IF columns # UNDEFINED THEN columns
                ELSE IF w.columns # UNDEFINED THEN w.columns
                ELSE DOMAIN w.rows[1] \ Internal
    IN  IF w.error # "none" THEN [Nothing EXCEPT !.error = w.error]
        ELSE IF w.rows = <<>> THEN [Nothing EXCEPT !.error = "no rows"]
        ELSE [error |-> "none", headers |-> keys,
              data |-> [i \in DOMAIN w.rows |->
                          [key \in keys |-> IF key \in DOMAIN w.rows[i] THEN w.rows[i][key] ELSE UNDEFINED]]]

\* The errors that say that the grid may be in another frame.
Elsewhere == {"no jQuery", "not found"}
-----------------------------------------------------------------------------
\* The script in the page itself.
ReadPage ==
    /\ at = "reading" /\ turns = 0
    /\ turns' = 1
    /\ \/ /\ job = "scrape"
          /\ tables' = Scraped(frames[1], selector)
          /\ UNCHANGED <<at, result>>
       \/ /\ job = "extract_grid"
          /\ result' = Extracted(frames[1])
          /\ at' = IF result'.error \in Elsewhere THEN "reading" ELSE "saving"
          /\ UNCHANGED tables
    /\ UNCHANGED <<job, selector, columns, frames, missed>>

\* Variant: nothing ends the search.
ReadAllFrames ==
    /\ at = "reading" /\ turns \in 1..(Len(frames) - 1)
    /\ turns' = turns + 1
    /\ \/ /\ job = "scrape"
          /\ tables' = tables \o Scraped(frames[turns + 1], selector)
          /\ UNCHANGED result
       \/ /\ job = "extract_grid"
          /\ result' = Extracted(frames[turns + 1])
          /\ UNCHANGED tables
    /\ UNCHANGED <<job, selector, columns, frames, missed, at>>

\* The script in the next frame: a grid that is found ends the search.
ReadFrame ==
    /\ at = "reading" /\ turns \in 1..(Len(frames) - 1)
    /\ turns' = turns + 1
    /\ \/ /\ job = "scrape"
          /\ tables' = tables \o Scraped(frames[turns + 1], selector)
          /\ UNCHANGED <<at, result>>
       \/ /\ job = "extract_grid"
          /\ result' = Extracted(frames[turns + 1])
          /\ at' = IF result'.error = "none" THEN "saving" ELSE "reading"
          /\ UNCHANGED tables
    /\ UNCHANGED <<job, selector, columns, frames, missed>>

\* The script raises in a frame, of which nothing is read.
PassOver ==
    /\ at = "reading" /\ turns \in 1..(Len(frames) - 1)
    /\ turns' = turns + 1
    /\ missed' = missed \union {turns'}
    /\ UNCHANGED <<job, selector, columns, frames, at, tables, result>>

\* The script raises in the page, writing does, or the play is cancelled.
ScrRaise ==
    /\ at \in {"reading", "saving"}
    /\ at' = "raised"
    /\ UNCHANGED <<job, selector, columns, frames, turns, missed, tables, result>>

\* What was read is written and reported.
Report ==
    /\ at = "saving" \/ (at = "reading" /\ turns = Len(frames))
    /\ at' = "done"
    /\ UNCHANGED <<job, selector, columns, frames, turns, missed, tables, result>>

ScrNext == ReadPage \/ ReadFrame \/ PassOver \/ ScrRaise \/ Report

ScrSpec == ScrInit /\ [][ScrNext]_scrVars
-----------------------------------------------------------------------------
(* Correctness *)

\* The headers are the first row, and no row stands outside the thead's one row and the tbody.
Regular(t) ==
    /\ \A i \in DOMAIN t: t[i].part # "tfoot" /\ (i > 1 => t[i].part # "thead")
    /\ t # <<>> => t[1].cells # <<>>

\* Every text of a document's tables and grids, in the order it stands there.
TextsOf(d) ==
    FlattenSeq(Each(d.tables, LAMBDA t: FlattenSeq(Each(t, LAMBDA tr: tr.cells)))
               \o Each(d.grids, LAMBDA g: LabelsOf(g) \o FlattenSeq(g.rows)))

\* Every text of a report's tables.
Kept(s) == FlattenSeq(Each(s, LAMBDA r: r.headers \o FlattenSeq(r.rows)))

\* Property: each text of the tables and grids of every frame that was read is in the report, once
\* and in its place, whichever row the headers were taken from and however the rows of a grid were
\* put together from its cells (a second row of a thead and a tfoot are not read, _scrape,
\* player.py:322-336).
NothingIsLost ==
    at = "done" /\ job = "scrape" =>
        LET read == {i \in DOMAIN frames: i \notin missed}
        IN  (\A i \in read: /\ TextsOf(frames[i]) # <<>>
                            /\ \A t \in Range(frames[i].tables): Regular(t))
            => Kept(tables)
               = FlattenSeq([i \in DOMAIN frames |-> IF i \in read THEN TextsOf(frames[i]) ELSE <<>>])

\* Every column has a label and every row a cell in it.
Labelled(g) ==
    /\ g.labels # <<>> /\ LabelsOf(g) = g.labels
    /\ \A i \in DOMAIN g.rows: Len(g.rows[i]) = Len(g.labels)

\* Property: a value is reported in the row and under the header it stands in: a grid whose columns
\* are labelled comes out with the rows it has, though the script counts cells and sees no rows
\* (player.py:363-381), and what is taken from containers has a value for each header, even when the
\* rows are of several widths (player.py:403-409).
RowsAreAligned ==
    at = "done" /\ job = "scrape" =>
        /\ \A i \in DOMAIN frames \ missed: \A g \in Range(frames[i].grids):
              Labelled(g) => [type |-> "jqxgrid", headers |-> g.labels, rows |-> g.rows] \in Range(tables)
        /\ \A t \in Range(tables):
              t.type = "div_grid" => \A i \in DOMAIN t.rows: Len(t.rows[i]) = Len(t.headers)

\* Property: a grid that stands in the page, or in a frame that can be read of a page that has none,
\* is the one reported: no other frame's answer replaces it, and without it an error is reported and
\* never the rows of another try (_extract_grid, player.py:276-303).
GridIsFound ==
    at = "done" /\ job = "extract_grid" =>
        LET first == Extracted(frames[1])
            having == {i \in 2..Len(frames): i \notin missed /\ Extracted(frames[i]).error = "none"}
        IN  IF first.error \in Elsewhere /\ having # {}
            THEN \E i \in having: (\A j \in having: i <= j) /\ result = Extracted(frames[i])
            ELSE IF first.error \in Elsewhere THEN result.error # "none" /\ result.data = <<>>
            ELSE result = first

ScrTypeOK ==
    /\ job \in {"scrape", "extract_grid"}
    /\ selector \in {"table", "other"}
    /\ columns \in Columns \union {UNDEFINED}
    /\ frames # <<>>
    /\ turns \in 0..Len(frames)
    /\ missed \subseteq 2..turns
    /\ at \in {"reading", "saving", "done", "raised"}
    /\ \A t \in Range(tables): DOMAIN t = {"type", "headers", "rows"}
    /\ DOMAIN result = DOMAIN Nothing
=============================================================================
