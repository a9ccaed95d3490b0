----------------------------- MODULE MCScraping -----------------------------
(* Every table of up to three rows, alone or with a small frame; grids of up to three columns, some
   without a label; containers with rows of several widths; a widget in the page or in a frame. *)
EXTENDS Scraping

Cell == <<<<"a", "b", "c">>, <<"d", "e", "f">>, <<"g", "h", "i">>>>
Row(i, width) == SubSeq(Cell[i], 1, width)
Upto(k, S) == UNION {[1..j -> S]: j \in 0..k}

Absent == [error |-> "not found", columns |-> UNDEFINED, rows |-> <<>>]
Empty == [tables |-> <<>>, grids |-> <<>>, containers |-> <<>>, widget |-> Absent]

TableOf(shape) == [i \in DOMAIN shape |-> [part |-> shape[i][1], cells |-> Row(i, shape[i][2])]]
Tables == {TableOf(shape): shape \in Upto(3, {"thead", "tbody", "tfoot"} \X (0..2))}

GridOf(labels, width, k) == [labels |-> labels, rows |-> [i \in 1..k |-> Row(i, width)]]
Grids ==
    {GridOf(labels, Len(labels), k): labels \in UNION {[1..w -> {"", "x"}]: w \in 1..3}, k \in 0..3}
    \union {GridOf(<<>>, w, k): w \in 1..3, k \in 0..2}

ContainerOf(widths, marks) ==
    [classed |-> "classed" \in marks, chosen |-> "chosen" \in marks,
     rows |-> [i \in DOMAIN widths |-> Row(i, widths[i])]]
Containers ==
    {ContainerOf(widths, marks): widths \in Upto(3, 0..3), marks \in SUBSET {"classed", "chosen"} \ {{}}}

Rows == <<[key |-> 1, uid |-> 2], [key |-> 3]>>
Widgets ==
    {[error |-> error, columns |-> UNDEFINED, rows |-> <<>>]: error \in {"no jQuery", "not found", "not a grid"}}
    \union {[error |-> "none", columns |-> c, rows |-> rows]: c \in {UNDEFINED, {"key"}}, rows \in {<<>>, Rows}}

ASmallTable == TableOf(<<<<"thead", 1>>, <<"tbody", 1>>>>)
AGrid == GridOf(<<"x", "x">>, 2, 2)
Mains ==
    {[Empty EXCEPT !.tables = <<t>>]: t \in Tables}
    \union {[Empty EXCEPT !.grids = <<g>>]: g \in Grids}
    \union {[Empty EXCEPT !.tables = <<ASmallTable, ASmallTable>>, !.grids = <<g>>]: g \in Grids}
    \union {[Empty EXCEPT !.containers = <<c>>]: c \in Containers}
    \union {[Empty EXCEPT !.widget = w]: w \in Widgets}
Inner ==
    {[Empty EXCEPT !.tables = <<ASmallTable>>], [Empty EXCEPT !.grids = <<AGrid>>]}
    \union {[Empty EXCEPT !.widget = w]: w \in Widgets}

MCPages ==
    {<<d>>: d \in Mains} \union {<<d, e>>: d \in Mains, e \in {x \in Inner: x.widget = Absent}}
    \union {<<[Empty EXCEPT !.widget = w], d, e>>: w \in Widgets, d \in Inner, e \in Inner}
MCColumns == {UNDEFINED, {"key", "other"}}
MCTexts == {"a", "b", "c", "d", "e", "f", "g", "h", "i", "x", ""}
MCInternal == {"uid"}
=============================================================================
