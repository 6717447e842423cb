----------------------------- MODULE ResultTable ----------------------------
(***************************************************************************)
(* The formatter of the war tournament's results,                          *)
(* war-card-game-monte-carlo/make_md.py: a table is read, sorted and       *)
(* written with aligned columns.  Cells are numbers or texts and have a    *)
(* printed width; strip, round and the characters are left out.            *)
(***************************************************************************)
EXTENDS Naturals, Sequences, FiniteSetsExt

CONSTANTS
    Numbers,                \* cells that astype(int) converts
    CellWidth, HeaderWidth  \* printed widths

VARIABLES
    pc,      \* "idle", "sort", "write", "written", "exit" or "traceback"
    df,      \* the rows of the data frame
    header, sort,
    echoed,  \* "Could not sort" was printed
    out      \* the lines written: the printed width of each of their cells

vars == <<pc, df, header, sort, echoed, out>>

Init ==
    /\ pc = "idle" /\ df = <<>> /\ header = {} /\ sort = TRUE
    /\ echoed = FALSE /\ out = <<>>

\* The command line and pd.read_csv; without rows the program exits with a message.
read_csv(file, columns, sorting) ==
    /\ pc = "idle"
    /\ df' = file /\ header' = columns /\ sort' = sorting
    /\ pc' = IF file = <<>> THEN "exit" ELSE "sort"
    /\ UNCHANGED <<echoed, out>>

\* astype(int) of a column succeeds.
IsInt(column) == \A r \in DOMAIN df : df[r][column] \in Numbers

\* The columns sort_values is called with.
SortKey(row) == <<row["S2"], row["P2"]>>
NotAfter(p, q) == p[1] < q[1] \/ (p[1] = q[1] /\ p[2] <= q[2])

\* sort_values of pandas orders the rows by the key and may leave rows with
\* equal keys in any order: that it does is taken from the library.
sort_values ==
    /\ pc = "sort" /\ sort /\ {"S2", "P2"} \subseteq header /\ IsInt("S2") /\ IsInt("P2")
    /\ \E f \in [DOMAIN df -> DOMAIN df] :
         /\ \A a, b \in DOMAIN df : f[a] = f[b] => a = b
         /\ df' = [r \in DOMAIN df |-> df[f[r]]]
         /\ \A a, b \in DOMAIN df : a < b => NotAfter(SortKey(df'[a]), SortKey(df'[b]))
    /\ pc' = "write"
    /\ UNCHANGED <<header, sort, echoed, out>>

\* The columns in the order they are tried.
Fails(column) == column \in header /\ ~IsInt(column)
Missing(column) == column \notin header

\* ValueError from astype is caught and the rows stay as they are.
CouldNotSort ==
    /\ pc = "sort" /\ sort
    /\ Fails("S2") \/ (~Missing("S2") /\ Fails("P2"))
    /\ echoed' = TRUE /\ pc' = "write"
    /\ UNCHANGED <<df, header, sort, out>>

\* KeyError from a missing column is not: the program ends there.
MissingColumn ==
    /\ pc = "sort" /\ sort
    /\ Missing("S2") \/ (~Fails("S2") /\ Missing("P2"))
    /\ pc' = "traceback"
    /\ UNCHANGED <<df, header, sort, echoed, out>>

NoSort == pc = "sort" /\ ~sort /\ pc' = "write" /\ UNCHANGED <<df, header, sort, echoed, out>>

\* Mutant: the header is not measured.
col_widths_of_rows(column) == Max({CellWidth[df[r][column]] : r \in DOMAIN df})

col_widths(column) == Max({HeaderWidth[column]} \cup {CellWidth[df[r][column]] : r \in DOMAIN df})

\* ljust pads a cell and cuts nothing off.
ljust(printed, width) == Max({printed, width})

fmt_row(printed) == [column \in header |-> ljust(printed[column], col_widths(column))]

write ==
    /\ pc = "write" /\ pc' = "written"
    /\ out' = <<fmt_row(HeaderWidth),
                [column \in header |-> col_widths(column)]>>
              \o [r \in DOMAIN df |-> fmt_row([column \in header |-> CellWidth[df[r][column]]])]
    /\ UNCHANGED <<df, header, sort, echoed>>

Convert == sort_values \/ CouldNotSort \/ MissingColumn \/ NoSort \/ write

-----------------------------------------------------------------------------
(* Properties.                                                             *)

\* Header, separator and rows line up, however wide each is
\* (make_md.py:50-60).
Aligned == \A a, b \in DOMAIN out : out[a] = out[b]
=============================================================================
