----------------------------- MODULE WarReport ------------------------------
(***************************************************************************)
(* From the tournament to the published table: WarRunner's output is read  *)
(* by the formatter, ResultTable, which can also be given a file that some *)
(* other hand made.                                                        *)
(* Sources: war-card-game-monte-carlo/src/main.cpp, make_md.py.            *)
(***************************************************************************)
EXTENDS WarRunner

CONSTANTS
    OtherFiles,  \* sequences of rows, with the columns they have
    Numbers, CellWidth, HeaderWidth

VARIABLES fpc, df, header, sort, echoed, out

T == INSTANCE ResultTable WITH pc <- fpc

\* Every cell has a printed width, and what a tournament prints are numbers: its
\* strategies and its uint32_t counts of games.
ASSUME ReportAssumption ==
    /\ CellWidth \in [DOMAIN CellWidth -> Nat] /\ HeaderWidth \in [DOMAIN HeaderWidth -> Nat]
    /\ {"S1", "S2", "P1", "P2"} \subseteq DOMAIN HeaderWidth
    /\ \A f \in OtherFiles : /\ f.columns \subseteq DOMAIN HeaderWidth
                             /\ f.rows \in Seq([f.columns -> DOMAIN CellWidth])
    /\ 0 .. NStrategies - 1 \subseteq Numbers \cap DOMAIN CellWidth
    /\ 0 .. Uint32 - 1 \subseteq Numbers \cap DOMAIN CellWidth

reportVars == <<fpc, df, header, sort, echoed, out>>
allVars == <<vars, reportVars>>

ReportInit == Init /\ T!Init

\* print_vector's line for a row, as far as the formatter looks into it.
CsvRow(row) == [S1 |-> row.s1, S2 |-> row.s2, P1 |-> row.p1, P2 |-> row.p2]

CsvColumns == {"S1", "S2", "P1", "P2"}

\* The formatter gets the table the tournament printed.
ConvertTable ==
    /\ pc = "printed"
    /\ \E sorting \in BOOLEAN :
         T!read_csv([k \in DOMAIN results |-> CsvRow(results[k])], CsvColumns, sorting)
    /\ UNCHANGED vars

\* Where no tournament ran it gets any other file.
ConvertOther ==
    /\ pc = "refused" /\ fpc = "idle"
    /\ \E f \in OtherFiles, sorting \in BOOLEAN : T!read_csv(f.rows, f.columns, sorting)
    /\ UNCHANGED vars

Format == T!Convert /\ UNCHANGED vars

Tournament == Next /\ UNCHANGED reportVars

ReportNext == Tournament \/ ConvertTable \/ ConvertOther \/ Format

\* The scheduler of WarRunner's FairSpec.
ReportSpec ==
    /\ ReportInit /\ [][ReportNext]_allVars
    /\ WF_allVars(Main /\ UNCHANGED reportVars)
    /\ WF_allVars((\E k \in DOMAIN futures : PlayGame(k)) /\ UNCHANGED reportVars)

-----------------------------------------------------------------------------
(* Properties.                                                             *)

\* Header, separator and rows of the table line up (make_md.py:49-62).
Aligned == T!Aligned

\* The table published of a tournament has one row for each place of the nested
\* loops, whatever order its tasks finished and its rows were sorted in, with
\* that pair of strategies and the wins of the games played for it; the
\* formatter finds its columns, can sort them and gives nothing up
\* (main.cpp:57-73, make_md.py:29-62).
ReportIsTournament ==
    pc = "printed" =>
        /\ fpc \notin {"exit", "traceback"} /\ ~echoed
        /\ fpc = "written" =>
             LET n == Len(selected_indices)
                 Places == 1 .. n * n
             IN  \E place \in [DOMAIN df -> Places] :
                   /\ \A k \in Places : \E r \in DOMAIN df : place[r] = k
                   /\ \A r, s \in DOMAIN df : place[r] = place[s] => r = s
                   /\ \A r \in DOMAIN df :
                        LET k == place[r]
                        IN  /\ df[r].S1 = selected_indices[1 + ((k - 1) \div n)]
                            /\ df[r].S2 = selected_indices[1 + ((k - 1) % n)]
                            /\ df[r].P1 = Wins(played[k], 1) % Uint32
                            /\ df[r].P2 = Wins(played[k], 2) % Uint32

\* "Optionally sorts by S1 then P1." (make_md.py:27): unless told not to or
\* unable to, the formatter writes the rows of a tournament in that order.
SortedByS1 ==
    pc = "printed" /\ fpc = "written" /\ sort /\ ~echoed =>
        \A a, b \in DOMAIN df :
            a < b => T!NotAfter(<<df[a].S1, df[a].P1>>, <<df[b].S1, df[b].P1>>)
=============================================================================
