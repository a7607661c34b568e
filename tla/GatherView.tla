----------------------------- MODULE GatherView -----------------------------
(***************************************************************************)
(* The spreadsheet over the output of a gather run (tui/gather.go and      *)
(* gather_table.go).  Results become a table of rows; sort, group, fold    *)
(* and filter become the lines on the screen; a cursor and a scroll offset *)
(* point into the lines.  A cell is an opaque value with what the code     *)
(* reads from it: a number, a lowercase text, the queries it contains.     *)
(***************************************************************************)
EXTENDS Subsequences, FiniteSets

CONSTANTS
    Cell, EmptyCell, DashCell,  \* EmptyCell: no cell; DashCell: what it groups as
    Number,         \* parseNum of each cell: ok, nan (not a number), n
    Text,           \* the rank of each cell's lowercase text
    Query, Blank,   \* what may be in the filter; Blank keeps everything
    Holds,          \* the cells that contain a query
    NameCell,       \* the TARGET cell of each target
    Column,         \* what a column of the output may be called
    OutputOf(_, _), \* the outputs a target may give: of a dry run or not
    Heights,        \* heights the terminal may be given
    MaxFolds        \* bound: groups folded at once

ASSUME CellAssumption ==
    /\ {EmptyCell, DashCell} \subseteq Cell
    /\ Number \in [Cell -> [ok : BOOLEAN, nan : BOOLEAN, n : Int]]
    /\ Text \in [Cell -> Nat]
    /\ Blank \in Query /\ Holds \in [Query \ {Blank} -> SUBSET (Cell \ {EmptyCell})]
    /\ Heights \subseteq Nat /\ MaxFolds \in Nat

\* A result names its target, and its records have cells for some of the columns.
ASSUME OutputAssumption ==
    \A target \in DOMAIN NameCell :
        /\ NameCell[target] \in Cell
        /\ \A dry \in BOOLEAN : \A res \in OutputOf(target, dry) :
               /\ res.target = target /\ res.err \in BOOLEAN /\ {res.exit, res.text} \subseteq Cell
               /\ res.cols \in Seq(Column)
               /\ res.recs \in Seq(UNION {[some -> Cell] : some \in SUBSET Column})

Target == "TARGET"
Exit == "EXIT"
OutputCol == "OUTPUT"
OSCol == "OS"

VARIABLES
    screen,         \* the model that has the program: "gather" is this one
    built,          \* history: the rows as they were built
    cols, rows,     \* tbl
    loaded,
    sortCol, sortDesc,
    groupCol,       \* NoGroup, or an index into cols
    collapsed,      \* the keys folded away
    query, filtering,
    lines, cursor, offset,  \* cursor and offset count from 0
    height

NoGroup == 0

table == <<built, cols, rows, loaded>>
view == <<sortCol, sortDesc, groupCol, collapsed, query, filtering>>
place == <<cursor, offset>>
viewVars == <<table, view, lines, place, height>>

-----------------------------------------------------------------------------
(* From results to a table.                                                *)

\* parseRecords: an error is a record of its own; output that the parser makes
\* nothing of is one OUTPUT cell.
ParseRecords(res, parse) ==
    IF res.err \/ parse = "raw" \/ res.recs = <<>>
    THEN [cols |-> <<OutputCol>>, recs |-> <<[col \in {OutputCol} |-> res.text]>>]
    ELSE [cols |-> res.cols, recs |-> res.recs]

\* The cells of a record go over the synthetic ones.
CellsOf(res, rec, os) ==
    [col \in {Target, Exit} \cup (IF os = <<>> THEN {} ELSE {OSCol}) \cup DOMAIN rec |->
        CASE col \in DOMAIN rec -> rec[col]
          [] col \notin DOMAIN rec /\ col = Target -> NameCell[res.target]
          [] col \notin DOMAIN rec /\ col = Exit -> res.exit
          [] OTHER -> os[res.target]]

RowsOf(res, parse, os) ==
    LET recs == ParseRecords(res, parse).recs
    IN  [k \in DOMAIN recs |-> [of |-> <<res.target, k>>, cells |-> CellsOf(res, recs[k], os)]]

\* buildTable
TableCols(rs, parse, os) ==
    Firsts((IF os = <<>> THEN <<Target, Exit>> ELSE <<Target, OSCol, Exit>>)
           \o FlattenSeq([i \in DOMAIN rs |-> ParseRecords(rs[i], parse).cols]))
TableRows(rs, parse, os) ==
    FlattenSeq([i \in DOMAIN rs |-> RowsOf(rs[i], parse, os)])

-----------------------------------------------------------------------------
(* Order, groups, filter.                                                  *)

Get(row, col) == IF col \in DOMAIN row.cells THEN row.cells[col] ELSE EmptyCell

Differ(a, b) == Number[a].nan \/ Number[b].nan \/ Number[a].n # Number[b].n

\* cellLess: by number where both have one, numbers before text.  A comparison
\* with a nan is false.
CellLess(a, b) ==
    IF Number[a].ok /\ Number[b].ok /\ Differ(a, b)
    THEN ~Number[a].nan /\ ~Number[b].nan /\ Number[a].n < Number[b].n
    ELSE IF Number[a].ok # Number[b].ok THEN Number[a].ok
    ELSE Text[a] < Text[b]

Before(a, b, desc) == IF desc THEN CellLess(b, a) ELSE CellLess(a, b)

\* sort.SliceStable on slices this short, as an order of the positions: each is
\* moved in front of the ones before it that its cell goes before, up to the first
\* that it does not.
Order(cells, desc) ==
    LET Insert[sofar \in Seq(DOMAIN cells)] ==
            LET next == Len(sofar) + 1
                stay == {k \in DOMAIN sofar : ~Before(cells[next], cells[sofar[k]], desc)}
            IN  InsertAt(sofar, Max(stay \cup {0}) + 1, next)
        sorted[n \in 0..Len(cells)] == IF n = 0 THEN <<>> ELSE Insert[sorted[n - 1]]
    IN  sorted[Len(cells)]
SortBy(s, cells, desc) ==
    LET order == Order(cells, desc) IN [k \in DOMAIN order |-> s[order[k]]]

SortRows(rs, col, desc) == SortBy(rs, [i \in DOMAIN rs |-> Get(rs[i], col)], desc)

KeyOf(row, col) == IF Get(row, col) = EmptyCell THEN DashCell ELSE Get(row, col)

\* groupRows: the keys in order; a group's rows keep theirs.
Keys(rs, col) ==
    LET found == Firsts([i \in DOMAIN rs |-> KeyOf(rs[i], col)]) IN SortBy(found, found, FALSE)
GroupOf(rs, col, key) == Keep(rs, {i \in DOMAIN rs : KeyOf(rs[i], col) = key})

Matches(row, q) == q = Blank \/ \E col \in DOMAIN row.cells : row.cells[col] \in Holds[q]
FilterRows(rs, q) == IF q = Blank THEN rs ELSE Keep(rs, {i \in DOMAIN rs : Matches(rs[i], q)})

-----------------------------------------------------------------------------
(* From the table to the lines.                                            *)

Header(key, n) == [header |-> TRUE, key |-> key, count |-> n]
RowLine(row) == [header |-> FALSE, row |-> row]
RowLines(rs) == [i \in DOMAIN rs |-> RowLine(rs[i])]

LinesOf(rs, col, folded) ==
    LET keys == Keys(rs, col)
        Group(key) == GroupOf(rs, col, key)
    IN  FlattenSeq([i \in DOMAIN keys |->
            <<Header(keys[i], Len(Group(keys[i])))>>
                \o IF keys[i] \in folded THEN <<>> ELSE RowLines(Group(keys[i]))])

BodyHeight(h) == Max({3, h - 4})

\* clampScroll: the least scrolling that has the cursor in the window.
ClampScroll(cur, off, h) ==
    LET up == IF cur < off THEN cur ELSE off
    IN  IF cur >= up + BodyHeight(h) THEN cur - BodyHeight(h) + 1 ELSE up

Point(cur, off) == cursor' = cur /\ offset' = ClampScroll(cur, off, height')

Clamp(at, n) == IF at >= n THEN Max({0, n - 1}) ELSE at

\* Mutation: the filter, like Exclude, keeps what matches in the slice it reads.
RelineInPlace(rs) ==
    LET shown == SortRows(FilterRows(rs, query'), cols'[sortCol'], sortDesc')
    IN  /\ rows' = shown
        /\ lines' = IF groupCol' = NoGroup THEN RowLines(shown)
                    ELSE LinesOf(shown, cols'[groupCol'], collapsed')

\* The first half of rebuild.  Without a query filterRows returns the table's own
\* slice, which is then sorted in place; with one it returns a copy.
Reline(rs) ==
    \E shown \in {SortRows(FilterRows(rs, query'), cols'[sortCol'], sortDesc')} :
        /\ rows' = IF query' = Blank THEN shown ELSE rs
        /\ lines' = IF groupCol' = NoGroup THEN RowLines(shown)
                    ELSE LinesOf(shown, cols'[groupCol'], collapsed')

\* Mutation: the cursor stays where it was.
RebuildUnclamped(rs) == Reline(rs) /\ Point(cursor, offset)

Rebuild(rs) == Reline(rs) /\ Point(Clamp(cursor, Len(lines')), offset)

-----------------------------------------------------------------------------
(* The view's life.                                                        *)

\* blankGatherView; no size message follows the hand-off to a new model.
BlankView ==
    /\ built = <<>> /\ cols = <<>> /\ rows = <<>> /\ loaded = FALSE
    /\ sortCol = 1 /\ sortDesc = FALSE /\ groupCol = NoGroup /\ collapsed = {}
    /\ query = Blank /\ filtering = FALSE
    /\ lines = <<>> /\ cursor = 0 /\ offset = 0 /\ height = 24

\* q, esc or ctrl+c; the next view starts from nothing.
Quit ==
    /\ screen = "gather"
    /\ screen' = "closed"
    /\ built' = <<>> /\ cols' = <<>> /\ rows' = <<>> /\ loaded' = FALSE
    /\ sortCol' = 1 /\ sortDesc' = FALSE /\ groupCol' = NoGroup /\ collapsed' = {}
    /\ query' = Blank /\ filtering' = FALSE
    /\ lines' = <<>> /\ cursor' = 0 /\ offset' = 0 /\ height' = 24

\* What the run may come back with: one result per target, in order.
Results(targets, dry) ==
    {rs \in [DOMAIN targets -> UNION {OutputOf(targets[i], dry) : i \in DOMAIN targets}] :
        \A i \in DOMAIN targets : rs[i] \in OutputOf(targets[i], dry)}

\* gatherDoneMsg, or newGatherView with results at hand.
Load(rs, parse, os) ==
    /\ screen = "gather" /\ ~loaded
    /\ built' = TableRows(rs, parse, os) /\ loaded' = TRUE
    /\ cols' = TableCols(rs, parse, os)
    /\ UNCHANGED <<screen, view, height>>
    /\ Rebuild(built')

Resize ==
    /\ screen = "gather"
    /\ height' \in Heights
    /\ Point(cursor, offset)
    /\ UNCHANGED <<screen, table, view, lines>>

Listening == screen = "gather" /\ loaded
Browsing == Listening /\ ~filtering

\* Every key in the filter rebuilds.
FilterKey ==
    /\ Listening /\ filtering
    /\ query' \in Query
    /\ UNCHANGED <<screen, built, cols, loaded, height,
                   sortCol, sortDesc, groupCol, collapsed, filtering>>
    /\ Rebuild(rows)

\* / and esc or enter
FilterMode ==
    /\ Listening
    /\ filtering' = ~filtering
    /\ UNCHANGED <<screen, table, sortCol, sortDesc, groupCol, collapsed, query,
                   lines, place, height>>

\* s
SortNext ==
    /\ Browsing
    /\ sortCol' = (sortCol % Len(cols)) + 1
    /\ UNCHANGED <<screen, built, cols, loaded, height,
                   sortDesc, groupCol, collapsed, query, filtering>>
    /\ Rebuild(rows)

\* S or r
SortFlip ==
    /\ Browsing
    /\ sortDesc' = ~sortDesc
    /\ UNCHANGED <<screen, built, cols, loaded, height,
                   sortCol, groupCol, collapsed, query, filtering>>
    /\ Rebuild(rows)

\* g: the next column that is not TARGET, then none.
GroupNext ==
    /\ Browsing
    /\ LET next == IF groupCol = NoGroup THEN 2 ELSE groupCol + 1
       IN  groupCol' = IF next > Len(cols) THEN NoGroup ELSE next
    /\ UNCHANGED <<screen, built, cols, loaded, height,
                   sortCol, sortDesc, collapsed, query, filtering>>
    /\ Rebuild(rows)

\* up, down, pgup, pgdown; end is the longest of moves.
Move(delta) ==
    /\ Browsing /\ lines # <<>>
    /\ UNCHANGED <<screen, table, view, lines, height>>
    /\ Point(Min({Max({cursor + delta, 0}), Len(lines) - 1}), offset)

Home ==
    /\ Browsing
    /\ cursor' = 0 /\ offset' = 0
    /\ UNCHANGED <<screen, table, view, lines, height>>

\* The header at or above the cursor, if there is one.
HeadersAbove == {i \in 1..(cursor + 1) : i \in DOMAIN lines /\ lines[i].header}

Flip(key) == IF key \in collapsed THEN collapsed \ {key} ELSE collapsed \cup {key}

\* Mutation: the cursor is left where it was.
ToggleGroupStay ==
    /\ Browsing /\ groupCol # NoGroup /\ HeadersAbove # {}
    /\ collapsed' = Flip(lines[Max(HeadersAbove)].key)
    /\ Cardinality(collapsed') <= MaxFolds
    /\ UNCHANGED <<screen, built, cols, loaded, height,
                   sortCol, sortDesc, groupCol, query, filtering>>
    /\ Rebuild(rows)

\* toggleGroup: rebuilt with the cursor on the header; then the header is looked
\* for, and the cursor set, once more.
ToggleGroup ==
    /\ Browsing /\ groupCol # NoGroup /\ HeadersAbove # {}
    /\ LET at == Max(HeadersAbove)
       IN  /\ collapsed' = Flip(lines[at].key)
           /\ Cardinality(collapsed') <= MaxFolds
           /\ UNCHANGED <<screen, built, cols, loaded, height,
                          sortCol, sortDesc, groupCol, query, filtering>>
           /\ Reline(rows)
           /\ LET found == CHOOSE i \in DOMAIN lines' :
                               lines'[i].header /\ lines'[i].key = lines[at].key
              IN  Point(found - 1,
                        ClampScroll(Clamp(at - 1, Len(lines')), offset, height))

ViewStep ==
    \/ Resize \/ Quit
    \/ FilterKey \/ FilterMode \/ SortNext \/ SortFlip \/ GroupNext
    \/ \E delta \in {-1, 1, -BodyHeight(height), BodyHeight(height), Len(lines)} : Move(delta)
    \/ Home \/ ToggleGroup

-----------------------------------------------------------------------------
\* The cursor is on a line, whatever was filtered, folded or regrouped under it,
\* and that line is within the window the view draws.
CursorInView ==
    IF lines = <<>> THEN cursor = 0 /\ offset = 0
    ELSE cursor \in 0..(Len(lines) - 1) /\ cursor - offset \in 0..(BodyHeight(height) - 1)

\* The part of the lines that belongs to one group, or all of them.
HeaderOf(i) == Max({h \in 1..i : lines[h].header})
RowAt == {i \in DOMAIN lines : ~lines[i].header}
SameGroup(i, j) == groupCol = NoGroup \/ HeaderOf(i) = HeaderOf(j)
NanFree ==
    \A row \in ToSet(rows) : Matches(row, query) => ~Number[Get(row, cols[sortCol])].nan

\* Numbers by value, then texts.
InOrder(a, b) ==
    /\ Number[b].ok => Number[a].ok /\ Number[a].n <= Number[b].n
    /\ ~Number[a].ok => Text[a] <= Text[b]

Folded(row) == groupCol # NoGroup /\ KeyOf(row, cols[groupCol]) \in collapsed

\* No record of the run is ever lost or doubled: the lines show every row that
\* matches the filter once, under the header of its group, unless that is
\* folded; a header counts its rows; and what is shown is in the order the title
\* claims, numbers by value and before texts, as long as no cell sorted by,
\* of a folded row either, reads as "nan".
LinesFaithful ==
    loaded =>
    /\ ToSet(rows) = ToSet(built) /\ Len(rows) = Len(built)
    /\ \A row \in ToSet(rows) :
           Cardinality({i \in RowAt : lines[i].row = row})
               = IF Matches(row, query) /\ ~Folded(row) THEN 1 ELSE 0
    /\ groupCol # NoGroup =>
           /\ \A i \in RowAt : lines[HeaderOf(i)].key = KeyOf(lines[i].row, cols[groupCol])
           /\ \A h \in DOMAIN lines \ RowAt :
                  lines[h].count = Cardinality({row \in ToSet(rows) :
                      Matches(row, query) /\ KeyOf(row, cols[groupCol]) = lines[h].key})
    /\ NanFree => \A i, j \in RowAt :
           LET a == Get(lines[i].row, cols[sortCol])
               b == Get(lines[j].row, cols[sortCol])
           IN  i < j /\ SameGroup(i, j) =>
                   IF sortDesc THEN InOrder(b, a) ELSE InOrder(a, b)

HeadersIn(ls) == Keep(ls, {i \in DOMAIN ls : ls[i].header})

\* Folding and unfolding leaves the cursor on the header of the group that it was
\* on or in, and changes no other group.
ToggleAnchors ==
    [][collapsed' # collapsed /\ screen' = "gather" =>
        \E key \in Cell :
            /\ collapsed' = Flip(key)
            /\ lines[Max(HeadersAbove)].key = key
            /\ lines'[cursor' + 1].header /\ lines'[cursor' + 1].key = key
            /\ HeadersIn(lines') = HeadersIn(lines)]_viewVars
=============================================================================
