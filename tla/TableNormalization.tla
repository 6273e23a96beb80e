-------------------------- MODULE TableNormalization --------------------------
(***************************************************************************)
(* What becomes of a table: the cells a source delivers get one name per   *)
(* column and one type per column, are written as JSON beside a database   *)
(* row that describes them, and are read again by the worker that draws a  *)
(* chart.  The worker refuses what does not match the description.         *)
(*                                                                         *)
(* A name is a text and the numbers behind it, (2) or [B]; a header has    *)
(* names with or without blanks around them.  A value is what it looks     *)
(* like: "digits" 12, "padded" 007, "day" 2026-01-31, "moment" a time of a *)
(* workbook, "huge" 1e999, "nested" a JSON object.                         *)
(***************************************************************************)
EXTENDS Naturals, Sequences, SequencesExt

CONSTANTS
    Tables,         \* the tables: source, header, rows, and what Lark says about them
    IndexNames,     \* names that are numbers, ascending: an object has these keys first
    MaxDataColumns, \* MAX_DATA_COLUMNS
    MaxDataRows     \* MAX_DATA_ROWS

Values == {"empty", "digits", "padded", "day", "text", "yes", "huge", "moment", "nested"}

ASSUME TableNormalizationAssumption ==
    /\ \A t \in Tables :
          /\ t.source \in {"csv", "xlsx", "json", "lark"}
          /\ t.header \in Seq(ToSet(t.header)) /\ t.rows \in Seq(ToSet(t.rows))
          /\ \A h \in ToSet(t.header) :
                /\ h.name = [text |-> h.name.text, behind |-> h.name.behind]
                /\ h.name.behind \in Seq(Nat)
          /\ \A r \in ToSet(t.rows) : r \in Seq(Values)
          /\ t.complete \in BOOLEAN /\ t.dates \subseteq DOMAIN t.header
          /\ t.source = "json" => IsInjective(t.header)
    /\ MaxDataColumns \in Nat /\ MaxDataRows \in Nat

VARIABLES
    uploaded,   \* the table as it came
    parsedAs,   \* columns, rows and profiles, as they are stored
    loadedAs,   \* what the worker works with
    tableStage  \* uploaded, refused, stored, loaded or invalid

tableVars == <<uploaded, parsedAs, loadedAs, tableStage>>

Nothing == [columns |-> <<>>, rows |-> <<>>, profiles |-> <<>>]

TableNormalizationInit ==
    uploaded \in Tables /\ parsedAs = Nothing /\ loadedAs = Nothing /\ tableStage = "uploaded"

-----------------------------------------------------------------------------
(* Names. *)

Name(text, behind) == [text |-> text, behind |-> behind]
Unnamed == Name("Unnamed column", <<>>)
Prototype == Name("__proto__", <<>>)
IsBlank(name) == name.text = ""

\* normalizeColumnName
ColumnName(h) == IF IsBlank(h.name) THEN Unnamed ELSE h.name

Mentioned(header) == {ColumnName(h) : h \in ToSet(header)}
Behind(name, n) == [name EXCEPT !.behind = Append(@, n)]
Counted(name, taken) ==
    Behind(name, Min({n \in 2..(Cardinality(taken) + 2) : Behind(name, n) \notin taken}))

\* positionalColumnNames: a name that is taken is counted from 2, past those of the header.
GivenName(names, h, mentioned) ==
    IF ColumnName(h) \in ToSet(names) THEN Counted(ColumnName(h), ToSet(names) \cup mentioned)
    ELSE ColumnName(h)
GivenNames(header) ==
    LET given[i \in 0..Len(header)] ==
            IF i = 0 THEN <<>>
            ELSE Append(given[i-1], GivenName(given[i-1], header[i], Mentioned(header)))
    IN  given[Len(header)]

\* tableFromGrid: a label that is there once is the name; others get their column behind
\* them, once or until the name is new.
Label(header, i) ==
    LET label == header[i].name
    IN  IF IsBlank(label) THEN Behind(Unnamed, i)
        ELSE IF \E j \in DOMAIN header \ {i} : header[j].name = label THEN Behind(label, i)
        ELSE label
BehindOften(name, i, n) == [name EXCEPT !.behind = @ \o [k \in 1..n |-> i]]
LarkName(names, header, i) ==
    LET Free(n) == BehindOften(Label(header, i), i, n) \notin ToSet(names) \cup {Prototype}
    IN  BehindOften(Label(header, i), i, Min({n \in 0..(i + 1) : Free(n)}))
LarkNames(header) ==
    LET given[i \in 0..Len(header)] ==
            IF i = 0 THEN <<>> ELSE Append(given[i-1], LarkName(given[i-1], header, i))
    IN  given[Len(header)]

-----------------------------------------------------------------------------
(* Cells. *)

Null == [at |-> 0, of |-> "empty", as |-> "null"]
\* A cell with the column it comes from.
Cell(at, value, as) == IF value = "empty" THEN Null ELSE [at |-> at, of |-> value, as |-> as]

\* A row may be shorter than the header.
At(row, i) == IF i \in DOMAIN row THEN row[i] ELSE "empty"
Column(i) == {At(row, i) : row \in ToSet(uploaded.rows)} \ {"empty"}

\* coerceDelimitedString: a number with leading zeros or out of range stays text.
Coerced ==
    [v \in Values |-> IF v = "digits" THEN "number" ELSE IF v = "yes" THEN "boolean" ELSE "string"]

\* parseDelimited: a column becomes numbers or truth values if all of its cells do.
Delimited(i, value) ==
    Cell(i, value, IF \E as \in {"number", "boolean"} : \A v \in Column(i) : Coerced[v] = as
                   THEN Coerced[value] ELSE "string")

\* toCell: numbers and truth values as they are; a time and an object become text.
Typed(i, value) ==
    Cell(i, value, IF value \in {"digits", "huge"} THEN "number"
                   ELSE IF value = "yes" THEN "boolean" ELSE "string")

CellAt(i, value) == IF uploaded.source = "csv" THEN Delimited(i, value) ELSE Typed(i, value)

\* Object.fromEntries: of columns of one name the last counts.
RowOf(names, row) ==
    [name \in ToSet(names) |->
        LET i == Max({j \in DOMAIN names : names[j] = name}) IN CellAt(i, At(row, i))]

\* isDateString
IsDate(cell) == cell.of = "day"

\* profileRows, and the types of Lark, which says itself what a date is.
InferredType(cells, saysDate) ==
    LET present == cells \ {Null}
    IN  IF present = {} THEN "null"
        ELSE IF \A c \in present : c.as = "number" THEN "number"
        ELSE IF \A c \in present : c.as = "boolean" THEN "boolean"
        ELSE IF IF uploaded.source = "lark" THEN saysDate
                ELSE \A c \in present : c.as = "string" /\ IsDate(c) THEN "date"
        ELSE "string"

-----------------------------------------------------------------------------
(* Sources. *)

\* Object.keys: every key once, numbers first, and then in the order of insertion.
KeyBefore(a, b, names) ==
    \/ a \in ToSet(IndexNames) /\ b \notin ToSet(IndexNames)
    \/ \E i, j \in DOMAIN IndexNames : i < j /\ a = IndexNames[i] /\ b = IndexNames[j]
    \/ /\ {a, b} \cap ToSet(IndexNames) = {}
       /\ \E i \in DOMAIN names : a = names[i] /\ \A j \in 1..i : b # names[j]
KeyOrders(names) ==
    {keys \in Bijection(1..Cardinality(ToSet(names)), ToSet(names)) :
        \A i, j \in DOMAIN keys : i < j => KeyBefore(keys[i], keys[j], names)}

Names ==
    IF uploaded.source = "lark" THEN LarkNames(uploaded.header) ELSE GivenNames(uploaded.header)
\* The columns are in the order of Lark, or of the keys of a row.
ColumnOrders == IF uploaded.source = "lark" THEN {Names} ELSE KeyOrders(Names)

\* JSON.stringify: what is no number is null.
Written(cell) == IF cell.of = "huge" /\ cell.as = "number" THEN Null ELSE cell

WithinLimits == Len(uploaded.header) <= MaxDataColumns /\ Len(uploaded.rows) <= MaxDataRows
NotEmpty == uploaded.header # <<>> /\ uploaded.rows # <<>>

\* csv-parse takes a row that is too short, and no longer one.
AcceptsDelimited == NotEmpty /\ \A row \in ToSet(uploaded.rows) : Len(row) <= Len(uploaded.header)

\* parseWorkbook: what a row has beyond the header is left out.
AcceptsWorkbook == NotEmpty

\* parseJson and normalizeRows: records without a key are no table.
AcceptsRecords == uploaded.header # <<>>

\* parseTypedGrid, and the header tableFromGrid refuses: all of the range and not less.
AcceptsGrid ==
    /\ uploaded.complete
    /\ uploaded.header # <<>>
    /\ \A row \in ToSet(uploaded.rows) : Len(row) = Len(uploaded.header)
    /\ \E h \in ToSet(uploaded.header) : ~IsBlank(h.name)

Accepts ==
    /\ WithinLimits
    /\ \/ uploaded.source = "csv" /\ AcceptsDelimited
       \/ uploaded.source = "xlsx" /\ AcceptsWorkbook
       \/ uploaded.source = "json" /\ AcceptsRecords
       \/ uploaded.source = "lark" /\ AcceptsGrid

\* The profiles are taken before the rows are written.
StoreTable ==
    /\ tableStage = "uploaded"
    /\ Accepts
    /\ \E columns \in ColumnOrders :
          LET rows == [r \in DOMAIN uploaded.rows |-> RowOf(Names, uploaded.rows[r])]
              Profile(i) ==
                  [name |-> columns[i],
                   type |-> InferredType({rows[r][columns[i]] : r \in DOMAIN rows},
                                         \E d \in uploaded.dates : Names[d] = columns[i])]
          IN  parsedAs' = [columns |-> columns,
                           rows |-> [r \in DOMAIN rows |->
                                        [n \in DOMAIN rows[r] |-> Written(rows[r][n])]],
                           profiles |-> [i \in DOMAIN columns |-> Profile(i)]]
    /\ tableStage' = "stored"
    /\ UNCHANGED <<uploaded, loadedAs>>

RefuseTable ==
    /\ tableStage = "uploaded" /\ ~Accepts
    /\ tableStage' = "refused"
    /\ UNCHANGED <<uploaded, parsedAs, loadedAs>>

-----------------------------------------------------------------------------
(* loadFrozenSnapshot *)

\* parseProfiles
ProfilesValid(profiles) ==
    /\ Len(profiles) <= MaxDataColumns
    /\ \A p \in ToSet(profiles) :
          ~IsBlank(p.name) /\ p.type \in {"string", "number", "boolean", "date", "null"}

\* parseSnapshotPayload; the counts of the database row are those of the parse.
PayloadValid(payload) ==
    /\ payload.columns # <<>> /\ Len(payload.columns) <= MaxDataColumns
    /\ \A c \in ToSet(payload.columns) : ~IsBlank(c)
    /\ IsInjective(payload.columns)
    /\ Len(payload.rows) <= MaxDataRows
    /\ \A row \in ToSet(payload.rows) : DOMAIN row = ToSet(payload.columns)
    /\ ProfilesValid(payload.profiles)
    /\ [i \in DOMAIN payload.profiles |-> payload.profiles[i].name] = payload.columns

\* The rows are built anew; an assignment to __proto__ makes no key.
LoadTable ==
    /\ tableStage = "stored"
    /\ IF PayloadValid(parsedAs)
       THEN /\ loadedAs' = [parsedAs EXCEPT !.rows =
                               [r \in DOMAIN @ |-> Restrict(@[r], DOMAIN @[r] \ {Prototype})]]
            /\ tableStage' = "loaded"
       ELSE tableStage' = "invalid" /\ UNCHANGED loadedAs
    /\ UNCHANGED <<uploaded, parsedAs>>

TableNormalizationNext == StoreTable \/ RefuseTable \/ LoadTable
TableNormalizationSpec == TableNormalizationInit /\ [][TableNormalizationNext]_tableVars

-----------------------------------------------------------------------------
(* Properties, said column by column of the source. *)

\* The column i has come through under a name of its own, with its cells, and with a type
\* that all of them have; "string" says nothing, and Lark says itself what a date is.
Kept(i) ==
    \E name \in ToSet(loadedAs.columns) \ {Prototype} :
        /\ \A r \in DOMAIN uploaded.rows :
              loadedAs.rows[r][name] = Written(CellAt(i, At(uploaded.rows[r], i)))
        /\ \A p \in ToSet(loadedAs.profiles), r \in DOMAIN uploaded.rows :
              p.name = name /\ loadedAs.rows[r][name] # Null =>
                  /\ p.type # "null"
                  /\ p.type \in {"number", "boolean"} => loadedAs.rows[r][name].as = p.type
                  /\ p.type = "date" /\ uploaded.source # "lark" => IsDate(loadedAs.rows[r][name])
        /\ \/ uploaded.source = "lark"
           \/ name = ColumnName(uploaded.header[i])
           \/ \E j \in DOMAIN uploaded.header \ {i} :
                 ColumnName(uploaded.header[j]) = ColumnName(uploaded.header[i])

\* Whatever table is accepted when it is uploaded can be read when a chart is drawn from it,
\* and none of its columns is lost, swapped or renamed without need, however headers repeat
\* one another; only a column that is called __proto__ is (normalizeRows, profileRows,
\* tableFromGrid and parseSnapshotPayload, in three packages).
AcceptedTablesLoad ==
    /\ tableStage # "invalid"
    /\ tableStage = "loaded" =>
          \A i \in DOMAIN uploaded.header :
              \/ Kept(i)
              \/ uploaded.source # "lark" /\ ColumnName(uploaded.header[i]) = Prototype
=============================================================================
