----------------------------- MODULE Import_proofs -----------------------------
(***************************************************************************)
(* What an import promises from its files to its plan.  The reader, for       *)
(* every limit, every number of files, sheets, columns and rows and whatever  *)
(* is in them: a preview without errors is whole but for what is named.  The  *)
(* preview and the merge, for every list of rows, every member, every earlier *)
(* mapping and every row key: cycles of prerequisites are found, and what was *)
(* ready can be merged but for what is named.                                *)
(***************************************************************************)
EXTENDS ImportFile, ImportPreview, Sums_proofs, SequenceTheorems

-----------------------------------------------------------------------------
(* The rows of a sheet.                                                     *)

\* What a sheet's filled rows are, up to a row.
FilledTo(sheet, n) == {r \in 1..n : HasText(sheet.rows[r])}

\* One row more counts one if it is filled.
LEMMA FilledNext ==
    ASSUME NEW sheet, NEW n \in Nat
    PROVE  /\ Filled(sheet, 0) = 0 /\ Filled(sheet, n) \in Nat
           /\ Filled(sheet, n + 1) = Filled(sheet, n) + (IF HasText(sheet.rows[n + 1]) THEN 1 ELSE 0)
<1>1. IsFiniteSet(FilledTo(sheet, n))
  <2>1. IsFiniteSet(1..n) /\ FilledTo(sheet, n) \subseteq 1..n
    BY FS_Interval DEF FilledTo
  <2> QED BY <2>1, FS_Subset
<1>2. \A m \in Nat : Filled(sheet, m) = Cardinality(FilledTo(sheet, m))
  BY DEF Filled, FilledTo
<1>3. Filled(sheet, 0) = 0
  <2>1. FilledTo(sheet, 0) = {}
    BY DEF FilledTo
  <2> QED BY <1>2, <2>1, FS_EmptySet
<1>4. Filled(sheet, n) \in Nat
  BY <1>1, <1>2, FS_CardinalityType
<1>5. CASE HasText(sheet.rows[n + 1])
  <2>1. FilledTo(sheet, n + 1) = FilledTo(sheet, n) \cup {n + 1} /\ n + 1 \notin FilledTo(sheet, n)
    <3>1. 1..(n + 1) = (1..n) \cup {n + 1} /\ n + 1 \notin 1..n
      OBVIOUS
    <3> QED BY <1>5, <3>1 DEF FilledTo
  <2>2. Cardinality(FilledTo(sheet, n) \cup {n + 1}) = Cardinality(FilledTo(sheet, n)) + 1
    BY <1>1, <2>1, FS_AddElement
  <2> QED BY <1>2, <1>3, <1>4, <1>5, <2>1, <2>2
<1>6. CASE ~HasText(sheet.rows[n + 1])
  <2>1. FilledTo(sheet, n + 1) = FilledTo(sheet, n)
    <3>1. 1..(n + 1) = (1..n) \cup {n + 1}
      OBVIOUS
    <3> QED BY <1>6, <3>1 DEF FilledTo
  <2> QED BY <1>2, <1>3, <1>4, <1>6, <2>1
<1> QED BY <1>5, <1>6

\* An earlier filled row has an earlier place.
LEMMA FilledLess ==
    ASSUME NEW sheet, NEW n \in Nat, NEW r \in 1..n, HasText(sheet.rows[r])
    PROVE  Filled(sheet, r) \in 1..Filled(sheet, n)
<1>1. FilledTo(sheet, r) \subseteq FilledTo(sheet, n) /\ r \in FilledTo(sheet, r)
  <2>1. 1..r \subseteq 1..n /\ r \in 1..r
    OBVIOUS
  <2> QED BY <2>1 DEF FilledTo
<1>2. IsFiniteSet(FilledTo(sheet, n))
  <2>1. IsFiniteSet(1..n)
    BY FS_Interval
  <2>2. FilledTo(sheet, n) \subseteq 1..n
    BY DEF FilledTo
  <2> QED BY <2>1, <2>2, FS_Subset
<1>3. IsFiniteSet(FilledTo(sheet, r)) /\ Cardinality(FilledTo(sheet, r)) <= Cardinality(FilledTo(sheet, n))
  BY <1>1, <1>2, FS_Subset
<1>4. Cardinality(FilledTo(sheet, r)) \in Nat /\ Cardinality(FilledTo(sheet, r)) # 0
  BY <1>1, <1>3, FS_CardinalityType, FS_EmptySet
<1>5. Cardinality(FilledTo(sheet, n)) \in Nat
  BY <1>2, FS_CardinalityType
<1>6. /\ Filled(sheet, r) = Cardinality(FilledTo(sheet, r))
      /\ Filled(sheet, n) = Cardinality(FilledTo(sheet, n))
  BY DEF Filled, FilledTo
<1> QED BY <1>3, <1>4, <1>5, <1>6

\* rows are the filled ones of the first n rows.
WholeTo(sheet, rows, n) ==
    /\ Len(rows) = Filled(sheet, n)
    /\ \A r \in 1..n : HasText(sheet.rows[r]) =>
         rows[Filled(sheet, r)] = RowFromValues(sheet.headers, sheet.rows[r])

\* The first rows of a sheet and the next one.
LEMMA WholeNext ==
    ASSUME NEW S, NEW sheet, NEW rows \in Seq(S), NEW n \in Nat, WholeTo(sheet, rows, n)
    PROVE  /\ ~HasText(sheet.rows[n + 1]) => WholeTo(sheet, rows, n + 1)
           /\ HasText(sheet.rows[n + 1]) /\ RowFromValues(sheet.headers, sheet.rows[n + 1]) \in S =>
                WholeTo(sheet, Append(rows, RowFromValues(sheet.headers, sheet.rows[n + 1])), n + 1)
<1>1. PICK k : k = Filled(sheet, n)
  OBVIOUS
<1>2. k \in Nat /\ Len(rows) = k
  BY <1>1, FilledNext DEF WholeTo
<1>3. Filled(sheet, n + 1) = k + (IF HasText(sheet.rows[n + 1]) THEN 1 ELSE 0)
  BY <1>1, FilledNext
<1>4. \A r \in 1..n : HasText(sheet.rows[r]) =>
        rows[Filled(sheet, r)] = RowFromValues(sheet.headers, sheet.rows[r])
  BY DEF WholeTo
<1>5. \A r \in 1..(n + 1) : r \in 1..n \/ r = n + 1
  OBVIOUS
<1>6. ASSUME ~HasText(sheet.rows[n + 1]) PROVE WholeTo(sheet, rows, n + 1)
  <2>1. Filled(sheet, n + 1) = k
    BY <1>2, <1>3, <1>6
  <2>2. \A r \in 1..(n + 1) : HasText(sheet.rows[r]) =>
          rows[Filled(sheet, r)] = RowFromValues(sheet.headers, sheet.rows[r])
    BY <1>4, <1>5, <1>6
  <2> QED BY <1>2, <2>1, <2>2 DEF WholeTo
<1>7. ASSUME HasText(sheet.rows[n + 1]), NEW new \in S, new = RowFromValues(sheet.headers, sheet.rows[n + 1])
      PROVE  WholeTo(sheet, Append(rows, new), n + 1)
  <2>1. PICK more : more = Append(rows, new)
    OBVIOUS
  <2>2. Len(more) = k + 1 /\ more[k + 1] = new /\ \A i \in 1..k : more[i] = rows[i]
    BY <1>2, <1>7, <2>1
  <2>3. Filled(sheet, n + 1) = k + 1
    BY <1>2, <1>3, <1>7
  <2>4. ASSUME NEW r \in 1..(n + 1), HasText(sheet.rows[r])
        PROVE  more[Filled(sheet, r)] = RowFromValues(sheet.headers, sheet.rows[r])
    <3>1. CASE r = n + 1
      BY <1>7, <2>2, <2>3, <3>1
    <3>2. CASE r \in 1..n
      <4>1. Filled(sheet, r) \in 1..k
        BY <1>1, <2>4, <3>2, FilledLess
      <4> QED BY <1>4, <2>2, <2>4, <3>2, <4>1
    <3> QED BY <1>5, <3>1, <3>2
  <2>5. WholeTo(sheet, more, n + 1)
    BY <2>2, <2>3, <2>4 DEF WholeTo
  <2> QED BY <2>1, <2>5
<1> QED BY <1>6, <1>7

-----------------------------------------------------------------------------
(* The columns of a row.                                                    *)

\* Headers that are no error: each has a name of its own.
Sound(headers) == HeaderErrors(headers) = {}

\* Each header is then the last and only one of its column.
LEMMA OneColumnEach ==
    ASSUME NEW headers \in Seq(Name), Sound(headers), NEW i \in DOMAIN headers
    PROVE  LastAt(headers, Column(headers, i)) = i
<1>1. \A j \in DOMAIN headers : headers[j] # Blank
  BY DEF Sound, HeaderErrors
<1>2. \A j, k \in DOMAIN headers : j # k => headers[j] # headers[k]
  BY <1>1 DEF Sound, HeaderErrors
<1>3. \A j \in DOMAIN headers : Column(headers, j) = Column(headers, i) => j = i
  <2>1. \A j \in DOMAIN headers : Column(headers, j) = <<"named", headers[j]>>
    BY <1>1 DEF Column
  <2>2. \A j \in DOMAIN headers : Column(headers, j) = Column(headers, i) => headers[j] = headers[i]
    BY <2>1
  <2> QED BY <1>2, <2>2
<1>4. {j \in DOMAIN headers : Column(headers, j) = Column(headers, i)} = {i}
  BY <1>3
<1>5. i \in Int
  OBVIOUS
<1>6. Max({i}) \in {i}
  <2>1. {i} \in SUBSET Int /\ {i} # {} /\ IsFiniteSet({i})
    BY <1>5, FS_Singleton
  <2> QED BY <2>1, MaxIs
<1> QED BY <1>4, <1>6 DEF LastAt

\* A cell that JSON has no type for keeps its text or the first characters of it, and what
\* is no formula does not become one.
LEMMA JsonCellKeeps ==
    ASSUME FileConstants, NEW cell \in Cell
    PROVE  /\ Kept(JsonCell(cell), cell.text)
           /\ ~IsFormula(cell) => ~IsFormula(JsonCell(cell))
<1>1. JsonCell(cell).text = cell.text \/ JsonCell(cell).text = Shortened(cell.text)
  BY DEF JsonCell
<1>2. Shortened(cell.text) = cell.text
      \/ (cell.text \in DOMAIN FirstChars /\ Shortened(cell.text) = FirstChars[cell.text])
  BY DEF Shortened
<1>3. Kept(JsonCell(cell), cell.text)
  BY <1>1, <1>2 DEF Kept
<1>4. ASSUME ~IsFormula(cell) PROVE ~IsFormula(JsonCell(cell))
  <2>1. CASE cell.kind \in {"number", "boolean"}
    <3>1. JsonCell(cell) = cell
      BY <2>1 DEF JsonCell
    <3> QED BY <1>4, <3>1
  <2>2. CASE cell.kind \notin {"number", "boolean"}
    <3>1. JsonCell(cell).kind = "text" /\ JsonCell(cell).text = Shortened(cell.text)
      BY <2>2 DEF JsonCell
    <3>2. cell.kind \in {"text", "date"}
      BY <1>4, <2>2 DEF Cell, Kind, IsFormula
    <3>3. cell.text \notin FormulaText
      BY <1>4, <3>2 DEF Cell, IsFormula
    <3>4. Shortened(cell.text) \notin FormulaText
      <4>1. \A t \in DOMAIN FirstChars : FirstChars[t] \in FormulaText => t \in FormulaText
        <5>1. TextConstants
          BY DEF FileConstants
        <5> QED BY <5>1 DEF TextConstants
      <4> QED BY <1>2, <3>3, <4>1
    <3> QED BY <3>1, <3>4 DEF IsFormula
  <2> QED BY <2>1, <2>2
<1> QED BY <1>3, <1>4

\* A row has under each header the cell that was given for it, ...
LEMMA CellsAreKept ==
    ASSUME FileConstants, NEW headers \in Seq(Name), Sound(headers), NEW cells \in Seq(Cell)
    PROVE  HasCells(RowFromValues(headers, cells), headers, cells)
<1>1. PICK v : v = RowFromValues(headers, cells)
  OBVIOUS
<1>2. ASSUME NEW i \in DOMAIN headers
      PROVE  Kept(v[<<"named", headers[i]>>], IF i \in DOMAIN cells THEN cells[i].text ELSE Blank)
  <2>1. headers[i] # Blank
    BY DEF Sound, HeaderErrors
  <2>2. Column(headers, i) = <<"named", headers[i]>> /\ Column(headers, i) \in Columns(headers)
    BY <2>1 DEF Column, Columns
  <2>3. LastAt(headers, Column(headers, i)) = i
    BY OneColumnEach
  <2>4. v[Column(headers, i)] = IF i <= Len(cells) THEN JsonCell(cells[i]) ELSE NoCell
    BY <1>1, <2>2, <2>3 DEF RowFromValues
  <2>5. i \in DOMAIN cells <=> i <= Len(cells)
    OBVIOUS
  <2>6. CASE i \in DOMAIN cells
    <3>1. cells[i] \in Cell
      BY <2>6
    <3>2. Kept(JsonCell(cells[i]), cells[i].text)
      BY <3>1, JsonCellKeeps
    <3> QED BY <2>2, <2>4, <2>5, <2>6, <3>2
  <2>7. CASE i \notin DOMAIN cells
    <3>1. Kept(NoCell, Blank)
      BY DEF Kept, NoCell
    <3> QED BY <2>2, <2>4, <2>5, <2>7, <3>1
  <2> QED BY <2>6, <2>7
<1> QED BY <1>1, <1>2 DEF HasCells

\* ... and a formula only where one was found.
LEMMA FormulasAreFound ==
    ASSUME FileConstants, NEW type, NEW headers \in Seq(Name), NEW cells \in Seq(Cell),
           ~HasFormula(type, headers, cells),
           NEW c \in DOMAIN RowFromValues(headers, cells)
    PROVE  ~IsFormula(RowFromValues(headers, cells)[c])
<1>1. PICK v : v = RowFromValues(headers, cells)
  OBVIOUS
<1>2. c \in Columns(headers)
  BY DEF RowFromValues
<1>3. CASE type = "csv"
  BY <1>2, <1>3 DEF HasFormula
<1>4. CASE type # "csv"
  <2>1. \A i \in DOMAIN cells : ~IsFormula(cells[i])
    BY <1>4 DEF HasFormula
  <2>2. LastAt(headers, c) \in DOMAIN headers
    <3>1. PICK D : D = {i \in DOMAIN headers : Column(headers, i) = c}
      OBVIOUS
    <3>2. D \in SUBSET Int /\ D # {} /\ D \subseteq DOMAIN headers
      BY <1>2, <3>1 DEF Columns
    <3>3. IsFiniteSet(D)
      <4>1. IsFiniteSet(1..Len(headers)) /\ DOMAIN headers = 1..Len(headers)
        BY FS_Interval
      <4> QED BY <3>2, <4>1, FS_Subset
    <3>4. Max(D) \in D
      BY <3>2, <3>3, MaxIs
    <3> QED BY <3>1, <3>2, <3>4 DEF LastAt
  <2>3. PICK k : k = LastAt(headers, c) /\ k \in Nat /\ k > 0
    BY <2>2
  <2>4. v[c] = IF k <= Len(cells) THEN JsonCell(cells[k]) ELSE NoCell
    BY <1>1, <1>2, <2>3 DEF RowFromValues
  <2>5. CASE k <= Len(cells)
    <3>1. cells[k] \in Cell /\ ~IsFormula(cells[k])
      BY <2>1, <2>3, <2>5
    <3>2. ~IsFormula(JsonCell(cells[k]))
      BY <3>1, JsonCellKeeps
    <3> QED BY <1>1, <2>4, <2>5, <3>2
  <2>6. CASE ~(k <= Len(cells))
    <3>1. ~IsFormula(NoCell)
      <4>1. TextConstants
        BY DEF FileConstants
      <4> QED BY <4>1 DEF IsFormula, NoCell, TextConstants
    <3> QED BY <1>1, <2>4, <2>6, <3>1
  <2> QED BY <2>5, <2>6
<1> QED BY <1>3, <1>4

-----------------------------------------------------------------------------
(* The rows of all tables.                                                  *)

\* A record with what a row gives under its headers, and the tables of those.
RowType == {RowFromValues(h, c) : h \in Seq(Name), c \in Seq(Cell)}
TableType == [entity : EntityName, rows : Seq(RowType)]

\* The rows of some tables are a number.
LEMMA CountIsNat == ASSUME NEW tables \in Seq(TableType) PROVE RowCount(tables) \in Nat
<1>1. PICK f : f = [t \in DOMAIN tables |-> Len(tables[t].rows)]
  OBVIOUS
<1>2. PICK S : S = DOMAIN tables /\ IsFiniteSet(S)
  <2>1. DOMAIN tables = 1..Len(tables) /\ IsFiniteSet(1..Len(tables))
    BY FS_Interval
  <2> QED BY <2>1
<1>3. \A t \in S : f[t] \in Nat
  <2>1. \A t \in S : f[t] = Len(tables[t].rows)
    BY <1>1, <1>2
  <2>2. \A t \in S : tables[t] \in TableType
    BY <1>2
  <2>3. \A t \in S : tables[t].rows \in Seq(RowType)
    BY <2>2 DEF TableType
  <2> QED BY <2>1, <2>3
<1>4. Total(f) = SumOver(f, S)
  <2>1. f = [t \in S |-> f[t]]
    BY <1>1, <1>2
  <2> QED BY <2>1, TotalIs
<1>5. SumOver(f, S) \in Nat
  BY <1>2, <1>3, SumPart
<1> QED BY <1>1, <1>4, <1>5 DEF RowCount

\* One table more adds its own rows.
LEMMA CountNext ==
    ASSUME NEW tables \in Seq(TableType), NEW table \in TableType
    PROVE  RowCount(Append(tables, table)) = RowCount(tables) + Len(table.rows)
<1>1. PICK n : n = Len(tables) /\ n \in Nat /\ DOMAIN tables = 1..n
  OBVIOUS
<1>2. PICK more : more = Append(tables, table)
  OBVIOUS
<1>3. more \in Seq(TableType) /\ DOMAIN more = 1..(n + 1) /\ more[n + 1] = table /\ \A i \in 1..n : more[i] = tables[i]
  BY <1>1, <1>2
<1>4. PICK f, g : /\ f = [t \in DOMAIN tables |-> Len(tables[t].rows)]
                  /\ g = [t \in DOMAIN more |-> Len(more[t].rows)]
  OBVIOUS
<1>5. RowCount(tables) = Total(f) /\ RowCount(more) = Total(g)
  BY <1>4 DEF RowCount
<1>6. Total(f) = SumOver(f, 1..n) /\ Total(g) = SumOver(g, 1..(n + 1))
  <2>1. f = [t \in 1..n |-> f[t]] /\ g = [t \in 1..(n + 1) |-> g[t]]
    BY <1>1, <1>3, <1>4
  <2> QED BY <2>1, TotalIs
<1>7. \A t \in 1..(n + 1) : g[t] \in Nat
  <2>1. \A t \in 1..(n + 1) : g[t] = Len(more[t].rows)
    BY <1>3, <1>4
  <2>2. \A t \in 1..(n + 1) : more[t] \in TableType
    <3>1. \A t \in 1..n : tables[t] \in TableType
      BY <1>1
    <3>2. \A t \in 1..(n + 1) : t \in 1..n \/ t = n + 1
      BY <1>1
    <3> QED BY <1>3, <3>1, <3>2
  <2>3. \A t \in 1..(n + 1) : more[t].rows \in Seq(RowType)
    BY <2>2 DEF TableType
  <2> QED BY <2>1, <2>3
<1>8. \A t \in 1..n : f[t] = g[t]
  <2>1. \A t \in 1..n : f[t] = Len(tables[t].rows)
    BY <1>1, <1>4
  <2>2. \A t \in 1..n : t \in 1..(n + 1) /\ g[t] = Len(tables[t].rows)
    BY <1>1, <1>3, <1>4
  <2> QED BY <2>1, <2>2
<1>9. SumOver(f, 1..n) = SumOver(g, 1..n)
  BY <1>8, SumSame
<1>10. SumOver(g, 1..(n + 1)) = g[n + 1] + SumOver(g, 1..n)
  <2>1. PICK S : S = 1..(n + 1)
    OBVIOUS
  <2>2. IsFiniteSet(1..(n + 1))
    BY <1>1, FS_Interval
  <2>3. n + 1 \in S /\ S \ {n + 1} = 1..n /\ \A t \in S : g[t] \in Int
    BY <1>1, <1>7, <2>1
  <2>4. SumOver(g, S) = g[n + 1] + SumOver(g, S \ {n + 1})
    BY <2>1, <2>2, <2>3, SumTake
  <2> QED BY <2>1, <2>3, <2>4
<1>11. g[n + 1] = Len(table.rows)
  BY <1>1, <1>3, <1>4
<1>12. Total(f) \in Nat /\ g[n + 1] \in Nat
  <2>1. RowCount(tables) \in Nat
    BY CountIsNat
  <2>2. n + 1 \in 1..(n + 1)
    BY <1>1
  <2> QED BY <1>5, <1>7, <2>1, <2>2
<1> QED BY <1>2, <1>5, <1>6, <1>9, <1>10, <1>11, <1>12

\* No record has a formula.
NoFormulas(rows) == \A i \in DOMAIN rows : \A c \in DOMAIN rows[i] : ~IsFormula(rows[i][c])

\* A table is the sheet's, with all of its filled rows if the limit is kept.
TableOf(sheet, tables, t) ==
    /\ tables[t].entity = sheet.entity
    /\ WholeTo(sheet, tables[t].rows, Len(sheet.rows)) \/ RowCount(tables) > MaxRows

\* A sheet of some files.
SheetIn(files, x) == files[x[1]].sheets[x[2]]

\* The tables of the sheets that were passed without an error.
TablesAre(files, passed, tables) ==
    /\ IsFiniteSet(passed) /\ Len(tables) = Cardinality(passed)
    /\ \A x \in passed : /\ Sound(SheetIn(files, x).headers)
                         /\ \E t \in DOMAIN tables : TableOf(SheetIn(files, x), tables, t)
    /\ \A t \in DOMAIN tables : NoFormulas(tables[t].rows)

\* The tables of one sheet more.
LEMMA TablesNext ==
    ASSUME MaxRows \in Nat, NEW files, NEW passed, NEW tables \in Seq(TableType), TablesAre(files, passed, tables),
           NEW x, x \notin passed, Sound(SheetIn(files, x).headers), NEW table \in TableType,
           table.entity = SheetIn(files, x).entity, NoFormulas(table.rows),
           \/ WholeTo(SheetIn(files, x), table.rows, Len(SheetIn(files, x).rows))
           \/ RowCount(Append(tables, table)) > MaxRows
    PROVE  TablesAre(files, passed \cup {x}, Append(tables, table))
<1>1. PICK more, n : more = Append(tables, table) /\ n = Len(tables)
  OBVIOUS
<1>2. /\ n \in Nat /\ Len(more) = n + 1 /\ DOMAIN more = 1..(n + 1) /\ DOMAIN tables = 1..n
      /\ more[n + 1] = table /\ \A i \in 1..n : more[i] = tables[i]
  BY <1>1
<1>3. RowCount(tables) \in Nat /\ RowCount(more) = RowCount(tables) + Len(table.rows) /\ Len(table.rows) \in Nat
  <2>1. table.rows \in Seq(RowType)
    BY DEF TableType
  <2>2. Len(table.rows) \in Nat
    BY <2>1
  <2> QED BY <1>1, <2>2, CountNext, CountIsNat
<1>4. IsFiniteSet(passed \cup {x}) /\ Len(more) = Cardinality(passed \cup {x})
  <2>1. Cardinality(passed) = n /\ IsFiniteSet(passed)
    BY <1>1 DEF TablesAre
  <2> QED BY <1>2, <2>1, FS_AddElement
<1>5. ASSUME NEW y \in passed \cup {x}
      PROVE  /\ Sound(SheetIn(files, y).headers)
             /\ \E t \in DOMAIN more : TableOf(SheetIn(files, y), more, t)
  <2>1. CASE y \in passed
    <3>1. Sound(SheetIn(files, y).headers) /\ \E t \in DOMAIN tables : TableOf(SheetIn(files, y), tables, t)
      BY <2>1 DEF TablesAre
    <3>2. PICK t \in 1..n : TableOf(SheetIn(files, y), tables, t)
      BY <1>2, <3>1
    <3>3. RowCount(tables) > MaxRows => RowCount(more) > MaxRows
      BY <1>3
    <3>4. t \in DOMAIN more /\ more[t] = tables[t]
      BY <1>2
    <3>5. TableOf(SheetIn(files, y), more, t)
      BY <3>2, <3>3, <3>4 DEF TableOf
    <3> QED BY <3>1, <3>4, <3>5
  <2>2. CASE y = x
    <3>1. n + 1 \in DOMAIN more
      BY <1>2
    <3>2. TableOf(SheetIn(files, x), more, n + 1)
      BY <1>1, <1>2 DEF TableOf
    <3> QED BY <2>2, <3>1, <3>2
  <2> QED BY <2>1, <2>2
<1>6. ASSUME NEW t \in DOMAIN more PROVE NoFormulas(more[t].rows)
  <2>1. t = n + 1 \/ t \in 1..n
    BY <1>2
  <2>2. \A i \in 1..n : NoFormulas(tables[i].rows)
    BY <1>2 DEF TablesAre
  <2> QED BY <1>2, <2>1, <2>2
<1>7. TablesAre(files, passed \cup {x}, more)
  BY <1>4, <1>5, <1>6 DEF TablesAre
<1> QED BY <1>1, <1>7

-----------------------------------------------------------------------------
(* The sheets that were passed.                                             *)

\* Those of the files before, and those before in the file.
Passed(files, file, sheet) ==
    {x \in SheetsOf(files) : x[1] < file \/ (x[1] = file /\ x[2] < sheet)}

\* What a sheet of the files is.
LEMMA SheetTypes ==
    ASSUME FileConstants, NEW files \in Uploads
    PROVE  /\ files \in Seq(File)
           /\ \A f \in DOMAIN files : files[f].sheets \in Seq(Sheet)
           /\ \A f, s : <<f, s>> \in SheetsOf(files) <=> f \in DOMAIN files /\ s \in DOMAIN files[f].sheets
           /\ \A x \in SheetsOf(files) : /\ x = <<x[1], x[2]>> /\ x[1] \in DOMAIN files /\ x[1] \in Nat
                                         /\ x[2] \in DOMAIN files[x[1]].sheets /\ x[2] \in Nat /\ x[2] > 0
                                         /\ SheetIn(files, x) \in Sheet
<1>1. files \in Seq(File)
  BY DEF FileConstants
<1>2. \A f \in DOMAIN files : files[f].sheets \in Seq(Sheet)
  <2>1. \A f \in DOMAIN files : files[f] \in File
    BY <1>1
  <2> QED BY <2>1 DEF File
<1>3. \A f, s : <<f, s>> \in SheetsOf(files) <=> f \in DOMAIN files /\ s \in DOMAIN files[f].sheets
  BY DEF SheetsOf
<1>4. ASSUME NEW x \in SheetsOf(files)
      PROVE  /\ x = <<x[1], x[2]>> /\ x[1] \in DOMAIN files /\ x[1] \in Nat
             /\ x[2] \in DOMAIN files[x[1]].sheets /\ x[2] \in Nat /\ x[2] > 0
             /\ SheetIn(files, x) \in Sheet
  <2>1. PICK f \in DOMAIN files : x \in {<<f, s>> : s \in DOMAIN files[f].sheets}
    BY DEF SheetsOf
  <2>2. PICK s \in DOMAIN files[f].sheets : x = <<f, s>>
    BY <2>1
  <2>3. PICK sheets : sheets = files[f].sheets /\ sheets \in Seq(Sheet)
    BY <1>2
  <2>4. s \in 1..Len(sheets) /\ sheets[s] \in Sheet
    BY <2>3
  <2>5. f \in 1..Len(files) /\ Len(files) \in Nat /\ Len(sheets) \in Nat
    BY <1>1, <2>3
  <2>6. x[1] = f /\ x[2] = s
    BY <2>2
  <2> QED BY <2>2, <2>3, <2>4, <2>5, <2>6 DEF SheetIn
<1> QED BY <1>1, <1>2, <1>3, <1>4

\* No sheet is passed when the first file or the first sheet is opened.
LEMMA NonePassed ==
    ASSUME FileConstants, NEW files \in Uploads, NEW f \in Nat
    PROVE  Passed(files, f, 1) = Passed(files, f, 0) /\ Passed(files, 1, 0) = {}
<1>1. \A x \in SheetsOf(files) : /\ x = <<x[1], x[2]>> /\ x[1] \in Nat /\ x[1] \in DOMAIN files
                                 /\ x[2] \in Nat /\ x[2] > 0 /\ x[2] \in DOMAIN files[x[1]].sheets
  BY SheetTypes
<1>2. Passed(files, f, 1) = Passed(files, f, 0)
  <2>1. \A x \in SheetsOf(files) : ~(x[2] < 1) /\ ~(x[2] < 0)
    BY <1>1
  <2> QED BY <2>1 DEF Passed
<1>3. Passed(files, 1, 0) = {}
  <2>1. files \in Seq(File)
    BY SheetTypes
  <2>2. \A x \in SheetsOf(files) : ~(x[1] < 1) /\ ~(x[2] < 0)
    BY <1>1, <2>1
  <2> QED BY <2>2 DEF Passed
<1> QED BY <1>2, <1>3

\* All sheets of a file are passed with its last one.
LEMMA FileIsPassed ==
    ASSUME FileConstants, NEW files \in Uploads, NEW f \in Nat, NEW s \in Nat, f \in DOMAIN files, s > Len(files[f].sheets)
    PROVE  Passed(files, f + 1, 0) = Passed(files, f, s)
<1>1. \A x \in SheetsOf(files) : /\ x = <<x[1], x[2]>> /\ x[1] \in Nat /\ x[1] \in DOMAIN files
                                 /\ x[2] \in Nat /\ x[2] > 0 /\ x[2] \in DOMAIN files[x[1]].sheets
  BY SheetTypes
<1>2. \A x \in SheetsOf(files) : (x[1] < f + 1 \/ (x[1] = f + 1 /\ x[2] < 0)) <=> (x[1] < f \/ (x[1] = f /\ x[2] < s))
  <2>1. ASSUME NEW x \in SheetsOf(files)
        PROVE  (x[1] < f + 1 \/ (x[1] = f + 1 /\ x[2] < 0)) <=> (x[1] < f \/ (x[1] = f /\ x[2] < s))
    <3>1. x[1] \in Nat /\ x[2] \in Nat /\ x[2] > 0 /\ x[2] \in DOMAIN files[x[1]].sheets
      BY <1>1
    <3>2. x[1] = f => x[2] < s
      <4>1. PICK sheets : sheets = files[f].sheets /\ sheets \in Seq(Sheet)
        BY SheetTypes
      <4>2. x[1] = f => x[2] \in 1..Len(sheets)
        BY <3>1, <4>1
      <4> QED BY <3>1, <4>1, <4>2
    <3> QED BY <3>1, <3>2
  <2> QED BY <2>1
<1> QED BY <1>2 DEF Passed

\* A sheet is passed when it is left, ...
LEMMA SheetIsPassed ==
    ASSUME FileConstants, NEW files \in Uploads, NEW f \in Nat, NEW s \in Nat, <<f, s>> \in SheetsOf(files)
    PROVE  Passed(files, f, s + 1) = Passed(files, f, s) \cup {<<f, s>>} /\ <<f, s>> \notin Passed(files, f, s)
<1>1. \A x \in SheetsOf(files) : /\ x = <<x[1], x[2]>> /\ x[1] \in Nat /\ x[1] \in DOMAIN files
                                 /\ x[2] \in Nat /\ x[2] > 0 /\ x[2] \in DOMAIN files[x[1]].sheets
  BY SheetTypes
<1>2. <<f, s>> \notin Passed(files, f, s)
  <2>1. <<f, s>>[1] = f /\ <<f, s>>[2] = s
    OBVIOUS
  <2> QED BY <2>1 DEF Passed
<1>3. Passed(files, f, s + 1) = Passed(files, f, s) \cup {<<f, s>>}
  <2>1. ASSUME NEW x \in SheetsOf(files)
        PROVE  (x[1] < f \/ (x[1] = f /\ x[2] < s + 1)) <=> (x[1] < f \/ (x[1] = f /\ x[2] < s)) \/ x = <<f, s>>
    <3>1. PICK a, b : x = <<a, b>> /\ x[1] = a /\ x[2] = b /\ a \in Nat /\ b \in Nat
      BY <1>1
    <3>2. x = <<f, s>> <=> a = f /\ b = s
      BY <3>1
    <3> QED BY <3>1, <3>2
  <2> QED BY <2>1 DEF Passed
<1> QED BY <1>2, <1>3

\* ... and all are when no file is left.
LEMMA AllArePassed ==
    ASSUME FileConstants, NEW files \in Uploads, NEW f \in Nat, NEW s \in Nat, f > Len(files)
    PROVE  Passed(files, f, s) = SheetsOf(files)
<1>1. files \in Seq(File) /\ \A x \in SheetsOf(files) : x[1] \in Nat /\ x[1] \in DOMAIN files
  BY SheetTypes
<1>2. \A x \in SheetsOf(files) : x[1] < f
  BY <1>1
<1> QED BY <1>2 DEF Passed


-----------------------------------------------------------------------------
(* The invariant of the reader.                                             *)

\* What is read: types.
RowsType == Seq(RowType)
TablesType == Seq(TableType)
Code == {"csv_entity_unknown", "csv_content_invalid", "csv_header_missing", "xlsx_content_invalid",
         "xlsx_sheet_unknown", "xlsx_header_missing", "import_file_type_unsupported", "header_empty",
         "header_duplicate", "formula_not_allowed", "import_row_limit_exceeded"}
Codes == SUBSET Code
Status == {"parsing", "ready", "needs_correction", "refused"}
ReaderTypes(r) ==
    r \in [files : Uploads, file : Nat, sheet : Nat, row : Nat, own : Nat, rows : RowsType,
           tables : TablesType, errors : Codes, status : Status]

\* The position is in the files.
Placed(r) ==
    /\ r.sheet > 0 => r.file \in DOMAIN r.files /\ r.sheet <= Len(r.files[r.file].sheets) + 1
    /\ r.row > 0 => /\ <<r.file, r.sheet>> \in SheetsOf(r.files)
                    /\ r.row <= Len(SheetIn(r.files, <<r.file, r.sheet>>).rows) + 1

\* The rows of the sheet that is read.
RowsAre(sheet, rows, n, own) ==
    /\ Sound(sheet.headers) /\ NoFormulas(rows)
    /\ WholeTo(sheet, rows, n) \/ own + Len(rows) > MaxRows

\* What was read without an error is whole as far as it goes, or there is too much of it.
Faithful(r) ==
    /\ TablesAre(r.files, Passed(r.files, r.file, r.sheet), r.tables)
    /\ r.own <= RowCount(r.tables)
    /\ r.row > 0 => RowsAre(SheetIn(r.files, <<r.file, r.sheet>>), r.rows, r.row - 1, r.own)

\* A ready preview comes from the last file and from no more rows than the limit.
Ended(r) ==
    r.status = "ready" => r.errors = {} /\ r.file > Len(r.files) /\ RowCount(r.tables) <= MaxRows

\* All of it.
ReaderInv(r) ==
    /\ ReaderTypes(r) /\ Placed(r) /\ Ended(r)
    /\ r.errors = {} => Faithful(r)

\* It holds at the start.
LEMMA ReadStarts ==
    ASSUME FileConstants, NEW files \in Uploads, NEW r,
           r = [files |-> files, file |-> 1, sheet |-> 0, row |-> 0, own |-> 0, rows |-> <<>>,
                tables |-> <<>>, errors |-> {}, status |-> "parsing"]
    PROVE  ReaderInv(r)
<1>1. ReaderTypes(r)
  BY DEF ReaderTypes, RowsType, TablesType, Codes, Status
<1>2. Placed(r) /\ Ended(r)
  BY DEF Placed, Ended
<1>3. Faithful(r)
  <2>1. TablesAre(files, {}, <<>>)
    <3>1. IsFiniteSet({}) /\ Cardinality({}) = 0
      BY FS_EmptySet
    <3> QED BY <3>1 DEF TablesAre
  <2>2. Passed(files, 1, 0) = {}
    BY NonePassed
  <2>3. RowCount(<<>>) \in Nat
    <3>1. <<>> \in Seq(TableType)
      OBVIOUS
    <3> QED BY <3>1, CountIsNat
  <2>4. r.own <= RowCount(r.tables)
    BY <2>3
  <2> QED BY <2>1, <2>2, <2>4 DEF Faithful
<1> QED BY <1>1, <1>2, <1>3 DEF ReaderInv

\* What the steps change: the file, the sheet, the row.
Parsing(r) == r.status = "parsing" /\ r.file \in DOMAIN r.files
ToNextFile(r, e, q) == q = [r EXCEPT !.file = @ + 1, !.sheet = 0, !.row = 0, !.own = 0, !.errors = e]
ToNextSheet(r, e, q) == q = [r EXCEPT !.sheet = @ + 1, !.row = 0, !.errors = e]
ToRow(r, n, rows, e, q) == q = [r EXCEPT !.row = n, !.rows = rows, !.errors = e]

\* A file may be left that failed or was read to its end.
FileIsDone(r, e) == e # {} \/ (e = r.errors /\ r.sheet > Len(r.files[r.file].sheets))

\* What the next file leaves.
LEMMA NextFileIs ==
    ASSUME NEW r, ReaderTypes(r), NEW e \in Codes, NEW q, ToNextFile(r, e, q)
    PROVE  /\ ReaderTypes(q)
           /\ q.files = r.files /\ q.file = r.file + 1 /\ q.sheet = 0 /\ q.row = 0 /\ q.own = 0
           /\ q.tables = r.tables /\ q.errors = e /\ q.status = r.status
           /\ r.files \in Uploads /\ r.file \in Nat /\ r.sheet \in Nat /\ r.tables \in TablesType
<1>1. PICK n \in Nat : n = r.file + 1
  BY DEF ReaderTypes
<1>2. q = [r EXCEPT !.file = n, !.sheet = 0, !.row = 0, !.own = 0, !.errors = e]
  BY <1>1 DEF ReaderTypes, ToNextFile
<1>3. ReaderTypes(q)
  BY <1>1, <1>2 DEF ReaderTypes
<1> QED BY <1>1, <1>2, <1>3 DEF ReaderTypes

\* It holds after a file, read to its end or given up with an error.
LEMMA NextFileKeeps ==
    ASSUME FileConstants, NEW r, ReaderInv(r), Parsing(r), NEW e \in Codes, FileIsDone(r, e),
           NEW q, ToNextFile(r, e, q)
    PROVE  ReaderInv(q)
<1>1. ReaderTypes(r)
  BY DEF ReaderInv
<1>2. /\ q.files = r.files /\ q.file = r.file + 1 /\ q.sheet = 0 /\ q.row = 0 /\ q.own = 0
      /\ q.tables = r.tables /\ q.errors = e /\ q.status = r.status
      /\ ReaderTypes(q)
  BY <1>1, NextFileIs
<1>3. r.files \in Uploads /\ r.file \in Nat /\ r.sheet \in Nat /\ r.tables \in TablesType
  BY <1>1, NextFileIs
<1>4. Placed(q) /\ Ended(q)
  BY <1>2 DEF Placed, Ended, Parsing
<1>5. ASSUME e = {} PROVE Faithful(q)
  <2>1. Faithful(r) /\ r.sheet > Len(r.files[r.file].sheets) /\ r.file \in DOMAIN r.files
    BY <1>5 DEF ReaderInv, FileIsDone, Parsing
  <2>2. Passed(r.files, r.file + 1, 0) = Passed(r.files, r.file, r.sheet)
    BY <1>3, <2>1, FileIsPassed
  <2>3. TablesAre(q.files, Passed(q.files, q.file, q.sheet), q.tables)
    BY <1>2, <2>1, <2>2 DEF Faithful
  <2>4. RowCount(q.tables) \in Nat
    BY <1>2, <1>3, CountIsNat DEF TablesType
  <2> QED BY <1>2, <2>3, <2>4 DEF Faithful
<1> QED BY <1>2, <1>4, <1>5 DEF ReaderInv

\* A sheet may be skipped with an error, and the first one is the next after the file is opened.
SheetIsSkipped(r, e) ==
    /\ r.sheet <= Len(r.files[r.file].sheets)
    /\ e # {} \/ (e = r.errors /\ r.sheet = 0)

\* What the next sheet leaves.
LEMMA NextSheetIs ==
    ASSUME NEW r, ReaderTypes(r), NEW e \in Codes, NEW q, ToNextSheet(r, e, q)
    PROVE  /\ ReaderTypes(q)
           /\ q.files = r.files /\ q.file = r.file /\ q.sheet = r.sheet + 1 /\ q.row = 0
           /\ q.own = r.own /\ q.tables = r.tables /\ q.errors = e /\ q.status = r.status
           /\ r.files \in Uploads /\ r.file \in Nat /\ r.sheet \in Nat /\ r.tables \in TablesType
<1>1. PICK n \in Nat : n = r.sheet + 1
  BY DEF ReaderTypes
<1>2. q = [r EXCEPT !.sheet = n, !.row = 0, !.errors = e]
  BY <1>1 DEF ReaderTypes, ToNextSheet
<1>3. ReaderTypes(q)
  BY <1>1, <1>2 DEF ReaderTypes
<1> QED BY <1>1, <1>2, <1>3 DEF ReaderTypes

\* It holds after a file is opened and after a sheet is skipped.
LEMMA NextSheetKeeps ==
    ASSUME FileConstants, NEW r, ReaderInv(r), Parsing(r), NEW e \in Codes, SheetIsSkipped(r, e),
           NEW q, ToNextSheet(r, e, q)
    PROVE  ReaderInv(q)
<1>1. ReaderTypes(r)
  BY DEF ReaderInv
<1>2. /\ q.files = r.files /\ q.file = r.file /\ q.sheet = r.sheet + 1 /\ q.row = 0
      /\ q.own = r.own /\ q.tables = r.tables /\ q.errors = e /\ q.status = r.status
      /\ ReaderTypes(q)
  BY <1>1, NextSheetIs
<1>3. r.files \in Uploads /\ r.file \in Nat /\ r.sheet \in Nat /\ r.tables \in TablesType
  BY <1>1, NextSheetIs
<1>4. Placed(q)
  <2>1. PICK n : n = Len(r.files[r.file].sheets) /\ n \in Nat
    <3>1. r.files[r.file].sheets \in Seq(Sheet)
      BY <1>3, SheetTypes DEF Parsing
    <3> QED BY <3>1
  <2>2. r.sheet <= n /\ r.file \in DOMAIN r.files
    BY <2>1 DEF SheetIsSkipped, Parsing
  <2>3. q.sheet <= n + 1
    BY <1>2, <1>3, <2>1, <2>2
  <2> QED BY <1>2, <2>1, <2>2, <2>3 DEF Placed
<1>5. Ended(q)
  BY <1>2 DEF Ended, Parsing
<1>6. ASSUME e = {} PROVE Faithful(q)
  <2>1. Faithful(r) /\ r.sheet = 0
    BY <1>6 DEF ReaderInv, SheetIsSkipped
  <2>2. Passed(r.files, r.file, 1) = Passed(r.files, r.file, 0)
    BY <1>3, NonePassed
  <2>3. TablesAre(q.files, Passed(q.files, q.file, q.sheet), q.tables)
    BY <1>2, <2>1, <2>2 DEF Faithful
  <2> QED BY <1>2, <2>1, <2>3 DEF Faithful
<1> QED BY <1>2, <1>4, <1>5, <1>6 DEF ReaderInv

\* A sheet is read.
AtSheet(r) == Parsing(r) /\ r.sheet \in DOMAIN r.files[r.file].sheets
SheetOf(r) == SheetIn(r.files, <<r.file, r.sheet>>)

\* It is one of the files.
LEMMA SheetIsOne ==
    ASSUME FileConstants, NEW r, ReaderTypes(r), AtSheet(r)
    PROVE  /\ <<r.file, r.sheet>> \in SheetsOf(r.files) /\ SheetOf(r) \in Sheet
           /\ SheetOf(r) = r.files[r.file].sheets[r.sheet]
           /\ r.sheet \in Nat /\ Len(r.files[r.file].sheets) \in Nat /\ r.sheet <= Len(r.files[r.file].sheets)
<1>1. r.files \in Uploads
  BY DEF ReaderTypes
<1>2. r.file \in DOMAIN r.files /\ r.sheet \in DOMAIN r.files[r.file].sheets
  BY DEF AtSheet, Parsing
<1>3. <<r.file, r.sheet>> \in SheetsOf(r.files)
  BY <1>1, <1>2, SheetTypes
<1>4. SheetOf(r) \in Sheet
  BY <1>1, <1>3, SheetTypes DEF SheetOf
<1>5. SheetOf(r) = r.files[r.file].sheets[r.sheet]
  BY DEF SheetOf, SheetIn
<1>6. PICK sheets : sheets = r.files[r.file].sheets /\ sheets \in Seq(Sheet)
  BY <1>1, <1>2, SheetTypes
<1>7. r.sheet \in Nat /\ Len(sheets) \in Nat /\ r.sheet <= Len(sheets)
  <2>1. r.sheet \in 1..Len(sheets)
    BY <1>2, <1>6
  <2> QED BY <1>6, <2>1
<1> QED BY <1>3, <1>4, <1>5, <1>6, <1>7

\* What the next row leaves.
LEMMA NextRowIs ==
    ASSUME NEW r, ReaderTypes(r), NEW n \in Nat, NEW rows \in RowsType, NEW e \in Codes, NEW q,
           ToRow(r, n, rows, e, q)
    PROVE  /\ ReaderTypes(q)
           /\ q.files = r.files /\ q.file = r.file /\ q.sheet = r.sheet /\ q.row = n /\ q.rows = rows
           /\ q.own = r.own /\ q.tables = r.tables /\ q.errors = e /\ q.status = r.status
<1>1. q = [r EXCEPT !.row = n, !.rows = rows, !.errors = e]
  BY DEF ToRow
<1>2. ReaderTypes(q)
  BY <1>1 DEF ReaderTypes
<1> QED BY <1>1, <1>2 DEF ReaderTypes

\* It holds after a row if the rows are right without an error.
LEMMA NextRowKeeps ==
    ASSUME FileConstants, NEW r, ReaderInv(r), AtSheet(r),
           NEW n \in Nat, n <= Len(SheetOf(r).rows) + 1, NEW rows \in RowsType, NEW e \in Codes,
           e = {} => r.errors = {} /\ RowsAre(SheetOf(r), rows, n - 1, r.own),
           NEW q, ToRow(r, n, rows, e, q)
    PROVE  ReaderInv(q)
<1>1. ReaderTypes(r)
  BY DEF ReaderInv
<1>2. /\ q.files = r.files /\ q.file = r.file /\ q.sheet = r.sheet /\ q.row = n /\ q.rows = rows
      /\ q.own = r.own /\ q.tables = r.tables /\ q.errors = e /\ q.status = r.status
      /\ ReaderTypes(q)
  BY <1>1, NextRowIs
<1>3. Placed(q)
  <2>1. <<r.file, r.sheet>> \in SheetsOf(r.files)
    BY <1>1, SheetIsOne
  <2>2. Placed(r)
    BY DEF ReaderInv
  <2>3. q.sheet > 0 => q.file \in DOMAIN q.files /\ q.sheet <= Len(q.files[q.file].sheets) + 1
    BY <1>2, <2>2 DEF Placed
  <2>4. /\ <<q.file, q.sheet>> \in SheetsOf(q.files)
        /\ q.row <= Len(SheetIn(q.files, <<q.file, q.sheet>>).rows) + 1
    BY <1>2, <2>1 DEF SheetOf
  <2> QED BY <2>3, <2>4 DEF Placed
<1>4. Ended(q)
  BY <1>2 DEF Ended, AtSheet, Parsing
<1>5. ASSUME e = {} PROVE Faithful(q)
  <2>1. Faithful(r) /\ RowsAre(SheetOf(r), rows, n - 1, r.own)
    BY <1>5 DEF ReaderInv
  <2>2. TablesAre(q.files, Passed(q.files, q.file, q.sheet), q.tables) /\ q.own <= RowCount(q.tables)
    BY <1>2, <2>1 DEF Faithful
  <2>3. RowsAre(SheetIn(q.files, <<q.file, q.sheet>>), q.rows, q.row - 1, q.own)
    BY <1>2, <2>1 DEF SheetOf
  <2> QED BY <2>2, <2>3 DEF Faithful
<1> QED BY <1>2, <1>3, <1>4, <1>5 DEF ReaderInv

\* The errors of headers and rows are codes.
LEMMA CodesAre ==
    /\ \A e \in Codes : \A headers : e \cup HeaderErrors(headers) \in Codes
    /\ \A e \in Codes, c \in Code : e \cup {c} \in Codes
<1>1. ASSUME NEW headers PROVE HeaderErrors(headers) \subseteq Code
  <2>1. HeaderErrors(headers) \subseteq {"header_empty", "header_duplicate"}
    BY DEF HeaderErrors
  <2>2. {"header_empty", "header_duplicate"} \subseteq Code
    BY DEF Code
  <2> QED BY <2>1, <2>2
<1> QED BY <1>1 DEF Codes

\* Before its first row a sheet has none.
LEMMA FirstRowKeeps ==
    ASSUME FileConstants, NEW r, ReaderInv(r), AtSheet(r),
           NEW q, ToRow(r, 1, <<>>, r.errors \cup HeaderErrors(SheetOf(r).headers), q)
    PROVE  ReaderInv(q)
<1>1. ReaderTypes(r) /\ r.errors \in Codes
  BY DEF ReaderInv, ReaderTypes
<1>2. PICK e, sheet : e = r.errors \cup HeaderErrors(SheetOf(r).headers) /\ sheet = SheetOf(r)
  OBVIOUS
<1>3. e \in Codes
  BY <1>1, <1>2, CodesAre
<1>4. Len(sheet.rows) \in Nat
  <2>1. sheet \in Sheet
    BY <1>1, <1>2, SheetIsOne
  <2>2. sheet.rows \in Seq(Seq(Cell))
    BY <2>1 DEF Sheet
  <2> QED BY <2>2
<1>5. PICK rows : rows = <<>>
  OBVIOUS
<1>6. rows \in RowsType /\ Len(rows) = 0 /\ DOMAIN rows = {}
  BY <1>5 DEF RowsType
<1>7. ASSUME e = {} PROVE r.errors = {} /\ RowsAre(sheet, rows, 0, r.own)
  <2>1. Sound(sheet.headers) /\ r.errors = {}
    BY <1>2, <1>7 DEF Sound
  <2>2. WholeTo(sheet, rows, 0)
    <3>1. Filled(sheet, 0) = 0
      BY FilledNext
    <3> QED BY <1>6, <3>1 DEF WholeTo
  <2>3. NoFormulas(rows)
    BY <1>6 DEF NoFormulas
  <2> QED BY <2>1, <2>2, <2>3 DEF RowsAre
<1>8. 1 - 1 = 0 /\ 1 \in Nat /\ 1 <= Len(sheet.rows) + 1
  BY <1>4
<1>9. ToRow(r, 1, rows, e, q)
  BY <1>2, <1>5
<1> QED BY <1>2, <1>3, <1>6, <1>7, <1>8, <1>9, NextRowKeeps

\* What is in a sheet.
LEMMA SheetHas ==
    ASSUME NEW sheet \in Sheet
    PROVE  /\ sheet.headers \in Seq(Name) /\ sheet.entity \in EntityName /\ Len(sheet.rows) \in Nat
           /\ DOMAIN sheet.rows = 1..Len(sheet.rows)
           /\ \A n \in DOMAIN sheet.rows : /\ sheet.rows[n] \in Seq(Cell) /\ n \in Nat /\ n > 0
                                           /\ RowFromValues(sheet.headers, sheet.rows[n]) \in RowType
<1>1. sheet.headers \in Seq(Name) /\ sheet.entity \in EntityName /\ sheet.rows \in Seq(Seq(Cell))
  BY DEF Sheet
<1>2. PICK S, rows : S = Seq(Cell) /\ rows = sheet.rows /\ rows \in Seq(S)
  BY <1>1
<1>3. \A n \in DOMAIN rows : rows[n] \in S /\ n \in Nat /\ n > 0
  BY <1>2
<1>4. Len(rows) \in Nat /\ DOMAIN rows = 1..Len(rows)
  BY <1>2
<1>5. \A n \in DOMAIN rows : RowFromValues(sheet.headers, rows[n]) \in RowType
  BY <1>1, <1>2, <1>3 DEF RowType
<1> QED BY <1>1, <1>2, <1>3, <1>4, <1>5

\* A row that is blank is left out.
LEMMA BlankRowKeeps ==
    ASSUME FileConstants, NEW r, ReaderInv(r), AtSheet(r), r.row \in DOMAIN SheetOf(r).rows,
           ~HasText(SheetOf(r).rows[r.row]), NEW q, ToRow(r, r.row + 1, r.rows, r.errors, q)
    PROVE  ReaderInv(q)
<1>1. ReaderTypes(r) /\ r.errors \in Codes /\ r.rows \in RowsType
  BY DEF ReaderInv, ReaderTypes
<1>2. PICK sheet, n : sheet = SheetOf(r) /\ n = r.row
  OBVIOUS
<1>3. sheet \in Sheet
  BY <1>1, <1>2, SheetIsOne
<1>4. n \in Nat /\ n > 0 /\ n <= Len(sheet.rows) /\ Len(sheet.rows) \in Nat
  <2>1. n \in DOMAIN sheet.rows
    BY <1>2
  <2> QED BY <1>3, <2>1, SheetHas
<1>5. ASSUME r.errors = {} PROVE RowsAre(sheet, r.rows, n, r.own)
  <2>1. RowsAre(sheet, r.rows, n - 1, r.own)
    BY <1>2, <1>4, <1>5 DEF ReaderInv, Faithful, SheetOf
  <2>2. ASSUME WholeTo(sheet, r.rows, n - 1) PROVE WholeTo(sheet, r.rows, n)
    <3>1. PICK m \in Nat : m = n - 1 /\ m + 1 = n
      BY <1>4
    <3>2. WholeTo(sheet, r.rows, m) /\ ~HasText(sheet.rows[m + 1]) /\ r.rows \in Seq(RowType)
      BY <1>1, <1>2, <2>2, <3>1 DEF RowsType
    <3>3. WholeTo(sheet, r.rows, m + 1)
      BY <3>1, <3>2, WholeNext
    <3> QED BY <3>1, <3>3
  <2> QED BY <2>1, <2>2 DEF RowsAre
<1>6. n + 1 \in Nat /\ n + 1 <= Len(sheet.rows) + 1 /\ (n + 1) - 1 = n
  BY <1>4
<1>7. PICK m : m = n + 1
  OBVIOUS
<1> QED BY <1>1, <1>2, <1>5, <1>6, <1>7, NextRowKeeps

\* A row that is filled is kept, and no other is read when they are too many.
LEMMA FilledRowKeeps ==
    ASSUME FileConstants, NEW r, ReaderInv(r), AtSheet(r), r.row \in DOMAIN SheetOf(r).rows,
           NEW cells, cells = SheetOf(r).rows[r.row], HasText(cells),
           NEW rows, rows = Append(r.rows, RowFromValues(SheetOf(r).headers, cells)),
           NEW n, n = IF Beyond(r.own + Len(rows)) THEN Len(SheetOf(r).rows) + 1 ELSE r.row + 1,
           NEW type, NEW e, e = IF HasFormula(type, SheetOf(r).headers, cells)
                                THEN r.errors \cup {"formula_not_allowed"} ELSE r.errors,
           NEW q, ToRow(r, n, rows, e, q)
    PROVE  ReaderInv(q)
<1>1. ReaderTypes(r) /\ r.errors \in Codes /\ r.rows \in Seq(RowType) /\ r.own \in Nat
  BY DEF ReaderInv, ReaderTypes, RowsType
<1>2. PICK sheet, k : sheet = SheetOf(r) /\ k = r.row
  OBVIOUS
<1>3. sheet \in Sheet
  BY <1>1, <1>2, SheetIsOne
<1>4. k \in Nat /\ k > 0 /\ k <= Len(sheet.rows) /\ Len(sheet.rows) \in Nat /\ k \in DOMAIN sheet.rows
  <2>1. k \in DOMAIN sheet.rows
    BY <1>2
  <2> QED BY <1>3, <2>1, SheetHas
<1>5. PICK new : new = RowFromValues(sheet.headers, cells)
  OBVIOUS
<1>6. new \in RowType /\ cells \in Seq(Cell) /\ sheet.headers \in Seq(Name)
  BY <1>2, <1>3, <1>4, <1>5, SheetHas
<1>7. rows = Append(r.rows, new)
  BY <1>2, <1>5
<1>8. rows \in RowsType /\ Len(rows) = Len(r.rows) + 1 /\ Len(r.rows) \in Nat
  BY <1>1, <1>6, <1>7 DEF RowsType
<1>9. e \in Codes
  <2>1. "formula_not_allowed" \in Code
    BY DEF Code
  <2>2. r.errors \cup {"formula_not_allowed"} \in Codes
    BY <1>1, <2>1, CodesAre
  <2> QED BY <1>1, <2>2
<1>10. n \in Nat /\ n <= Len(sheet.rows) + 1
  BY <1>2, <1>4
<1>11. ASSUME e = {} PROVE r.errors = {} /\ RowsAre(sheet, rows, n - 1, r.own)
  <2>1. r.errors = {} /\ ~HasFormula(type, sheet.headers, cells)
    BY <1>2, <1>11
  <2>2. RowsAre(sheet, r.rows, k - 1, r.own)
    BY <1>2, <1>4, <2>1 DEF ReaderInv, Faithful, SheetOf
  <2>3. NoFormulas(rows)
    <3>1. \A c \in DOMAIN new : ~IsFormula(new[c])
      BY <1>5, <1>6, <2>1, FormulasAreFound
    <3>2. NoFormulas(r.rows)
      BY <2>2 DEF RowsAre
    <3>3. \A i \in DOMAIN rows : rows[i] = new \/ (i \in DOMAIN r.rows /\ rows[i] = r.rows[i])
      BY <1>1, <1>6, <1>7
    <3> QED BY <3>1, <3>2, <3>3 DEF NoFormulas
  <2>4. CASE Beyond(r.own + Len(rows))
    <3>1. r.own + Len(rows) > MaxRows
      BY <2>4 DEF Beyond
    <3> QED BY <2>1, <2>2, <2>3, <3>1 DEF RowsAre
  <2>5. CASE ~Beyond(r.own + Len(rows))
    <3>1. ~(r.own + Len(rows) > MaxRows) /\ MaxRows \in Nat
      BY <2>5 DEF Beyond, FileConstants
    <3>2. ~(r.own + Len(r.rows) > MaxRows)
      BY <1>1, <1>8, <3>1
    <3>3. WholeTo(sheet, r.rows, k - 1)
      BY <2>2, <3>2 DEF RowsAre
    <3>4. PICK m \in Nat : m = k - 1 /\ m + 1 = k
      BY <1>4
    <3>5. WholeTo(sheet, Append(r.rows, RowFromValues(sheet.headers, sheet.rows[m + 1])), m + 1)
      <4>1. sheet.rows[m + 1] = cells
        BY <1>2, <3>4
      <4>2. WholeTo(sheet, r.rows, m) /\ HasText(sheet.rows[m + 1])
        BY <3>3, <3>4, <4>1
      <4>3. RowFromValues(sheet.headers, sheet.rows[m + 1]) \in RowType
        BY <1>5, <1>6, <4>1
      <4> QED BY <1>1, <3>4, <4>2, <4>3, WholeNext
    <3>6. WholeTo(sheet, rows, k)
      BY <1>2, <1>5, <1>7, <3>4, <3>5
    <3>7. n - 1 = k
      BY <1>2, <1>4, <2>5
    <3> QED BY <2>1, <2>2, <2>3, <3>6, <3>7 DEF RowsAre
  <2> QED BY <2>4, <2>5
<1> QED BY <1>2, <1>8, <1>9, <1>10, <1>11, NextRowKeeps

\* The sheet that was read becomes a table, and the next one is read.
ToTable(r, table, own, q) ==
    q = [r EXCEPT !.tables = Append(@, table), !.own = own, !.sheet = @ + 1, !.row = 0]

\* What a table leaves.
LEMMA TableLeaves ==
    ASSUME NEW r, ReaderTypes(r), NEW table \in TableType, NEW own \in Nat, NEW q, ToTable(r, table, own, q)
    PROVE  /\ ReaderTypes(q)
           /\ q.files = r.files /\ q.file = r.file /\ q.sheet = r.sheet + 1 /\ q.row = 0
           /\ q.own = own /\ q.tables = Append(r.tables, table) /\ q.errors = r.errors /\ q.status = r.status
<1>1. PICK n \in Nat : n = r.sheet + 1
  BY DEF ReaderTypes
<1>2. PICK tables : tables = Append(r.tables, table) /\ tables \in TablesType
  <2>1. r.tables \in Seq(TableType)
    BY DEF ReaderTypes, TablesType
  <2>2. Append(r.tables, table) \in Seq(TableType)
    BY <2>1, AppendProperties
  <2> QED BY <2>2 DEF TablesType
<1>3. q = [r EXCEPT !.tables = tables, !.own = own, !.sheet = n, !.row = 0]
  BY <1>1, <1>2 DEF ReaderTypes, ToTable
<1>4. ReaderTypes(q)
  BY <1>1, <1>2, <1>3 DEF ReaderTypes
<1> QED BY <1>1, <1>2, <1>3, <1>4 DEF ReaderTypes

\* It holds after the last row that is read of a sheet.
LEMMA TableKeeps ==
    ASSUME FileConstants, NEW r, ReaderInv(r), AtSheet(r), r.row > 0, r.row \notin DOMAIN SheetOf(r).rows,
           NEW q, ToTable(r, [entity |-> SheetOf(r).entity, rows |-> r.rows], r.own + Len(r.rows), q)
    PROVE  ReaderInv(q)
<1>1. /\ ReaderTypes(r) /\ r.rows \in Seq(RowType) /\ r.own \in Nat /\ r.tables \in Seq(TableType)
      /\ r.row \in Nat /\ r.files \in Uploads /\ r.file \in Nat
  BY DEF ReaderInv, ReaderTypes, RowsType, TablesType
<1>2. PICK sheet, x : sheet = SheetOf(r) /\ x = <<r.file, r.sheet>> /\ sheet = SheetIn(r.files, x)
  BY DEF SheetOf
<1>3. /\ sheet \in Sheet /\ x \in SheetsOf(r.files) /\ r.sheet \in Nat
      /\ r.sheet <= Len(r.files[r.file].sheets) /\ Len(r.files[r.file].sheets) \in Nat
  BY <1>1, <1>2, SheetIsOne
<1>4. PICK n : n = Len(sheet.rows) /\ n \in Nat /\ DOMAIN sheet.rows = 1..n
  BY <1>3, SheetHas
<1>5. r.row - 1 = n
  <2>1. r.row <= n + 1
    BY <1>1, <1>2, <1>4 DEF ReaderInv, Placed
  <2>2. r.row \notin 1..n
    BY <1>2, <1>4
  <2> QED BY <1>1, <1>4, <2>1, <2>2
<1>6. PICK table, own : table = [entity |-> sheet.entity, rows |-> r.rows] /\ own = r.own + Len(r.rows)
  OBVIOUS
<1>7. table \in TableType /\ own \in Nat /\ table.entity = sheet.entity /\ table.rows = r.rows
  <2>1. sheet.entity \in EntityName
    BY <1>3, SheetHas
  <2> QED BY <1>1, <1>6, <2>1 DEF TableType
<1>8. ToTable(r, table, own, q)
  BY <1>2, <1>6
<1>9. /\ q.files = r.files /\ q.file = r.file /\ q.sheet = r.sheet + 1 /\ q.row = 0
      /\ q.own = own /\ q.tables = Append(r.tables, table) /\ q.errors = r.errors /\ q.status = r.status
      /\ ReaderTypes(q)
  BY <1>1, <1>7, <1>8, TableLeaves
<1>10. Placed(q)
  <2>1. r.file \in DOMAIN r.files
    BY DEF AtSheet, Parsing
  <2> QED BY <1>3, <1>9, <2>1 DEF Placed
<1>11. Ended(q)
  BY <1>9 DEF Ended, AtSheet, Parsing
<1>12. ASSUME r.errors = {} PROVE Faithful(q)
  <2>1. /\ TablesAre(r.files, Passed(r.files, r.file, r.sheet), r.tables) /\ r.own <= RowCount(r.tables)
        /\ RowsAre(sheet, r.rows, n, r.own)
    BY <1>2, <1>5, <1>12 DEF ReaderInv, Faithful
  <2>2. RowCount(q.tables) = RowCount(r.tables) + Len(r.rows) /\ RowCount(r.tables) \in Nat
    BY <1>1, <1>7, <1>9, CountNext, CountIsNat
  <2>3. Len(r.rows) \in Nat
    BY <1>1
  <2>4. q.own <= RowCount(q.tables)
    BY <1>1, <1>6, <1>9, <2>1, <2>2, <2>3
  <2>5. WholeTo(sheet, table.rows, n) \/ RowCount(Append(r.tables, table)) > MaxRows
    <3>1. CASE WholeTo(sheet, r.rows, n)
      BY <1>7, <3>1
    <3>2. CASE r.own + Len(r.rows) > MaxRows
      <4>1. MaxRows \in Nat
        BY DEF FileConstants
      <4>2. RowCount(q.tables) > MaxRows
        BY <1>1, <2>1, <2>2, <2>3, <3>2, <4>1
      <4> QED BY <1>9, <4>2
    <3> QED BY <2>1, <3>1, <3>2 DEF RowsAre
  <2>6. PICK passed : passed = Passed(r.files, r.file, r.sheet)
    OBVIOUS
  <2>7. Passed(r.files, r.file, r.sheet + 1) = passed \cup {x} /\ x \notin passed
    <3>1. <<r.file, r.sheet>> \in SheetsOf(r.files)
      BY <1>2, <1>3
    <3>2. /\ Passed(r.files, r.file, r.sheet + 1) = Passed(r.files, r.file, r.sheet) \cup {<<r.file, r.sheet>>}
          /\ <<r.file, r.sheet>> \notin Passed(r.files, r.file, r.sheet)
      BY <1>1, <1>3, <3>1, SheetIsPassed
    <3> QED BY <1>2, <2>6, <3>2
  <2>8. Sound(sheet.headers) /\ NoFormulas(table.rows)
    BY <1>7, <2>1 DEF RowsAre
  <2>9. MaxRows \in Nat
    BY DEF FileConstants
  <2>10. TablesAre(r.files, passed \cup {x}, Append(r.tables, table))
    BY <1>1, <1>2, <1>4, <1>7, <2>1, <2>5, <2>6, <2>7, <2>8, <2>9, TablesNext
  <2>11. TablesAre(q.files, Passed(q.files, q.file, q.sheet), q.tables)
    BY <1>9, <2>7, <2>10
  <2> QED BY <1>9, <2>4, <2>11 DEF Faithful
<1> QED BY <1>9, <1>10, <1>11, <1>12 DEF ReaderInv

\* It holds when the rows are counted.
LEMMA CountKeeps ==
    ASSUME FileConstants, NEW r, ReaderInv(r), r.status = "parsing", r.file > Len(r.files),
           NEW e, e = IF RowCount(r.tables) > MaxRows
                      THEN r.errors \cup {"import_row_limit_exceeded"} ELSE r.errors,
           NEW status \in Status, status = "ready" => e = {},
           NEW q, q = [r EXCEPT !.errors = e, !.status = status]
    PROVE  ReaderInv(q)
<1>1. ReaderTypes(r) /\ r.errors \in Codes /\ r.tables \in Seq(TableType)
  BY DEF ReaderInv, ReaderTypes, TablesType
<1>2. e \in Codes
  <2>1. "import_row_limit_exceeded" \in Code
    BY DEF Code
  <2>2. r.errors \cup {"import_row_limit_exceeded"} \in Codes
    BY <1>1, <2>1, CodesAre
  <2> QED BY <1>1, <2>2
<1>3. /\ q.files = r.files /\ q.file = r.file /\ q.sheet = r.sheet /\ q.row = r.row /\ q.rows = r.rows
      /\ q.own = r.own /\ q.tables = r.tables /\ q.errors = e /\ q.status = status
  BY <1>1 DEF ReaderTypes
<1>4. ReaderTypes(q)
  BY <1>1, <1>2 DEF ReaderTypes
<1>5. Placed(q)
  BY <1>3 DEF ReaderInv, Placed
<1>6. e = {} => r.errors = {} /\ ~(RowCount(r.tables) > MaxRows)
  OBVIOUS
<1>7. Ended(q)
  <2>1. RowCount(r.tables) \in Nat /\ MaxRows \in Nat
    BY <1>1, CountIsNat DEF FileConstants
  <2>2. e = {} => RowCount(r.tables) <= MaxRows
    BY <1>6, <2>1
  <2> QED BY <1>3, <2>2 DEF Ended
<1>8. e = {} => Faithful(q)
  BY <1>3, <1>6 DEF ReaderInv, Faithful
<1> QED BY <1>3, <1>4, <1>5, <1>7, <1>8 DEF ReaderInv

-----------------------------------------------------------------------------
(* The steps and what follows.                                              *)

\* An error of a file or a sheet.
LEMMA FailingIs == ASSUME ReaderInv(reading), NEW c \in Code PROVE Failing(c) \in Codes /\ Failing(c) # {}
<1>1. reading.errors \in Codes
  BY DEF ReaderInv, ReaderTypes
<1>2. PICK e : e = reading.errors \cup {c}
  OBVIOUS
<1>3. e \in Codes /\ e # {}
  BY <1>1, <1>2, CodesAre
<1> QED BY <1>2, <1>3 DEF Failing

\* Opening a file keeps the invariant.
LEMMA OpenKeeps == ASSUME FileConstants, ReaderInv(reading), OpenFile PROVE ReaderInv(reading')
<1>1. Parsing(reading) /\ reading.sheet = 0
  BY DEF OpenFile, Parsing
<1>2. \/ \E c \in Code : NextFile(Failing(c))
      \/ NextSheet(reading.errors)
  <2>1. \A c \in {"csv_entity_unknown", "csv_content_invalid", "xlsx_content_invalid",
                  "import_file_type_unsupported"} : c \in Code
    BY DEF Code
  <2> QED BY <2>1 DEF OpenFile
<1>3. ASSUME NEW c \in Code, NextFile(Failing(c)) PROVE ReaderInv(reading')
  <2>1. PICK e, q : e = Failing(c) /\ q = reading'
    OBVIOUS
  <2>2. e \in Codes /\ FileIsDone(reading, e)
    BY <2>1, FailingIs DEF FileIsDone
  <2>3. ToNextFile(reading, e, q)
    BY <1>3, <2>1 DEF NextFile, ToNextFile
  <2>4. ReaderInv(q)
    BY <1>1, <2>2, <2>3, NextFileKeeps
  <2> QED BY <2>1, <2>4
<1>4. ASSUME NextSheet(reading.errors) PROVE ReaderInv(reading')
  <2>1. PICK e, q : e = reading.errors /\ q = reading'
    OBVIOUS
  <2>2. e \in Codes /\ reading.files \in Uploads
    BY <2>1 DEF ReaderInv, ReaderTypes
  <2>3. SheetIsSkipped(reading, e)
    <3>1. PICK sheets : sheets = reading.files[reading.file].sheets /\ sheets \in Seq(Sheet)
      BY <1>1, <2>2, SheetTypes DEF Parsing
    <3>2. Len(sheets) \in Nat
      BY <3>1
    <3>3. reading.sheet <= Len(reading.files[reading.file].sheets)
      BY <1>1, <3>1, <3>2
    <3> QED BY <1>1, <2>1, <3>3 DEF SheetIsSkipped
  <2>4. ToNextSheet(reading, e, q)
    BY <1>4, <2>1 DEF NextSheet, ToNextSheet
  <2>5. ReaderInv(q)
    BY <1>1, <2>2, <2>3, <2>4, NextSheetKeeps
  <2> QED BY <2>1, <2>5
<1> QED BY <1>2, <1>3, <1>4

\* So does opening a sheet.
LEMMA OpenSheetKeeps == ASSUME FileConstants, ReaderInv(reading), OpenSheet PROVE ReaderInv(reading')
<1>1. AtSheet(reading) /\ ReaderTypes(reading)
  BY DEF OpenSheet, AtSheet, Parsing, TheFile, ReaderInv
<1>2. SheetOf(reading) = TheSheet
  BY <1>1, SheetIsOne DEF TheSheet, TheFile
<1>3. \/ \E c \in Code : NextSheet(Failing(c))
      \/ reading' = [reading EXCEPT !.row = 1, !.rows = <<>>,
                                    !.errors = @ \cup HeaderErrors(TheSheet.headers)]
  <2>1. \A c \in {"xlsx_sheet_unknown", "csv_header_missing", "xlsx_header_missing"} : c \in Code
    BY DEF Code
  <2> QED BY <2>1 DEF OpenSheet
<1>4. ASSUME NEW c \in Code, NextSheet(Failing(c)) PROVE ReaderInv(reading')
  <2>1. PICK e, q : e = Failing(c) /\ q = reading'
    OBVIOUS
  <2>2. e \in Codes /\ SheetIsSkipped(reading, e)
    BY <1>1, <2>1, FailingIs, SheetIsOne DEF SheetIsSkipped
  <2>3. ToNextSheet(reading, e, q)
    BY <1>4, <2>1 DEF NextSheet, ToNextSheet
  <2>4. ReaderInv(q)
    BY <1>1, <2>2, <2>3, NextSheetKeeps DEF AtSheet
  <2> QED BY <2>1, <2>4
<1>5. ASSUME reading' = [reading EXCEPT !.row = 1, !.rows = <<>>,
                                        !.errors = @ \cup HeaderErrors(TheSheet.headers)]
      PROVE  ReaderInv(reading')
  <2>1. PICK e, q : e = reading.errors \cup HeaderErrors(TheSheet.headers) /\ q = reading'
    OBVIOUS
  <2>2. q = [reading EXCEPT !.row = 1, !.rows = <<>>, !.errors = e]
    BY <1>1, <1>5, <2>1 DEF ReaderTypes
  <2>3. ToRow(reading, 1, <<>>, reading.errors \cup HeaderErrors(SheetOf(reading).headers), q)
    BY <1>2, <2>1, <2>2 DEF ToRow
  <2>4. ReaderInv(q)
    BY <1>1, <2>3, FirstRowKeeps
  <2> QED BY <2>1, <2>4
<1> QED BY <1>3, <1>4, <1>5

\* So does reading a row.
LEMMA ReadRowKeeps == ASSUME FileConstants, ReaderInv(reading), ReadRow PROVE ReaderInv(reading')
<1>1. AtSheet(reading) /\ ReaderTypes(reading)
  BY DEF ReadRow, AtSheet, Parsing, TheFile, ReaderInv
<1>2. SheetOf(reading) = TheSheet /\ reading.row \in DOMAIN TheSheet.rows
  BY <1>1, SheetIsOne DEF TheSheet, TheFile, ReadRow
<1>3. PICK sheet, k, cells, rows :
         /\ sheet = TheSheet /\ k = reading.row /\ cells = sheet.rows[k]
         /\ rows = Append(reading.rows, RowFromValues(sheet.headers, cells))
  OBVIOUS
<1>4. PICK n, e : /\ n = IF Beyond(reading.own + Len(rows)) THEN Len(sheet.rows) + 1 ELSE k + 1
                  /\ e = IF HasFormula(TheFile.type, sheet.headers, cells)
                         THEN reading.errors \cup {"formula_not_allowed"} ELSE reading.errors
  OBVIOUS
<1>5. reading' = IF ~HasText(cells) THEN [reading EXCEPT !.row = k + 1]
                 ELSE [reading EXCEPT !.row = n, !.rows = rows, !.errors = e]
  BY <1>1, <1>3, <1>4 DEF ReadRow, Failing, ReaderTypes
<1>6. PICK q : q = reading'
  OBVIOUS
<1>7. CASE ~HasText(cells)
  <2>1. q = [reading EXCEPT !.row = k + 1, !.rows = reading.rows, !.errors = reading.errors]
    BY <1>1, <1>5, <1>6, <1>7 DEF ReaderTypes
  <2>2. ToRow(reading, reading.row + 1, reading.rows, reading.errors, q)
    BY <1>3, <2>1 DEF ToRow
  <2>3. ReaderInv(q)
    BY <1>1, <1>2, <1>3, <1>7, <2>2, BlankRowKeeps
  <2> QED BY <1>6, <2>3
<1>8. CASE HasText(cells)
  <2>1. ToRow(reading, n, rows, e, q)
    BY <1>5, <1>6, <1>8 DEF ToRow
  <2>2. ReaderInv(q)
    BY <1>1, <1>2, <1>3, <1>4, <1>8, <2>1, FilledRowKeeps
  <2> QED BY <1>6, <2>2
<1> QED BY <1>7, <1>8

\* So does the end of a sheet.
LEMMA EndSheetKeeps == ASSUME FileConstants, ReaderInv(reading), EndSheet PROVE ReaderInv(reading')
<1>1. AtSheet(reading) /\ ReaderTypes(reading)
  BY DEF EndSheet, AtSheet, Parsing, TheFile, ReaderInv
<1>2. /\ SheetOf(reading) = TheSheet
      /\ reading.row > 0 /\ reading.row \notin DOMAIN TheSheet.rows
  BY <1>1, SheetIsOne DEF TheSheet, TheFile, EndSheet
<1>3. PICK table, own, q :
        /\ table = [entity |-> TheSheet.entity, rows |-> reading.rows]
        /\ own = reading.own + Len(reading.rows) /\ q = reading'
  OBVIOUS
<1>4. q = [reading EXCEPT !.tables = Append(@, table), !.own = own, !.sheet = @ + 1, !.row = 0]
  BY <1>1, <1>3 DEF EndSheet, ReaderTypes
<1>5. ToTable(reading, [entity |-> SheetOf(reading).entity, rows |-> reading.rows],
              reading.own + Len(reading.rows), q)
  BY <1>2, <1>3, <1>4 DEF ToTable
<1>6. ReaderInv(q)
  BY <1>1, <1>2, <1>5, TableKeeps
<1> QED BY <1>3, <1>6

\* So does the end of a file.
LEMMA EndFileKeeps == ASSUME FileConstants, ReaderInv(reading), EndFile PROVE ReaderInv(reading')
<1>1. PICK e, q : e = reading.errors /\ q = reading'
  OBVIOUS
<1>2. Parsing(reading) /\ FileIsDone(reading, e) /\ e \in Codes
  BY <1>1 DEF EndFile, Parsing, FileIsDone, TheFile, ReaderInv, ReaderTypes
<1>3. ToNextFile(reading, e, q)
  BY <1>1 DEF EndFile, NextFile, ToNextFile
<1>4. ReaderInv(q)
  BY <1>2, <1>3, NextFileKeeps
<1> QED BY <1>1, <1>4

\* So does the count.
LEMMA CountRowsKeeps == ASSUME FileConstants, ReaderInv(reading), CountRows PROVE ReaderInv(reading')
<1>1. PICK e, s, q :
        /\ e = IF RowCount(reading.tables) > MaxRows
               THEN reading.errors \cup {"import_row_limit_exceeded"} ELSE reading.errors
        /\ s = IF reading.files = <<>> THEN "refused" ELSE IF e = {} THEN "ready" ELSE "needs_correction"
        /\ q = reading'
  OBVIOUS
<1>2. q = [reading EXCEPT !.errors = e, !.status = s] /\ reading.status = "parsing"
      /\ reading.file > Len(reading.files)
  BY <1>1 DEF CountRows, Failing
<1>3. s \in Status /\ (s = "ready" => e = {})
  BY <1>1 DEF Status
<1>4. e = IF RowCount(reading.tables) > MaxRows
          THEN reading.errors \cup {"import_row_limit_exceeded"} ELSE reading.errors
  BY <1>1
<1>5. s \in Status /\ (s = "ready" => e = {}) /\ reading.file > Len(reading.files)
  BY <1>2, <1>3
<1>6. ReaderInv(q)
  BY <1>2, <1>4, <1>5, CountKeeps
<1> QED BY <1>1, <1>6

\* The invariant always holds: what was read is whole as far as it goes.
Reads == ReaderInv(reading)
THEOREM ReadingIsFaithful == ASSUME FileConstants PROVE ReadSpec => []Reads
<1>1. ReadInit => Reads
  BY ReadStarts DEF ReadInit, Reads
<1>2. Reads /\ [ReadNext]_reading => Reads'
  <2>1. SUFFICES ASSUME ReaderInv(reading), [ReadNext]_reading PROVE ReaderInv(reading')
    BY DEF Reads
  <2>2. CASE UNCHANGED reading
    BY <2>1, <2>2
  <2>3. CASE ReadNext
    BY <2>1, <2>3, OpenKeeps, OpenSheetKeeps, ReadRowKeeps, EndSheetKeeps, EndFileKeeps, CountRowsKeeps DEF ReadNext
  <2> QED BY <2>1, <2>2, <2>3
<1> QED BY <1>1, <1>2, PTL DEF ReadSpec

\* A ready preview is whole.
LEMMA FaithfulIsWhole == ASSUME FileConstants, Reads PROVE ReadyIsWhole
<1>0. ReaderInv(reading)
  BY DEF Reads
<1> SUFFICES ASSUME reading.status = "ready"
             PROVE  /\ Len(reading.tables) = Cardinality(SheetsOf(reading.files))
                    /\ \A x \in SheetsOf(reading.files) : \E t \in DOMAIN reading.tables :
                         /\ reading.tables[t].entity = SheetAt(x).entity
                         /\ Len(reading.tables[t].rows) = Filled(SheetAt(x), Len(SheetAt(x).rows))
                         /\ \A r \in DOMAIN SheetAt(x).rows : HasText(SheetAt(x).rows[r]) =>
                              HasCells(reading.tables[t].rows[Filled(SheetAt(x), r)], SheetAt(x).headers,
                                       SheetAt(x).rows[r])
                    /\ \A t \in DOMAIN reading.tables : \A i \in DOMAIN reading.tables[t].rows :
                         \A c \in DOMAIN reading.tables[t].rows[i] : ~IsFormula(reading.tables[t].rows[i][c])
  BY DEF ReadyIsWhole
<1>1. /\ reading.files \in Uploads /\ reading.tables \in Seq(TableType) /\ reading.file \in Nat
      /\ reading.sheet \in Nat
  BY <1>0 DEF ReaderInv, ReaderTypes, TablesType
<1>2. reading.errors = {} /\ reading.file > Len(reading.files) /\ RowCount(reading.tables) <= MaxRows
  BY <1>0 DEF ReaderInv, Ended
<1>3. TablesAre(reading.files, Passed(reading.files, reading.file, reading.sheet), reading.tables)
  BY <1>0, <1>2 DEF ReaderInv, Faithful
<1>4. Passed(reading.files, reading.file, reading.sheet) = SheetsOf(reading.files)
  BY <1>1, <1>2, AllArePassed
<1>5. TablesAre(reading.files, SheetsOf(reading.files), reading.tables)
  BY <1>3, <1>4
<1>6. Len(reading.tables) = Cardinality(SheetsOf(reading.files))
  BY <1>5 DEF TablesAre
<1>7. ASSUME NEW x \in SheetsOf(reading.files)
      PROVE  \E t \in DOMAIN reading.tables :
               /\ reading.tables[t].entity = SheetAt(x).entity
               /\ Len(reading.tables[t].rows) = Filled(SheetAt(x), Len(SheetAt(x).rows))
               /\ \A r \in DOMAIN SheetAt(x).rows : HasText(SheetAt(x).rows[r]) =>
                    HasCells(reading.tables[t].rows[Filled(SheetAt(x), r)], SheetAt(x).headers,
                             SheetAt(x).rows[r])
  <2>1. PICK sheet : sheet = SheetAt(x) /\ sheet = SheetIn(reading.files, x)
    BY DEF SheetAt, SheetIn
  <2>2. sheet \in Sheet
    BY <1>1, <2>1, SheetTypes
  <2>3. Sound(sheet.headers) /\ \E t \in DOMAIN reading.tables : TableOf(sheet, reading.tables, t)
    BY <1>5, <2>1 DEF TablesAre
  <2>4. PICK t \in DOMAIN reading.tables : TableOf(sheet, reading.tables, t)
    BY <2>3
  <2>5. PICK rows : rows = reading.tables[t].rows
    OBVIOUS
  <2>6. reading.tables[t].entity = sheet.entity /\ WholeTo(sheet, rows, Len(sheet.rows))
    <3>1. RowCount(reading.tables) \in Nat /\ MaxRows \in Nat
      BY <1>1, CountIsNat DEF FileConstants
    <3>2. ~(RowCount(reading.tables) > MaxRows)
      BY <1>2, <3>1
    <3> QED BY <2>4, <2>5, <3>2 DEF TableOf
  <2>7. ASSUME NEW r \in DOMAIN sheet.rows, HasText(sheet.rows[r])
        PROVE  HasCells(rows[Filled(sheet, r)], sheet.headers, sheet.rows[r])
    <3>1. r \in 1..Len(sheet.rows) /\ sheet.rows[r] \in Seq(Cell)
      BY <2>2, SheetHas
    <3>2. rows[Filled(sheet, r)] = RowFromValues(sheet.headers, sheet.rows[r])
      BY <2>6, <2>7, <3>1 DEF WholeTo
    <3>3. sheet.headers \in Seq(Name)
      BY <2>2, SheetHas
    <3>4. HasCells(RowFromValues(sheet.headers, sheet.rows[r]), sheet.headers, sheet.rows[r])
      BY <2>3, <3>1, <3>3, CellsAreKept
    <3> QED BY <3>2, <3>4
  <2>8. Len(rows) = Filled(sheet, Len(sheet.rows))
    BY <2>6 DEF WholeTo
  <2> QED BY <2>1, <2>5, <2>6, <2>7, <2>8
<1>8. ASSUME NEW t \in DOMAIN reading.tables, NEW i \in DOMAIN reading.tables[t].rows
      PROVE  \A c \in DOMAIN reading.tables[t].rows[i] : ~IsFormula(reading.tables[t].rows[i][c])
  BY <1>5 DEF TablesAre, NoFormulas
<1> QED BY <1>6, <1>7, <1>8

\* A preview without an error has every row with a text or a number of every sheet of every
\* file, each of its cells, or a long cell's first characters, under its own header, and no
\* formula.
THEOREM ReadyIsAlwaysWhole == ASSUME FileConstants PROVE ReadSpec => []ReadyIsWhole
<1>1. Reads => ReadyIsWhole
  BY FaithfulIsWhole
<1> QED BY <1>1, ReadingIsFaithful, PTL

-----------------------------------------------------------------------------
(* The search for cycles of planning rows.                                  *)

\* What a search of a graph has in hand.
Searched(g, s) ==
    s \in [roots : SUBSET DOMAIN g, path : Seq(DOMAIN g), left : [DOMAIN g -> SUBSET DOMAIN g],
           visited : SUBSET DOMAIN g, marked : SUBSET DOMAIN g]

\* The path follows the graph, and what it has left to walk is of the graph.
Linked(g, path) ==
    /\ \A i, j \in DOMAIN path : path[i] = path[j] => i = j
    /\ \A i \in DOMAIN path : i + 1 \in DOMAIN path => path[i + 1] \in Successors(g, path[i])
LeftOver(g, s) ==
    /\ \A t \in DOMAIN g : s.left[t] \subseteq Successors(g, t)
    /\ \A t \in DOMAIN g : t \notin s.visited \cup ToSet(s.path) => s.left[t] = Successors(g, t)

\* No task is forgotten; those of pending are about to be visited.
Covered(g, s, pending) ==
    /\ DOMAIN g \subseteq s.roots \cup s.visited \cup ToSet(s.path) \cup pending
    /\ s.visited \cap ToSet(s.path) = {}

\* What was visited leads to nothing else and has no cycle, and what a task of the path
\* was walked for is visited or comes after it.
NoCycleIn(g, S) == \A C \in SUBSET S : C # {} => \E t \in C : g[t] \cap C = {}
Closed(g, s, pending) ==
    /\ \A t \in s.visited : Successors(g, t) \subseteq s.visited
    /\ NoCycleIn(g, s.visited)
    /\ \A i \in DOMAIN s.path : Successors(g, s.path[i]) \ s.left[s.path[i]] \subseteq
          s.visited \cup (IF i = Len(s.path) THEN pending ELSE {s.path[i + 1]})

Walked(g, s, pending) ==
    /\ Searched(g, s) /\ Linked(g, s.path) /\ LeftOver(g, s) /\ Covered(g, s, pending)
    /\ \A t \in s.marked : OnACycle(g, t)
    /\ s.marked = {} => Closed(g, s, pending)

\* The tasks of a path.
LEMMA PathTasks ==
    ASSUME NEW S, NEW path \in Seq(S)
    PROVE  /\ Len(path) \in Nat /\ DOMAIN path = 1..Len(path) /\ ToSet(path) \subseteq S
           /\ \A t : t \in ToSet(path) <=> \E i \in 1..Len(path) : path[i] = t
           /\ path # <<>> => Len(path) \in DOMAIN path
<1>1. Len(path) \in Nat /\ DOMAIN path = 1..Len(path) /\ \A i \in 1..Len(path) : path[i] \in S
  OBVIOUS
<1>2. ToSet(path) = {path[i] : i \in 1..Len(path)}
  BY <1>1 DEF ToSet
<1>3. path # <<>> => Len(path) # 0
  OBVIOUS
<1> QED BY <1>1, <1>2, <1>3

\* A task that leads back to the path closes a cycle: every task from there on is on it.
LEMMA MarkedAreOnCycle ==
    ASSUME NEW g, NEW path \in Seq(DOMAIN g), path # <<>>, Linked(g, path),
           NEW k \in DOMAIN path, path[k] \in Successors(g, path[Len(path)]),
           NEW i \in DOMAIN path, k <= i
    PROVE  OnACycle(g, path[i])
<1>0. Len(path) \in Nat /\ DOMAIN path = 1..Len(path)
  OBVIOUS
<1> SUFFICES ASSUME NEW D \in SUBSET DOMAIN g, Successors(g, path[i]) \subseteq D,
                    \A u \in D : Successors(g, u) \subseteq D
             PROVE  path[i] \in D
  BY DEF OnACycle
\* Along the path, what follows a task of D, or the first one, is in D.
<1>1. \A a, b \in DOMAIN path : a < b /\ Successors(g, path[a]) \subseteq D => path[b] \in D
  <2> SUFFICES ASSUME NEW a \in DOMAIN path, NEW b \in DOMAIN path, a < b,
                      Successors(g, path[a]) \subseteq D, path[b] \notin D
               PROVE  FALSE
    OBVIOUS
  <2> DEFINE Out == {c \in DOMAIN path : a < c /\ path[c] \notin D}
  <2>1. Out \in SUBSET Nat /\ Out # {}
    BY <1>0
  <2>2. PICK c \in Out : \A d \in Out : c <= d
    <3> HIDE DEF Out
    <3> QED BY <2>1, LeastNumber
  <2>3. c \in DOMAIN path /\ c - 1 \in DOMAIN path /\ a <= c - 1 /\ c \in Nat /\ (c - 1) + 1 = c
    BY <1>0, <2>2
  <2>4. path[c] \in Successors(g, path[c - 1])
    BY <2>3 DEF Linked
  <2>5. Successors(g, path[c - 1]) \subseteq D
    <3>1. CASE c - 1 = a
      BY <3>1
    <3>2. CASE c - 1 # a
      <4>1. a < c - 1
        BY <1>0, <2>3, <3>2
      <4>2. c - 1 \notin Out
        BY <1>0, <2>2, <2>3
      <4> QED BY <2>3, <4>1, <4>2
    <3> QED BY <3>1, <3>2
  <2> QED BY <2>2, <2>4, <2>5
<1>2. Successors(g, path[Len(path)]) \subseteq D
  <2>1. CASE i = Len(path)
    BY <2>1
  <2>2. CASE i # Len(path)
    <3>1. i < Len(path) /\ Len(path) \in DOMAIN path
      BY <1>0, <2>2
    <3>2. path[Len(path)] \in D
      BY <1>1, <3>1
    <3> QED BY <3>2
  <2> QED BY <2>1, <2>2
<1>3. path[k] \in D
  BY <1>2
<1>4. CASE k = i
  BY <1>3, <1>4
<1>5. CASE k # i
  <2>1. k < i
    BY <1>0, <1>5
  <2>2. Successors(g, path[k]) \subseteq D
    BY <1>3
  <2> QED BY <1>1, <2>1, <2>2
<1> QED BY <1>4, <1>5

\* visit of a task: it closes a cycle, was visited before, or joins the path.
LEMMA Entered ==
    ASSUME NEW g, NEW s, NEW t \in DOMAIN g, Walked(g, s, {t}),
           s.path # <<>> => t \in Successors(g, s.path[Len(s.path)])
    PROVE  Walked(g, Enter(s, t), {})
<1>1. /\ s.roots \subseteq DOMAIN g /\ s.path \in Seq(DOMAIN g) /\ s.left \in [DOMAIN g -> SUBSET DOMAIN g]
      /\ s.visited \subseteq DOMAIN g /\ s.marked \subseteq DOMAIN g
  BY DEF Walked, Searched
<1>2. PICK n : n = Len(s.path)
  OBVIOUS
<1>3. /\ n \in Nat /\ DOMAIN s.path = 1..n /\ ToSet(s.path) \subseteq DOMAIN g
      /\ \A u : u \in ToSet(s.path) <=> \E i \in 1..n : s.path[i] = u
  BY <1>1, <1>2, PathTasks
<1>4. CASE t \in ToSet(s.path)
  <2>1. PICK m : m = s.marked \cup From(s.path, t)
    OBVIOUS
  <2>2. PICK k \in 1..n : s.path[k] = t
    BY <1>3, <1>4
  <2>3. s.path # <<>>
    BY <1>1, <1>2, <2>2
  <2>4. \A u \in From(s.path, t) : u \in DOMAIN g /\ OnACycle(g, u)
    <3> SUFFICES ASSUME NEW i \in DOMAIN s.path, NEW j \in 1..i, s.path[j] = t
                 PROVE  s.path[i] \in DOMAIN g /\ OnACycle(g, s.path[i])
      BY DEF From
    <3>1. j \in DOMAIN s.path /\ j <= i
      BY <1>3
    <3>2. s.path[j] \in Successors(g, s.path[Len(s.path)])
      BY <2>3
    <3>3. Linked(g, s.path)
      BY DEF Walked
    <3> QED BY <1>1, <2>3, <3>1, <3>2, <3>3, MarkedAreOnCycle
  <2>5. t \in From(s.path, t)
    <3>1. k \in DOMAIN s.path /\ k \in 1..k
      BY <1>3
    <3> QED BY <2>2, <3>1 DEF From
  <2>6. m \subseteq DOMAIN g /\ m # {} /\ \A u \in m : OnACycle(g, u)
    BY <1>1, <2>1, <2>4, <2>5 DEF Walked
  <2>7. PICK z : z = Enter(s, t)
    OBVIOUS
  <2>8. /\ z.roots = s.roots /\ z.path = s.path /\ z.left = s.left /\ z.visited = s.visited
        /\ z.marked = m /\ Searched(g, z)
    <3>1. z = [s EXCEPT !.marked = m]
      BY <1>4, <2>1, <2>7 DEF Enter
    <3> QED BY <2>6, <3>1 DEF Walked, Searched
  <2>9. Covered(g, z, {})
    BY <1>4, <2>8 DEF Walked, Covered
  <2>10. Linked(g, z.path) /\ LeftOver(g, z)
    BY <2>8 DEF Walked, LeftOver
  <2> QED BY <2>6, <2>7, <2>8, <2>9, <2>10 DEF Walked
<1>5. CASE t \notin ToSet(s.path) /\ t \in s.visited
  <2>1. Enter(s, t) = s
    BY <1>5 DEF Enter
  <2>2. Covered(g, s, {})
    BY <1>5 DEF Walked, Covered
  <2>3. s.marked = {} => Closed(g, s, {})
    BY <1>5 DEF Walked, Closed
  <2> QED BY <2>1, <2>2, <2>3 DEF Walked
<1>6. CASE t \notin ToSet(s.path) /\ t \notin s.visited
  <2>1. PICK p : p = Append(s.path, t)
    OBVIOUS
  <2>2. /\ p \in Seq(DOMAIN g) /\ Len(p) = n + 1 /\ DOMAIN p = 1..(n + 1) /\ p[n + 1] = t
        /\ \A i \in 1..n : p[i] = s.path[i]
    BY <1>1, <1>2, <2>1
  <2>3. ToSet(p) = ToSet(s.path) \cup {t}
    <3>1. \A u : u \in ToSet(p) <=> \E i \in 1..(n + 1) : p[i] = u
      BY <2>2, PathTasks
    <3>2. \A i \in 1..(n + 1) : i \in 1..n \/ i = n + 1
      BY <1>3
    <3>3. 1..n \subseteq 1..(n + 1) /\ n + 1 \in 1..(n + 1)
      BY <1>3
    <3>4. ASSUME NEW u \in ToSet(p) PROVE u \in ToSet(s.path) \cup {t}
      BY <1>3, <2>2, <3>1, <3>2
    <3>5. ASSUME NEW u \in ToSet(s.path) \cup {t} PROVE u \in ToSet(p)
      BY <1>3, <2>2, <3>1, <3>3
    <3> QED BY <3>4, <3>5
  <2>4. PICK z : z = Enter(s, t)
    OBVIOUS
  <2>5. /\ z.roots = s.roots /\ z.path = p /\ z.left = s.left /\ z.visited = s.visited
        /\ z.marked = s.marked /\ Searched(g, z)
    <3>1. z = [s EXCEPT !.path = p]
      BY <1>6, <2>1, <2>4 DEF Enter
    <3> QED BY <2>2, <3>1 DEF Walked, Searched
  <2>6. Linked(g, p)
    <3>1. ASSUME NEW i \in 1..(n + 1), NEW j \in 1..(n + 1), p[i] = p[j] PROVE i = j
      <4>1. \A a \in 1..n : p[a] # t
        BY <1>3, <1>6, <2>2
      <4>2. CASE i \in 1..n /\ j \in 1..n
        BY <1>3, <2>2, <3>1, <4>2 DEF Walked, Linked
      <4>3. CASE i = n + 1 \/ j = n + 1
        BY <1>3, <2>2, <3>1, <4>1, <4>3
      <4> QED BY <1>3, <4>2, <4>3
    <3>2. ASSUME NEW i \in 1..(n + 1), i + 1 \in 1..(n + 1) PROVE p[i + 1] \in Successors(g, p[i])
      <4>1. CASE i = n
        <5>1. s.path # <<>> /\ p[i] = s.path[n]
          BY <1>2, <1>3, <2>2, <4>1
        <5> QED BY <1>2, <2>2, <4>1, <5>1
      <4>2. CASE i # n
        <5>1. i \in 1..n /\ i + 1 \in 1..n
          BY <1>3, <3>2, <4>2
        <5> QED BY <1>3, <2>2, <5>1 DEF Walked, Linked
      <4> QED BY <4>1, <4>2
    <3> QED BY <2>2, <3>1, <3>2 DEF Linked
  <2>7. LeftOver(g, z) /\ Covered(g, z, {})
    BY <1>6, <2>3, <2>5 DEF Walked, LeftOver, Covered
  <2>8. ASSUME s.marked = {} PROVE Closed(g, z, {})
    <3>1. Closed(g, s, {t}) /\ s.left[t] = Successors(g, t)
      BY <1>6, <2>8 DEF Walked, LeftOver
    <3>2. ASSUME NEW i \in 1..(n + 1)
          PROVE  Successors(g, p[i]) \ s.left[p[i]] \subseteq
                     s.visited \cup (IF i = n + 1 THEN {} ELSE {p[i + 1]})
      <4>1. CASE i = n + 1
        BY <2>2, <3>1, <4>1
      <4>2. CASE i # n + 1
        <5>1. i \in 1..n /\ p[i] = s.path[i]
          BY <1>3, <2>2, <4>2
        <5>2. p[i + 1] = IF i = n THEN t ELSE s.path[i + 1]
          BY <1>3, <2>2, <5>1
        <5>3. Successors(g, s.path[i]) \ s.left[s.path[i]] \subseteq
                  s.visited \cup (IF i = n THEN {t} ELSE {s.path[i + 1]})
          BY <1>2, <1>3, <3>1, <5>1 DEF Closed
        <5> QED BY <4>2, <5>1, <5>2, <5>3
      <4> QED BY <4>1, <4>2
    <3> QED BY <2>2, <2>5, <3>1, <3>2 DEF Closed
  <2> QED BY <2>4, <2>5, <2>6, <2>7, <2>8 DEF Walked
<1> QED BY <1>4, <1>5, <1>6

\* A search starts with every task to visit.
LEMMA SearchStarts == ASSUME NEW sheet PROVE Walked(Graph(sheet), SearchOf(sheet), {})
<1>1. PICK g : g = Graph(sheet)
  OBVIOUS
<1>2. PICK s : s = [roots |-> DOMAIN g, path |-> <<>>, left |-> [t \in DOMAIN g |-> Successors(g, t)],
                    visited |-> {}, marked |-> {}]
  OBVIOUS
<1>3. s = SearchOf(sheet)
  BY <1>1, <1>2 DEF SearchOf
<1>4. \A t \in DOMAIN g : Successors(g, t) \in SUBSET DOMAIN g
  BY DEF Successors
<1>5. Searched(g, s)
  BY <1>2, <1>4 DEF Searched
<1>6. s.path = <<>> /\ DOMAIN s.path = {} /\ ToSet(s.path) = {} /\ s.visited = {} /\ s.roots = DOMAIN g
  BY <1>2 DEF ToSet
<1>7. Linked(g, s.path) /\ LeftOver(g, s) /\ Covered(g, s, {})
  BY <1>2, <1>6 DEF Linked, LeftOver, Covered
<1>8. Closed(g, s, {}) /\ s.marked = {}
  BY <1>2, <1>6 DEF Closed, NoCycleIn
<1> QED BY <1>1, <1>3, <1>5, <1>7, <1>8 DEF Walked

\* A root that is taken is pending.
LEMMA RootWalked ==
    ASSUME NEW g, NEW s, Walked(g, s, {}), s.path = <<>>, NEW t \in s.roots
    PROVE  Walked(g, Enter([s EXCEPT !.roots = @ \ {t}], t), {})
<1>1. PICK z : z = [s EXCEPT !.roots = @ \ {t}]
  OBVIOUS
<1>2. /\ z.roots = s.roots \ {t} /\ z.path = s.path /\ z.left = s.left /\ z.visited = s.visited
      /\ z.marked = s.marked /\ Searched(g, z) /\ t \in DOMAIN g
  BY <1>1 DEF Walked, Searched
<1>3. Linked(g, z.path) /\ LeftOver(g, z) /\ Covered(g, z, {t})
  BY <1>2 DEF Walked, LeftOver, Covered
<1>4. s.marked = {} => Closed(g, z, {t})
  <2>1. DOMAIN s.path = {}
    OBVIOUS
  <2> QED BY <1>2, <2>1 DEF Walked, Closed
<1>5. Walked(g, z, {t}) /\ z.path = <<>>
  BY <1>2, <1>3, <1>4 DEF Walked
<1> QED BY <1>1, <1>2, <1>5, Entered

\* What the last of the path waits for, and was not walked yet, is pending.
LEMMA NextWalked ==
    ASSUME NEW g, NEW s, Walked(g, s, {}), s.path # <<>>, NEW u, u = s.path[Len(s.path)], NEW t \in s.left[u]
    PROVE  Walked(g, Enter([s EXCEPT !.left[u] = @ \ {t}], t), {})
<1>1. PICK z : z = [s EXCEPT !.left[u] = @ \ {t}]
  OBVIOUS
<1>2. PICK n : n = Len(s.path)
  OBVIOUS
<1>3. /\ s.roots \subseteq DOMAIN g /\ s.path \in Seq(DOMAIN g) /\ s.left \in [DOMAIN g -> SUBSET DOMAIN g]
      /\ s.visited \subseteq DOMAIN g /\ s.marked \subseteq DOMAIN g
  BY DEF Walked, Searched
<1>4. /\ n \in Nat \ {0} /\ DOMAIN s.path = 1..n /\ u = s.path[n] /\ u \in DOMAIN g
      /\ u \in ToSet(s.path)
  <2>1. n \in Nat \ {0} /\ DOMAIN s.path = 1..n
    BY <1>2, <1>3
  <2>2. n \in 1..n
    BY <2>1
  <2> QED BY <1>2, <1>3, <2>1, <2>2, PathTasks
<1>5. s.left[u] \subseteq Successors(g, u) /\ t \in DOMAIN g /\ t \in Successors(g, u)
  BY <1>3, <1>4 DEF Walked, LeftOver
<1>6. PICK l : l = [s.left EXCEPT ![u] = @ \ {t}]
  OBVIOUS
<1>7. /\ l \in [DOMAIN g -> SUBSET DOMAIN g] /\ l[u] = s.left[u] \ {t}
      /\ \A x \in DOMAIN g : x # u => l[x] = s.left[x]
  BY <1>3, <1>4, <1>6
<1>8. /\ z.roots = s.roots /\ z.path = s.path /\ z.left = l /\ z.visited = s.visited
      /\ z.marked = s.marked /\ Searched(g, z)
  <2>1. z = [s EXCEPT !.left = l]
    BY <1>1, <1>6 DEF Walked, Searched
  <2> QED BY <1>7, <2>1 DEF Walked, Searched
<1>9. Linked(g, z.path) /\ Covered(g, z, {t})
  BY <1>8 DEF Walked, Covered
<1>10. LeftOver(g, z)
  BY <1>4, <1>5, <1>7, <1>8 DEF Walked, LeftOver
<1>11. ASSUME s.marked = {} PROVE Closed(g, z, {t})
  <2>1. Closed(g, s, {})
    BY <1>11 DEF Walked
  <2>2. ASSUME NEW i \in 1..n
        PROVE  Successors(g, s.path[i]) \ l[s.path[i]] \subseteq
                   s.visited \cup (IF i = n THEN {t} ELSE {s.path[i + 1]})
    <3>1. Successors(g, s.path[i]) \ s.left[s.path[i]] \subseteq
              s.visited \cup (IF i = n THEN {} ELSE {s.path[i + 1]})
      BY <1>2, <1>4, <2>1 DEF Closed
    <3>2. CASE i = n
      BY <1>4, <1>7, <3>1, <3>2
    <3>3. CASE i # n
      <4>1. s.path[i] # u /\ s.path[i] \in DOMAIN g
        <5>1. n \in DOMAIN s.path /\ i \in DOMAIN s.path
          BY <1>4
        <5> QED BY <1>3, <1>4, <3>3, <5>1 DEF Walked, Linked
      <4> QED BY <1>7, <3>1, <3>3, <4>1
    <3> QED BY <3>2, <3>3
  <2> QED BY <1>2, <1>4, <1>8, <2>1, <2>2 DEF Closed
<1>12. Walked(g, z, {t})
  BY <1>8, <1>9, <1>10, <1>11 DEF Walked
<1>13. t \in Successors(g, z.path[Len(z.path)])
  BY <1>2, <1>4, <1>5, <1>8
<1> QED BY <1>1, <1>5, <1>12, <1>13, Entered

\* A task is left when all it waits for was visited: no cycle leads through it.
LEMMA LeaveWalked ==
    ASSUME NEW g, NEW s, Walked(g, s, {}), s.path # <<>>, NEW u, u = s.path[Len(s.path)], s.left[u] = {}
    PROVE  Walked(g, [s EXCEPT !.visited = @ \cup {u}, !.path = Front(@)], {})
<1>2. PICK n : n = Len(s.path)
  OBVIOUS
<1>3. /\ s.roots \subseteq DOMAIN g /\ s.path \in Seq(DOMAIN g) /\ s.left \in [DOMAIN g -> SUBSET DOMAIN g]
      /\ s.visited \subseteq DOMAIN g /\ s.marked \subseteq DOMAIN g
  BY DEF Walked, Searched
<1>4. /\ n \in Nat \ {0} /\ DOMAIN s.path = 1..n /\ u = s.path[n] /\ u \in DOMAIN g
      /\ \A x : x \in ToSet(s.path) <=> \E i \in 1..n : s.path[i] = x
      /\ n \in 1..n
  <2>1. n \in Nat \ {0} /\ DOMAIN s.path = 1..n
    BY <1>2, <1>3
  <2>2. n \in 1..n
    BY <2>1
  <2> QED BY <1>2, <1>3, <2>1, <2>2, PathTasks
<1>5. PICK p : p = Front(s.path)
  OBVIOUS
<1>6. /\ p \in Seq(DOMAIN g) /\ DOMAIN p = 1..(n - 1) /\ Len(p) = n - 1
      /\ \A i \in 1..(n - 1) : p[i] = s.path[i]
  <2>1. p = SubSeq(s.path, 1, n - 1)
    BY <1>2, <1>5 DEF Front
  <2>2. \A i \in 1..(n - 1) : i \in DOMAIN s.path /\ s.path[i] \in DOMAIN g
    BY <1>3, <1>4
  <2>3. Len(p) = n - 1 /\ DOMAIN p = 1..(n - 1) /\ \A i \in 1..(n - 1) : p[i] = s.path[i]
    BY <1>2, <1>3, <1>4, <2>1
  <2> QED BY <1>3, <1>4, <2>1, <2>2, <2>3
<1>7. PICK z : z = [s EXCEPT !.visited = @ \cup {u}, !.path = Front(@)]
  OBVIOUS
<1>8. /\ z.roots = s.roots /\ z.path = p /\ z.left = s.left /\ z.visited = s.visited \cup {u}
      /\ z.marked = s.marked /\ Searched(g, z)
  BY <1>4, <1>5, <1>6, <1>7 DEF Walked, Searched
<1>9. ToSet(p) = ToSet(s.path) \ {u}
  <2>1. \A x : x \in ToSet(p) <=> \E i \in 1..(n - 1) : p[i] = x
    BY <1>6, PathTasks
  <2>2. \A i \in 1..n : i # n => i \in 1..(n - 1)
    BY <1>4
  <2>3. \A i \in 1..(n - 1) : i \in 1..n /\ i # n
    BY <1>4
  <2>4. \A i \in 1..n : s.path[i] = u => i = n
    BY <1>4 DEF Walked, Linked
  <2>5. ASSUME NEW x \in ToSet(p) PROVE x \in ToSet(s.path) \ {u}
    BY <1>4, <1>6, <2>1, <2>3, <2>4
  <2>6. ASSUME NEW x \in ToSet(s.path) \ {u} PROVE x \in ToSet(p)
    BY <1>4, <1>6, <2>1, <2>2
  <2> QED BY <2>5, <2>6
<1>10. u \in ToSet(s.path) /\ u \notin s.visited
  BY <1>4 DEF Walked, Covered
<1>11. LeftOver(g, z) /\ Covered(g, z, {})
  BY <1>8, <1>9, <1>10 DEF Walked, LeftOver, Covered
<1>12. Linked(g, p)
  <2>1. \A i \in 1..(n - 1) : i \in DOMAIN s.path /\ p[i] = s.path[i]
    BY <1>4, <1>6
  <2> QED BY <1>4, <1>6, <2>1 DEF Walked, Linked
<1>13. ASSUME s.marked = {} PROVE Closed(g, z, {})
  <2>1. Closed(g, s, {})
    BY <1>13 DEF Walked
  <2>2. Successors(g, u) \subseteq s.visited
    <3>1. Successors(g, s.path[n]) \ s.left[s.path[n]] \subseteq s.visited \cup {}
      BY <1>2, <1>4, <2>1 DEF Closed
    <3> QED BY <1>4, <3>1
  <2>3. \A t \in s.visited \cup {u} : Successors(g, t) \subseteq s.visited
    BY <2>1, <2>2 DEF Closed
  <2>4. NoCycleIn(g, s.visited \cup {u})
    <3> SUFFICES ASSUME NEW C \in SUBSET (s.visited \cup {u}), C # {}, \A t \in C : g[t] \cap C # {}
                 PROVE  FALSE
      BY DEF NoCycleIn
    <3>1. \A t \in C : g[t] \cap (C \ {u}) # {}
      <4> SUFFICES ASSUME NEW t \in C PROVE g[t] \cap (C \ {u}) # {}
        OBVIOUS
      <4>1. PICK d \in C : d \in g[t]
        OBVIOUS
      <4>2. d \in DOMAIN g
        BY <1>3, <1>4
      <4>3. d \in s.visited
        BY <2>3, <4>1, <4>2 DEF Successors
      <4> QED BY <1>10, <4>1, <4>3
    <3>2. C \ {u} \in SUBSET s.visited /\ C \ {u} # {}
      BY <3>1
    <3> QED BY <2>1, <3>1, <3>2 DEF Closed, NoCycleIn
  <2>5. ASSUME NEW i \in 1..(n - 1)
        PROVE  Successors(g, p[i]) \ s.left[p[i]] \subseteq
                   s.visited \cup {u} \cup (IF i = n - 1 THEN {} ELSE {p[i + 1]})
    <3>1. i \in 1..n /\ i # n /\ p[i] = s.path[i]
      BY <1>4, <1>6
    <3>2. Successors(g, s.path[i]) \ s.left[s.path[i]] \subseteq s.visited \cup {s.path[i + 1]}
      BY <1>2, <1>4, <2>1, <3>1 DEF Closed
    <3>3. CASE i = n - 1
      <4>1. s.path[i + 1] = u
        BY <1>4, <3>3
      <4> QED BY <3>1, <3>2, <3>3, <4>1
    <3>4. CASE i # n - 1
      <4>1. i + 1 \in 1..(n - 1)
        BY <1>4, <3>4
      <4>2. s.path[i + 1] = p[i + 1]
        BY <1>6, <4>1
      <4> QED BY <3>1, <3>2, <3>4, <4>2
    <3> QED BY <3>3, <3>4
  <2> QED BY <1>6, <1>8, <2>3, <2>4, <2>5 DEF Closed
<1>14. Walked(g, z, {})
  BY <1>8, <1>11, <1>12, <1>13 DEF Walked
<1> QED BY <1>7, <1>14

\* After the search every task was visited: if no task is marked, there is no cycle.
LEMMA SearchEnds ==
    ASSUME NEW g, NEW s, Walked(g, s, {}), s.path = <<>>, s.roots = {}
    PROVE  /\ s.marked \subseteq DOMAIN g /\ \A t \in s.marked : OnACycle(g, t)
           /\ HasCycle(g) => s.marked # {}
<1>1. s.marked \subseteq DOMAIN g /\ \A t \in s.marked : OnACycle(g, t)
  BY DEF Walked, Searched
<1>2. ToSet(s.path) = {}
  BY DEF ToSet
<1>3. DOMAIN g \subseteq s.visited
  BY <1>2 DEF Walked, Covered
<1>4. ASSUME s.marked = {} PROVE ~HasCycle(g)
  <2>1. NoCycleIn(g, s.visited)
    BY <1>4 DEF Walked, Closed
  <2> QED BY <1>3, <2>1 DEF HasCycle, NoCycleIn
<1> QED BY <1>1, <1>4

-----------------------------------------------------------------------------
(* The preview and what comes of it.                                        *)

\* What is known of a search that is over.
Found(g, marked) ==
    /\ marked \subseteq DOMAIN g /\ \A t \in marked : OnACycle(g, t)
    /\ HasCycle(g) => marked # {}

\* What is known of an upload.
UploadFields ==
    /\ upload = [at |-> upload.at, sheet |-> upload.sheet, ids |-> upload.ids,
                 errors |-> upload.errors, plan |-> upload.plan]
    /\ upload.sheet \in Sheets
    /\ upload.at \in {"uploaded", "ready", "needs_correction", "partial", "committed", "blocked", "merged"}

WasReady == upload.at \in {"ready", "committed", "blocked", "merged"}
WasCommitted == upload.at \in {"committed", "blocked", "merged"}

\* After a commit, a project or task row without an id shares its row key with one before, or
\* it is a task without a project.
Named(sheet, ids) ==
    \A i \in DOMAIN sheet :
      /\ sheet[i].entity = "projects" => ids[i] # Nothing \/ Sharing(sheet, i) # {}
      /\ sheet[i].entity = "tasks" =>
           ids[i] # Nothing \/ Sharing(sheet, i) # {} \/ ~HasProject(sheet, ids, i)

ThePlan == [tasks |-> {OverlayTask(MergedTask(i).id) : i \in TaskRows},
            transfers |-> {MergedTransfer(i) : i \in LastTransfers}]

PreviewInv ==
    /\ UploadFields
    /\ upload.at = "uploaded" => Walked(Graph(upload.sheet), search, {})
    /\ upload.at # "uploaded" => Found(Graph(upload.sheet), search.marked)
    /\ WasReady => /\ Faulty(upload.sheet, search.marked) = {}
                   /\ DOMAIN upload.ids = DOMAIN upload.sheet
    /\ WasCommitted => Named(upload.sheet, upload.ids)
    /\ upload.at = "blocked" => Unmapped
    /\ upload.at = "merged" => ~Unmapped /\ upload.plan = ThePlan

\* A set of rows has a last one.
LEMMA LastOfRows ==
    ASSUME PreviewConstants, NEW sheet \in Sheets, NEW S \in SUBSET DOMAIN sheet, S # {}
    PROVE  Max(S) \in S
<1>1. DOMAIN sheet = 1..Len(sheet) /\ Len(sheet) \in Nat
  BY DEF PreviewConstants
<1>2. IsFiniteSet(1..Len(sheet))
  BY <1>1, FS_Interval
<1>3. IsFiniteSet(S)
  BY <1>1, <1>2, FS_Subset
<1>4. S \in SUBSET Int
  BY <1>1
<1> QED BY <1>3, <1>4, MaxIs

\* The graph has the needs of a task's last planning row.
LEMMA GraphRow ==
    ASSUME PreviewConstants, NEW sheet \in Sheets, NEW t \in DOMAIN Graph(sheet)
    PROVE  /\ LastRow(sheet, t) \in Planned(sheet) /\ sheet[LastRow(sheet, t)].task = t
           /\ Graph(sheet)[t] = sheet[LastRow(sheet, t)].needs
<1> DEFINE S == {i \in Planned(sheet) : sheet[i].task = t}
<1>1. S # {} /\ S \in SUBSET DOMAIN sheet
  BY DEF Graph, Planned, Rows
<1>2. Max(S) \in S
  <2> HIDE DEF S
  <2> QED BY <1>1, LastOfRows
<1> QED BY <1>2 DEF Graph, LastRow

\* The first state.
LEMMA PreviewStarts == ASSUME PreviewInit PROVE PreviewInv
<1>1. PICK sheet \in Sheets :
         /\ upload = [at |-> "uploaded", sheet |-> sheet, ids |-> [i \in {} |-> Nothing],
                      errors |-> {}, plan |-> Nothing]
         /\ search = SearchOf(sheet)
  BY DEF PreviewInit
<1>2. upload.at = "uploaded" /\ upload.sheet = sheet /\ UploadFields
  BY <1>1 DEF UploadFields
<1>3. Walked(Graph(upload.sheet), search, {})
  BY <1>1, <1>2, SearchStarts
<1> QED BY <1>2, <1>3 DEF PreviewInv, WasReady, WasCommitted

\* A step of the search.
LEMMA SearchStep == ASSUME PreviewInv, VisitRoot \/ VisitNext \/ Leave PROVE PreviewInv'
<1>1. upload.at = "uploaded" /\ upload' = upload
  BY DEF VisitRoot, VisitNext, Leave
<1>2. PICK g : g = Graph(upload.sheet)
  OBVIOUS
<1>3. Walked(g, search, {})
  BY <1>1, <1>2 DEF PreviewInv
<1>4. Walked(g, search', {})
  <2>1. CASE VisitRoot
    <3>1. PICK t \in search.roots : search' = Enter([search EXCEPT !.roots = @ \ {t}], t)
      BY <2>1 DEF VisitRoot
    <3>2. search.path = <<>>
      BY <2>1 DEF VisitRoot
    <3> QED BY <1>3, <3>1, <3>2, RootWalked
  <2>2. CASE VisitNext
    <3>1. PICK u : u = search.path[Len(search.path)]
      OBVIOUS
    <3>2. PICK t \in search.left[u] : search' = Enter([search EXCEPT !.left[u] = @ \ {t}], t)
      BY <2>2, <3>1 DEF VisitNext, Top
    <3>3. search.path # <<>>
      BY <2>2 DEF VisitNext
    <3> QED BY <1>3, <3>1, <3>2, <3>3, NextWalked
  <2>3. CASE Leave
    <3>1. PICK u : u = search.path[Len(search.path)]
      OBVIOUS
    <3>2. /\ search.path # <<>> /\ search.left[u] = {}
          /\ search' = [search EXCEPT !.visited = @ \cup {u}, !.path = Front(@)]
      BY <2>3, <3>1 DEF Leave, Top
    <3> QED BY <1>3, <3>1, <3>2, LeaveWalked
  <2> QED BY <2>1, <2>2, <2>3
<1>5. upload'.at = "uploaded" /\ Walked(Graph(upload'.sheet), search', {}) /\ UploadFields'
  BY <1>1, <1>2, <1>4 DEF PreviewInv, UploadFields
<1> QED BY <1>5 DEF PreviewInv, WasReady, WasCommitted

\* The end of the search: the rows with an error are named.
LEMMA PreviewStep == ASSUME PreviewInv, PreviewSheet PROVE PreviewInv'
<1>1. /\ upload.at = "uploaded" /\ search.path = <<>> /\ search.roots = {} /\ search' = search
  BY DEF PreviewSheet
<1>2. PICK errors : errors = Faulty(upload.sheet, search.marked)
  OBVIOUS
<1>3. PICK ids : ids = [i \in DOMAIN upload.sheet |-> MappingOf(upload.sheet[i])]
  OBVIOUS
<1>4. upload' = [upload EXCEPT !.errors = errors,
                    !.at = IF errors = {} THEN "ready" ELSE "needs_correction", !.ids = ids]
  BY <1>2, <1>3 DEF PreviewSheet
<1>5. /\ upload'.sheet = upload.sheet /\ upload'.ids = ids
      /\ upload'.at = IF errors = {} THEN "ready" ELSE "needs_correction"
      /\ UploadFields'
  BY <1>4 DEF PreviewInv, UploadFields
<1>6. Found(Graph(upload.sheet), search.marked)
  <2>1. Walked(Graph(upload.sheet), search, {})
    BY <1>1 DEF PreviewInv
  <2> QED BY <1>1, <2>1, SearchEnds DEF Found
<1>7. Found(Graph(upload'.sheet), search'.marked)
  BY <1>1, <1>5, <1>6
<1>8. WasReady' => Faulty(upload'.sheet, search'.marked) = {}
  BY <1>1, <1>2, <1>5 DEF WasReady
<1>9. DOMAIN upload'.ids = DOMAIN upload'.sheet
  BY <1>3, <1>5
<1>10. ~WasCommitted' /\ upload'.at \notin {"uploaded", "blocked", "merged"}
  BY <1>5 DEF WasCommitted
<1> QED BY <1>5, <1>7, <1>8, <1>9, <1>10 DEF PreviewInv

\* What a commit leaves without an id.
LEMMA CommitNames ==
    ASSUME PreviewConstants, NEW sheet \in Sheets, NEW ids
    PROVE  /\ Named(sheet, Committed(sheet, ids))
           /\ DOMAIN Committed(sheet, ids) = DOMAIN sheet
<1>0. \A i \in DOMAIN sheet : Created(sheet[i]) # Nothing
  BY DEF PreviewConstants
<1>1. PICK one : one = ProjectsCommitted(sheet, ids)
  OBVIOUS
<1>2. PICK two : two = TasksCommitted(sheet, one)
  OBVIOUS
<1>3. \A i \in DOMAIN sheet :
        one[i] = IF sheet[i].entity = "projects" /\ ids[i] = Nothing /\ Sharing(sheet, i) = {}
                 THEN Created(sheet[i]) ELSE ids[i]
  BY <1>1 DEF ProjectsCommitted
<1>4. \A i \in DOMAIN sheet :
        two[i] = IF sheet[i].entity = "tasks" /\ one[i] = Nothing /\ HasProject(sheet, one, i)
                    /\ \A j \in Sharing(sheet, i) : ~HasProject(sheet, one, j)
                 THEN Created(sheet[i]) ELSE one[i]
  BY <1>2 DEF TasksCommitted
<1>5. DOMAIN two = DOMAIN sheet
  BY <1>2 DEF TasksCommitted
<1>6. \A i \in DOMAIN sheet : sheet[i].entity = "projects" => two[i] = one[i]
  BY <1>4
<1>7. \A i : HasProject(sheet, two, i) <=> HasProject(sheet, one, i)
  <2>1. ASSUME NEW k PROVE IdIn(sheet, two, "projects", k) = IdIn(sheet, one, "projects", k)
    <3>1. PICK rows : rows = {i \in Rows(sheet, "projects") : sheet[i].key = k /\ one[i] # Nothing}
      OBVIOUS
    <3>2. \A i \in Rows(sheet, "projects") : two[i] = one[i]
      BY <1>6 DEF Rows
    <3>3. rows = {i \in Rows(sheet, "projects") : sheet[i].key = k /\ two[i] # Nothing}
      BY <3>1, <3>2
    <3>4. /\ IdIn(sheet, one, "projects", k) = IF rows = {} THEN Nothing ELSE one[Max(rows)]
          /\ IdIn(sheet, two, "projects", k) = IF rows = {} THEN Nothing ELSE two[Max(rows)]
      BY <3>1, <3>3 DEF IdIn
    <3>5. rows # {} => two[Max(rows)] = one[Max(rows)]
      <4>1. ASSUME rows # {} PROVE Max(rows) \in rows
        <5>1. rows \in SUBSET DOMAIN sheet
          BY <3>1 DEF Rows
        <5> QED BY <4>1, <5>1, LastOfRows
      <4> QED BY <3>1, <3>2, <4>1
    <3> QED BY <3>4, <3>5
  <2> QED BY <2>1 DEF HasProject
<1>8. ASSUME NEW i \in DOMAIN sheet, sheet[i].entity = "projects"
      PROVE  two[i] # Nothing \/ Sharing(sheet, i) # {}
  BY <1>0, <1>3, <1>6, <1>8
<1>9. ASSUME NEW i \in DOMAIN sheet, sheet[i].entity = "tasks"
      PROVE  two[i] # Nothing \/ Sharing(sheet, i) # {} \/ ~HasProject(sheet, two, i)
  BY <1>0, <1>4, <1>7, <1>9
<1>10. Named(sheet, two)
  BY <1>8, <1>9 DEF Named
<1> QED BY <1>1, <1>2, <1>5, <1>10 DEF Committed

\* A commit.
LEMMA CommitStep == ASSUME PreviewConstants, PreviewInv, CommitSheet PROVE PreviewInv'
<1>1. upload.at = "ready" /\ search' = search
  BY DEF CommitSheet
<1>2. PICK ids, at : /\ ids = Committed(upload.sheet, upload.ids)
                     /\ at = IF WhollyApplied(upload.sheet, ids) THEN "committed" ELSE "partial"
  OBVIOUS
<1>3. upload' = [upload EXCEPT !.ids = ids, !.at = at]
  BY <1>2 DEF CommitSheet
<1>4. upload'.sheet = upload.sheet /\ upload'.ids = ids /\ upload'.at = at /\ at \in {"committed", "partial"}
      /\ UploadFields'
  BY <1>2, <1>3 DEF PreviewInv, UploadFields
<1>5. /\ Found(Graph(upload.sheet), search.marked) /\ Faulty(upload.sheet, search.marked) = {}
      /\ DOMAIN upload.ids = DOMAIN upload.sheet /\ upload.sheet \in Sheets
  BY <1>1 DEF PreviewInv, WasReady, UploadFields
<1>6. Named(upload.sheet, ids) /\ DOMAIN ids = DOMAIN upload.sheet
  BY <1>2, <1>5, CommitNames
<1>7. Found(Graph(upload'.sheet), search'.marked) /\ Faulty(upload'.sheet, search'.marked) = {}
  BY <1>1, <1>4, <1>5
<1>8. DOMAIN upload'.ids = DOMAIN upload'.sheet /\ Named(upload'.sheet, upload'.ids)
  BY <1>4, <1>6
<1>9. upload'.at \notin {"uploaded", "blocked", "merged"}
  BY <1>4
<1> QED BY <1>4, <1>7, <1>8, <1>9 DEF PreviewInv

\* What is merged is read from the rows and their ids.
LEMMA SameMerge ==
    ASSUME upload'.sheet = upload.sheet, upload'.ids = upload.ids
    PROVE  Unmapped' = Unmapped /\ ThePlan' = ThePlan
<1>1. /\ TaskRows' = TaskRows /\ ProjectRows' = ProjectRows /\ Transfers' = Transfers
      /\ \A e, k : IdOf(e, k)' = IdOf(e, k)
      /\ \A t : Assumptions(t)' = Assumptions(t)
  BY DEF TaskRows, ProjectRows, Transfers, IdOf, Assumptions, Rows
<1>2. \A i : NeedsOf(i)' = NeedsOf(i)
  BY <1>1 DEF NeedsOf
<1>3. \A i : MergedTask(i)' = MergedTask(i) /\ MergedTransfer(i)' = MergedTransfer(i)
  BY <1>1, <1>2 DEF MergedTask, MergedTransfer
<1>4. LastTransfers' = LastTransfers /\ \A id : OverlayTask(id)' = OverlayTask(id)
  BY <1>1, <1>3 DEF LastTransfers, OverlayTask
<1>5. Unmapped' = Unmapped
  BY <1>1, <1>3 DEF Unmapped
<1>6. ThePlan' = ThePlan
  BY <1>1, <1>3, <1>4 DEF ThePlan
<1> QED BY <1>5, <1>6

\* The merge.
LEMMA MergeStep == ASSUME PreviewInv, MergeSheet PROVE PreviewInv'
<1>1. upload.at = "committed" /\ search' = search
  BY DEF MergeSheet
<1>2. PICK plan : plan = ThePlan
  OBVIOUS
<1>3. upload' = IF Unmapped THEN [upload EXCEPT !.at = "blocked"]
                ELSE [upload EXCEPT !.at = "merged", !.plan = plan]
  BY <1>2 DEF MergeSheet, ThePlan
<1>4. /\ upload'.sheet = upload.sheet /\ upload'.ids = upload.ids /\ UploadFields'
      /\ \/ Unmapped /\ upload'.at = "blocked"
         \/ ~Unmapped /\ upload'.at = "merged" /\ upload'.plan = plan
  BY <1>3 DEF PreviewInv, UploadFields
<1>5. Unmapped' = Unmapped /\ ThePlan' = ThePlan
  BY <1>4, SameMerge
<1>6. upload'.at = "merged" => ~Unmapped' /\ upload'.plan = ThePlan'
  BY <1>2, <1>4, <1>5
<1>7. upload'.at = "blocked" => Unmapped'
  BY <1>4, <1>5
<1>8. /\ Found(Graph(upload.sheet), search.marked) /\ Faulty(upload.sheet, search.marked) = {}
      /\ DOMAIN upload.ids = DOMAIN upload.sheet /\ Named(upload.sheet, upload.ids)
  BY <1>1 DEF PreviewInv, WasReady, WasCommitted
<1>9. /\ Found(Graph(upload'.sheet), search'.marked) /\ Faulty(upload'.sheet, search'.marked) = {}
      /\ DOMAIN upload'.ids = DOMAIN upload'.sheet /\ Named(upload'.sheet, upload'.ids)
  BY <1>1, <1>4, <1>8
<1> QED BY <1>4, <1>6, <1>7, <1>9 DEF PreviewInv

\* A step that changes nothing.
LEMMA PreviewStutters == ASSUME PreviewInv, UNCHANGED previewVars PROVE PreviewInv'
<1>1. upload' = upload /\ search' = search
  BY DEF previewVars
<1>2. Unmapped' = Unmapped /\ ThePlan' = ThePlan
  BY <1>1, SameMerge
<1> QED BY <1>1, <1>2 DEF PreviewInv, UploadFields, WasReady, WasCommitted

\* What is known of every upload holds at every step.
THEOREM PreviewIsKept == ASSUME PreviewConstants PROVE PreviewSpec => []PreviewInv
<1>1. PreviewInit => PreviewInv
  BY PreviewStarts
<1>2. PreviewInv /\ [PreviewNext]_previewVars => PreviewInv'
  BY SearchStep, PreviewStep, CommitStep, MergeStep, PreviewStutters DEF PreviewNext
<1> QED BY <1>1, <1>2, PTL DEF PreviewSpec

\* A marked row is on a cycle, and if there is a cycle some row is marked.
LEMMA CyclesFromInv == ASSUME PreviewConstants, PreviewInv PROVE CyclesAreFound
<1> SUFFICES ASSUME upload.at # "uploaded" PROVE CyclesAreFound
  BY DEF CyclesAreFound
<1>1. PICK g, sheet, marked : g = Graph(upload.sheet) /\ sheet = upload.sheet /\ marked = search.marked
  OBVIOUS
<1>2. sheet \in Sheets /\ g = Graph(sheet) /\ Found(g, marked)
  BY <1>1 DEF PreviewInv, UploadFields
<1>3. PICK rows : rows = {i \in DOMAIN sheet : OnCycle(sheet, marked, i)}
  OBVIOUS
<1>4. \A i \in rows : OnACycle(g, sheet[i].task)
  BY <1>2, <1>3 DEF Found, OnCycle
<1>5. ASSUME HasCycle(g) PROVE rows # {}
  <2>1. PICK t \in marked : t \in DOMAIN g
    BY <1>2, <1>5 DEF Found
  <2>2. LastRow(sheet, t) \in Planned(sheet) /\ sheet[LastRow(sheet, t)].task = t
    BY <1>2, <2>1, GraphRow
  <2>3. LastRow(sheet, t) \in DOMAIN sheet
    BY <2>2 DEF Planned, Rows
  <2> QED BY <1>3, <2>1, <2>2, <2>3 DEF OnCycle
<1> QED BY <1>1, <1>3, <1>4, <1>5 DEF CyclesAreFound

\* What rows without an error are.
LEMMA Faultless ==
    ASSUME NEW sheet, NEW marked, Faulty(sheet, marked) = {}, NEW i \in DOMAIN sheet
    PROVE  /\ Complete(sheet[i]) /\ ~Duplicate(sheet, i) /\ Resolves(sheet, sheet[i])
           /\ ~OnCycle(sheet, marked, i)
BY DEF Faulty, RowOk

\* A task row without an error has a key.
LEMMA TaskHasKey ==
    ASSUME NEW sheet, NEW marked, Faulty(sheet, marked) = {}, NEW i \in DOMAIN sheet, sheet[i].entity = "tasks"
    PROVE  sheet[i].key # Nothing /\ sheet[i].project # Nothing
<1>1. Complete(sheet[i])
  BY Faultless
<1>2. Required(sheet[i]) = <<sheet[i].key, sheet[i].project>>
  BY DEF Required
<1> QED BY <1>1, <1>2 DEF Complete

\* A key has the id of a row with the key, if one of them has an id.
LEMMA IdIs ==
    ASSUME PreviewConstants, upload.sheet \in Sheets, NEW entity, NEW key
    PROVE  /\ IdOf(entity, key) # Nothing =>
                \E j \in Rows(upload.sheet, entity) :
                   upload.sheet[j].key = key /\ IdOf(entity, key) = upload.ids[j]
           /\ \A j \in Rows(upload.sheet, entity) :
                upload.sheet[j].key = key /\ upload.ids[j] # Nothing => IdOf(entity, key) # Nothing
<1>1. PICK S : S = {i \in Rows(upload.sheet, entity) : upload.sheet[i].key = key /\ upload.ids[i] # Nothing}
  OBVIOUS
<1>2. IdOf(entity, key) = IF S = {} THEN Nothing ELSE upload.ids[Max(S)]
  BY <1>1 DEF IdOf, IdIn
<1>3. S \in SUBSET DOMAIN upload.sheet
  BY <1>1 DEF Rows
<1>4. S # {} => Max(S) \in S
  BY <1>3, LastOfRows
<1>5. S # {} => IdOf(entity, key) # Nothing /\ IdOf(entity, key) = upload.ids[Max(S)]
  BY <1>1, <1>2, <1>4
<1> QED BY <1>1, <1>2, <1>4, <1>5

\* A row key begins with the row's entity.
LEMMA KeyHasEntity == ASSUME NEW row PROVE RowKey(row)[1] = row.entity
<1>1. CASE row.entity = "assignments"
  BY <1>1 DEF RowKey
<1>2. CASE row.entity = "planning" /\ row.transfer
  BY <1>2 DEF RowKey
<1>3. CASE row.entity = "planning" /\ ~row.transfer
  BY <1>3 DEF RowKey
<1>4. CASE row.entity \notin {"assignments", "planning"}
  <2>1. RowKey(row) = <<row.entity, PartOr(row.key, row)>>
    BY <1>4 DEF RowKey
  <2> QED BY <2>1
<1> QED BY <1>1, <1>2, <1>3, <1>4

\* Two rows of a faultless sheet with one row key, projects or tasks, have different keys.
LEMMA SharingDiffers ==
    ASSUME PreviewConstants, upload.sheet \in Sheets,
           Faulty(upload.sheet, search.marked) = {}, NEW i \in DOMAIN upload.sheet,
           upload.sheet[i].entity \in {"projects", "tasks"}, Sharing(upload.sheet, i) # {}
    PROVE  SharesRowKey(i)
<1>1. PICK sheet : sheet = upload.sheet
  OBVIOUS
<1>2. PICK j \in DOMAIN sheet : j \in Sharing(sheet, i) /\ j < i /\ RowKey(sheet[j]) = RowKey(sheet[i])
  BY <1>1 DEF Sharing
<1>3. sheet[j].entity = sheet[i].entity
  <2>1. RowKey(sheet[j])[1] = sheet[j].entity /\ RowKey(sheet[i])[1] = sheet[i].entity
    BY KeyHasEntity
  <2> QED BY <1>2, <2>1
<1>4. sheet[i].key # Nothing
  <2>1. Complete(sheet[i])
    BY <1>1, Faultless
  <2>2. CASE sheet[i].entity = "tasks"
    BY <1>1, <2>2, TaskHasKey
  <2>3. CASE sheet[i].entity = "projects"
    <3>1. Required(sheet[i]) = <<sheet[i].key>>
      BY <2>3 DEF Required
    <3> QED BY <2>1, <3>1 DEF Complete
  <2> QED BY <1>1, <2>2, <2>3
<1>5. j # i
  <2>1. DOMAIN sheet = 1..Len(sheet) /\ Len(sheet) \in Nat
    BY <1>1 DEF PreviewConstants
  <2> QED BY <1>1, <1>2, <2>1
<1>6. ASSUME sheet[j].key = sheet[i].key PROVE FALSE
  <2>1. j \in Rows(sheet, sheet[i].entity) \ {i}
    BY <1>3, <1>5 DEF Rows
  <2>2. Duplicate(sheet, i)
    BY <1>4, <1>6, <2>1 DEF Duplicate
  <2> QED BY <1>1, <2>2, Faultless
<1> QED BY <1>1, <1>2, <1>6 DEF SharesRowKey

\* Only a transfer of a worker without a profile and a shared row key block a merge.
LEMMA OnlyWorkersBlock ==
    ASSUME PreviewConstants, PreviewInv, upload.at = "blocked"
    PROVE  \/ \E i \in Transfers : MergedTransfer(i).worker = Nothing
           \/ \E i \in WithoutId : SharesRowKey(i)
<1> SUFFICES ASSUME \A i \in WithoutId : ~SharesRowKey(i)
             PROVE  \E i \in Transfers : MergedTransfer(i).worker = Nothing
  OBVIOUS
<1>1. PICK sheet, ids : sheet = upload.sheet /\ ids = upload.ids
  OBVIOUS
<1>2. /\ sheet \in Sheets /\ Faulty(sheet, search.marked) = {} /\ Unmapped /\ Named(sheet, ids)
  BY <1>1 DEF PreviewInv, UploadFields, WasReady, WasCommitted
<1>3. \A i \in ProjectRows \cup TaskRows : i \in DOMAIN sheet /\ sheet[i].entity \in {"projects", "tasks"}
  BY <1>1 DEF ProjectRows, TaskRows, Rows
<1>4. \A i \in ProjectRows \cup TaskRows : ids[i] = Nothing => Sharing(sheet, i) = {}
  BY <1>1, <1>2, <1>3, SharingDiffers DEF WithoutId
<1>5. \A i \in ProjectRows : ids[i] # Nothing
  <2>1. \A i \in ProjectRows : i \in DOMAIN sheet /\ sheet[i].entity = "projects"
    BY <1>1 DEF ProjectRows, Rows
  <2> QED BY <1>2, <1>4, <2>1 DEF Named
<1>6. \A k : k \in Known(sheet, "projects") => IdOf("projects", k) # Nothing
  <2> SUFFICES ASSUME NEW k, k \in Known(sheet, "projects") PROVE IdOf("projects", k) # Nothing
    OBVIOUS
  <2>1. PICK j \in Rows(sheet, "projects") : sheet[j].key = k
    BY DEF Known
  <2>2. ids[j] # Nothing
    BY <1>1, <1>5, <2>1 DEF ProjectRows
  <2> QED BY <1>1, <1>2, <2>1, <2>2, IdIs
<1>7. ASSUME NEW i \in TaskRows PROVE MergedTask(i).id # Nothing /\ MergedTask(i).project # Nothing
  <2>1. i \in DOMAIN sheet /\ sheet[i].entity = "tasks" /\ i \in Rows(sheet, "tasks")
    BY <1>1 DEF TaskRows, Rows
  <2>2. sheet[i].key # Nothing /\ sheet[i].project # Nothing
    BY <1>2, <2>1, TaskHasKey
  <2>3. sheet[i].project \in Known(sheet, "projects")
    <3>1. Resolves(sheet, sheet[i])
      BY <1>2, <2>1, Faultless
    <3>2. References(sheet[i]) = {<<"projects", sheet[i].project>>}
      BY <2>1 DEF References
    <3> QED BY <2>2, <3>1, <3>2 DEF Resolves
  <2>4. IdOf("projects", sheet[i].project) # Nothing
    BY <1>6, <2>3
  <2>5. HasProject(sheet, ids, i)
    BY <1>1, <2>4 DEF HasProject, IdOf
  <2>6. ids[i] # Nothing
    BY <1>2, <1>4, <2>1, <2>5 DEF Named
  <2>7. IdOf("tasks", sheet[i].key) # Nothing
    BY <1>1, <1>2, <2>1, <2>6, IdIs
  <2> QED BY <1>1, <2>4, <2>7 DEF MergedTask
<1>8. ASSUME NEW i \in ProjectRows PROVE IdOf("projects", sheet[i].key) # Nothing
  <2>1. i \in Rows(sheet, "projects") /\ ids[i] # Nothing
    BY <1>1, <1>5 DEF ProjectRows
  <2> QED BY <1>1, <1>2, <2>1, IdIs
<1>9. ASSUME NEW i \in Transfers PROVE MergedTransfer(i).from # Nothing /\ MergedTransfer(i).to # Nothing
  <2>1. i \in DOMAIN sheet /\ sheet[i].entity = "planning" /\ sheet[i].transfer
    BY <1>1 DEF Transfers, Rows
  <2>2. sheet[i].from # Nothing /\ sheet[i].to # Nothing
    <3>1. Complete(sheet[i])
      BY <1>2, <2>1, Faultless
    <3>2. Required(sheet[i]) = <<sheet[i].from, sheet[i].to, sheet[i].worker>>
      BY <2>1 DEF Required
    <3> QED BY <3>1, <3>2 DEF Complete
  <2>3. sheet[i].from \in Known(sheet, "projects") /\ sheet[i].to \in Known(sheet, "projects")
    <3>1. Resolves(sheet, sheet[i])
      BY <1>2, <2>1, Faultless
    <3>2. <<"projects", sheet[i].from>> \in References(sheet[i])
          /\ <<"projects", sheet[i].to>> \in References(sheet[i])
      BY <2>1 DEF References
    <3> QED BY <2>2, <3>1, <3>2 DEF Resolves
  <2> QED BY <1>1, <1>6, <2>3 DEF MergedTransfer
<1> QED BY <1>1, <1>2, <1>7, <1>8, <1>9 DEF Unmapped

\* What one id of the plan has: the needs of a row with that id, or none.
LEMMA OverlayNeeds ==
    ASSUME PreviewConstants, upload.sheet \in Sheets, NEW id
    PROVE  /\ OverlayTask(id).id = id
           /\ \A m \in OverlayTask(id).needs :
                \E i \in TaskRows : MergedTask(i).id = id /\ m \in MergedTask(i).needs
<1>1. PICK needing : needing = {i \in {j \in TaskRows : MergedTask(j).id = id} : MergedTask(i).needs # {}}
  OBVIOUS
<1>2. /\ OverlayTask(id).id = id
      /\ OverlayTask(id).needs = IF needing = {} THEN {} ELSE MergedTask(Max(needing)).needs
  BY <1>1 DEF OverlayTask
<1>3. needing \in SUBSET DOMAIN upload.sheet
  BY <1>1 DEF TaskRows, Rows
<1>4. needing # {} => Max(needing) \in needing
  BY <1>3, LastOfRows
<1> QED BY <1>1, <1>2, <1>4

\* What a merged task needs is merged.
LEMMA NeedsAreMerged ==
    ASSUME PreviewConstants, PreviewInv, upload.at = "merged"
    PROVE  \A t \in upload.plan.tasks : t.needs \subseteq {x.id : x \in upload.plan.tasks}
<1>1. upload.plan.tasks = {OverlayTask(MergedTask(i).id) : i \in TaskRows} /\ upload.sheet \in Sheets
  BY DEF PreviewInv, UploadFields, ThePlan
<1>2. ASSUME NEW i \in TaskRows, NEW m \in OverlayTask(MergedTask(i).id).needs
      PROVE  \E j \in TaskRows : MergedTask(j).id = m
  <2>1. PICK r \in TaskRows : m \in MergedTask(r).needs
    BY <1>1, OverlayNeeds
  <2>2. PICK n \in NeedsOf(r) : m = IdOf("tasks", n) /\ m # Nothing
    BY <2>1 DEF MergedTask
  <2>3. PICK j \in Rows(upload.sheet, "tasks") : upload.sheet[j].key = n
    BY <1>1, <2>2, IdIs
  <2> QED BY <2>2, <2>3 DEF TaskRows, MergedTask
<1>3. \A j \in TaskRows : /\ OverlayTask(MergedTask(j).id) \in upload.plan.tasks
                          /\ OverlayTask(MergedTask(j).id).id = MergedTask(j).id
  BY <1>1, OverlayNeeds
<1>4. \A m : (\E j \in TaskRows : MergedTask(j).id = m) => m \in {x.id : x \in upload.plan.tasks}
  BY <1>3
<1> QED BY <1>1, <1>2, <1>4

\* The plan of a preview that was ready has no cycle, unless a hole of the search is met.
LEMMA MergedPlanIsOrdered ==
    ASSUME PreviewConstants, PreviewInv, upload.at = "merged", ~Unsearched, HasCycle(PlanGraph)
    PROVE  FALSE
<1>1. PICK sheet, ids, g : sheet = upload.sheet /\ ids = upload.ids /\ g = Graph(sheet)
  OBVIOUS
<1>2. /\ sheet \in Sheets /\ Faulty(sheet, search.marked) = {}
      /\ upload.plan.tasks = {OverlayTask(MergedTask(i).id) : i \in TaskRows} /\ ~Unmapped
  BY <1>1 DEF PreviewInv, UploadFields, WasReady, ThePlan
<1>3. /\ \A i \in Transfers : sheet[i].task = Nothing
      /\ \A i \in TaskRows : sheet[i].needs = {}
      /\ \A i, j \in TaskRows : ids[i] = ids[j] => i = j
  BY <1>1 DEF Unsearched
<1>4. \A i \in TaskRows : i \in DOMAIN sheet /\ sheet[i].entity = "tasks"
  BY <1>1 DEF TaskRows, Rows
\* A task row is the only one of its key.
<1>5. \A i, j \in TaskRows : sheet[i].key = sheet[j].key => i = j
  <2> SUFFICES ASSUME NEW i \in TaskRows, NEW j \in TaskRows, sheet[i].key = sheet[j].key, i # j PROVE FALSE
    OBVIOUS
  <2>1. sheet[i].key # Nothing
    BY <1>4, TaskHasKey, <1>2
  <2>2. j \in Rows(sheet, sheet[i].entity) \ {i}
    BY <1>4 DEF Rows
  <2>3. Duplicate(sheet, i)
    BY <2>1, <2>2 DEF Duplicate
  <2> QED BY <1>2, <1>4, <2>3, Faultless
<1>6. \A i \in TaskRows : MergedTask(i).id = ids[i]
  <2> SUFFICES ASSUME NEW i \in TaskRows PROVE IdOf("tasks", sheet[i].key) = ids[i]
    BY <1>1 DEF MergedTask
  <2>1. IdOf("tasks", sheet[i].key) # Nothing
    BY <1>1, <1>2 DEF Unmapped, MergedTask
  <2>2. PICK j \in Rows(sheet, "tasks") : sheet[j].key = sheet[i].key /\ IdOf("tasks", sheet[i].key) = ids[j]
    BY <1>1, <1>2, <2>1, IdIs
  <2>3. j \in TaskRows
    BY <1>1 DEF TaskRows
  <2> QED BY <1>5, <2>2, <2>3
\* What a merged task needs is in the graph.
<1>7. ASSUME NEW i \in TaskRows, NEW n \in NeedsOf(i)
      PROVE  sheet[i].key \in DOMAIN g /\ n \in g[sheet[i].key]
  <2>1. PICK k : k = sheet[i].key /\ k # Nothing
    BY <1>2, <1>4, TaskHasKey
  <2>2. NeedsOf(i) = Assumptions(k).needs
    <3>1. sheet[i].needs = {}
      BY <1>3
    <3> QED BY <1>1, <1>7, <2>1, <3>1 DEF NeedsOf
  <2>3. PICK rows : rows = {r \in Rows(sheet, "planning") \ Transfers : sheet[r].task = k}
    OBVIOUS
  <2>4. Assumptions(k) = IF rows = {} THEN BlankRow ELSE sheet[Max(rows)]
    BY <1>1, <2>3 DEF Assumptions
  <2>5. rows # {}
    <3>1. BlankRow.needs = {}
      BY DEF BlankRow
    <3> QED BY <1>7, <2>2, <2>4, <3>1
  <2>6. rows = {r \in Planned(sheet) : sheet[r].task = k}
    BY <1>1, <1>3, <2>1, <2>3 DEF Planned
  <2>7. k \in DOMAIN g /\ g[k] = sheet[Max(rows)].needs
    BY <1>1, <2>5, <2>6 DEF Graph, LastRow
  <2> QED BY <1>7, <2>1, <2>2, <2>4, <2>5, <2>7
<1>8. PICK C \in SUBSET DOMAIN PlanGraph : C # {} /\ \A id \in C : PlanGraph[id] \cap C # {}
  BY DEF HasCycle
<1>9. PICK D : D = {sheet[i].key : i \in {j \in TaskRows : ids[j] \in C}}
  OBVIOUS
<1>10. ASSUME NEW i \in TaskRows, ids[i] \in C
       PROVE  sheet[i].key \in DOMAIN g /\ g[sheet[i].key] \cap D # {}
  <2>1. PICK m \in C : m \in PlanGraph[ids[i]]
    BY <1>8, <1>10
  <2>2. PlanGraph[ids[i]] = UNION {t.needs : t \in {x \in upload.plan.tasks : x.id = ids[i]}}
    BY <1>8, <1>10 DEF PlanGraph
  <2>3. PICK x \in upload.plan.tasks : x.id = ids[i] /\ m \in x.needs
    BY <2>1, <2>2
  <2>4. PICK k \in TaskRows : x = OverlayTask(MergedTask(k).id)
    BY <1>2, <2>3
  <2>5. PICK j \in TaskRows : MergedTask(j).id = ids[i] /\ m \in MergedTask(j).needs
    <3>1. /\ x.id = MergedTask(k).id
          /\ \E j \in TaskRows : MergedTask(j).id = MergedTask(k).id /\ m \in MergedTask(j).needs
      BY <1>1, <1>2, <2>3, <2>4, OverlayNeeds
    <3> QED BY <2>3, <3>1
  <2>6. PICK n \in NeedsOf(i) : m = IdOf("tasks", n) /\ m # Nothing
    <3>1. j = i
      BY <1>3, <1>6, <2>5
    <3> QED BY <2>5, <3>1 DEF MergedTask
  <2>7. PICK r \in Rows(sheet, "tasks") : sheet[r].key = n /\ m = ids[r]
    BY <1>1, <1>2, <2>6, IdIs
  <2>8. r \in TaskRows /\ n \in D
    BY <1>1, <1>9, <2>1, <2>7 DEF TaskRows
  <2> QED BY <1>7, <2>6, <2>8
<1>11. D # {}
  <2>1. PICK id \in C : TRUE
    BY <1>8
  <2>2. id \in {t.id : t \in upload.plan.tasks}
    BY <1>8 DEF PlanGraph
  <2>3. PICK i \in TaskRows : id = MergedTask(i).id
    <3>1. PICK i \in TaskRows : id = OverlayTask(MergedTask(i).id).id
      BY <1>2, <2>2
    <3> QED BY <1>1, <1>2, <3>1, OverlayNeeds
  <2> QED BY <1>6, <1>9, <2>3
<1>12. D \in SUBSET DOMAIN g /\ \A t \in D : g[t] \cap D # {}
  BY <1>9, <1>10
<1>13. HasCycle(g)
  BY <1>11, <1>12 DEF HasCycle
<1>14. CyclesAreFound
  BY CyclesFromInv
<1>15. PICK i \in DOMAIN sheet : OnCycle(sheet, search.marked, i)
  BY <1>1, <1>13, <1>14 DEF CyclesAreFound
<1> QED BY <1>2, <1>15, Faultless

\* Rows with an error, and what is blocked or merged, for any uploads, members, ids and
\* earlier mappings, in whatever order the search walks the rows: a cycle of planning rows is
\* marked and what is marked is on a cycle; only a transfer of a worker without a profile, and
\* a project or task without an id whose key gives the row key of an earlier one, block the
\* merge of what was wholly applied; and what is merged has all it needs and no cycle but
\* through the holes that Unsearched names.
THEOREM PreviewIsAlwaysRight == ASSUME PreviewConstants PROVE PreviewSpec => []PreviewIsRight
<1>1. PreviewInv => PreviewIsRight
  <2> SUFFICES ASSUME PreviewInv PROVE PreviewIsRight
    OBVIOUS
  <2>1. CyclesAreFound
    BY CyclesFromInv
  <2>2. ReadyPreviewsMerge
    BY OnlyWorkersBlock, NeedsAreMerged, MergedPlanIsOrdered DEF ReadyPreviewsMerge
  <2> QED BY <2>1, <2>2 DEF PreviewIsRight
<1> QED BY <1>1, PreviewIsKept, PTL
=============================================================================
