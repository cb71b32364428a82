----------------------------- MODULE ImportFile -----------------------------
(***************************************************************************)
(* Reading the files of an import into rows (services/imports.py): one pass  *)
(* over files, sheets, headers and rows, with the errors it collects.        *)
(*                                                                         *)
(* A file is [type, sound, sheets]: its suffix, whether its bytes can be     *)
(* read at all (UTF-8, a ZIP within its limits, no macros and no links), and *)
(* its tables [entity, headers, rows].  A CSV file has one, named by the     *)
(* file; entity is NoEntity where no name matches.  A header is a name or    *)
(* Blank; a cell is [kind, text]: what the file's reader makes of it         *)
(* ("array" is an array formula) and its text, Blank if it has none.         *)
(***************************************************************************)
EXTENDS Naturals, Sequences, FiniteSets, FiniteSetsExt, Sums

CONSTANTS NoEntity, Blank, MaxRows,
          EntityName, Name,          \* of sheets, of headers
          Text,                      \* of cells
          FormulaText,               \* the texts that start with "="
          FirstChars,                \* [a text beyond the limit -> its first 16,000 characters]
          Uploads                    \* bound: the sequences of files that are given

VARIABLE reading   \* the position [file, sheet, row] in the files and what was read:
                   \* rows of the sheet, own: how many of the sheets before in the file

\* See MCRecords.
Kind == {"text", "number", "date", "boolean", "array"}
Cell == {c \in [kind : Kind, text : Text] : c.kind = "date" => c.text \notin FormulaText}
Sheet == [entity : EntityName, headers : Seq(Name), rows : Seq(Seq(Cell))]
File == [type : {"csv", "xlsx", "other"}, sound : BOOLEAN, sheets : Seq(Sheet)]
TextConstants ==
    /\ Blank \in Text \ (FormulaText \cup DOMAIN FirstChars)
    /\ \A t \in DOMAIN FirstChars :
          /\ FirstChars[t] \in Text
          /\ FirstChars[t] \in FormulaText => t \in FormulaText
FileConstants ==
    /\ MaxRows \in Nat /\ TextConstants
    /\ \A files \in Uploads : /\ files \in Seq(File)
                              /\ \A i \in DOMAIN files : files[i].type = "csv" =>
                                     /\ Len(files[i].sheets) = 1
                                     /\ \A r \in DOMAIN files[i].sheets[1].rows :
                                          \A c \in DOMAIN files[i].sheets[1].rows[r] :
                                            files[i].sheets[1].rows[r][c].kind = "text"

-----------------------------------------------------------------------------
\* _canonical_headers: an empty header gets a name of its own, a repeated one stays.
HeaderErrors(headers) ==
    (IF \E i \in DOMAIN headers : headers[i] = Blank THEN {"header_empty"} ELSE {})
      \cup (IF \E i, j \in DOMAIN headers : i # j /\ headers[i] = headers[j] /\ headers[i] # Blank
            THEN {"header_duplicate"} ELSE {})

Column(headers, i) == IF headers[i] = Blank THEN <<"unknown", i>> ELSE <<"named", headers[i]>>
Columns(headers) == {Column(headers, i) : i \in DOMAIN headers}

NoCell == [kind |-> "text", text |-> Blank]
Shortened(t) == IF t \in DOMAIN FirstChars THEN FirstChars[t] ELSE t

\* _json_cell: what JSON has no type for becomes text; a long text is cut.
JsonCell(cell) ==
    IF cell.kind \in {"number", "boolean"} THEN cell
    ELSE [kind |-> "text", text |-> Shortened(cell.text)]

\* _row_from_values: a short row is filled up, a long one cut; of two columns with
\* one name the last one counts.
LastAt(headers, c) == Max({i \in DOMAIN headers : Column(headers, i) = c})
RowFromValues(headers, cells) ==
    [c \in Columns(headers) |->
        IF LastAt(headers, c) <= Len(cells) THEN JsonCell(cells[LastAt(headers, c)]) ELSE NoCell]

\* A row is read if it has a text or a number: dates, booleans and array formulas alone
\* do not count (_string_value).  The cells of a CSV file are all text.
HasText(cells) ==
    \E i \in DOMAIN cells : cells[i].kind \in {"text", "number"} /\ cells[i].text # Blank

IsFormula(cell) == cell.kind = "array" \/ (cell.kind = "text" /\ cell.text \in FormulaText)

\* A CSV row is searched for formulas after it and its cells were cut, a workbook's row
\* before.
HasFormula(type, headers, cells) ==
    IF type = "csv"
    THEN \E c \in Columns(headers) : IsFormula(RowFromValues(headers, cells)[c])
    ELSE \E i \in DOMAIN cells : IsFormula(cells[i])

\* Mutation of Beyond: the reader stops when the limit is reached.
BeyondOrAt(n) == n >= MaxRows

\* A reader stops after the first row beyond the limit, so that the limit shows.
Beyond(n) == n > MaxRows

RowCount(tables) == Total([t \in DOMAIN tables |-> Len(tables[t].rows)])

-----------------------------------------------------------------------------
TheFile == reading.files[reading.file]
TheSheet == TheFile.sheets[reading.sheet]

Failing(code) == reading.errors \cup {code}
NextFile(errors) ==
    reading' = [reading EXCEPT !.file = @ + 1, !.sheet = 0, !.row = 0, !.own = 0, !.errors = errors]
NextSheet(errors) == reading' = [reading EXCEPT !.sheet = @ + 1, !.row = 0, !.errors = errors]

ReadInit == \E files \in Uploads :
    reading = [files |-> files, file |-> 1, sheet |-> 0, row |-> 0, own |-> 0, rows |-> <<>>,
               tables |-> <<>>, errors |-> {}, status |-> "parsing"]

\* _parse_upload: a file that cannot be read is an error, and the next one is tried.
OpenFile ==
    /\ reading.status = "parsing" /\ reading.file \in DOMAIN reading.files /\ reading.sheet = 0
    /\ CASE TheFile.type = "csv" /\ TheFile.sheets[1].entity = NoEntity ->
              NextFile(Failing("csv_entity_unknown"))
         [] TheFile.type = "csv" /\ TheFile.sheets[1].entity # NoEntity /\ ~TheFile.sound ->
              NextFile(Failing("csv_content_invalid"))
         [] TheFile.type = "xlsx" /\ ~TheFile.sound -> NextFile(Failing("xlsx_content_invalid"))
         [] TheFile.type \notin {"csv", "xlsx"} -> NextFile(Failing("import_file_type_unsupported"))
         [] OTHER -> NextSheet(reading.errors)

OpenSheet ==
    /\ reading.status = "parsing" /\ reading.file \in DOMAIN reading.files
    /\ reading.sheet \in DOMAIN TheFile.sheets /\ reading.row = 0
    /\ IF TheSheet.entity = NoEntity THEN NextSheet(Failing("xlsx_sheet_unknown"))
       ELSE IF TheSheet.headers = <<>>
       THEN NextSheet(Failing(IF TheFile.type = "csv" THEN "csv_header_missing" ELSE "xlsx_header_missing"))
       ELSE reading' = [reading EXCEPT !.row = 1, !.rows = <<>>,
                                       !.errors = @ \cup HeaderErrors(TheSheet.headers)]

\* A row with a formula is an error and is kept, as the next ones are.
ReadRow ==
    /\ reading.status = "parsing" /\ reading.file \in DOMAIN reading.files
    /\ reading.sheet \in DOMAIN TheFile.sheets /\ reading.row \in DOMAIN TheSheet.rows
    /\ LET cells == TheSheet.rows[reading.row]
           rows == Append(reading.rows, RowFromValues(TheSheet.headers, cells)) IN
       reading' =
         IF ~HasText(cells) THEN [reading EXCEPT !.row = @ + 1]
         ELSE [reading EXCEPT
                 !.rows = rows,
                 !.row = IF Beyond(reading.own + Len(rows)) THEN Len(TheSheet.rows) + 1 ELSE @ + 1,
                 !.errors = IF HasFormula(TheFile.type, TheSheet.headers, cells)
                            THEN Failing("formula_not_allowed") ELSE @]

EndSheet ==
    /\ reading.status = "parsing" /\ reading.file \in DOMAIN reading.files
    /\ reading.sheet \in DOMAIN TheFile.sheets
    /\ reading.row > 0 /\ reading.row \notin DOMAIN TheSheet.rows
    /\ reading' = [reading EXCEPT
          !.tables = Append(@, [entity |-> TheSheet.entity, rows |-> reading.rows]),
          !.own = @ + Len(reading.rows), !.sheet = @ + 1, !.row = 0]

EndFile ==
    /\ reading.status = "parsing" /\ reading.file \in DOMAIN reading.files
    /\ reading.sheet > Len(TheFile.sheets)
    /\ NextFile(reading.errors)

\* An upload without files is refused; too many rows are one more error.
CountRows ==
    /\ reading.status = "parsing" /\ reading.file > Len(reading.files)
    /\ LET errors == IF RowCount(reading.tables) > MaxRows
                     THEN Failing("import_row_limit_exceeded") ELSE reading.errors IN
       reading' = [reading EXCEPT !.errors = errors,
                     !.status = IF reading.files = <<>> THEN "refused"
                                ELSE IF errors = {} THEN "ready" ELSE "needs_correction"]

ReadNext == OpenFile \/ OpenSheet \/ ReadRow \/ EndSheet \/ EndFile \/ CountRows

ReadSpec == ReadInit /\ [][ReadNext]_reading

-----------------------------------------------------------------------------
\* A preview without errors has the n-th row with a text or a number of a sheet as its
\* n-th record, with each cell under the header it was given for, and no cell of a record
\* is a formula.  What else is in the files is dropped without a word, and these are the
\* exceptions: rows of dates, booleans and array formulas only, cells to the right of the
\* last header, and the characters of a cell beyond the limit.
SheetsOf(files) == UNION {{<<f, s>> : s \in DOMAIN files[f].sheets} : f \in DOMAIN files}
SheetAt(x) == reading.files[x[1]].sheets[x[2]]
Filled(sheet, n) == Cardinality({r \in 1..n : HasText(sheet.rows[r])})

\* A cell that was kept, all of it or its first characters.
Kept(stored, text) ==
    stored.text = text \/ (text \in DOMAIN FirstChars /\ stored.text = FirstChars[text])
HasCells(record, headers, cells) ==
    \A i \in DOMAIN headers :
        Kept(record[<<"named", headers[i]>>], IF i \in DOMAIN cells THEN cells[i].text ELSE Blank)

\* What is ready to commit has what its files say but for the exceptions (_parse_upload).
ReadyIsWhole ==
    reading.status = "ready" =>
      /\ Len(reading.tables) = Cardinality(SheetsOf(reading.files))
      /\ \A x \in SheetsOf(reading.files) : \E t \in DOMAIN reading.tables :
           /\ reading.tables[t].entity = SheetAt(x).entity
           /\ Len(reading.tables[t].rows) = Filled(SheetAt(x), Len(SheetAt(x).rows))
           /\ \A r \in DOMAIN SheetAt(x).rows : HasText(SheetAt(x).rows[r]) =>
                HasCells(reading.tables[t].rows[Filled(SheetAt(x), r)], SheetAt(x).headers,
                         SheetAt(x).rows[r])
      /\ \A t \in DOMAIN reading.tables : \A i \in DOMAIN reading.tables[t].rows :
           \A c \in DOMAIN reading.tables[t].rows[i] : ~IsFormula(reading.tables[t].rows[i][c])
=============================================================================
