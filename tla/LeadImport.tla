----------------------------- MODULE LeadImport -----------------------------
(***************************************************************************)
(* What an import makes of a file (src/lib/csv.ts, src/lib/linkedin-url.ts). *)
(* A file is a sequence of rows, a row a sequence of cells.  Of a cell's   *)
(* text the model keeps what the code asks of it: the address it spells,   *)
(* the field it names as a header, and the words of a name it holds.       *)
(***************************************************************************)
EXTENDS Integers, FiniteSets, Sequences, SequencesExt, FiniteSetsExt

CONSTANTS Persons,          \* the public identifiers of people
          Fields,           \* the fields in the order of COLUMN_ALIASES
          HeaderSearchRows, \* MAX_HEADER_SEARCH_ROWS
          ImportRows        \* MAX_IMPORT_ROWS

NoField == "no field"
Unreadable == "unreadable"      \* a header without a letter or a digit

ASSUME ImportAssumption ==
    /\ Persons \subseteq STRING \ {"nobody"}
    /\ Fields \in Seq(STRING \ {NoField, Unreadable})
    /\ HeaderSearchRows \in Nat \ {0} /\ ImportRows \in Nat

Blank == [text |-> "", kind |-> "BLANK"]
Slugs == [person : STRING, spelt : {"plain", "escaped", "upper"}]
Cells ==
    [text : STRING, kind : {"BLANK"}]
    \cup [text : STRING, kind : {"TEXT"}, names : STRING, rank : Nat,
          parts : SUBSET (STRING \X Nat), words : Nat]
    \cup [text : STRING, kind : {"URL"}, linkedin : BOOLEAN, segment : STRING, slug : Slugs]

Nobody == [person |-> "nobody", spelt |-> "plain"]

-----------------------------------------------------------------------------
(* normalizeLinkedInUrl.  An address names a person in some spelling: with *)
(* capitals, with percent-escapes, or plainly; the canonical one is plain. *)

RejectedSegments == [company |-> "COMPANY_PAGE", school |-> "SCHOOL_PAGE",
                     groups |-> "GROUP_PAGE", sales |-> "SALES_NAVIGATOR",
                     pub |-> "DIRECTORY_PAGE"]

Rejection(cell) ==
    CASE cell.kind = "BLANK" -> "EMPTY"
      [] cell.kind = "TEXT" -> "NOT_A_URL"
      [] cell.kind = "URL" ->
           IF ~cell.linkedin THEN "NOT_LINKEDIN"
           ELSE IF cell.segment \in DOMAIN RejectedSegments THEN RejectedSegments[cell.segment]
           ELSE IF cell.segment # "in" THEN "NOT_A_PROFILE_URL"
           ELSE IF cell.slug.person = "nobody" THEN "MISSING_SLUG"
           ELSE IF cell.slug.person \notin Persons THEN "RESERVED_SLUG"
           ELSE "NONE"

\* (Mutant: percent-escapes are left as they are.)
CanonicalButEscapes(slug) == [slug EXCEPT !.spelt = IF @ = "upper" THEN "plain" ELSE @]

Canonical(slug) == [slug EXCEPT !.spelt = "plain"]

normalizeLinkedInUrl(cell) ==
    IF Rejection(cell) = "NONE" THEN [ok |-> TRUE, url |-> Canonical(cell.slug)]
                                ELSE [ok |-> FALSE, url |-> Nobody]

IsProfile(cell) == normalizeLinkedInUrl(cell).ok

-----------------------------------------------------------------------------
(* The header row and the columns.  A header cell names at most one field  *)
(* exactly, with the rank of the alias, and may contain aliases of others. *)

Names(cell) == IF cell.kind = "TEXT" THEN cell.names ELSE NoField

Score(row) == Cardinality({Names(row[i]) : i \in DOMAIN row} \ {NoField, Unreadable})

chooseHeaderRow(rows) ==
    LET searched == 1 .. Min({Len(rows), HeaderSearchRows})
        best == {i \in searched : /\ Score(rows[i]) > 0
                                  /\ \A k \in searched : Score(rows[k]) <= Score(rows[i])}
    IN IF best # {} THEN Min(best)
       ELSE IF Len(rows) > 0 /\ \E i \in DOMAIN rows[1] : IsProfile(rows[1][i])
            THEN 0      \* headerless
       ELSE 1

Column(i) == [text |-> ToString(i), kind |-> "TEXT", names |-> NoField, rank |-> 0,
              parts |-> {}, words |-> 0]

Headers(rows, row) ==
    IF row = 0 THEN [i \in 1 .. Max({Len(rows[k]) : k \in DOMAIN rows} \cup {0}) |-> Column(i)]
    ELSE IF row > Len(rows) THEN <<>>
    ELSE [i \in DOMAIN rows[row] |-> IF rows[row][i].kind = "TEXT" THEN rows[row][i]
                                                                    ELSE Column(i)]

\* (Mutant: the column that comes first wins, whatever alias it is named by.)
FirstColumnWins(incumbent, header) == incumbent.text # ""

KeepsPlace(incumbent, header) == incumbent.text # "" /\ incumbent.rank <= header.rank

\* One header more: it takes its field, and puts out a worse one, or it is kept.
Place(columns, h) ==
    IF h.names = Unreadable THEN columns
    ELSE IF h.names = NoField \/ KeepsPlace(columns.best[h.names], h)
      THEN [columns EXCEPT !.rest = Append(@, h)]
    ELSE LET out == columns.best[h.names]
         IN [best |-> [columns.best EXCEPT ![h.names] = h],
             rest |-> IF out = Blank THEN columns.rest ELSE Append(columns.rest, out)]

NoColumns == [best |-> [f \in ToSet(Fields) |-> Blank], rest |-> <<>>]

\* The exact matches: one header per field, the best alias first; the others are kept.
Exact(headers) ==
    LET columns[i \in 0 .. Len(headers)] ==
          IF i = 0 THEN NoColumns ELSE Place(columns[i - 1], headers[i])
    IN columns[Len(headers)]

PartLength(header, field) == Max({p[2] : p \in {q \in header.parts : q[1] = field}} \cup {0})

\* A header that was not yet in use is taken for the field.
Assign(columns, field, h) ==
    [best |-> [columns.best EXCEPT ![field] = h], rest |-> RemoveFirst(columns.rest, h)]

\* A field left without a column takes the one that contains most of an alias.
Guess(columns, field) ==
    LET rest == columns.rest
        length == Max({PartLength(rest[i], field) : i \in DOMAIN rest} \cup {0})
        pick == SelectInSeq(rest, LAMBDA h : PartLength(h, field) = length)
    IN IF columns.best[field] # Blank \/ length = 0 THEN columns
       ELSE Assign(columns, field, rest[pick])

mapColumns(headers) ==
    LET columns[i \in 0 .. Len(Fields)] ==
          IF i = 0 THEN Exact(headers) ELSE Guess(columns[i - 1], Fields[i])
    IN columns[Len(Fields)]

\* A record is keyed by the header's text: of two equal headers the later one counts.
Value(headers, row, text) ==
    LET columns == {i \in DOMAIN headers : headers[i].text = text}
    IN IF columns = {} \/ Max(columns) \notin DOMAIN row THEN Blank ELSE row[Max(columns)]

\* The column most of whose filled cells are profiles.
findUrlColumnByContent(headers, rows) ==
    LET cells(h) == {i \in DOMAIN rows : Value(headers, rows[i], h.text).kind # "BLANK"}
        valid(h) == {i \in DOMAIN rows : IsProfile(Value(headers, rows[i], h.text))}
        good == {h \in ToSet(headers) :
                   valid(h) # {} /\ 2 * Cardinality(valid(h)) >= Cardinality(cells(h))}
        most == {h \in good : \A k \in good : Cardinality(valid(k)) <= Cardinality(valid(h))}
    IN IF good = {} THEN Blank
       ELSE headers[SelectInSeq(headers, LAMBDA h : h \in most)]

\* readCsvRecords: the data rows and what each column is taken for.
WithUrlColumn(columns, byContent) ==
    IF columns.best["linkedinUrl"] # Blank \/ byContent = Blank THEN columns
    ELSE Assign(columns, "linkedinUrl", byContent)

Sheet(headers, data) ==
    [headers |-> headers, data |-> data,
     columns |-> WithUrlColumn(mapColumns(headers), findUrlColumnByContent(headers, data))]

ReadCsv(rows) ==
    LET row == chooseHeaderRow(rows)
    IN Sheet(Headers(rows, row), SubSeq(rows, row + 1, Len(rows)))

-----------------------------------------------------------------------------
(* analyzeLeadCsv: every data row is prepared, rejected, or a duplicate.   *)

Words(cell) == IF cell.kind = "TEXT" THEN cell.words ELSE 0

CellOf(file, row, field) == Value(file.headers, row, file.columns.best[field].text)

Named(file, row) ==
    \E f \in {"fullName", "firstName", "lastName"} \cap ToSet(Fields) :
        Words(CellOf(file, row, f)) > 0

UrlCell(file, row) == CellOf(file, row, "linkedinUrl")

Trouble(file, row) ==
    IF \A i \in DOMAIN row \cap DOMAIN file.headers : row[i].kind = "BLANK" THEN "BLANK_ROW"
    ELSE Rejection(UrlCell(file, row))

AnalyzeSheet(file) ==
    LET rows == 1 .. Min({Len(file.data), ImportRows})
        trouble(i) == Trouble(file, file.data[i])
        url(i) == normalizeLinkedInUrl(UrlCell(file, file.data[i])).url
        valid == {i \in rows : trouble(i) = "NONE"}
        seen == {i \in valid : \E k \in valid : k < i /\ url(k) = url(i)}
        analysis ==
          [prepared |-> {[row |-> i, url |-> url(i), fromSlug |-> ~Named(file, file.data[i])] :
                           i \in valid \ seen},
           rejected |-> [i \in rows \ valid |-> trouble(i)],
           duplicates |-> Cardinality(seen),
           totalRows |-> Len(file.data), columns |-> file.columns, headers |-> file.headers]
    IN IF file.columns.best["linkedinUrl"] # Blank THEN analysis
       ELSE [analysis EXCEPT !.prepared = {}, !.duplicates = 0,
                             !.rejected = [i \in {0} |-> "NO_URL_COLUMN"]]

analyzeLeadCsv(rows) == AnalyzeSheet(ReadCsv(rows))

buildImportPreview(analysis, existing) ==
    LET urls == {lead.url : lead \in analysis.prepared}
    IN [toCreate |-> urls \ existing, alreadyInDatabase |-> urls \cap existing]

summarizePreview(analysis, preview) ==
    [totalRows |-> analysis.totalRows,
     willImport |-> Cardinality(preview.toCreate),
     duplicateInFile |-> analysis.duplicates,
     alreadyInDatabase |-> Cardinality(preview.alreadyInDatabase),
     invalid |-> Cardinality({i \in DOMAIN analysis.rejected :
                                analysis.rejected[i] # "BLANK_ROW"})]
=============================================================================
