---------------------------- MODULE LeadBookProofs ----------------------------
(***************************************************************************)
(* One row and one invitation per person, whatever files, addresses and    *)
(* operators there are.  What an import reads is plain in its spelling and *)
(* comes from a cell of its file; so rows and requests hold plain          *)
(* addresses only, and a plain address is a person.  And whoever has been  *)
(* invited is on record as invited, or is being visited, unless a report   *)
(* was lost or a deletion raced the visit.  The last parts are about the   *)
(* list that the discovery makes of what it has sighted, the columns of a  *)
(* file, and the ranking of the people found.                              *)
(***************************************************************************)
EXTENDS LeadFinder, FiniteSetTheorems, WellFoundedInduction, TLAPS

-----------------------------------------------------------------------------
(* What a file yields. *)

LEMMA LeastNumber ==
    ASSUME NEW S \in SUBSET Nat, S # {}
    PROVE  Min(S) \in S /\ \A m \in S : Min(S) <= m
<1>1. PICK n \in S : \A m \in S : <<m, n>> \notin OpToRel(<, Nat)
  BY NatLessThanWellFounded, WFMin
<1>2. OpToRel(<, Nat) = {ss \in Nat \X Nat : ss[1] < ss[2]}
  BY Zenon DEF OpToRel
<1>3. \A m \in S : <<m, n>> \notin {ss \in Nat \X Nat : ss[1] < ss[2]}
  BY <1>1, <1>2, Zenon
<1>4. n \in Nat /\ \A m \in S : m \in Nat
  OBVIOUS
<1>5. \A m, k \in Nat : <<m, k>> \notin {ss \in Nat \X Nat : ss[1] < ss[2]} => k <= m
  OBVIOUS
<1>6. \A m \in S : n <= m
  BY <1>3, <1>4, <1>5, Zenon
<1> QED
  BY <1>1, <1>6, Zenon DEF Min

LEMMA HeaderRow ==
    ASSUME NEW rows \in Seq(Seq(Cells))
    PROVE  chooseHeaderRow(rows) \in Nat
<1> DEFINE searched == 1 .. Min({Len(rows), HeaderSearchRows})
           best == {i \in searched : /\ Score(rows[i]) > 0
                                     /\ \A k \in searched : Score(rows[k]) <= Score(rows[i])}
<1>1. \A i \in best : i \in Nat
  <2>1. Len(rows) \in Nat /\ HeaderSearchRows \in Nat
    BY ImportAssumption
  <2>2. Min({Len(rows), HeaderSearchRows}) \in Nat
    <3>1. {Len(rows), HeaderSearchRows} \in SUBSET Nat /\ {Len(rows), HeaderSearchRows} # {}
      BY <2>1
    <3> HIDE DEF searched, best
    <3>2. Min({Len(rows), HeaderSearchRows}) \in {Len(rows), HeaderSearchRows}
      BY <3>1, LeastNumber
    <3> QED
      BY <2>1, <3>2
  <2>3. \A i \in searched : i \in Nat
    BY <2>2
  <2> HIDE DEF searched
  <2> QED
    BY <2>3
<1>2. best # {} => Min(best) \in Nat
  <2> HIDE DEF best
  <2>1. best \in SUBSET Nat
    BY <1>1
  <2> QED
    BY <1>1, <2>1, LeastNumber
<1>3. chooseHeaderRow(rows) \in {Min(best), 0, 1} /\ (best = {} => chooseHeaderRow(rows) \in {0, 1})
  BY DEF chooseHeaderRow
<1> HIDE DEF best
<1> QED
  BY <1>2, <1>3

\* The data rows are rows of the file.
LEMMA DataRows ==
    ASSUME NEW rows \in Seq(Seq(Cells))
    PROVE  LET data == ReadCsv(rows).data
           IN /\ Len(data) \in Nat /\ data \in Seq(Seq(Cells))
              /\ \A i \in 1 .. Len(data) : \E k \in DOMAIN rows : data[i] = rows[k]
<1> DEFINE row == chooseHeaderRow(rows)
           data == SubSeq(rows, row + 1, Len(rows))
<1>1. row \in Nat
  BY HeaderRow
<1>2. ReadCsv(rows).data = data
  BY DEF ReadCsv, Sheet
<1> HIDE DEF row
<1>3. Len(rows) \in Nat /\ DOMAIN rows = 1 .. Len(rows)
  OBVIOUS
<1>4. /\ Len(data) = IF row + 1 <= Len(rows) THEN Len(rows) - row ELSE 0
      /\ \A i \in 1 .. Len(data) : data[i] = rows[row + i]
      /\ data \in Seq(Seq(Cells))
  BY <1>1
<1>5. \A i \in 1 .. Len(data) : row + i \in DOMAIN rows
  BY <1>1, <1>3, <1>4
<1> HIDE DEF data
<1>6. Len(data) \in Nat
  BY <1>4
<1> QED
  BY <1>2, <1>4, <1>5, <1>6

PlainUrls == {u \in Urls : u.spelt = "plain"}

\* What an address is taken for is the person it spells, spelt plainly.
LEMMA NormalizedIsPlain ==
    ASSUME NEW cell \in Cells, Rejection(cell) = "NONE"
    PROVE  /\ cell.kind = "URL"
           /\ normalizeLinkedInUrl(cell).url \in PlainUrls
           /\ normalizeLinkedInUrl(cell).url.person = cell.slug.person
<1>1. cell.kind \in {"BLANK", "TEXT", "URL"}
  BY DEF Cells
<1>2. cell.kind = "URL"
  BY <1>1 DEF Rejection
<1>3. cell.slug \in Slugs
  BY <1>2 DEF Cells
<1>4. cell.slug.person \in Persons
  <2>1. \A x \in DOMAIN RejectedSegments : RejectedSegments[x] # "NONE"
    BY DEF RejectedSegments
  <2> QED
    BY <1>2, <2>1 DEF Rejection
<1>5. /\ Canonical(cell.slug) \in [person : STRING, spelt : {"plain"}]
      /\ Canonical(cell.slug).person = cell.slug.person
  BY <1>3 DEF Canonical, Slugs
<1>6. Canonical(cell.slug).spelt = "plain" /\ Canonical(cell.slug) \in Urls
  BY <1>4, <1>5 DEF Urls
<1>7. normalizeLinkedInUrl(cell).url = Canonical(cell.slug)
  BY DEF normalizeLinkedInUrl
<1> QED
  BY <1>2, <1>5, <1>6, <1>7 DEF PlainUrls

\* A row's cell is one of its own, or blank.
LEMMA ValueIsCell ==
    ASSUME NEW headers, NEW row \in Seq(Cells), NEW text
    PROVE  Value(headers, row, text) \in ToSet(row) \cup {Blank}
BY DEF Value, ToSet

\* The people an address of whom is in a file.
PeopleOf(rows) ==
    {cell.slug.person : cell \in {c \in UNION {ToSet(row) : row \in ToSet(rows)} : c.kind = "URL"}}

\* What the preview of a file offers for import: plain addresses of the file's
\* people, finitely many.
LEMMA PreparedFromFile ==
    ASSUME NEW rows \in Seq(Seq(Cells)), NEW existing
    PROVE  LET urls == buildImportPreview(analyzeLeadCsv(rows), existing).toCreate
           IN /\ IsFiniteSet(urls)
              /\ urls \subseteq PlainUrls
              /\ {u.person : u \in urls} \subseteq PeopleOf(rows)
<1> DEFINE file == ReadCsv(rows)
           taken == 1 .. Min({Len(file.data), ImportRows})
           cell(i) == UrlCell(file, file.data[i])
           url(i) == normalizeLinkedInUrl(cell(i)).url
           valid == {i \in taken : Trouble(file, file.data[i]) = "NONE"}
           seen == {i \in valid : \E k \in valid : k < i /\ url(k) = url(i)}
           analysis == analyzeLeadCsv(rows)
           prepared == {lead.url : lead \in analysis.prepared}
<1>1. /\ Len(file.data) \in Nat /\ file.data \in Seq(Seq(Cells))
      /\ \A i \in 1 .. Len(file.data) : \E k \in DOMAIN rows : file.data[i] = rows[k]
  BY DataRows
<1>2. \A i \in taken : i \in Nat /\ i \in 1 .. Len(file.data)
  <2> HIDE DEF file
  <2>1. {Len(file.data), ImportRows} \in SUBSET Nat /\ {Len(file.data), ImportRows} # {}
    BY <1>1, ImportAssumption
  <2> DEFINE n == Min({Len(file.data), ImportRows})
  <2>2. n \in {Len(file.data), ImportRows}
    BY <2>1, LeastNumber
  <2>3. n \in Nat /\ n <= Len(file.data)
    <3>1. \E x \in {Len(file.data), ImportRows} : \A y \in {Len(file.data), ImportRows} : x <= y
      BY <1>1, ImportAssumption
    <3>2. \A y \in {Len(file.data), ImportRows} : n <= y
      BY <3>1 DEF Min
    <3> QED
      BY <1>1, <2>2, <3>2, ImportAssumption
  <2> HIDE DEF n
  <2> QED
    BY <1>1, <2>3 DEF n
<1> HIDE DEF file, taken
<1>3. \A i \in valid : /\ url(i) \in PlainUrls
                       /\ url(i).person \in PeopleOf(rows)
  <2> SUFFICES ASSUME NEW i \in valid
               PROVE  url(i) \in PlainUrls /\ url(i).person \in PeopleOf(rows)
    OBVIOUS
  <2>1. i \in 1 .. Len(file.data) /\ Trouble(file, file.data[i]) = "NONE"
    BY <1>2
  <2>2. PICK k \in DOMAIN rows : file.data[i] = rows[k]
    BY <1>1, <2>1
  <2>3. rows[k] \in Seq(Cells)
    OBVIOUS
  <2>4. Rejection(cell(i)) = "NONE"
    BY <2>1 DEF Trouble
  <2>5. cell(i) \in ToSet(rows[k]) \cup {Blank}
    BY <2>2, <2>3, ValueIsCell DEF UrlCell, CellOf
  <2> HIDE DEF cell
  <2>6. cell(i) # Blank
    <3>1. Blank.kind = "BLANK"
      BY DEF Blank
    <3>2. Rejection(Blank) # "NONE"
      BY <3>1 DEF Rejection
    <3> QED
      BY <2>4, <3>2
  <2>7. cell(i) \in ToSet(rows[k]) /\ cell(i) \in Cells
    BY <2>3, <2>5, <2>6 DEF ToSet
  <2>8. /\ cell(i).kind = "URL" /\ url(i) \in PlainUrls
        /\ url(i).person = cell(i).slug.person
    BY <2>4, <2>7, NormalizedIsPlain
  <2>9. rows[k] \in ToSet(rows)
    BY DEF ToSet
  <2> HIDE DEF url
  <2> QED
    BY <2>7, <2>8, <2>9, Zenon DEF PeopleOf
<1> HIDE DEF url, valid, seen
<1>4. \A u \in prepared : \E i \in valid : u = url(i)
  <2> SUFFICES ASSUME NEW lead \in analysis.prepared
               PROVE  \E i \in valid : lead.url = url(i)
    OBVIOUS
  <2>1. PICK i \in valid \ seen :
          lead = [row |-> i, url |-> url(i), fromSlug |-> ~Named(file, file.data[i])]
    BY DEF analyzeLeadCsv, AnalyzeSheet, valid, seen, url, cell, taken, file
  <2> QED
    BY <2>1
<1> HIDE DEF prepared
<1>5. IsFiniteSet(prepared)
  <2> DEFINE image == {url(i) : i \in valid}
             f == [i \in valid |-> url(i)]
  <2>1. \A i \in taken : i \in Nat
    BY <1>2
  <2>2. IsFiniteSet(1 .. Len(file.data))
    BY <1>1, FS_Interval
  <2>3. valid \in SUBSET (1 .. Len(file.data))
    BY <1>2 DEF valid
  <2>4. IsFiniteSet(valid)
    BY <2>2, <2>3, FS_Subset
  <2>5. f \in Surjection(valid, image)
    BY DEF Surjection
  <2>6. IsFiniteSet(image)
    BY <2>4, <2>5, FS_Surjection
  <2>7. prepared \in SUBSET image
    BY <1>4
  <2> QED
    BY <2>6, <2>7, FS_Subset
<1>6. buildImportPreview(analysis, existing).toCreate = prepared \ existing
  BY DEF buildImportPreview, prepared
<1>7. IsFiniteSet(prepared \ existing)
  BY <1>5, FS_Difference
<1>8. \A u \in prepared \ existing : u \in PlainUrls /\ u.person \in PeopleOf(rows)
  BY <1>3, <1>4
<1> QED
  BY <1>6, <1>7, <1>8

-----------------------------------------------------------------------------
(* The state of the book. *)

RowValues == [status : {"ABSENT", "PENDING", "PROCESSING", "SENT", "FAILED"}, sentAt : BOOLEAN]

TabValues == [csv : Files \cup {NoFile}, preview : Nat \cup {NoPreview},
              reading : SUBSET Files, calls : Seq(Files)]

RequestValues == [kind : {"NONE", "CONFIRM", "IMPORT", "CLI", "CREATE", "DELETE"},
                  file : Files \cup {NoFile}, expected : Nat \cup {NoPreview},
                  urls : SUBSET PlainUrls, seen : RowValues]

\* What each pending request has read.
RequestInv(r) ==
    /\ r.kind \in {"CONFIRM", "IMPORT", "CLI"} => r.file \in Files
    /\ r.kind \in {"IMPORT", "CLI"} =>
         /\ IsFiniteSet(r.urls) /\ Cardinality(r.urls) = r.expected
         /\ {u.person : u \in r.urls} \subseteq PeopleOf(FileRows[r.file])
    /\ r.kind \in {"CREATE", "DELETE"} => \E u \in PlainUrls : r.urls = {u}
    /\ r.kind = "DELETE" => MayDelete(r.seen)

ShapeInv ==
    /\ book \in [Urls -> RowValues]
    /\ \A u \in Urls : book[u].sentAt => book[u].status = "SENT"
    /\ Rows \subseteq PlainUrls
    /\ invited \in [Persons -> Nat]
    /\ tab \in [Operators -> TabValues]
    /\ request \in [Operators -> RequestValues]
    /\ \A o \in Operators : RequestInv(request[o])
    /\ visit \in [urls : SUBSET PlainUrls, sent : BOOLEAN]
    /\ visit.urls = {} \/ \E u \in PlainUrls : visit.urls = {u}
    /\ forgotten \subseteq Persons

OnRecord(p) == \E u \in Urls : u.person = p /\ book[u].sentAt

Visited(p) == \E u \in visit.urls : u.person = p

\* Who has not been forgotten has at most the invitation the book or the visit
\* knows of, and his row is the visit's as long as it lasts.
InvitedInv ==
    /\ \A p \in Persons : invited[p] <= MostInvited
    /\ ~visit.sent => \A u \in visit.urls : invited[u.person] < MostInvited
    /\ \A p \in Persons \ forgotten :
         /\ invited[p] <= 1
         /\ invited[p] = 1 => OnRecord(p) \/ (visit.sent /\ Visited(p))
         /\ \A u \in visit.urls : u.person = p =>
              book[u].status = "PROCESSING" /\ ~book[u].sentAt

BookInv == ShapeInv /\ InvitedInv

LEMMA PlainIsPerson ==
    ASSUME NEW u \in PlainUrls, NEW v \in PlainUrls, u.person = v.person
    PROVE  u = v
BY DEF PlainUrls, Urls

LEMMA BookInit ==
    ASSUME Init
    PROVE  BookInv
<1>1. Absent \in RowValues /\ ~Absent.sentAt /\ Absent.status = "ABSENT"
  BY DEF Absent, RowValues
<1>2. EmptyTab \in TabValues
  BY DEF EmptyTab, TabValues
<1>3. /\ NoRequest \in RequestValues /\ NoRequest.kind = "NONE"
  BY <1>1 DEF NoRequest, RequestValues
<1>4. RequestInv(NoRequest)
  BY <1>3 DEF RequestInv
<1>5. /\ book = [u \in Urls |-> Absent] /\ invited = [p \in Persons |-> 0]
      /\ tab = [o \in Operators |-> EmptyTab] /\ request = [o \in Operators |-> NoRequest]
      /\ visit = [urls |-> {}, sent |-> FALSE] /\ forgotten = {}
  BY DEF Init
<1>6. Rows = {}
  BY <1>5 DEF Rows
<1>7. visit \in [urls : SUBSET PlainUrls, sent : BOOLEAN] /\ visit.urls = {} /\ ~visit.sent
  BY <1>5
<1>8. ShapeInv
  BY <1>1, <1>2, <1>3, <1>4, <1>5, <1>6, <1>7 DEF ShapeInv
<1>9. InvitedInv
  BY <1>5, <1>7, BookAssumption DEF InvitedInv
<1> QED
  BY <1>8, <1>9 DEF BookInv

\* What an import, a lead by hand and the script write: rows of plain addresses.
LEMMA InsertedRows ==
    ASSUME ShapeInv, NEW urls, urls \subseteq PlainUrls
    PROVE  /\ Inserted(urls) \in [Urls -> RowValues]
           /\ \A u \in Urls : /\ Inserted(urls)[u].sentAt <=> book[u].sentAt
                              /\ Inserted(urls)[u] # Absent => u \in PlainUrls
                              /\ book[u] # Absent => Inserted(urls)[u] = book[u]
                              /\ Inserted(urls)[u].sentAt => Inserted(urls)[u].status = "SENT"
                              /\ book[u] = Absent /\ Inserted(urls)[u] # Absent => u \in urls
<1>1. /\ Pending \in RowValues /\ ~Pending.sentAt /\ Pending # Absent
      /\ Absent \in RowValues /\ ~Absent.sentAt
  BY DEF Pending, Absent, RowValues
<1>2. /\ book \in [Urls -> RowValues] /\ \A u \in Urls : book[u] # Absent => u \in PlainUrls
      /\ \A u \in Urls : book[u].sentAt => book[u].status = "SENT"
  BY DEF ShapeInv, Rows
<1> QED
  BY <1>1, <1>2 DEF Inserted

\* The preview of a file: a count, of plain addresses of its people.
LEMMA PreviewOf ==
    ASSUME NEW f \in Files
    PROVE  LET urls == Preview(f).toCreate
           IN /\ IsFiniteSet(urls) /\ Cardinality(urls) \in Nat
              /\ urls \subseteq PlainUrls
              /\ {u.person : u \in urls} \subseteq PeopleOf(FileRows[f])
              /\ summarizePreview(Analysis[f], Preview(f)).willImport = Cardinality(urls)
<1>1. FileRows[f] \in Seq(Seq(Cells))
  BY BookAssumption
<1>2. Preview(f) = buildImportPreview(analyzeLeadCsv(FileRows[f]), Rows)
  BY DEF Preview, Analysis
<1>3. LET urls == Preview(f).toCreate
      IN /\ IsFiniteSet(urls) /\ urls \subseteq PlainUrls
         /\ {u.person : u \in urls} \subseteq PeopleOf(FileRows[f])
  BY <1>1, <1>2, PreparedFromFile
<1>4. Cardinality(Preview(f).toCreate) \in Nat
  BY <1>3, FS_CardinalityType
<1>5. summarizePreview(Analysis[f], Preview(f)).willImport = Cardinality(Preview(f).toCreate)
  BY DEF summarizePreview
<1> QED
  BY <1>3, <1>4, <1>5

\* The tabs.
LEMMA TabStep ==
    ASSUME ShapeInv, [Next]_vars
    PROVE  tab' \in [Operators -> TabValues]
<1>1. tab \in [Operators -> TabValues] /\ EmptyTab \in TabValues
  BY DEF ShapeInv, EmptyTab, TabValues
<1>2. ASSUME NEW o \in Operators, NEW t \in TabValues, tab' = [tab EXCEPT ![o] = t]
      PROVE  tab' \in [Operators -> TabValues]
  BY <1>1, <1>2
<1>3. ASSUME NEW o \in Operators, NEW f \in Files, ChooseFile(o, f)
      PROVE  tab' \in [Operators -> TabValues]
  <2>1. tab' = [tab EXCEPT ![o].preview = NoPreview, ![o].reading = @ \cup {f}]
    BY <1>3, Zenon DEF ChooseFile
  <2> QED
    BY <1>1, <2>1 DEF TabValues
<1>4. ASSUME NEW o \in Operators, FileRead(o)
      PROVE  tab' \in [Operators -> TabValues]
  <2>1. PICK f \in tab[o].reading :
          tab' = [tab EXCEPT ![o].csv = f, ![o].reading = @ \ {f}, ![o].calls = Append(@, f)]
    BY <1>4 DEF FileRead
  <2>2. f \in Files /\ tab[o].calls \in Seq(Files)
    BY <1>1 DEF TabValues
  <2>3. Append(tab[o].calls, f) \in Seq(Files)
    BY <2>2
  <2> QED
    BY <1>1, <2>1, <2>2, <2>3 DEF TabValues
<1>5. ASSUME NEW o \in Operators, PreviewLeadImport(o)
      PROVE  tab' \in [Operators -> TabValues]
  <2> DEFINE f == Head(tab[o].calls)
             answer == summarizePreview(Analysis[f], Preview(f)).willImport
  <2>1. PICK p \in {tab[o].preview, answer} :
          tab' = [tab EXCEPT ![o].calls = Tail(@), ![o].preview = p]
    BY <1>5 DEF PreviewLeadImport
  <2>2. tab[o].calls \in Seq(Files) /\ tab[o].calls # <<>>
    BY <1>1, <1>5 DEF TabValues, PreviewLeadImport
  <2>3. f \in Files /\ Tail(tab[o].calls) \in Seq(Files)
    BY <2>2
  <2> HIDE DEF f
  <2>4. answer \in Nat
    BY <2>3, PreviewOf
  <2> HIDE DEF answer
  <2>5. p \in Nat \cup {NoPreview}
    BY <1>1, <2>4 DEF TabValues
  <2> QED
    BY <1>1, <2>1, <2>3, <2>5 DEF TabValues
<1>6. ASSUME NEW o \in Operators, ConfirmWrite(o)
      PROVE  tab' \in [Operators -> TabValues]
  BY <1>1, <1>2, <1>6 DEF ConfirmWrite
<1>7. ASSUME NEW o \in Operators, Confirm(o) \/ ConfirmRead(o) \/ CliWrite(o)
                                    \/ CreateWrite(o) \/ DeleteWrite(o)
      PROVE  tab' = tab
  BY <1>7 DEF Confirm, ConfirmRead, CliWrite, CreateWrite, DeleteWrite
<1>8. ASSUME NEW o \in Operators, NEW f \in Files, CliRead(o, f) PROVE tab' = tab
  BY <1>8 DEF CliRead
<1>9. ASSUME NEW o \in Operators, NEW cell \in Typed, CreateRead(o, cell) PROVE tab' = tab
  BY <1>9 DEF CreateRead
<1>10. ASSUME NEW o \in Operators, NEW u \in Urls, DeleteRead(o, u) PROVE tab' = tab
  BY <1>10 DEF DeleteRead
<1>11. ASSUME NEW u \in Urls, Claim(u) PROVE tab' = tab
  BY <1>11 DEF Claim
<1>12. ASSUME PressSend \/ Report \/ ReportLost \/ UNCHANGED vars PROVE tab' = tab
  BY <1>12 DEF PressSend, Report, ReportLost, Settle, vars
<1> QED
  BY <1>1, <1>3, <1>4, <1>5, <1>6, <1>7, <1>8, <1>9, <1>10, <1>11, <1>12 DEF Next

\* The requests.
LEMMA RequestStep ==
    ASSUME ShapeInv, [Next]_vars
    PROVE  /\ request' \in [Operators -> RequestValues]
           /\ \A o \in Operators : RequestInv(request'[o])
<1> DEFINE Goal == /\ request' \in [Operators -> RequestValues]
                   /\ \A o \in Operators : RequestInv(request'[o])
<1>1. /\ request \in [Operators -> RequestValues]
      /\ \A o \in Operators : RequestInv(request[o])
      /\ tab \in [Operators -> TabValues] /\ book \in [Urls -> RowValues]
  BY DEF ShapeInv
<1>2. ASSUME NEW o \in Operators, NEW r \in RequestValues, RequestInv(r),
             request' = [request EXCEPT ![o] = r]
      PROVE  Goal
  BY <1>1, <1>2
<1>3. NoRequest \in RequestValues /\ RequestInv(NoRequest)
  <2>1. Absent \in RowValues
    BY DEF Absent, RowValues
  <2>2. NoRequest \in RequestValues /\ NoRequest.kind = "NONE"
    BY <2>1 DEF NoRequest, RequestValues
  <2> QED
    BY <2>2 DEF RequestInv
<1>4. ASSUME request' = request PROVE Goal
  BY <1>1, <1>4
<1>5. ASSUME NEW o \in Operators, Confirm(o) PROVE Goal
  <2> DEFINE r == [NoRequest EXCEPT !.kind = "CONFIRM", !.file = tab[o].csv,
                                    !.expected = tab[o].preview]
  <2>1. request' = [request EXCEPT ![o] = r]
    BY <1>5 DEF Confirm
  <2>2. tab[o].csv \in Files /\ tab[o].preview \in Nat \cup {NoPreview}
    BY <1>1, <1>5 DEF Confirm, TabValues
  <2>3. r \in RequestValues /\ r.kind = "CONFIRM" /\ r.file \in Files
    BY <1>3, <2>2 DEF RequestValues
  <2> HIDE DEF r
  <2>4. RequestInv(r)
    BY <2>3 DEF RequestInv
  <2> QED
    BY <1>2, <2>1, <2>3, <2>4
<1>6. ASSUME NEW o \in Operators, ConfirmRead(o) PROVE Goal
  <2> DEFINE urls == Preview(request[o].file).toCreate
             r == [request[o] EXCEPT !.kind = "IMPORT", !.urls = urls]
  <2>1. request[o] \in RequestValues /\ request[o].file \in Files
    BY <1>1, <1>6 DEF ConfirmRead, RequestInv
  <2>2. /\ IsFiniteSet(urls) /\ urls \subseteq PlainUrls
        /\ {u.person : u \in urls} \subseteq PeopleOf(FileRows[request[o].file])
    BY <2>1, PreviewOf
  <2>3. \/ request' = [request EXCEPT ![o] = r] /\ AsExpected(urls, request[o].expected)
        \/ request' = [request EXCEPT ![o] = NoRequest]
    BY <1>1, <1>6 DEF ConfirmRead
  <2>4. CASE request' = [request EXCEPT ![o] = r] /\ AsExpected(urls, request[o].expected)
    <3>1. Cardinality(urls) = request[o].expected
      BY <2>4 DEF AsExpected
    <3> HIDE DEF urls
    <3>2. /\ r \in RequestValues /\ r.kind = "IMPORT" /\ r.file = request[o].file
          /\ r.urls = urls /\ r.expected = request[o].expected
      BY <2>1, <2>2 DEF RequestValues
    <3> HIDE DEF r
    <3>3. RequestInv(r)
      BY <2>1, <2>2, <3>1, <3>2 DEF RequestInv
    <3> QED
      BY <1>2, <2>4, <3>2, <3>3
  <2>5. CASE request' = [request EXCEPT ![o] = NoRequest]
    BY <1>2, <1>3, <2>5
  <2> QED
    BY <2>3, <2>4, <2>5
<1>7. ASSUME NEW o \in Operators, NEW f \in Files, CliRead(o, f) PROVE Goal
  <2> DEFINE urls == Preview(f).toCreate
             count == summarizePreview(Analysis[f], Preview(f)).willImport
             r == [NoRequest EXCEPT !.kind = "CLI", !.file = f, !.urls = urls, !.expected = count]
  <2>1. request' = [request EXCEPT ![o] = r]
    BY <1>7 DEF CliRead
  <2>2. /\ IsFiniteSet(urls) /\ urls \subseteq PlainUrls /\ Cardinality(urls) \in Nat
        /\ {u.person : u \in urls} \subseteq PeopleOf(FileRows[f])
        /\ count = Cardinality(urls)
    BY PreviewOf
  <2> HIDE DEF urls, count
  <2>3. /\ r \in RequestValues /\ r.kind = "CLI" /\ r.file = f
        /\ r.urls = urls /\ r.expected = count
    BY <1>3, <2>2 DEF RequestValues
  <2> HIDE DEF r
  <2>4. RequestInv(r)
    BY <2>2, <2>3 DEF RequestInv
  <2> QED
    BY <1>2, <2>1, <2>3, <2>4
<1>8. ASSUME NEW o \in Operators, NEW cell \in Typed, CreateRead(o, cell) PROVE Goal
  <2> DEFINE u == normalizeLinkedInUrl(cell).url
             r == [NoRequest EXCEPT !.kind = "CREATE", !.urls = {u}]
  <2>1. request' = [request EXCEPT ![o] = r]
    BY <1>8 DEF CreateRead
  <2>2. cell \in Cells
    BY BookAssumption
  <2>3. Rejection(cell) = "NONE"
    BY <1>8 DEF CreateRead, IsProfile, normalizeLinkedInUrl
  <2>4. u \in PlainUrls
    BY <2>2, <2>3, NormalizedIsPlain
  <2> HIDE DEF u
  <2>5. r \in RequestValues /\ r.kind = "CREATE" /\ r.urls = {u}
    BY <1>3, <2>4 DEF RequestValues
  <2> HIDE DEF r
  <2>6. RequestInv(r)
    BY <2>4, <2>5 DEF RequestInv
  <2> QED
    BY <1>2, <2>1, <2>5, <2>6
<1>9. ASSUME NEW o \in Operators, NEW u \in Urls, DeleteRead(o, u) PROVE Goal
  <2> DEFINE r == [NoRequest EXCEPT !.kind = "DELETE", !.urls = {u}, !.seen = book[u]]
  <2>1. request' = [request EXCEPT ![o] = r]
    BY <1>9 DEF DeleteRead
  <2>2. u \in PlainUrls /\ book[u] \in RowValues /\ MayDelete(book[u])
    BY <1>1, <1>9 DEF DeleteRead, ShapeInv, Rows
  <2>3. r \in RequestValues /\ r.kind = "DELETE" /\ r.urls = {u} /\ r.seen = book[u]
    BY <1>3, <2>2 DEF RequestValues
  <2> HIDE DEF r
  <2>4. RequestInv(r)
    BY <2>2, <2>3 DEF RequestInv
  <2> QED
    BY <1>2, <2>1, <2>3, <2>4
<1>10. ASSUME NEW o \in Operators,
              ConfirmWrite(o) \/ CliWrite(o) \/ CreateWrite(o) \/ DeleteWrite(o)
       PROVE  Goal
  BY <1>2, <1>3, <1>10 DEF ConfirmWrite, CliWrite, CreateWrite, DeleteWrite
<1>11. ASSUME NEW o \in Operators, NEW f \in Files, ChooseFile(o, f) PROVE request' = request
  BY <1>11 DEF ChooseFile
<1>12. ASSUME NEW o \in Operators, FileRead(o) \/ PreviewLeadImport(o) PROVE request' = request
  BY <1>12 DEF FileRead, PreviewLeadImport
<1>13. ASSUME NEW u \in Urls, Claim(u) PROVE request' = request
  BY <1>13 DEF Claim
<1>14. ASSUME PressSend \/ Report \/ ReportLost \/ UNCHANGED vars PROVE request' = request
  BY <1>14 DEF PressSend, Report, ReportLost, Settle, vars
<1> HIDE DEF Goal
<1>15. Goal
  BY <1>4, <1>5, <1>6, <1>7, <1>8, <1>9, <1>10, <1>11, <1>12, <1>13, <1>14 DEF Next
<1> QED
  BY <1>15 DEF Goal

\* What an import, a lead by hand or the script has written.
Wrote(o) ==
    /\ request[o].kind \in {"IMPORT", "CLI", "CREATE"}
    /\ book' = Inserted(request[o].urls) /\ UNCHANGED <<invited, visit, forgotten>>

\* Every step inserts rows, deletes one, belongs to the visit, or leaves the book alone.
LEMMA BookSteps ==
    ASSUME [Next]_vars
    PROVE  \/ UNCHANGED <<book, invited, visit, forgotten>>
           \/ \E o \in Operators : Wrote(o)
           \/ \E o \in Operators : DeleteWrite(o)
           \/ \E u \in Urls : Claim(u)
           \/ PressSend \/ Report \/ ReportLost
<1> DEFINE Same == UNCHANGED <<book, invited, visit, forgotten>>
<1>1. ASSUME NEW o \in Operators, ConfirmWrite(o) \/ CliWrite(o) \/ CreateWrite(o) PROVE Wrote(o)
  BY <1>1 DEF ConfirmWrite, CliWrite, CreateWrite, Wrote
<1>2. ASSUME NEW o \in Operators, NEW f \in Files, ChooseFile(o, f) \/ CliRead(o, f) PROVE Same
  BY <1>2 DEF ChooseFile, CliRead
<1>3. ASSUME NEW o \in Operators, FileRead(o) \/ PreviewLeadImport(o) \/ Confirm(o) \/ ConfirmRead(o)
      PROVE  Same
  BY <1>3 DEF FileRead, PreviewLeadImport, Confirm, ConfirmRead
<1>4. ASSUME NEW o \in Operators, NEW cell \in Typed, CreateRead(o, cell) PROVE Same
  BY <1>4 DEF CreateRead
<1>5. ASSUME NEW o \in Operators, NEW u \in Urls, DeleteRead(o, u) PROVE Same
  BY <1>5 DEF DeleteRead
<1>6. ASSUME UNCHANGED vars PROVE Same
  BY <1>6 DEF vars
<1> HIDE DEF Same
<1>7. \/ Same
      \/ \E o \in Operators : Wrote(o)
      \/ \E o \in Operators : DeleteWrite(o)
      \/ \E u \in Urls : Claim(u)
      \/ PressSend \/ Report \/ ReportLost
  BY <1>1, <1>2, <1>3, <1>4, <1>5, <1>6 DEF Next
<1> QED
  BY <1>7 DEF Same

\* A report, or what is left when it is lost, writes the row of the visit.
LEMMA SettledRows ==
    ASSUME ShapeInv, NEW row \in RowValues, row.sentAt => row.status = "SENT", Settle(row)
    PROVE  /\ book' \in [Urls -> RowValues]
           /\ \A u \in Urls : book'[u].sentAt => book'[u].status = "SENT"
           /\ \A u \in Urls : book'[u] # Absent => u \in PlainUrls
           /\ \A u \in Urls : u \notin visit.urls => book'[u] = book[u]
           /\ \A u \in visit.urls : book[u] # Absent => book'[u] = row
           /\ visit' = [urls |-> {}, sent |-> FALSE] /\ invited' = invited
<1>1. /\ book \in [Urls -> RowValues] /\ \A u \in Urls : book[u].sentAt => book[u].status = "SENT"
      /\ \A u \in Urls : book[u] # Absent => u \in PlainUrls
      /\ visit.urls \subseteq Urls
  BY DEF ShapeInv, Rows, PlainUrls
<1>2. /\ book' = [u \in Urls |-> IF u \in visit.urls /\ book[u] # Absent THEN row ELSE book[u]]
      /\ visit' = [urls |-> {}, sent |-> FALSE] /\ invited' = invited
  BY DEF Settle
<1> QED
  BY <1>1, <1>2

\* The two rows a visit can leave.
LEMMA OutcomeRows ==
    ASSUME ShapeInv
    PROVE  /\ Outcome \in RowValues /\ Outcome.sentAt = visit.sent
           /\ Outcome.sentAt => Outcome.status = "SENT"
           /\ [status |-> "FAILED", sentAt |-> FALSE] \in RowValues
           /\ ~[status |-> "FAILED", sentAt |-> FALSE].sentAt
<1>1. visit.sent \in BOOLEAN
  BY DEF ShapeInv
<1> QED
  BY <1>1 DEF Outcome, RowValues

LEMMA ShapeStep ==
    ASSUME ShapeInv, [Next]_vars
    PROVE  ShapeInv'
<1> DEFINE BookOK(b) == /\ b \in [Urls -> RowValues]
                        /\ \A u \in Urls : b[u].sentAt => b[u].status = "SENT"
                        /\ \A u \in Urls : b[u] # Absent => u \in PlainUrls
           VisitOK(v) == /\ v \in [urls : SUBSET PlainUrls, sent : BOOLEAN]
                         /\ v.urls = {} \/ \E u \in PlainUrls : v.urls = {u}
           Goal == /\ BookOK(book') /\ VisitOK(visit')
                   /\ invited' \in [Persons -> Nat] /\ forgotten' \subseteq Persons
<1>1. /\ BookOK(book) /\ VisitOK(visit)
      /\ invited \in [Persons -> Nat] /\ forgotten \subseteq Persons
  BY DEF ShapeInv, Rows
<1>2. \A u \in PlainUrls : u \in Urls /\ u.person \in Persons
  BY DEF PlainUrls, Urls
<1>3. ASSUME UNCHANGED <<book, invited, visit, forgotten>> PROVE Goal
  BY <1>1, <1>3
<1>4. ASSUME NEW o \in Operators, Wrote(o) PROVE Goal
  <2>1. request[o].urls \subseteq PlainUrls
    BY DEF ShapeInv, RequestValues
  <2>2. BookOK(book')
    BY <1>1, <1>4, <2>1, InsertedRows DEF Wrote
  <2> QED
    BY <1>1, <1>4, <2>2 DEF Wrote
<1>5. ASSUME NEW o \in Operators, DeleteWrite(o) PROVE Goal
  <2>1. Absent \in RowValues /\ ~Absent.sentAt
    BY DEF Absent, RowValues
  <2>2. book' = [u \in Urls |-> IF u \in request[o].urls THEN Absent ELSE book[u]]
    BY <1>5 DEF DeleteWrite
  <2>3. BookOK(book')
    BY <1>1, <2>1, <2>2
  <2>4. request[o].urls \subseteq PlainUrls
    BY DEF ShapeInv, RequestValues
  <2>5. forgotten' \subseteq Persons
    BY <1>1, <1>2, <1>5, <2>4 DEF DeleteWrite
  <2> QED
    BY <1>1, <1>5, <2>3, <2>5 DEF DeleteWrite
<1>6. ASSUME NEW u \in Urls, Claim(u) PROVE Goal
  <2>1. book' = [book EXCEPT ![u].status = "PROCESSING"] /\ book[u].status \in {"PENDING", "FAILED"}
    BY <1>6 DEF Claim
  <2>2. u \in PlainUrls
    BY <1>1, <2>1 DEF Absent
  <2>3. /\ book' \in [Urls -> RowValues]
        /\ \A v \in Urls : v # u => book'[v] = book[v]
        /\ book'[u].sentAt = book[u].sentAt
    BY <1>1, <2>1 DEF RowValues
  <2>4. ~book[u].sentAt
    BY <1>1, <2>1
  <2>5. BookOK(book')
    BY <1>1, <2>2, <2>3, <2>4
  <2>6. visit' = [urls |-> {u}, sent |-> FALSE] /\ UNCHANGED <<invited, forgotten>>
    BY <1>6 DEF Claim
  <2> QED
    BY <1>1, <2>2, <2>5, <2>6
<1>7. ASSUME PressSend PROVE Goal
  <2>1. visit' = [visit EXCEPT !.sent = TRUE] /\ UNCHANGED <<book, forgotten>>
    BY <1>7 DEF PressSend
  <2>2. VisitOK(visit')
    BY <1>1, <2>1
  <2>3. invited' \in [Persons -> Nat]
    BY <1>1, <1>7 DEF PressSend
  <2> QED
    BY <1>1, <2>1, <2>2, <2>3
<1>8. ASSUME Report \/ ReportLost PROVE Goal
  <2>1. PICK row \in RowValues : (row.sentAt => row.status = "SENT") /\ Settle(row)
    BY <1>8, OutcomeRows DEF Report, ReportLost
  <2>2. BookOK(book') /\ visit' = [urls |-> {}, sent |-> FALSE] /\ invited' = invited
    BY <2>1, SettledRows
  <2>3. VisitOK(visit')
    BY <2>2
  <2>4. forgotten' \subseteq Persons
    BY <1>1, <1>2, <1>8 DEF Report, ReportLost
  <2> QED
    BY <1>1, <2>2, <2>3, <2>4
<1> HIDE DEF BookOK, VisitOK
<1>9. Goal
  BY <1>3, <1>4, <1>5, <1>6, <1>7, <1>8, <1>1, BookSteps
<1>10. BookOK(book') => Rows' \subseteq PlainUrls
  BY DEF BookOK, Rows
<1>11. /\ book' \in [Urls -> RowValues]
       /\ \A u \in Urls : book'[u].sentAt => book'[u].status = "SENT"
       /\ Rows' \subseteq PlainUrls
  BY <1>9, <1>10 DEF BookOK
<1>12. /\ visit' \in [urls : SUBSET PlainUrls, sent : BOOLEAN]
       /\ visit'.urls = {} \/ \E u \in PlainUrls : visit'.urls = {u}
  BY <1>9 DEF VisitOK
<1>13. tab' \in [Operators -> TabValues]
  BY TabStep
<1>14. request' \in [Operators -> RequestValues] /\ \A o \in Operators : RequestInv(request'[o])
  BY RequestStep
<1> QED
  BY <1>9, <1>11, <1>12, <1>13, <1>14, Zenon DEF ShapeInv

\* Rows that keep what is on record keep everybody's.
LEMMA InvitedStep ==
    ASSUME ShapeInv, InvitedInv, [Next]_vars
    PROVE  InvitedInv'
<1>1. /\ book \in [Urls -> RowValues] /\ Rows \subseteq PlainUrls
      /\ \A u \in Urls : book[u].sentAt => book[u].status = "SENT"
      /\ invited \in [Persons -> Nat] /\ forgotten \subseteq Persons
      /\ visit \in [urls : SUBSET PlainUrls, sent : BOOLEAN]
      /\ visit.urls = {} \/ \E u \in PlainUrls : visit.urls = {u}
  BY DEF ShapeInv
<1>2. \A u \in PlainUrls : u \in Urls /\ u.person \in Persons
  BY DEF PlainUrls, Urls
<1>3. \A u \in Urls : book[u].sentAt => u \in PlainUrls
  BY <1>1 DEF Rows, Absent
<1>4. ASSUME UNCHANGED <<book, invited, visit, forgotten>> PROVE InvitedInv'
  BY <1>4 DEF InvitedInv, OnRecord, Visited
<1>5. ASSUME NEW o \in Operators, Wrote(o) PROVE InvitedInv'
  <2>1. request[o].urls \subseteq PlainUrls
    BY <1>5 DEF ShapeInv, RequestValues
  <2>2. UNCHANGED <<invited, visit, forgotten>>
    BY <1>5 DEF Wrote
  <2>3. \A u \in Urls : /\ book'[u].sentAt <=> book[u].sentAt
                        /\ book[u] # Absent => book'[u] = book[u]
    BY <1>5, <2>1, InsertedRows DEF Wrote
  <2>4. \A u \in Urls : book[u].status = "PROCESSING" => book'[u] = book[u]
    BY <2>3 DEF Absent
  <2>5. \A p \in Persons : OnRecord(p)' <=> OnRecord(p)
    BY <2>3 DEF OnRecord
  <2>6. \A u \in visit.urls : u \in Urls
    BY <1>1, <1>2
  <2> QED
    BY <2>2, <2>4, <2>5, <2>6 DEF InvitedInv, Visited
<1>6. ASSUME NEW o \in Operators, DeleteWrite(o) PROVE InvitedInv'
  <2>1. PICK u \in PlainUrls : request[o].urls = {u}
    BY <1>6 DEF ShapeInv, RequestInv, DeleteWrite
  <2>2. request[o].seen.status # "PROCESSING" /\ ~request[o].seen.sentAt
    BY <1>6 DEF ShapeInv, RequestInv, DeleteWrite, MayDelete
  <2>3. UNCHANGED <<invited, visit>>
    BY <1>6 DEF DeleteWrite
  <2>4. \A v \in Urls : v # u => book'[v] = book[v]
    BY <1>6, <2>1 DEF DeleteWrite
  <2>5. /\ forgotten \subseteq forgotten'
        /\ book[u] # request[o].seen => u.person \in forgotten'
    BY <1>6, <2>1 DEF DeleteWrite
  <2>6. ASSUME NEW p \in Persons \ forgotten'
        PROVE  /\ \A v \in Urls : v.person = p /\ book[v].sentAt => book'[v] = book[v]
               /\ \A v \in visit.urls : v.person = p => book'[v] = book[v]
    <3>1. p \in Persons \ forgotten
      BY <2>5
    <3>2. \A v \in visit.urls : v.person = p => book[v].status = "PROCESSING" /\ v \in Urls
      BY <1>1, <1>2, <3>1 DEF InvitedInv
    <3>3. p = u.person => book[u] = request[o].seen
      BY <2>5
    <3> QED
      BY <2>2, <2>4, <3>2, <3>3
  <2>7. \A p \in Persons \ forgotten' : OnRecord(p) => OnRecord(p)'
    BY <2>6 DEF OnRecord
  <2> QED
    BY <2>3, <2>5, <2>6, <2>7 DEF InvitedInv, Visited
<1>7. ASSUME NEW u \in Urls, Claim(u) PROVE InvitedInv'
  <2>1. /\ visit.urls = {} /\ book[u].status \in {"PENDING", "FAILED"}
        /\ \A p \in Persons : invited[p] < (IF p = u.person THEN MostInvited ELSE MostInvited - 1)
        /\ visit' = [urls |-> {u}, sent |-> FALSE] /\ UNCHANGED <<invited, forgotten>>
        /\ book' = [book EXCEPT ![u].status = "PROCESSING"]
    BY <1>7 DEF Claim
  <2>2. ~book[u].sentAt
    BY <1>1, <2>1
  <2>3. /\ \A v \in Urls : v # u => book'[v] = book[v]
        /\ book'[u].status = "PROCESSING" /\ ~book'[u].sentAt
    BY <1>1, <2>1, <2>2 DEF RowValues
  <2>4. \A p \in Persons : OnRecord(p) => OnRecord(p)'
    BY <2>2, <2>3 DEF OnRecord
  <2>5. visit'.urls = {u} /\ ~visit'.sent
    BY <2>1
  <2>6. \A p \in Persons : invited[p] \in Nat
    BY <1>1
  <2>7. u.person \in Persons
    BY DEF Urls
  <2>8. \A p \in Persons : invited'[p] <= MostInvited
    BY <2>1, <2>6, BookAssumption
  <2>9. \A v \in visit'.urls : invited'[v.person] < MostInvited
    BY <2>1, <2>5, <2>7
  <2>10. \A p \in Persons \ forgotten' :
           /\ invited'[p] <= 1
           /\ invited'[p] = 1 => OnRecord(p)'
           /\ \A v \in visit'.urls : v.person = p =>
                book'[v].status = "PROCESSING" /\ ~book'[v].sentAt
    BY <2>1, <2>3, <2>4, <2>5 DEF InvitedInv, Visited
  <2> QED
    BY <2>8, <2>9, <2>10 DEF InvitedInv
<1>8. ASSUME PressSend PROVE InvitedInv'
  <2>1. visit.urls # {} /\ ~visit.sent
    BY <1>8 DEF PressSend
  <2>2. PICK u \in PlainUrls : visit.urls = {u}
    BY <1>1, <2>1
  <2>3. /\ visit' = [visit EXCEPT !.sent = TRUE] /\ UNCHANGED <<book, forgotten>>
        /\ invited' = [p \in Persons |-> IF u.person = p THEN invited[p] + 1 ELSE invited[p]]
    BY <1>8, <2>2 DEF PressSend
  <2>4. visit'.urls = {u} /\ visit'.sent
    BY <1>1, <2>2, <2>3
  <2>5. invited[u.person] < MostInvited /\ u.person \in Persons /\ \A p \in Persons : invited[p] \in Nat
    BY <1>1, <1>2, <2>1, <2>2 DEF InvitedInv
  <2>6. \A p \in Persons : invited'[p] <= MostInvited
    BY <2>3, <2>5, BookAssumption DEF InvitedInv
  <2>7. \A p \in Persons : OnRecord(p)' <=> OnRecord(p)
    BY <2>3 DEF OnRecord
  <2>8. u.person \notin forgotten => invited[u.person] = 0
    <3>1. ASSUME u.person \notin forgotten PROVE ~OnRecord(u.person)
      <4>1. ~book[u].sentAt /\ book[u].status = "PROCESSING"
        BY <2>2, <2>5, <3>1 DEF InvitedInv
      <4>2. \A v \in Urls : v.person = u.person /\ book[v].sentAt => v = u
        BY <1>3, PlainIsPerson
      <4> QED
        BY <4>1, <4>2 DEF OnRecord
    <3> QED
      BY <2>1, <2>5, <3>1 DEF InvitedInv
  <2>9. \A p \in Persons \ forgotten' :
          /\ invited'[p] <= 1
          /\ invited'[p] = 1 => OnRecord(p)' \/ (visit'.sent /\ Visited(p)')
          /\ \A v \in visit'.urls : v.person = p =>
               book'[v].status = "PROCESSING" /\ ~book'[v].sentAt
    <3> SUFFICES ASSUME NEW p \in Persons \ forgotten'
                 PROVE  /\ invited'[p] <= 1
                        /\ invited'[p] = 1 => OnRecord(p)' \/ (visit'.sent /\ Visited(p)')
                        /\ \A v \in visit'.urls : v.person = p =>
                             book'[v].status = "PROCESSING" /\ ~book'[v].sentAt
      OBVIOUS
    <3>1. p \in Persons \ forgotten
      BY <2>3
    <3>2. \A v \in visit'.urls : v.person = p => book'[v].status = "PROCESSING" /\ ~book'[v].sentAt
      BY <2>2, <2>3, <2>4, <3>1 DEF InvitedInv
    <3>3. CASE p = u.person
      <4>1. invited'[p] = 1
        BY <2>3, <2>5, <2>8, <3>1, <3>3
      <4>2. visit'.sent /\ Visited(p)'
        BY <2>4, <3>3 DEF Visited
      <4> QED
        BY <3>2, <4>1, <4>2
    <3>4. CASE p # u.person
      <4>1. invited'[p] = invited[p]
        BY <2>3, <3>4
      <4>2. invited[p] <= 1 /\ (invited[p] = 1 => OnRecord(p))
        BY <2>1, <3>1 DEF InvitedInv
      <4> QED
        BY <2>7, <3>2, <4>1, <4>2
    <3> QED
      BY <3>3, <3>4
  <2> QED
    BY <2>4, <2>6, <2>9 DEF InvitedInv
<1>9. ASSUME Report \/ ReportLost PROVE InvitedInv'
  <2>1. PICK row \in RowValues :
          /\ row.sentAt => row.status = "SENT"
          /\ Settle(row)
          /\ forgotten \subseteq forgotten'
          /\ \/ row.sentAt = visit.sent
             \/ \A u \in visit.urls : u.person \in forgotten'
    BY <1>9, OutcomeRows DEF Report, ReportLost
  <2>2. /\ \A u \in Urls : u \notin visit.urls => book'[u] = book[u]
        /\ \A u \in visit.urls : book[u] # Absent => book'[u] = row
        /\ visit' = [urls |-> {}, sent |-> FALSE] /\ invited' = invited
    BY <2>1, SettledRows
  <2>3. ASSUME NEW p \in Persons \ forgotten', invited[p] = 1 PROVE OnRecord(p)'
    <3>1. p \in Persons \ forgotten
      BY <2>1
    <3>2. CASE Visited(p)
      <4>1. PICK u \in visit.urls : u.person = p
        BY <3>2 DEF Visited
      <4>2. u \in Urls /\ visit.urls = {u}
        BY <1>1, <1>2
      <4>3. book[u].status = "PROCESSING" /\ ~book[u].sentAt
        BY <3>1, <4>1 DEF InvitedInv
      <4>4. book'[u] = row /\ row.sentAt = visit.sent
        BY <2>1, <2>2, <4>1, <4>3 DEF Absent
      <4>5. CASE visit.sent
        BY <4>1, <4>2, <4>4, <4>5 DEF OnRecord
      <4>6. CASE ~visit.sent
        <5>1. PICK v \in Urls : v.person = p /\ book[v].sentAt
          BY <2>3, <3>1, <4>6 DEF InvitedInv, OnRecord
        <5>2. v # u
          BY <4>3, <5>1
        <5> QED
          BY <2>2, <4>2, <5>1, <5>2 DEF OnRecord
      <4> QED
        BY <4>5, <4>6
    <3>3. CASE ~Visited(p)
      <4>1. PICK v \in Urls : v.person = p /\ book[v].sentAt
        BY <2>3, <3>1, <3>3 DEF InvitedInv, OnRecord
      <4>2. v \notin visit.urls
        BY <3>3, <4>1 DEF Visited
      <4> QED
        BY <2>2, <4>1, <4>2 DEF OnRecord
    <3> QED
      BY <3>2, <3>3
  <2>4. \A p \in Persons : invited'[p] <= MostInvited
    BY <2>2 DEF InvitedInv
  <2>5. \A p \in Persons \ forgotten' : invited'[p] <= 1 /\ (invited'[p] = 1 => OnRecord(p)')
    BY <2>1, <2>2, <2>3 DEF InvitedInv
  <2>6. visit'.urls = {}
    BY <2>2
  <2> QED
    BY <2>4, <2>5, <2>6 DEF InvitedInv
<1> QED
  BY <1>4, <1>5, <1>6, <1>7, <1>8, <1>9, BookSteps

LEMMA BookInvariant == Spec => []BookInv
<1>1. Init => BookInv
  BY BookInit
<1>2. BookInv /\ [Next]_vars => BookInv'
  BY ShapeStep, InvitedStep DEF BookInv
<1> QED
  BY <1>1, <1>2, PTL DEF Spec

-----------------------------------------------------------------------------
(* The theorems. *)

\* The book, the tabs, the requests and the visit keep their types, and what is noted
\* as sent is SENT (leads.ts and the report writes of queue.ts).
THEOREM BookTypeCorrect == Spec => []BookTypeOK
<1>1. BookInv => BookTypeOK
  <2> SUFFICES ASSUME BookInv
               PROVE  BookTypeOK
    OBVIOUS
  <2>1. ShapeInv /\ InvitedInv
    BY DEF BookInv
  <2>2. \A u \in PlainUrls : u \in Urls
    BY DEF PlainUrls
  <2>3. \A u : Cardinality({u}) = 1 /\ Cardinality({}) = 0
    BY FS_Singleton, FS_EmptySet
  <2>4. /\ book \in [Urls -> [status : {"ABSENT", "PENDING", "PROCESSING", "SENT", "FAILED"},
                              sentAt : BOOLEAN]]
        /\ \A u \in Urls : book[u].sentAt => book[u].status = "SENT"
        /\ forgotten \subseteq Persons
    BY <2>1 DEF ShapeInv, RowValues
  <2>5. invited \in [Persons -> 0 .. MostInvited]
    BY <2>1 DEF ShapeInv, InvitedInv
  <2>6. /\ visit.urls \subseteq Urls /\ visit.sent \in BOOLEAN
        /\ visit.urls = {} \/ \E u \in PlainUrls : visit.urls = {u}
    BY <2>1, <2>2 DEF ShapeInv
  <2>7. Cardinality(visit.urls) <= 1
    <3>1. Cardinality(visit.urls) \in {0, 1}
      BY <2>3, <2>6
    <3> QED
      BY <3>1
  <2>8. ASSUME NEW o \in Operators
        PROVE  /\ tab[o].csv \in Files \cup {NoFile}
               /\ tab[o].preview \in Nat \cup {NoPreview}
               /\ tab[o].reading \subseteq Files
               /\ ToSet(tab[o].calls) \subseteq Files
               /\ request[o].urls \subseteq Urls
               /\ request[o].kind \in {"CREATE", "DELETE"} => Cardinality(request[o].urls) = 1
    <3>1. tab[o] \in TabValues /\ request[o] \in RequestValues /\ RequestInv(request[o])
      BY <2>1 DEF ShapeInv
    <3>2. /\ tab[o].csv \in Files \cup {NoFile} /\ tab[o].preview \in Nat \cup {NoPreview}
          /\ tab[o].reading \subseteq Files /\ tab[o].calls \in Seq(Files)
      BY <3>1 DEF TabValues
    <3>3. ToSet(tab[o].calls) \subseteq Files
      BY <3>2 DEF ToSet
    <3>4. request[o].urls \subseteq Urls
      BY <2>2, <3>1 DEF RequestValues
    <3>5. request[o].kind \in {"CREATE", "DELETE"} => Cardinality(request[o].urls) = 1
      BY <2>3, <3>1 DEF RequestInv
    <3> QED
      BY <3>2, <3>3, <3>4, <3>5
  <2> QED
    BY <2>4, <2>5, <2>6, <2>7, <2>8 DEF BookTypeOK
<1> QED
  BY <1>1, BookInvariant, PTL

\* Nobody is in the book twice, by whichever way, in whatever spelling and from
\* whatever file he came: every way in normalises the address first.
THEOREM OneRowEach == Spec => []OneRowPerPerson
<1>1. BookInv => OneRowPerPerson
  <2>1. BookInv => Rows \subseteq PlainUrls
    BY DEF BookInv, ShapeInv
  <2> QED
    BY <2>1, PlainIsPerson DEF OneRowPerPerson
<1> QED
  BY <1>1, BookInvariant, PTL

\* No sequence of imports, deletions and visits gets anybody a second invitation,
\* save those whose report was lost or whose row changed under a deletion.
THEOREM InvitedOnce == Spec => []NobodyInvitedTwice
<1>1. BookInv => NobodyInvitedTwice
  <2> SUFFICES ASSUME BookInv, NEW p \in Persons, p \notin forgotten
               PROVE  ~(invited[p] > 1)
    BY DEF NobodyInvitedTwice
  <2>1. invited[p] \in Nat /\ invited[p] <= 1
    BY DEF BookInv, ShapeInv, InvitedInv
  <2> QED
    BY <2>1
<1> QED
  BY <1>1, BookInvariant, PTL

\* An import's request ends with its write, and with nothing else.
LEMMA ImportWrites ==
    ASSUME ShapeInv, [Next]_vars, NEW o \in Operators,
           request[o].kind \in {"IMPORT", "CLI"}, request'[o].kind = "NONE"
    PROVE  Wrote(o)
<1>1. request \in [Operators -> RequestValues]
  BY DEF ShapeInv
<1>2. request'[o] # request[o]
  OBVIOUS
<1>3. ASSUME NEW p \in Operators, NEW r, request' = [request EXCEPT ![p] = r] PROVE p = o
  BY <1>1, <1>2, <1>3
<1>4. ASSUME NEW p \in Operators, ConfirmWrite(p) \/ CliWrite(p) PROVE Wrote(o)
  <2>1. p = o
    BY <1>3, <1>4 DEF ConfirmWrite, CliWrite
  <2> QED
    BY <1>4, <2>1 DEF ConfirmWrite, CliWrite, Wrote
<1>5. ASSUME NEW p \in Operators, CreateWrite(p) \/ DeleteWrite(p) PROVE FALSE
  <2>1. p = o
    BY <1>3, <1>5 DEF CreateWrite, DeleteWrite
  <2> QED
    BY <1>5, <2>1 DEF CreateWrite, DeleteWrite
<1>6. ASSUME NEW p \in Operators, Confirm(p) PROVE FALSE
  <2>1. p = o
    BY <1>3, <1>6 DEF Confirm
  <2> QED
    BY <1>6, <2>1 DEF Confirm, NoRequest
<1>7. ASSUME NEW p \in Operators, ConfirmRead(p) PROVE FALSE
  <2>1. \E r : request' = [request EXCEPT ![p] = r]
    BY <1>7 DEF ConfirmRead
  <2>2. p = o
    BY <1>3, <2>1
  <2> QED
    BY <1>7, <2>2 DEF ConfirmRead
<1>8. ASSUME NEW p \in Operators, NEW f \in Files, CliRead(p, f) PROVE FALSE
  <2>1. p = o
    BY <1>3, <1>8 DEF CliRead
  <2> QED
    BY <1>8, <2>1 DEF CliRead, NoRequest
<1>9. ASSUME NEW p \in Operators, NEW cell \in Typed, CreateRead(p, cell) PROVE FALSE
  <2>1. p = o
    BY <1>3, <1>9 DEF CreateRead
  <2> QED
    BY <1>9, <2>1 DEF CreateRead, NoRequest
<1>10. ASSUME NEW p \in Operators, NEW u \in Urls, DeleteRead(p, u) PROVE FALSE
  <2>1. p = o
    BY <1>3, <1>10 DEF DeleteRead
  <2> QED
    BY <1>10, <2>1 DEF DeleteRead, NoRequest
<1>11. ASSUME NEW p \in Operators, NEW f \in Files, ChooseFile(p, f) PROVE FALSE
  BY <1>2, <1>11 DEF ChooseFile
<1>12. ASSUME NEW p \in Operators, FileRead(p) \/ PreviewLeadImport(p) PROVE FALSE
  BY <1>2, <1>12 DEF FileRead, PreviewLeadImport
<1>13. ASSUME NEW u \in Urls, Claim(u) PROVE FALSE
  BY <1>2, <1>13 DEF Claim
<1>14. ASSUME PressSend \/ Report \/ ReportLost \/ UNCHANGED vars PROVE FALSE
  BY <1>2, <1>14 DEF PressSend, Report, ReportLost, Settle, vars
<1> QED
  BY <1>4, <1>5, <1>6, <1>7, <1>8, <1>9, <1>10, <1>11, <1>12, <1>13, <1>14 DEF Next

\* An import writes people of the confirmed file, no more than were confirmed, and
\* touches nobody who was in the book, whatever happened since its preview.
THEOREM ImportConfirmed == Spec => ImportAsConfirmed
<1>1. ASSUME BookInv, [Next]_vars, NEW o \in Operators,
             request[o].kind \in {"IMPORT", "CLI"}, request'[o].kind = "NONE"
      PROVE  LET new == {u \in Urls : book[u] = Absent /\ book'[u] # Absent}
                 rows == ToSet(FileRows[request[o].file])
                 addresses == {cell \in UNION {ToSet(row) : row \in rows} : cell.kind = "URL"}
             IN /\ Cardinality(new) <= request[o].expected
                /\ {u.person : u \in new} \subseteq {cell.slug.person : cell \in addresses}
                /\ \A u \in Rows : book'[u] = book[u]
  <2> DEFINE new == {u \in Urls : book[u] = Absent /\ book'[u] # Absent}
             urls == request[o].urls
  <2>1. ShapeInv
    BY <1>1 DEF BookInv
  <2>2. book' = Inserted(urls)
    BY <1>1, <2>1, ImportWrites DEF Wrote
  <2>3. urls \subseteq PlainUrls
    BY <2>1 DEF ShapeInv, RequestValues
  <2>4. /\ IsFiniteSet(urls) /\ Cardinality(urls) = request[o].expected
        /\ {u.person : u \in urls} \subseteq PeopleOf(FileRows[request[o].file])
    BY <1>1, <2>1 DEF ShapeInv, RequestInv
  <2> HIDE DEF urls
  <2>5. \A u \in Urls : /\ book[u] # Absent => book'[u] = book[u]
                        /\ book[u] = Absent /\ book'[u] # Absent => u \in urls
    BY <2>1, <2>2, <2>3, InsertedRows
  <2>6. new \in SUBSET urls
    BY <2>5
  <2>7. Cardinality(new) <= request[o].expected
    BY <2>4, <2>6, FS_Subset
  <2>8. {u.person : u \in new} \subseteq PeopleOf(FileRows[request[o].file])
    BY <2>4, <2>6
  <2>9. \A u \in Rows : book'[u] = book[u]
    BY <2>5 DEF Rows
  <2> QED
    BY <2>7, <2>8, <2>9 DEF PeopleOf
<1>2. BookInv /\ [Next]_vars =>
        [\A o \in Operators :
           request[o].kind \in {"IMPORT", "CLI"} /\ request'[o].kind = "NONE" =>
             LET new == {u \in Urls : book[u] = Absent /\ book'[u] # Absent}
                 rows == ToSet(FileRows[request[o].file])
                 addresses == {cell \in UNION {ToSet(row) : row \in rows} : cell.kind = "URL"}
             IN /\ Cardinality(new) <= request[o].expected
                /\ {u.person : u \in new} \subseteq {cell.slug.person : cell \in addresses}
                /\ \A u \in Rows : book'[u] = book[u]]_vars
  BY <1>1
<1> QED
  BY <1>2, BookInvariant, PTL DEF Spec, ImportAsConfirmed

-----------------------------------------------------------------------------
(* The discovery: an induction over the sightings.  Every row's evidence is *)
(* apart from every other's, every key of an accepted sighting leads to a   *)
(* row that has evidence with that key, and so who joins a row shares a key *)
(* with somebody in it.                                                     *)

Evidence(v, p) == ToSet(v.people[p].signals)

Taken(all, i) == {j \in 1 .. i : Accepted(all[j])}

HangsTogether(all, E) ==
    \A part \in (SUBSET E) \ {{}, E} : \E i \in part, j \in E \ part : Shares(all[i], all[j])

\* What find-leads has made of the first i sightings.
SeenShape(all, v) ==
    /\ v = [people |-> v.people, byKey |-> v.byKey, rejected |-> v.rejected,
            duplicates |-> v.duplicates]
    /\ v.people \in Seq([first : {all[i] : i \in DOMAIN all}, signals : Seq(Nat)])
    /\ v.rejected \in Nat /\ v.duplicates \in Nat

EachOnce(all, v, i) ==
    LET people == DOMAIN v.people
    IN /\ \A p \in people : /\ Evidence(v, p) \subseteq Taken(all, i)
                            /\ Len(v.people[p].signals) = Cardinality(Evidence(v, p))
       /\ \A j \in Taken(all, i) : \E p \in people : j \in Evidence(v, p)
       /\ \A p, q \in people : p # q => Evidence(v, p) \cap Evidence(v, q) = {}

KeysLead(all, v) ==
    \A k \in DOMAIN v.byKey :
      /\ v.byKey[k] \in DOMAIN v.people
      /\ \E j \in Evidence(v, v.byKey[k]) : k \in identityKeys(all[j])

SeenInv(all, v, i) ==
    /\ SeenShape(all, v)
    /\ i = v.rejected + v.duplicates + Len(v.people)
    /\ EachOnce(all, v, i)
    /\ KeysLead(all, v)
    /\ \A p \in DOMAIN v.people : HangsTogether(all, Evidence(v, p))

\* Of some keys of one sighting there is a strongest.
LEMMA StrongestKey ==
    ASSUME NEW s, NEW known \in SUBSET identityKeys(s), known # {}
    PROVE  (CHOOSE k \in known : \A m \in known : k[1] <= m[1]) \in known
<1>1. \A k \in known : k[1] \in Nat
  BY DEF identityKeys
<1> DEFINE strengths == {k[1] : k \in known}
<1>2. Min(strengths) \in strengths /\ \A m \in strengths : Min(strengths) <= m
  <2>1. strengths \in SUBSET Nat /\ strengths # {}
    BY <1>1
  <2> QED BY <2>1, LeastNumber
<1>3. \E k \in known : \A m \in known : k[1] <= m[1]
  BY <1>2
<1> QED BY <1>3

LEMMA OneHangs == \A all, i : HangsTogether(all, {i})
BY DEF HangsTogether

\* Who joins by a key that he shares, belongs.
LEMMA JoinHangs ==
    ASSUME NEW all, NEW E, NEW i, NEW j \in E, i \notin E,
           HangsTogether(all, E), Shares(all[j], all[i])
    PROVE  HangsTogether(all, E \cup {i})
<1> SUFFICES ASSUME NEW part \in SUBSET (E \cup {i}), part # {}, part # E \cup {i}
             PROVE  \E k \in part, m \in (E \cup {i}) \ part : Shares(all[k], all[m])
  BY DEF HangsTogether
<1>1. Shares(all[i], all[j])
  BY DEF Shares
<1>2. CASE part \cap E \notin {{}, E}
  <2>1. PICK k \in part \cap E, m \in E \ (part \cap E) : Shares(all[k], all[m])
    BY <1>2 DEF HangsTogether
  <2> QED BY <2>1
<1>3. CASE part \cap E = {}
  <2>1. part = {i}
    BY <1>3
  <2> QED BY <2>1, <1>1
<1>4. CASE part \cap E = E
  <2>1. j \in part /\ i \notin part
    BY <1>4
  <2> QED BY <2>1
<1> QED BY <1>2, <1>3, <1>4

LEMMA AppendedEvidence ==
    ASSUME NEW s \in Seq(Nat), NEW i \in Nat
    PROVE  /\ Append(s, i) \in Seq(Nat) /\ Len(Append(s, i)) = Len(s) + 1
           /\ ToSet(Append(s, i)) = ToSet(s) \cup {i}
<1>1. /\ Append(s, i) \in Seq(Nat) /\ Len(Append(s, i)) = Len(s) + 1
      /\ \A k \in 1 .. Len(s) : Append(s, i)[k] = s[k]
      /\ Append(s, i)[Len(s) + 1] = i
  OBVIOUS
<1>2. \A x \in ToSet(Append(s, i)) : x \in ToSet(s) \cup {i}
  BY <1>1 DEF ToSet
<1>3. \A x \in ToSet(s) : x \in ToSet(Append(s, i))
  BY <1>1 DEF ToSet
<1>4. i \in ToSet(Append(s, i))
  <2>1. Len(s) + 1 \in DOMAIN Append(s, i)
    BY <1>1
  <2> QED BY <1>1, <2>1 DEF ToSet
<1> QED BY <1>1, <1>2, <1>3, <1>4

\* A sighting is counted as what it is taken for: rejected, ...
LEMMA Rejects ==
    ASSUME NEW all, NEW i \in Nat \ {0}, NEW v, SeenInv(all, v, i - 1), ~Accepted(all[i])
    PROVE  SeenInv(all, Sighted(v, all[i], i), i)
<1> DEFINE w == Sighted(v, all[i], i)
<1>1. w = [v EXCEPT !.rejected = @ + 1]
  BY DEF Sighted
<1>2. /\ w.people = v.people /\ w.byKey = v.byKey /\ w.duplicates = v.duplicates
      /\ w.rejected = v.rejected + 1
      /\ w = [people |-> w.people, byKey |-> w.byKey, rejected |-> w.rejected,
              duplicates |-> w.duplicates]
  BY <1>1 DEF SeenInv, SeenShape
<1> HIDE DEF w
<1>3. Taken(all, i) = Taken(all, i - 1)
  BY DEF Taken
<1>4. \A p : Evidence(w, p) = Evidence(v, p)
  BY <1>2 DEF Evidence
<1>5. SeenShape(all, w)
  BY <1>2 DEF SeenInv, SeenShape
<1>6. EachOnce(all, w, i)
  BY <1>2, <1>3, <1>4 DEF SeenInv, EachOnce
<1>7. KeysLead(all, w)
  BY <1>2, <1>4 DEF SeenInv, KeysLead
<1>8. i = w.rejected + w.duplicates + Len(w.people)
  <2>1. /\ v.rejected \in Nat /\ v.duplicates \in Nat /\ Len(v.people) \in Nat
        /\ i - 1 = v.rejected + v.duplicates + Len(v.people)
    BY DEF SeenInv, SeenShape
  <2> QED BY <1>2, <2>1
<1> QED BY <1>2, <1>4, <1>5, <1>6, <1>7, <1>8 DEF SeenInv, w

\* ... another sighting of somebody who is known, ...
LEMMA Merges ==
    ASSUME NEW all, NEW i \in Nat \ {0}, i \in DOMAIN all, NEW v, SeenInv(all, v, i - 1),
           Accepted(all[i]), identityKeys(all[i]) \cap DOMAIN v.byKey # {}
    PROVE  SeenInv(all, Sighted(v, all[i], i), i)
<1> DEFINE keys == identityKeys(all[i])
           known == keys \cap DOMAIN v.byKey
           k == CHOOSE x \in known : \A m \in known : x[1] <= m[1]
           p == v.byKey[k]
           w == Sighted(v, all[i], i)
<1>1. k \in known
  BY StrongestKey
<1>2. /\ p \in DOMAIN v.people
      /\ \E j \in Evidence(v, p) : k \in identityKeys(all[j])
  BY <1>1 DEF SeenInv, KeysLead
<1>3. w = [v EXCEPT !.duplicates = @ + 1, !.people[p] = MergedInto(@, i),
                    !.byKey = [x \in keys \cup DOMAIN v.byKey |->
                                 IF x \in DOMAIN v.byKey THEN v.byKey[x] ELSE p]]
  BY DEF Sighted
<1> DEFINE longer == MergedInto(v.people[p], i)
           Person == [first : {all[j] : j \in DOMAIN all}, signals : Seq(Nat)]
<1>4. /\ w.people = [v.people EXCEPT ![p] = longer]
      /\ w.byKey = [x \in keys \cup DOMAIN v.byKey |->
                      IF x \in DOMAIN v.byKey THEN v.byKey[x] ELSE p]
      /\ w.rejected = v.rejected /\ w.duplicates = v.duplicates + 1
      /\ w = [people |-> w.people, byKey |-> w.byKey, rejected |-> w.rejected,
              duplicates |-> w.duplicates]
  BY <1>3 DEF SeenInv, SeenShape
<1> HIDE DEF w, k, p
<1>5. v.people \in Seq(Person) /\ v.people[p] \in Person
  <2>1. v.people \in Seq(Person)
    BY DEF SeenInv, SeenShape
  <2> HIDE DEF Person
  <2> QED BY <1>2, <2>1
<1>6. /\ v.people[p].signals \in Seq(Nat)
      /\ longer \in Person /\ longer.signals = Append(v.people[p].signals, i)
  BY <1>5, AppendedEvidence DEF MergedInto
<1> HIDE DEF Person, longer
<1>7. /\ w.people \in Seq(Person) /\ Len(w.people) = Len(v.people)
      /\ DOMAIN w.people = DOMAIN v.people
      /\ w.people[p] = longer
      /\ \A q \in DOMAIN v.people \ {p} : w.people[q] = v.people[q]
  BY <1>2, <1>4, <1>5, <1>6
<1>8. /\ Evidence(w, p) = Evidence(v, p) \cup {i}
      /\ \A q \in DOMAIN v.people \ {p} : Evidence(w, q) = Evidence(v, q)
  BY <1>6, <1>7, AppendedEvidence DEF Evidence
<1>9. /\ Taken(all, i) = Taken(all, i - 1) \cup {i}
      /\ i \notin Taken(all, i - 1)
  BY DEF Taken
<1>10. /\ Evidence(v, p) \subseteq Taken(all, i - 1) /\ i \notin Evidence(v, p)
       /\ Len(v.people[p].signals) = Cardinality(Evidence(v, p))
  BY <1>2, <1>9 DEF SeenInv, EachOnce
<1>11. Len(w.people[p].signals) = Cardinality(Evidence(w, p))
  <2>1. IsFiniteSet(Evidence(v, p))
    <3>1. Evidence(v, p) \in SUBSET (1 .. i)
      BY <1>10 DEF Taken
    <3>2. IsFiniteSet(1 .. i)
      BY FS_Interval
    <3> QED BY <3>1, <3>2, FS_Subset
  <2>2. Cardinality(Evidence(w, p)) = Cardinality(Evidence(v, p)) + 1
    <3>1. Cardinality(Evidence(v, p) \cup {i}) = Cardinality(Evidence(v, p)) + 1
      BY <1>10, <2>1, FS_AddElement
    <3> QED BY <1>8, <3>1
  <2> QED BY <1>6, <1>7, <1>10, <2>2, AppendedEvidence
<1>12. EachOnce(all, w, i)
  <2>1. \A q \in DOMAIN w.people : /\ Evidence(w, q) \subseteq Taken(all, i)
                                   /\ Len(w.people[q].signals) = Cardinality(Evidence(w, q))
    BY <1>7, <1>8, <1>9, <1>10, <1>11 DEF SeenInv, EachOnce
  <2>2. \A j \in Taken(all, i) : \E q \in DOMAIN w.people : j \in Evidence(w, q)
    BY <1>2, <1>7, <1>8, <1>9 DEF SeenInv, EachOnce
  <2>3. \A q, r \in DOMAIN w.people : q # r => Evidence(w, q) \cap Evidence(w, r) = {}
    BY <1>7, <1>8, <1>9 DEF SeenInv, EachOnce
  <2> QED BY <2>1, <2>2, <2>3 DEF EachOnce
<1>13. KeysLead(all, w)
  <2> SUFFICES ASSUME NEW x \in DOMAIN w.byKey
               PROVE  /\ w.byKey[x] \in DOMAIN w.people
                      /\ \E j \in Evidence(w, w.byKey[x]) : x \in identityKeys(all[j])
    BY DEF KeysLead
  <2>1. CASE x \in DOMAIN v.byKey
    <3>1. /\ w.byKey[x] = v.byKey[x] /\ v.byKey[x] \in DOMAIN v.people
          /\ \E j \in Evidence(v, v.byKey[x]) : x \in identityKeys(all[j])
      BY <1>4, <2>1 DEF SeenInv, KeysLead
    <3> QED BY <1>7, <1>8, <3>1
  <2>2. CASE x \notin DOMAIN v.byKey
    <3>1. w.byKey[x] = p /\ x \in identityKeys(all[i])
      BY <1>4, <2>2
    <3> QED BY <1>2, <1>7, <1>8, <3>1
  <2> QED BY <2>1, <2>2
<1>14. \A q \in DOMAIN w.people : HangsTogether(all, Evidence(w, q))
  <2>1. PICK j \in Evidence(v, p) : k \in identityKeys(all[j])
    BY <1>2
  <2>2. Shares(all[j], all[i])
    BY <1>1, <2>1 DEF Shares
  <2>3. HangsTogether(all, Evidence(w, p))
    BY <1>2, <1>8, <1>10, <2>1, <2>2, JoinHangs DEF SeenInv
  <2> QED BY <1>7, <1>8, <2>3 DEF SeenInv
<1>15. SeenShape(all, w)
  BY <1>4, <1>7 DEF SeenInv, SeenShape, Person
<1>16. i = w.rejected + w.duplicates + Len(w.people)
  <2>1. /\ v.rejected \in Nat /\ v.duplicates \in Nat /\ Len(v.people) \in Nat
        /\ i - 1 = v.rejected + v.duplicates + Len(v.people)
    BY DEF SeenInv, SeenShape
  <2>2. w.rejected = v.rejected /\ w.duplicates = v.duplicates + 1 /\ Len(w.people) = Len(v.people)
    BY <1>4, <1>7
  <2>3. ASSUME NEW a \in Nat, NEW b \in Nat, NEW c \in Nat, i - 1 = a + b + c
        PROVE  i = a + (b + 1) + c
    BY <2>3
  <2> HIDE DEF w
  <2>4. i = v.rejected + (v.duplicates + 1) + Len(v.people)
    BY <2>1, <2>3
  <2> QED BY <2>2, <2>4
<1> QED BY <1>12, <1>13, <1>14, <1>15, <1>16 DEF SeenInv, w

\* ... or the first of somebody new.
LEMMA Adds ==
    ASSUME NEW all, NEW i \in Nat \ {0}, i \in DOMAIN all, NEW v, SeenInv(all, v, i - 1),
           Accepted(all[i]), identityKeys(all[i]) \cap DOMAIN v.byKey = {}
    PROVE  SeenInv(all, Sighted(v, all[i], i), i)
<1> DEFINE keys == identityKeys(all[i])
           n == Len(v.people) + 1
           w == Sighted(v, all[i], i)
           new == [first |-> all[i], signals |-> <<i>>]
           Person == [first : {all[j] : j \in DOMAIN all}, signals : Seq(Nat)]
<1>1. w = [v EXCEPT !.people = Append(@, new),
                    !.byKey = [x \in keys \cup DOMAIN v.byKey |->
                                 IF x \in DOMAIN v.byKey THEN v.byKey[x] ELSE n]]
  BY DEF Sighted
<1>2. /\ w.people = Append(v.people, new)
      /\ w.byKey = [x \in keys \cup DOMAIN v.byKey |->
                      IF x \in DOMAIN v.byKey THEN v.byKey[x] ELSE n]
      /\ w.rejected = v.rejected /\ w.duplicates = v.duplicates
      /\ w = [people |-> w.people, byKey |-> w.byKey, rejected |-> w.rejected,
              duplicates |-> w.duplicates]
  BY <1>1 DEF SeenInv, SeenShape
<1> HIDE DEF w
<1>3. v.people \in Seq(Person)
  BY DEF SeenInv, SeenShape
<1>4. new \in Person /\ new.signals = <<i>>
  OBVIOUS
<1> HIDE DEF Person, new
<1>5. /\ w.people \in Seq(Person) /\ Len(w.people) = n
      /\ DOMAIN v.people = 1 .. n - 1 /\ DOMAIN w.people = 1 .. n /\ n \in Nat \ {0}
      /\ w.people[n] = new
      /\ \A q \in DOMAIN v.people : w.people[q] = v.people[q]
  BY <1>2, <1>3, <1>4
<1> HIDE DEF n
<1>6. Evidence(w, n) = {i} /\ \A q \in DOMAIN v.people : Evidence(w, q) = Evidence(v, q)
  <2>1. ToSet(<<i>>) = {i}
    BY DEF ToSet
  <2> QED BY <1>4, <1>5, <2>1 DEF Evidence
<1>7. Taken(all, i) = Taken(all, i - 1) \cup {i} /\ i \notin Taken(all, i - 1)
  BY DEF Taken
<1>8. /\ \A q \in DOMAIN w.people : q \in DOMAIN v.people \/ q = n
      /\ n \in DOMAIN w.people /\ n \notin DOMAIN v.people
      /\ \A q \in DOMAIN v.people : q \in DOMAIN w.people
  BY <1>5
<1>9. EachOnce(all, w, i)
  <2>1. Len(w.people[n].signals) = 1 /\ Cardinality({i}) = 1
    BY <1>4, <1>5, FS_Singleton
  <2>2. \A q \in DOMAIN w.people : /\ Evidence(w, q) \subseteq Taken(all, i)
                                   /\ Len(w.people[q].signals) = Cardinality(Evidence(w, q))
    BY <1>5, <1>6, <1>7, <1>8, <2>1 DEF SeenInv, EachOnce
  <2>3. \A j \in Taken(all, i) : \E q \in DOMAIN w.people : j \in Evidence(w, q)
    BY <1>6, <1>7, <1>8 DEF SeenInv, EachOnce
  <2>4. \A q, r \in DOMAIN w.people : q # r => Evidence(w, q) \cap Evidence(w, r) = {}
    BY <1>6, <1>7, <1>8 DEF SeenInv, EachOnce
  <2> QED BY <2>2, <2>3, <2>4 DEF EachOnce
<1>10. KeysLead(all, w)
  <2> SUFFICES ASSUME NEW x \in DOMAIN w.byKey
               PROVE  /\ w.byKey[x] \in DOMAIN w.people
                      /\ \E j \in Evidence(w, w.byKey[x]) : x \in identityKeys(all[j])
    BY DEF KeysLead
  <2>1. CASE x \in DOMAIN v.byKey
    <3>1. /\ w.byKey[x] = v.byKey[x] /\ v.byKey[x] \in DOMAIN v.people
          /\ \E j \in Evidence(v, v.byKey[x]) : x \in identityKeys(all[j])
      BY <1>2, <2>1 DEF SeenInv, KeysLead
    <3> QED BY <1>6, <1>8, <3>1
  <2>2. CASE x \notin DOMAIN v.byKey
    <3>1. w.byKey[x] = n /\ x \in identityKeys(all[i])
      BY <1>2, <2>2
    <3> QED BY <1>6, <1>8, <3>1
  <2> QED BY <2>1, <2>2
<1>11. \A q \in DOMAIN w.people : HangsTogether(all, Evidence(w, q))
  <2>1. HangsTogether(all, Evidence(w, n))
    <3>1. Evidence(w, n) = {i}
      BY <1>6
    <3> QED BY <3>1, OneHangs
  <2>2. \A q \in DOMAIN v.people : HangsTogether(all, Evidence(w, q))
    BY <1>6 DEF SeenInv
  <2> QED BY <1>8, <2>1, <2>2
<1>12. SeenShape(all, w)
  BY <1>2, <1>5 DEF SeenInv, SeenShape, Person
<1>13. i = w.rejected + w.duplicates + Len(w.people)
  <2>1. /\ v.rejected \in Nat /\ v.duplicates \in Nat /\ Len(v.people) \in Nat
        /\ i - 1 = v.rejected + v.duplicates + Len(v.people)
    BY DEF SeenInv, SeenShape
  <2>2. /\ w.rejected = v.rejected /\ w.duplicates = v.duplicates
        /\ Len(w.people) = Len(v.people) + 1
    BY <1>2, <1>5 DEF n
  <2> QED BY <2>1, <2>2
<1> QED BY <1>9, <1>10, <1>11, <1>12, <1>13 DEF SeenInv, w

\* The list is gone through from the first sighting to the last.
LEMMA FindGoesThrough ==
    ASSUME NEW all, Len(all) \in Nat
    PROVE  \E seen : /\ Find(all) = seen[Len(all)]
                     /\ seen[0] = NobodySeen
                     /\ \A i \in 1 .. Len(all) : seen[i] = Sighted(seen[i - 1], all[i], i)
<1> DEFINE From(f, n) == [i \in 0 .. n |-> IF i = 0 THEN NobodySeen
                                           ELSE Sighted(f[i - 1], all[i], i)]
           Undefined == {n \in Nat : ~\E f : f = From(f, n)}
<1>1. Undefined = {}
  <2> SUFFICES ASSUME Undefined # {} PROVE FALSE
    OBVIOUS
  <2> DEFINE n == Min(Undefined)
  <2>1. n \in Undefined /\ \A m \in Undefined : n <= m
    BY LeastNumber
  <2> HIDE DEF n
  <2>2. n \in Nat /\ ~\E f : f = From(f, n)
    BY <2>1
  <2>3. CASE n = 0
    <3> DEFINE f == [i \in 0 .. 0 |-> NobodySeen]
    <3>1. f = From(f, 0)
      OBVIOUS
    <3> QED BY <2>2, <2>3, <3>1
  <2>4. CASE n # 0
    <3>1. n - 1 \in Nat /\ n - 1 \notin Undefined
      <4>1. n - 1 \in Nat /\ ~(n <= n - 1)
        BY <2>2, <2>4
      <4> HIDE DEF Undefined
      <4> QED BY <2>1, <4>1
    <3>2. PICK g : g = From(g, n - 1)
      BY <3>1
    <3> DEFINE f == [i \in 0 .. n |-> IF i = n THEN Sighted(g[n - 1], all[n], n) ELSE g[i]]
    <3>3. \A i \in 0 .. n - 1 : g[i] = IF i = 0 THEN NobodySeen ELSE Sighted(g[i - 1], all[i], i)
      BY <3>2
    <3>4. \A i \in 0 .. n : f[i] = IF i = 0 THEN NobodySeen ELSE Sighted(f[i - 1], all[i], i)
      BY <2>2, <2>4, <3>3
    <3>5. f = From(f, n)
      BY <3>4
    <3> QED BY <2>2, <3>5
  <2> QED BY <2>3, <2>4
<1> DEFINE seen == CHOOSE f : f = From(f, Len(all))
<1>2. seen = From(seen, Len(all))
  BY <1>1
<1>3. Find(all) = seen[Len(all)]
  BY DEF Find
<1> HIDE DEF seen
<1>4. /\ seen[0] = NobodySeen
      /\ \A i \in 1 .. Len(all) : seen[i] = Sighted(seen[i - 1], all[i], i)
  BY <1>2
<1> QED BY <1>3, <1>4

\* Whatever list of sightings there is, it is accounted for.
LEMMA AnyListAccounted ==
    ASSUME NEW all, Len(all) \in Nat, DOMAIN all = 1 .. Len(all)
    PROVE  Accounted(all)
<1>1. PICK seen : /\ Find(all) = seen[Len(all)]
                  /\ seen[0] = NobodySeen
                  /\ \A i \in 1 .. Len(all) : seen[i] = Sighted(seen[i - 1], all[i], i)
  BY FindGoesThrough
<1> DEFINE Broken == {i \in 0 .. Len(all) : ~SeenInv(all, seen[i], i)}
<1>2. SeenInv(all, seen[0], 0)
  <2>1. /\ NobodySeen.people = <<>> /\ NobodySeen.byKey = <<>>
        /\ NobodySeen.rejected = 0 /\ NobodySeen.duplicates = 0
        /\ NobodySeen = [people |-> NobodySeen.people, byKey |-> NobodySeen.byKey,
                         rejected |-> NobodySeen.rejected, duplicates |-> NobodySeen.duplicates]
    BY DEF NobodySeen
  <2>2. DOMAIN <<>> = {} /\ Len(<<>>) = 0 /\ \A S : <<>> \in Seq(S)
    OBVIOUS
  <2>3. Taken(all, 0) = {}
    BY DEF Taken
  <2> HIDE DEF NobodySeen
  <2>4. SeenShape(all, NobodySeen)
    BY <2>1, <2>2 DEF SeenShape
  <2>5. EachOnce(all, NobodySeen, 0) /\ KeysLead(all, NobodySeen)
    BY <2>1, <2>2, <2>3 DEF EachOnce, KeysLead
  <2> QED BY <1>1, <2>1, <2>2, <2>4, <2>5 DEF SeenInv
<1>3. Broken = {}
  <2> SUFFICES ASSUME Broken # {} PROVE FALSE
    OBVIOUS
  <2> DEFINE i == Min(Broken)
  <2>1. i \in Broken /\ \A j \in Broken : i <= j
    <3>1. Broken \in SUBSET Nat
      OBVIOUS
    <3> HIDE DEF Broken
    <3> QED BY <3>1, LeastNumber
  <2> HIDE DEF i
  <2>2. i \in 1 .. Len(all) /\ ~SeenInv(all, seen[i], i)
    BY <1>2, <2>1
  <2>3. SeenInv(all, seen[i - 1], i - 1)
    BY <2>1, <2>2
  <2>4. seen[i] = Sighted(seen[i - 1], all[i], i)
    BY <1>1, <2>2
  <2>5. SeenInv(all, Sighted(seen[i - 1], all[i], i), i)
    BY <2>2, <2>3, Rejects, Merges, Adds
  <2> QED BY <2>2, <2>4, <2>5
<1>4. SeenInv(all, Find(all), Len(all))
  BY <1>1, <1>3
<1> DEFINE found == Find(all)
           people == DOMAIN found.people
<1> HIDE DEF found
<1>5. SeenInv(all, found, Len(all))
  BY <1>4 DEF found
<1>6. Len(all) = found.rejected + found.duplicates + Len(found.people)
  BY <1>5 DEF SeenInv
<1>7. \A i \in {j \in DOMAIN all : Accepted(all[j])} :
         Cardinality({p \in people : i \in Evidence(found, p)}) = 1
  <2> SUFFICES ASSUME NEW i \in DOMAIN all, Accepted(all[i])
               PROVE  Cardinality({p \in people : i \in Evidence(found, p)}) = 1
    OBVIOUS
  <2>1. i \in Taken(all, Len(all))
    BY DEF Taken
  <2>2. PICK p \in people : i \in Evidence(found, p)
    BY <1>5, <2>1 DEF SeenInv, EachOnce
  <2>3. \A q \in people : i \in Evidence(found, q) => q = p
    BY <1>5, <2>2 DEF SeenInv, EachOnce
  <2>4. {q \in people : i \in Evidence(found, q)} = {p}
    BY <2>2, <2>3
  <2> QED BY <2>4, FS_Singleton
<1>8. \A p \in people :
        /\ Len(found.people[p].signals) = Cardinality(Evidence(found, p))
        /\ HangsTogether(all, Evidence(found, p))
  BY <1>5 DEF SeenInv, EachOnce
<1> QED BY <1>6, <1>7, <1>8 DEF Accounted, found, Evidence, HangsTogether

\* What the sources yield is a list.
LEMMA SomeOfAList ==
    ASSUME NEW S, NEW said \in Seq(S)
    PROVE  Within(said) \in Seq(S)
<1>1. Min({Len(said), MaxRecords}) \in 0 .. Len(said)
  <2>1. {Len(said), MaxRecords} \in SUBSET Nat
    BY FinderAssumption
  <2>2. /\ Min({Len(said), MaxRecords}) \in {Len(said), MaxRecords}
        /\ Min({Len(said), MaxRecords}) <= Len(said)
    BY <2>1, LeastNumber
  <2> QED BY <2>1, <2>2
<1>2. ASSUME NEW m \in 0 .. Len(said) PROVE SubSeq(said, 1, m) \in Seq(S)
  <2>1. SubSeq(said, 1, m) = [k \in 1 .. m |-> said[k]]
    OBVIOUS
  <2>2. \A k \in 1 .. m : said[k] \in S
    OBVIOUS
  <2> QED BY <2>1, <2>2
<1> QED BY <1>1, <1>2, Zenon DEF Within

LEMMA PickedIsList ==
    ASSUME NEW S, NEW said \in Seq(S), NEW places \in SUBSET DOMAIN said
    PROVE  \E T : Picked(said, places) \in Seq(T)
<1> DEFINE order == Sorted(places, {pair \in places \X places : pair[1] < pair[2]})
           picked == [k \in 1 .. Cardinality(places) |-> said[order[k]]]
<1>1. Cardinality(places) \in Nat
  <2>1. IsFiniteSet(1 .. Len(said)) /\ places \in SUBSET (1 .. Len(said))
    BY FS_Interval
  <2> QED BY <2>1, FS_Subset, FS_CardinalityType
<1> HIDE DEF order
<1>2. picked \in Seq({said[order[k]] : k \in 1 .. Cardinality(places)})
  BY <1>1
<1> QED BY <1>2 DEF Picked, order

LEMMA SourcesYieldLists ==
    ASSUME NEW posts \in Said(Posts), NEW hits \in Said(Hits), NEW contacts \in Said(Contacts),
           NEW rows \in Said(ExportRows)
    PROVE  \E S : /\ HackerNewsYields(posts) \in Seq(S) /\ WebSearchYields(hits) \in Seq(S)
                  /\ RegistryYields(contacts) \in Seq(S) /\ Within(rows) \in Seq(S)
<1>1. /\ posts \in Seq(Posts) /\ hits \in Seq(Hits) /\ contacts \in Seq(Contacts)
      /\ rows \in Seq(ExportRows)
  BY FinderAssumption DEF Said
<1>2. \E S : HackerNewsYields(posts) \in Seq(S)
  BY <1>1, PickedIsList, SomeOfAList DEF HackerNewsYields
<1>3. \E S : WebSearchYields(hits) \in Seq(S)
  <2> DEFINE profiles == Picked(hits, {i \in DOMAIN hits : hits[i].link.segment = "in"})
             first == {i \in DOMAIN profiles : \A j \in 1 .. i - 1 :
                         Lowered(profiles[j].link) # Lowered(profiles[i].link)}
  <2>1. PICK P : profiles \in Seq(P)
    BY <1>1, PickedIsList
  <2> HIDE DEF profiles
  <2>2. \E S : Picked(profiles, first) \in Seq(S)
    BY <2>1, PickedIsList
  <2>3. \E S : Within(Picked(profiles, first)) \in Seq(S)
    BY <2>2, SomeOfAList
  <2> QED BY <2>3 DEF WebSearchYields, FirstOfEach, profiles
<1>4. \E S : RegistryYields(contacts) \in Seq(S)
  BY <1>1, PickedIsList, SomeOfAList DEF RegistryYields, FirstOfEach
<1>5. \E S : Within(rows) \in Seq(S)
  BY <1>1, SomeOfAList
<1>6. ASSUME NEW s, NEW S, s \in Seq(S), NEW T, S \subseteq T PROVE s \in Seq(T)
  BY <1>6
<1>7. PICK A : HackerNewsYields(posts) \in Seq(A)
  BY <1>2
<1>8. PICK B : WebSearchYields(hits) \in Seq(B)
  BY <1>3
<1>9. PICK C : RegistryYields(contacts) \in Seq(C)
  BY <1>4
<1>10. PICK D : Within(rows) \in Seq(D)
  BY <1>5
<1> DEFINE all == A \cup B \cup C \cup D
<1>11. A \subseteq all /\ B \subseteq all /\ C \subseteq all /\ D \subseteq all
  OBVIOUS
<1> HIDE DEF all
<1>12. HackerNewsYields(posts) \in Seq(all) /\ WebSearchYields(hits) \in Seq(all)
  BY <1>6, <1>7, <1>8, <1>11
<1>13. RegistryYields(contacts) \in Seq(all) /\ Within(rows) \in Seq(all)
  BY <1>6, <1>9, <1>10, <1>11
<1> QED BY <1>12, <1>13

\* However many sightings there are, and whatever keys they share: each that is
\* accepted is in one row and once, and a row holds what shared keys connect
\* (find-leads.ts).
THEOREM NothingSightedIsLost == Spec => []EvidenceKept
<1>1. EvidenceKept
  <2> SUFFICES ASSUME NEW posts \in Said(Posts), NEW hits \in Said(Hits),
                      NEW contacts \in Said(Contacts), NEW rows \in Said(ExportRows)
               PROVE  Accounted(HackerNewsYields(posts) \o WebSearchYields(hits)
                                  \o RegistryYields(contacts) \o Within(rows))
    BY DEF EvidenceKept
  <2> DEFINE all == HackerNewsYields(posts) \o WebSearchYields(hits)
                      \o RegistryYields(contacts) \o Within(rows)
  <2>1. PICK S : /\ HackerNewsYields(posts) \in Seq(S) /\ WebSearchYields(hits) \in Seq(S)
                 /\ RegistryYields(contacts) \in Seq(S) /\ Within(rows) \in Seq(S)
    BY SourcesYieldLists
  <2>2. all \in Seq(S)
    BY <2>1
  <2> HIDE DEF all
  <2>3. Len(all) \in Nat /\ DOMAIN all = 1 .. Len(all)
    BY <2>2
  <2> QED BY <2>3, AnyListAccounted DEF all
<1> QED BY <1>1, PTL
-----------------------------------------------------------------------------
(* The columns of a file.  Header by header and field by field, what is in  *)
(* use and what is kept add up to the headers that have been looked at.     *)

\* Among some numbers, one is the greatest.
LEMMA GreatestOfAList ==
    \A n \in Nat \ {0} : \A g \in [1 .. n -> Nat] :
        \E i \in 1 .. n : \A k \in 1 .. n : g[k] <= g[i]
<1> DEFINE Tops(n) == \A g \in [1 .. n -> Nat] : \E i \in 1 .. n : \A k \in 1 .. n : g[k] <= g[i]
           Without == {n \in Nat \ {0} : ~Tops(n)}
<1>1. Without = {}
  <2> SUFFICES ASSUME Without # {} PROVE FALSE
    OBVIOUS
  <2> DEFINE n == Min(Without)
  <2>1. n \in Without /\ \A m \in Without : n <= m
    <3>1. Without \in SUBSET Nat
      OBVIOUS
    <3> HIDE DEF Without
    <3> QED BY <3>1, LeastNumber
  <2> HIDE DEF n
  <2>2. n \in Nat \ {0} /\ ~Tops(n)
    BY <2>1
  <2>3. PICK g \in [1 .. n -> Nat] : ~\E i \in 1 .. n : \A k \in 1 .. n : g[k] <= g[i]
    BY <2>2
  <2>0. n \in Nat /\ n >= 1 /\ \A k \in 1 .. n : g[k] \in Nat
    <3>1. n \in Nat /\ n >= 1
      <4> HIDE DEF Tops
      <4> QED BY <2>2
    <3>2. \A k \in 1 .. n : g[k] \in Nat
      BY <2>3
    <3> QED BY <3>1, <3>2
  <2>4. n # 1
    <3> SUFFICES ASSUME n = 1 PROVE FALSE
      OBVIOUS
    <3>1. \A k \in 1 .. n : g[k] <= g[1]
      BY <2>0
    <3> QED BY <2>3, <2>0, <3>1
  <2>5. n - 1 \in Nat \ {0} /\ Tops(n - 1)
    <3>1. n - 1 \in Nat \ {0} /\ n - 1 \notin Without
      <4>1. ~(n <= n - 1)
        BY <2>2
      <4> HIDE DEF Without
      <4> QED BY <2>1, <2>2, <2>4, <4>1
    <3> QED BY <3>1
  <2>6. PICK i \in 1 .. n - 1 : \A k \in 1 .. n - 1 : g[k] <= g[i]
    <3> DEFINE g1 == [k \in 1 .. n - 1 |-> g[k]]
    <3>1. g1 \in [1 .. n - 1 -> Nat]
      <4>1. \A k \in 1 .. n - 1 : k \in 1 .. n
        BY <2>0
      <4> QED BY <2>0, <4>1
    <3>2. PICK i \in 1 .. n - 1 : \A k \in 1 .. n - 1 : g1[k] <= g1[i]
      BY <2>5, <3>1
    <3> QED BY <3>2
  <2>7. /\ g[n] \in Nat /\ g[i] \in Nat /\ i \in 1 .. n /\ n \in 1 .. n
        /\ \A k \in 1 .. n : k = n \/ k \in 1 .. n - 1
    <3>1. i \in 1 .. n /\ n \in 1 .. n
      BY <2>0
    <3>2. \A k \in 1 .. n : k = n \/ k \in 1 .. n - 1
      BY <2>0
    <3> QED BY <2>0, <3>1, <3>2
  <2>8. CASE g[n] <= g[i]
    <3>1. \A k \in 1 .. n : g[k] <= g[i]
      BY <2>6, <2>7, <2>8
    <3> QED BY <2>3, <2>7, <3>1
  <2>9. CASE ~(g[n] <= g[i])
    <3>1. \A k \in 1 .. n : g[k] <= g[n]
      BY <2>0, <2>6, <2>7, <2>9
    <3> QED BY <2>3, <2>7, <3>1
  <2> QED BY <2>8, <2>9
<1> QED BY <1>1

LEMMA GreatestNumber ==
    ASSUME NEW S \in SUBSET Nat, IsFiniteSet(S), S # {}
    PROVE  Max(S) \in S /\ \A m \in S : m <= Max(S)
<1> DEFINE n == Cardinality(S)
<1>1. n \in Nat \ {0}
  BY FS_CardinalityType, FS_EmptySet
<1>2. PICK g \in Bijection(1 .. n, S) : TRUE
  BY FS_CardinalityType DEF ExistsBijection
<1>3. g \in [1 .. n -> S] /\ \A x \in S : \E i \in 1 .. n : g[i] = x
  BY <1>2 DEF Bijection, Injection, Surjection
<1> HIDE DEF n
<1>4. g \in [1 .. n -> Nat]
  BY <1>3
<1>5. PICK i \in 1 .. n : \A k \in 1 .. n : g[k] <= g[i]
  BY <1>1, <1>4, GreatestOfAList
<1>6. g[i] \in S /\ \A m \in S : g[i] >= m
  BY <1>3, <1>5
<1>7. Max(S) \in S /\ \A m \in S : Max(S) >= m
  BY <1>6, Zenon DEF Max
<1> QED BY <1>7

\* What a finite set is mapped to is finite.
LEMMA ImageIsFinite ==
    ASSUME NEW S, IsFiniteSet(S), NEW f, NEW T, T = {f[x] : x \in S}
    PROVE  IsFiniteSet(T)
<1>1. [x \in S |-> f[x]] \in Surjection(S, T)
  BY DEF Surjection
<1> QED BY <1>1, FS_Surjection

-----------------------------------------------------------------------------
(* Counting. *)

Same(x, h) == IF x = h THEN 1 ELSE 0

LEMMA TimesIsNumber ==
    ASSUME NEW S, NEW s \in Seq(S), NEW h
    PROVE  /\ IsFiniteSet({i \in DOMAIN s : s[i] = h})
           /\ Times(s, h) \in Nat
<1>1. IsFiniteSet(1 .. Len(s))
  BY FS_Interval
<1>2. {i \in DOMAIN s : s[i] = h} \in SUBSET (1 .. Len(s))
  OBVIOUS
<1> HIDE DEF Times
<1>3. IsFiniteSet({i \in DOMAIN s : s[i] = h})
  BY <1>1, <1>2, FS_Subset
<1> QED BY <1>3, FS_CardinalityType DEF Times

LEMMA AppendedOnce ==
    ASSUME NEW S, NEW s \in Seq(S), NEW x \in S, NEW h
    PROVE  Times(Append(s, x), h) = Times(s, h) + Same(x, h)
<1> DEFINE t == Append(s, x)
           A == {i \in DOMAIN s : s[i] = h}
           B == {i \in DOMAIN t : t[i] = h}
<1>1. /\ Len(s) \in Nat /\ DOMAIN s = 1 .. Len(s) /\ DOMAIN t = 1 .. Len(s) + 1
      /\ t[Len(s) + 1] = x /\ \A i \in 1 .. Len(s) : t[i] = s[i]
  OBVIOUS
<1> HIDE DEF t
<1>2. IsFiniteSet(A) /\ Cardinality(A) \in Nat
  BY TimesIsNumber DEF Times
<1>3. Len(s) + 1 \notin A
  BY <1>1
<1>0. Times(s, h) = Cardinality(A) /\ Times(t, h) = Cardinality(B)
  BY DEF Times
<1>4. CASE x = h
  <2>1. B = A \cup {Len(s) + 1}
    BY <1>1, <1>4
  <2> HIDE DEF A, B
  <2>2. Cardinality(B) = Cardinality(A) + 1
    BY <1>2, <1>3, <2>1, FS_AddElement
  <2> QED BY <1>0, <1>4, <2>2 DEF Same, t
<1>5. CASE x # h
  <2>1. B = A
    BY <1>1, <1>5
  <2> HIDE DEF A, B
  <2> QED BY <1>0, <1>2, <1>5, <2>1 DEF Same, t
<1> QED BY <1>4, <1>5

LEMMA RemovedOnce ==
    ASSUME NEW S, NEW s \in Seq(S), NEW x, NEW m \in DOMAIN s, s[m] = x, NEW h
    PROVE  /\ RemoveFirst(s, x) \in Seq(S)
           /\ Times(RemoveFirst(s, x), h) = Times(s, h) - Same(x, h)
<1> DEFINE places == {i \in 1 .. Len(s) : s[i] = x}
           k == SelectInSeq(s, LAMBDA v : v = x)
           t == RemoveFirst(s, x)
           n == Len(s)
<1>1. n \in Nat /\ DOMAIN s = 1 .. n /\ m \in places
  OBVIOUS
<1>2. k \in 1 .. n /\ s[k] = x
  <2>1. k = Min(places)
    BY <1>1 DEF SelectInSeq
  <2>2. places \in SUBSET Nat /\ places # {}
    BY <1>1
  <2> HIDE DEF places, k
  <2>3. k \in places
    BY <2>1, <2>2, LeastNumber
  <2> QED BY <2>3 DEF places
<1>3. t = SubSeq(s, 1, k - 1) \o SubSeq(s, k + 1, n)
  BY <1>1 DEF RemoveFirst, RemoveAt
<1> HIDE DEF t, k
<1>4. /\ t \in Seq(S) /\ Len(t) = n - 1 /\ DOMAIN t = 1 .. n - 1
      /\ \A i \in 1 .. n - 1 : t[i] = IF i < k THEN s[i] ELSE s[i + 1]
  <2> DEFINE a == SubSeq(s, 1, k - 1)
             b == SubSeq(s, k + 1, n)
  <2>1. /\ a \in Seq(S) /\ Len(a) = k - 1 /\ \A i \in 1 .. k - 1 : a[i] = s[i]
    BY <1>1, <1>2
  <2>2. /\ b \in Seq(S) /\ Len(b) = n - k /\ \A i \in 1 .. n - k : b[i] = s[k + i]
    <3>1. b = [i \in 1 .. n - k |-> s[k + i]]
      BY <1>1, <1>2
    <3>2. \A i \in 1 .. n - k : k + i \in DOMAIN s
      BY <1>1, <1>2
    <3>3. \A i \in 1 .. n - k : s[k + i] \in S
      BY <3>2
    <3> HIDE DEF b
    <3> QED BY <1>1, <1>2, <3>1, <3>3
  <2> HIDE DEF a, b
  <2>3. t = a \o b
    BY <1>3 DEF a, b
  <2>4. /\ t \in Seq(S) /\ Len(t) = n - 1 /\ DOMAIN t = 1 .. n - 1
    <3>1. t \in Seq(S) /\ Len(t) = Len(a) + Len(b)
      <4>1. a \in Seq(S) /\ b \in Seq(S)
        BY <2>1, <2>2
      <4> QED BY <2>3, <4>1
    <3>2. Len(t) = n - 1
      BY <1>1, <1>2, <2>1, <2>2, <3>1
    <3> QED BY <3>1, <3>2
  <2>5. ASSUME NEW i \in 1 .. n - 1 PROVE t[i] = IF i < k THEN s[i] ELSE s[i + 1]
    <3>1. CASE i < k
      BY <1>1, <1>2, <2>1, <2>2, <2>3, <3>1
    <3>2. CASE ~(i < k)
      <4>1. t[i] = b[i - (k - 1)] /\ i - (k - 1) \in 1 .. n - k
        BY <1>1, <1>2, <2>1, <2>2, <2>3, <3>2
      <4>2. k + (i - (k - 1)) = i + 1
        BY <1>1, <1>2
      <4> QED BY <2>2, <3>2, <4>1, <4>2
    <3> QED BY <3>1, <3>2
  <2> QED BY <2>4, <2>5
<1> DEFINE A == {i \in DOMAIN s : s[i] = h}
           B == {i \in DOMAIN t : t[i] = h}
           f == [i \in B |-> IF i < k THEN i ELSE i + 1]
<1>5. f \in Bijection(B, A \ {k})
  <2>1. \A i \in B : f[i] \in A \ {k}
    <3> SUFFICES ASSUME NEW i \in B PROVE f[i] \in A \ {k}
      OBVIOUS
    <3>1. i \in 1 .. n - 1 /\ t[i] = h
      BY <1>4
    <3>2. CASE i < k
      BY <1>1, <1>2, <1>4, <3>1, <3>2
    <3>3. CASE ~(i < k)
      BY <1>1, <1>2, <1>4, <3>1, <3>3
    <3> QED BY <3>2, <3>3
  <2>2. \A i, l \in B : f[i] = f[l] => i = l
    BY <1>1, <1>2, <1>4
  <2>3. \A a \in A \ {k} : \E i \in B : f[i] = a
    <3> SUFFICES ASSUME NEW a \in A \ {k} PROVE \E i \in B : f[i] = a
      OBVIOUS
    <3>1. a \in 1 .. n /\ s[a] = h /\ a # k
      BY <1>1
    <3>2. CASE a < k
      <4>1. a \in B
        BY <1>1, <1>2, <1>4, <3>1, <3>2
      <4> QED BY <3>2, <4>1
    <3>3. CASE ~(a < k)
      <4>1. a - 1 \in 1 .. n - 1 /\ ~(a - 1 < k) /\ a - 1 + 1 = a
        BY <1>1, <1>2, <3>1, <3>3
      <4>2. a - 1 \in B
        BY <1>4, <3>1, <4>1
      <4> QED BY <4>1, <4>2
    <3> QED BY <3>2, <3>3
  <2>4. f \in [B -> A \ {k}]
    BY <2>1
  <2> HIDE DEF f, A, B
  <2> QED BY <2>2, <2>3, <2>4 DEF Bijection, Injection, Surjection, IsInjective
<1>6. IsFiniteSet(A) /\ IsFiniteSet(B) /\ Cardinality(A) \in Nat
  BY <1>4, TimesIsNumber DEF Times
<1>7. Cardinality(B) = Cardinality(A \ {k})
  <2> HIDE DEF A, B, f
  <2>1. ExistsBijection(B, A \ {k})
    BY <1>5 DEF ExistsBijection
  <2> QED BY <1>6, <2>1, FS_Bijection
<1>8. k \in A <=> x = h
  BY <1>1, <1>2
<1>9. Cardinality(A \ {k}) = Cardinality(A) - Same(x, h)
  <2> HIDE DEF A
  <2>1. Cardinality(A \ {k}) = IF k \in A THEN Cardinality(A) - 1 ELSE Cardinality(A)
    BY <1>6, FS_RemoveElement
  <2> QED BY <1>6, <1>8, <2>1 DEF Same
<1> QED BY <1>4, <1>7, <1>9 DEF Times, t

-----------------------------------------------------------------------------
(* The columns. *)

Readable == {h \in HeaderCells : h.names # Unreadable}

\* How often a header is in use.
Used(columns, h) == Cardinality({f \in ToSet(Fields) : columns.best[f] = h})

ColumnsShape(columns) ==
    /\ columns = [best |-> columns.best, rest |-> columns.rest]
    /\ columns.best \in [ToSet(Fields) -> Readable \cup {Blank}]
    /\ columns.rest \in Seq(Readable)

Copies(headers, i, h) == Cardinality({k \in 1 .. i : headers[k] = h})

\* The first i headers are in use or kept, each as often as it occurs.
Balanced(columns, headers, i) ==
    \A h \in Readable : Used(columns, h) + Times(columns.rest, h) = Copies(headers, i, h)

\* A field named among the first i headers is read from one with the best alias.
BestTaken(columns, headers, i) ==
    \A f \in ToSet(Fields) : \A k \in 1 .. i : headers[k].names = f =>
        /\ columns.best[f] # Blank /\ columns.best[f].names = f
        /\ columns.best[f].rank <= headers[k].rank

LEMMA HeaderShape ==
    /\ \A h \in HeaderCells :
         /\ h.kind = "TEXT" /\ h # Blank /\ h.rank \in Nat /\ IsFiniteSet(h.parts)
         /\ \A p \in h.parts : p[2] \in Nat
         /\ h.names # Unreadable => h.text # ""
         /\ h.names \in ToSet(Fields) \cup {NoField, Unreadable}
    /\ Blank.text = ""
    /\ NoField \notin ToSet(Fields) /\ Unreadable \notin ToSet(Fields) /\ NoField # Unreadable
    /\ IsFiniteSet(ToSet(Fields))
<1>1. ASSUME NEW h \in HeaderCells
      PROVE  /\ h.kind = "TEXT" /\ h # Blank /\ h.rank \in Nat /\ IsFiniteSet(h.parts)
             /\ \A p \in h.parts : p[2] \in Nat
             /\ h.names # Unreadable => h.text # ""
             /\ h.names \in ToSet(Fields) \cup {NoField, Unreadable}
  <2>1. /\ h \in Cells /\ h.kind = "TEXT" /\ IsFiniteSet(h.parts)
        /\ h.names \in ToSet(Fields) \cup {NoField, Unreadable}
        /\ h.names # Unreadable => h.text # ""
    BY HeaderAssumption
  <2>2. h # Blank
    <3>1. Blank.kind = "BLANK"
      BY DEF Blank
    <3> QED BY <2>1, <3>1
  <2>3. h \in [text : STRING, kind : {"TEXT"}, names : STRING, rank : Nat,
               parts : SUBSET (STRING \X Nat), words : Nat]
    BY <2>1 DEF Cells
  <2>4. h.rank \in Nat /\ h.parts \in SUBSET (STRING \X Nat)
    BY <2>3
  <2>5. \A p \in h.parts : p[2] \in Nat
    BY <2>4
  <2> QED BY <2>1, <2>2, <2>4, <2>5
<1>2. Blank.text = "" /\ NoField # Unreadable
  BY DEF Blank, NoField, Unreadable
<1>3. Fields \in Seq(STRING \ {NoField, Unreadable})
  BY ImportAssumption
<1>4. NoField \notin ToSet(Fields) /\ Unreadable \notin ToSet(Fields)
  <2>1. \A i \in DOMAIN Fields : Fields[i] \in STRING \ {NoField, Unreadable}
    BY <1>3
  <2> QED BY <2>1 DEF ToSet
<1>5. IsFiniteSet(ToSet(Fields))
  <2>1. IsFiniteSet(DOMAIN Fields)
    BY <1>3, FS_Interval
  <2> QED BY <2>1, ImageIsFinite DEF ToSet
<1> QED BY <1>1, <1>2, <1>4, <1>5

LEMMA UsedIsNumber ==
    ASSUME NEW columns, NEW h
    PROVE  /\ IsFiniteSet({f \in ToSet(Fields) : columns.best[f] = h})
           /\ Used(columns, h) \in Nat
<1>1. IsFiniteSet({f \in ToSet(Fields) : columns.best[f] = h})
  BY HeaderShape, FS_Subset
<1> QED BY <1>1, FS_CardinalityType DEF Used

Given(b, c, f, x) ==
    \A g \in ToSet(Fields) : c.best[g] = IF g = f THEN x ELSE b.best[g]

\* A field is given another header: the new one is in use once more, the old once less.
LEMMA UsedOnce ==
    ASSUME NEW b, NEW c, NEW f \in ToSet(Fields), NEW x, NEW h, Given(b, c, f, x)
    PROVE  Used(c, h) = Used(b, h) - Same(b.best[f], h) + Same(x, h)
<1> DEFINE A == {g \in ToSet(Fields) : b.best[g] = h}
           B == {g \in ToSet(Fields) : c.best[g] = h}
<1>1. /\ IsFiniteSet(A) /\ Used(b, h) = Cardinality(A) /\ Used(c, h) = Cardinality(B)
      /\ Cardinality(A) \in Nat
  BY UsedIsNumber DEF Used
<1>2. Cardinality(A \ {f}) = Cardinality(A) - Same(b.best[f], h)
  <2>1. f \in A <=> b.best[f] = h
    OBVIOUS
  <2> HIDE DEF A
  <2>2. Cardinality(A \ {f}) = IF f \in A THEN Cardinality(A) - 1 ELSE Cardinality(A)
    BY <1>1, FS_RemoveElement
  <2> QED BY <1>1, <2>1, <2>2 DEF Same
<1>3. B = IF x = h THEN (A \ {f}) \cup {f} ELSE A \ {f}
  BY DEF Given
<1>4. IsFiniteSet(A \ {f}) /\ Cardinality(A \ {f}) \in Nat /\ f \notin A \ {f}
  <2> HIDE DEF A
  <2>1. IsFiniteSet(A \ {f})
    BY <1>1, FS_RemoveElement
  <2> QED BY <2>1, FS_CardinalityType
<1>5. Cardinality(B) = Cardinality(A \ {f}) + Same(x, h)
  <2> HIDE DEF A, B
  <2>1. Cardinality((A \ {f}) \cup {f}) = Cardinality(A \ {f}) + 1
    <3> DEFINE R == A \ {f}
    <3>1. IsFiniteSet(R) /\ f \notin R
      BY <1>4
    <3> HIDE DEF R
    <3>2. Cardinality(R \cup {f}) = Cardinality(R) + 1
      BY <3>1, FS_AddElement
    <3> QED BY <3>2 DEF R
  <2> QED BY <1>3, <1>4, <2>1 DEF Same
<1> HIDE DEF A, B
<1>6. Same(b.best[f], h) \in {0, 1} /\ Same(x, h) \in {0, 1}
  BY DEF Same
<1> QED BY <1>1, <1>2, <1>4, <1>5, <1>6

LEMMA OneHeaderMore ==
    ASSUME NEW headers, NEW i \in Nat \ {0}, NEW h
    PROVE  /\ Copies(headers, i, h) = Copies(headers, i - 1, h) + Same(headers[i], h)
           /\ Copies(headers, i - 1, h) \in Nat
<1> DEFINE A == {k \in 1 .. i - 1 : headers[k] = h}
           B == {k \in 1 .. i : headers[k] = h}
<1>1. IsFiniteSet(A) /\ Cardinality(A) \in Nat
  <2>1. IsFiniteSet(1 .. i - 1) /\ A \in SUBSET (1 .. i - 1)
    BY FS_Interval
  <2> HIDE DEF A
  <2> QED BY <2>1, FS_Subset, FS_CardinalityType
<1>2. i \notin A /\ B = IF headers[i] = h THEN A \cup {i} ELSE A
  OBVIOUS
<1> HIDE DEF A, B
<1>3. Cardinality(A \cup {i}) = Cardinality(A) + 1
  BY <1>1, <1>2, FS_AddElement
<1>4. Cardinality(B) = Cardinality(A) + Same(headers[i], h)
  BY <1>1, <1>2, <1>3 DEF Same
<1> QED BY <1>1, <1>4 DEF A, B, Copies

ColumnsInv(columns, headers, i) ==
    /\ ColumnsShape(columns)
    /\ Balanced(columns, headers, i)
    /\ BestTaken(columns, headers, i)

\* While the headers are gone through, a field is read from a header that names it.
ExactInv(columns, headers, i) ==
    /\ ColumnsInv(columns, headers, i)
    /\ \A f \in ToSet(Fields) : columns.best[f] # Blank => columns.best[f].names = f

\* A header is passed over, ...
LEMMA PassedOver ==
    ASSUME NEW headers, NEW i \in Nat \ {0}, headers[i] \in HeaderCells,
           NEW c, ExactInv(c, headers, i - 1), headers[i].names = Unreadable
    PROVE  ExactInv(Place(c, headers[i]), headers, i)
<1>1. Place(c, headers[i]) = c
  BY DEF Place
<1>2. Balanced(c, headers, i)
  <2> SUFFICES ASSUME NEW h \in Readable
               PROVE  Used(c, h) + Times(c.rest, h) = Copies(headers, i, h)
    BY DEF Balanced
  <2>1. headers[i] # h
    BY DEF Readable
  <2>2. /\ Copies(headers, i, h) = Copies(headers, i - 1, h) + Same(headers[i], h)
        /\ Copies(headers, i - 1, h) \in Nat
    BY OneHeaderMore
  <2>3. Copies(headers, i, h) = Copies(headers, i - 1, h)
    BY <2>1, <2>2 DEF Same
  <2> QED BY <2>3 DEF ExactInv, ColumnsInv, Balanced
<1>3. BestTaken(c, headers, i)
  <2>1. \A k \in 1 .. i : k = i \/ k \in 1 .. i - 1
    OBVIOUS
  <2>2. Unreadable \notin ToSet(Fields)
    BY HeaderShape
  <2> QED BY <2>1, <2>2 DEF ExactInv, ColumnsInv, BestTaken
<1> QED BY <1>1, <1>2, <1>3 DEF ExactInv, ColumnsInv

\* ... or kept, ...
LEMMA KeptAside ==
    ASSUME NEW headers, NEW i \in Nat \ {0}, headers[i] \in Readable,
           NEW c, ExactInv(c, headers, i - 1),
           headers[i].names = NoField \/ KeepsPlace(c.best[headers[i].names], headers[i])
    PROVE  ExactInv(Place(c, headers[i]), headers, i)
<1> DEFINE x == headers[i]
           d == Place(c, x)
<1>1. d = [c EXCEPT !.rest = Append(@, x)]
  BY DEF Place, Readable
<1>2. ColumnsShape(c)
  BY DEF ExactInv, ColumnsInv
<1>3. /\ d.best = c.best /\ d.rest = Append(c.rest, x)
      /\ d = [best |-> d.best, rest |-> d.rest]
  BY <1>1, <1>2 DEF ColumnsShape
<1>4. x \in Readable /\ c.rest \in Seq(Readable)
  BY <1>2 DEF ColumnsShape
<1>5. ColumnsShape(d)
  <2>1. d.rest \in Seq(Readable)
    BY <1>3, <1>4
  <2> HIDE DEF d
  <2> QED BY <1>2, <1>3, <2>1 DEF ColumnsShape
<1> HIDE DEF d
<1>6. Balanced(d, headers, i)
  <2> SUFFICES ASSUME NEW h \in Readable
               PROVE  Used(d, h) + Times(d.rest, h) = Copies(headers, i, h)
    BY DEF Balanced
  <2>1. Used(d, h) = Used(c, h)
    BY <1>3 DEF Used
  <2>2. Times(d.rest, h) = Times(c.rest, h) + Same(x, h)
    BY <1>3, <1>4, AppendedOnce
  <2>3. Used(c, h) + Times(c.rest, h) = Copies(headers, i - 1, h)
    BY DEF ExactInv, ColumnsInv, Balanced
  <2>4. /\ Used(c, h) \in Nat /\ Times(c.rest, h) \in Nat /\ Same(x, h) \in Nat
        /\ Copies(headers, i, h) = Copies(headers, i - 1, h) + Same(x, h)
    <3>1. Used(c, h) \in Nat /\ Times(c.rest, h) \in Nat
      BY <1>4, UsedIsNumber, TimesIsNumber
    <3>2. Copies(headers, i, h) = Copies(headers, i - 1, h) + Same(x, h)
      BY OneHeaderMore
    <3> HIDE DEF x
    <3> QED BY <3>1, <3>2 DEF Same
  <2> HIDE DEF x
  <2> QED BY <2>1, <2>2, <2>3, <2>4
<1>7. BestTaken(d, headers, i)
  <2> SUFFICES ASSUME NEW f \in ToSet(Fields), NEW k \in 1 .. i, headers[k].names = f
               PROVE  /\ c.best[f] # Blank /\ c.best[f].names = f
                      /\ c.best[f].rank <= headers[k].rank
    BY <1>3 DEF BestTaken
  <2>1. CASE k \in 1 .. i - 1
    BY <2>1 DEF ExactInv, ColumnsInv, BestTaken
  <2>2. CASE k = i
    <3>1. c.best[f].text # "" /\ c.best[f].rank <= x.rank
      BY <2>2, HeaderShape DEF KeepsPlace
    <3>2. c.best[f] # Blank
      BY <3>1, HeaderShape
    <3>3. c.best[f].names = f
      BY <3>2 DEF ExactInv
    <3> QED BY <2>2, <3>1, <3>2, <3>3
  <2> QED BY <2>1, <2>2
<1> QED BY <1>3, <1>5, <1>6, <1>7 DEF ExactInv, ColumnsInv, d

\* ... or taken for its field, and another may have to make room.
LEMMA TakesField ==
    ASSUME NEW headers, NEW i \in Nat \ {0}, NEW x \in Readable, headers[i] = x,
           \A k \in 1 .. i : headers[k] \in HeaderCells,
           NEW c, ExactInv(c, headers, i - 1), x.names # NoField,
           ~KeepsPlace(c.best[x.names], x)
    PROVE  ExactInv(Place(c, x), headers, i)
<1> DEFINE f == x.names
           out == c.best[f]
           d == Place(c, x)
<1>1. d = [best |-> [c.best EXCEPT ![f] = x],
           rest |-> IF out = Blank THEN c.rest ELSE Append(c.rest, out)]
  BY DEF Place, Readable
<1>2. /\ ColumnsShape(c) /\ Balanced(c, headers, i - 1) /\ BestTaken(c, headers, i - 1)
      /\ \A g \in ToSet(Fields) : c.best[g] # Blank => c.best[g].names = g
  BY DEF ExactInv, ColumnsInv
<1>3. x \in Readable /\ x # Blank /\ f \in ToSet(Fields)
  BY HeaderShape DEF Readable
<1>4. /\ c.best \in [ToSet(Fields) -> Readable \cup {Blank}] /\ c.rest \in Seq(Readable)
      /\ out \in Readable \cup {Blank}
  BY <1>2, <1>3 DEF ColumnsShape
<1> HIDE DEF f, out
<1>5. /\ d = [best |-> d.best, rest |-> d.rest]
      /\ \A g \in ToSet(Fields) : d.best[g] = IF g = f THEN x ELSE c.best[g]
      /\ d.best \in [ToSet(Fields) -> Readable \cup {Blank}]
      /\ d.rest = IF out = Blank THEN c.rest ELSE Append(c.rest, out)
  BY <1>1, <1>3, <1>4
<1> HIDE DEF d
<1>6. ColumnsShape(d)
  <2>1. d.rest \in Seq(Readable)
    BY <1>4, <1>5
  <2> QED BY <1>5, <2>1 DEF ColumnsShape
<1>7. Balanced(d, headers, i)
  <2> SUFFICES ASSUME NEW h \in Readable
               PROVE  Used(d, h) + Times(d.rest, h) = Copies(headers, i, h)
    BY DEF Balanced
  <2>1. Used(d, h) = Used(c, h) - Same(out, h) + Same(x, h)
    <3>1. Given(c, d, f, x)
      BY <1>5 DEF Given
    <3>2. Used(d, h) = Used(c, h) - Same(c.best[f], h) + Same(x, h)
      BY <1>3, <3>1, UsedOnce
    <3> QED BY <3>2 DEF out
  <2>2. Times(d.rest, h) = Times(c.rest, h) + Same(out, h)
    <3>1. CASE out = Blank
      <4>1. out # h
        BY <3>1, HeaderShape DEF Readable
      <4>2. Times(c.rest, h) \in Nat
        BY <1>4, TimesIsNumber
      <4> QED BY <1>5, <3>1, <4>1, <4>2 DEF Same
    <3>2. CASE out # Blank
      <4>1. out \in Readable /\ d.rest = Append(c.rest, out)
        BY <1>4, <1>5, <3>2
      <4> QED BY <1>4, <4>1, AppendedOnce
    <3> QED BY <3>1, <3>2
  <2>3. Used(c, h) + Times(c.rest, h) = Copies(headers, i - 1, h)
    BY <1>2 DEF Balanced
  <2>4. /\ Used(c, h) \in Nat /\ Times(c.rest, h) \in Nat
        /\ Same(x, h) \in Nat /\ Same(out, h) \in Nat
    BY <1>4, UsedIsNumber, TimesIsNumber DEF Same
  <2>5. Copies(headers, i, h) = Copies(headers, i - 1, h) + Same(x, h)
    BY OneHeaderMore
  <2> QED BY <2>1, <2>2, <2>3, <2>4, <2>5
<1>8. BestTaken(d, headers, i)
  <2> SUFFICES ASSUME NEW g \in ToSet(Fields), NEW k \in 1 .. i, headers[k].names = g
               PROVE  /\ d.best[g] # Blank /\ d.best[g].names = g
                      /\ d.best[g].rank <= headers[k].rank
    BY DEF BestTaken
  <2>1. CASE k \in 1 .. i - 1 /\ g # f
    BY <1>2, <1>5, <2>1 DEF BestTaken
  <2>2. CASE k \in 1 .. i - 1 /\ g = f
    <3>1. out # Blank /\ out.rank <= headers[k].rank
      BY <1>2, <2>2 DEF BestTaken, out
    <3>2. out.text # "" /\ out.rank \in Nat /\ x.rank \in Nat
      BY <1>3, <1>4, <3>1, HeaderShape DEF Readable
    <3>3. ~(out.rank <= x.rank)
      BY <3>2 DEF KeepsPlace, out, f
    <3>4. headers[k].rank \in Nat
      BY <2>2, HeaderShape
    <3>5. d.best[g] = x /\ x.names = g
      BY <1>3, <1>5, <2>2 DEF f
    <3>6. x.rank <= headers[k].rank
      <4>1. out.rank <= headers[k].rank /\ out.rank \in Nat /\ x.rank \in Nat
        BY <3>1, <3>2
      <4> QED BY <3>3, <3>4, <4>1
    <3> QED BY <1>3, <3>5, <3>6
  <2>3. CASE k = i
    <3>1. g = f /\ d.best[g] = x /\ x.rank \in Nat
      BY <1>3, <1>5, <2>3, HeaderShape DEF f, Readable
    <3> QED BY <1>3, <2>3, <3>1 DEF f
  <2> QED BY <2>1, <2>2, <2>3
<1>9. \A g \in ToSet(Fields) : d.best[g] # Blank => d.best[g].names = g
  BY <1>2, <1>5 DEF f
<1> QED BY <1>6, <1>7, <1>8, <1>9 DEF ExactInv, ColumnsInv, d

\* The headers are gone through from the first to the last.
LEMMA ExactGoesThrough ==
    ASSUME NEW headers, Len(headers) \in Nat
    PROVE  \E columns : /\ Exact(headers) = columns[Len(headers)]
                        /\ columns[0] = NoColumns
                        /\ \A i \in 1 .. Len(headers) :
                              columns[i] = Place(columns[i - 1], headers[i])
<1> DEFINE From(f, n) == [i \in 0 .. n |-> IF i = 0 THEN NoColumns
                                           ELSE Place(f[i - 1], headers[i])]
           Undefined == {n \in Nat : ~\E f : f = From(f, n)}
<1>1. Undefined = {}
  <2> SUFFICES ASSUME Undefined # {} PROVE FALSE
    OBVIOUS
  <2> DEFINE n == Min(Undefined)
  <2>1. n \in Undefined /\ \A m \in Undefined : n <= m
    BY LeastNumber
  <2> HIDE DEF n
  <2>2. n \in Nat /\ ~\E f : f = From(f, n)
    BY <2>1
  <2>3. CASE n = 0
    <3> DEFINE f == [i \in 0 .. 0 |-> NoColumns]
    <3>1. f = From(f, 0)
      OBVIOUS
    <3> QED BY <2>2, <2>3, <3>1
  <2>4. CASE n # 0
    <3>1. n - 1 \in Nat /\ n - 1 \notin Undefined
      <4>1. n - 1 \in Nat /\ ~(n <= n - 1)
        BY <2>2, <2>4
      <4> HIDE DEF Undefined
      <4> QED BY <2>1, <4>1
    <3>2. PICK g : g = From(g, n - 1)
      BY <3>1
    <3> DEFINE f == [i \in 0 .. n |-> IF i = n THEN Place(g[n - 1], headers[n]) ELSE g[i]]
    <3>3. \A i \in 0 .. n - 1 : g[i] = IF i = 0 THEN NoColumns ELSE Place(g[i - 1], headers[i])
      BY <3>2
    <3>4. \A i \in 0 .. n : f[i] = IF i = 0 THEN NoColumns ELSE Place(f[i - 1], headers[i])
      BY <2>2, <2>4, <3>3
    <3>5. f = From(f, n)
      BY <3>4
    <3> QED BY <2>2, <3>5
  <2> QED BY <2>3, <2>4
<1> DEFINE columns == CHOOSE f : f = From(f, Len(headers))
<1>2. columns = From(columns, Len(headers))
  BY <1>1
<1>3. Exact(headers) = columns[Len(headers)]
  BY DEF Exact
<1> HIDE DEF columns
<1>4. /\ columns[0] = NoColumns
      /\ \A i \in 1 .. Len(headers) : columns[i] = Place(columns[i - 1], headers[i])
  BY <1>2
<1> QED BY <1>3, <1>4

\* The exact names, for any list of headers.
LEMMA GoneThrough ==
    ASSUME NEW headers \in Seq(HeaderCells)
    PROVE  ColumnsInv(Exact(headers), headers, Len(headers))
<1>1. PICK columns : /\ Exact(headers) = columns[Len(headers)]
                     /\ columns[0] = NoColumns
                     /\ \A i \in 1 .. Len(headers) :
                           columns[i] = Place(columns[i - 1], headers[i])
  BY ExactGoesThrough
<1> DEFINE Broken == {i \in 0 .. Len(headers) : ~ExactInv(columns[i], headers, i)}
<1>2. ExactInv(columns[0], headers, 0)
  <2>1. /\ NoColumns = [best |-> NoColumns.best, rest |-> NoColumns.rest]
        /\ NoColumns.best = [f \in ToSet(Fields) |-> Blank]
        /\ NoColumns.rest = <<>> /\ <<>> \in Seq(Readable)
    BY DEF NoColumns
  <2> HIDE DEF NoColumns
  <2>2. ColumnsShape(NoColumns)
    BY <2>1 DEF ColumnsShape
  <2>3. BestTaken(NoColumns, headers, 0)
    BY DEF BestTaken
  <2>4. Balanced(NoColumns, headers, 0)
    <3> SUFFICES ASSUME NEW h \in Readable
                 PROVE  Used(NoColumns, h) + Times(<<>>, h) = Copies(headers, 0, h)
      BY <2>1 DEF Balanced
    <3>1. {f \in ToSet(Fields) : NoColumns.best[f] = h} = {}
      BY <2>1, HeaderShape DEF Readable
    <3>2. {i \in DOMAIN <<>> : <<>>[i] = h} = {} /\ {k \in 1 .. 0 : headers[k] = h} = {}
      OBVIOUS
    <3>3. Used(NoColumns, h) = 0 /\ Times(<<>>, h) = 0 /\ Copies(headers, 0, h) = 0
      BY <3>1, <3>2, FS_EmptySet, Zenon DEF Used, Times, Copies
    <3> QED BY <3>3
  <2>5. \A f \in ToSet(Fields) : NoColumns.best[f] = Blank
    BY <2>1
  <2> QED BY <1>1, <2>2, <2>3, <2>4, <2>5 DEF ExactInv, ColumnsInv
<1>3. Broken = {}
  <2> SUFFICES ASSUME Broken # {} PROVE FALSE
    OBVIOUS
  <2> DEFINE i == Min(Broken)
  <2>1. i \in Broken /\ \A j \in Broken : i <= j
    <3>1. Broken \in SUBSET Nat
      OBVIOUS
    <3> HIDE DEF Broken
    <3> QED BY <3>1, LeastNumber
  <2> HIDE DEF i
  <2>2. i \in 1 .. Len(headers) /\ ~ExactInv(columns[i], headers, i)
    BY <1>2, <2>1
  <2>3. ExactInv(columns[i - 1], headers, i - 1)
    BY <2>1, <2>2
  <2>4. columns[i] = Place(columns[i - 1], headers[i])
    BY <1>1, <2>2
  <2>5. i \in Nat \ {0} /\ \A k \in 1 .. i : headers[k] \in HeaderCells
    BY <2>2
  <2>6. headers[i] \in HeaderCells
    BY <2>5
  <2>7. CASE headers[i].names = Unreadable
    BY <2>2, <2>3, <2>4, <2>5, <2>6, <2>7, PassedOver
  <2>8. CASE headers[i].names # Unreadable
    <3>1. headers[i] \in Readable
      BY <2>6, <2>8 DEF Readable
    <3> QED BY <2>2, <2>3, <2>4, <2>5, <3>1, KeptAside, TakesField
  <2> QED BY <2>7, <2>8
<1>4. ExactInv(columns[Len(headers)], headers, Len(headers))
  BY <1>3
<1> QED BY <1>1, <1>4 DEF ExactInv

-----------------------------------------------------------------------------
(* The guesses: a field still without a column takes a header that was kept. *)

LEMMA PartLengthIsNumber ==
    ASSUME NEW h \in HeaderCells, NEW field
    PROVE  PartLength(h, field) \in Nat
<1> DEFINE parts == {q \in h.parts : q[1] = field}
           lengths == {p[2] : p \in parts}
           all == lengths \cup {0}
<1>1. IsFiniteSet(parts) /\ \A p \in parts : p[2] \in Nat
  <2>1. IsFiniteSet(h.parts) /\ \A p \in h.parts : p[2] \in Nat
    BY HeaderShape
  <2> QED BY <2>1, FS_Subset
<1>2. IsFiniteSet(lengths)
  <2> DEFINE length == [p \in parts |-> p[2]]
  <2>1. lengths = {length[p] : p \in parts}
    OBVIOUS
  <2> HIDE DEF lengths, parts, length
  <2> QED BY <1>1, <2>1, ImageIsFinite
<1>3. lengths \in SUBSET Nat
  BY <1>1
<1> HIDE DEF lengths
<1>4. all \in SUBSET Nat /\ IsFiniteSet(all) /\ all # {}
  BY <1>2, <1>3, FS_AddElement
<1> HIDE DEF all
<1>5. Max(all) \in Nat
  BY <1>4, GreatestNumber
<1> QED BY <1>5 DEF PartLength, all, lengths

\* What is picked was among the headers that had been kept.
LEMMA PickedWasKept ==
    ASSUME NEW rest \in Seq(Readable), NEW field, NEW length,
           length = Max({PartLength(rest[i], field) : i \in DOMAIN rest} \cup {0}), length # 0
    PROVE  LET places == {i \in 1 .. Len(rest) : PartLength(rest[i], field) = length}
           IN places # {} /\ Min(places) \in DOMAIN rest
<1> DEFINE lengths == {PartLength(rest[i], field) : i \in DOMAIN rest}
           all == lengths \cup {0}
           places == {i \in 1 .. Len(rest) : PartLength(rest[i], field) = length}
<1>1. \A i \in DOMAIN rest : PartLength(rest[i], field) \in Nat
  BY PartLengthIsNumber DEF Readable
<1>2. IsFiniteSet(lengths)
  <2> DEFINE f == [i \in DOMAIN rest |-> PartLength(rest[i], field)]
  <2>1. IsFiniteSet(DOMAIN rest)
    BY FS_Interval
  <2>2. lengths = {f[i] : i \in DOMAIN rest}
    OBVIOUS
  <2> HIDE DEF lengths, f
  <2> QED BY <2>1, <2>2, ImageIsFinite
<1>3. lengths \in SUBSET Nat
  BY <1>1
<1>4. length \in all
  <2>1. length = Max(all)
    OBVIOUS
  <2> HIDE DEF lengths
  <2>2. all \in SUBSET Nat /\ IsFiniteSet(all) /\ all # {}
    BY <1>2, <1>3, FS_AddElement
  <2> HIDE DEF all
  <2> QED BY <2>1, <2>2, GreatestNumber
<1>5. places # {} /\ places \in SUBSET Nat /\ places \subseteq DOMAIN rest
  <2>1. length \in lengths
    <3> HIDE DEF lengths
    <3> QED BY <1>4
  <2>2. PICK i \in DOMAIN rest : length = PartLength(rest[i], field)
    BY <2>1
  <2>3. DOMAIN rest = 1 .. Len(rest) /\ Len(rest) \in Nat
    OBVIOUS
  <2>4. i \in places
    BY <2>2, <2>3
  <2>5. places \in SUBSET Nat /\ places \subseteq DOMAIN rest
    BY <2>3
  <2> HIDE DEF places
  <2> QED BY <2>4, <2>5
<1> HIDE DEF places
<1>6. Min(places) \in places
  BY <1>5, LeastNumber
<1> QED BY <1>5, <1>6 DEF places

LEMMA GuessStep ==
    ASSUME NEW headers, NEW n, NEW c, ColumnsInv(c, headers, n), NEW f \in ToSet(Fields)
    PROVE  ColumnsInv(Guess(c, f), headers, n)
<1> DEFINE length == Max({PartLength(c.rest[i], f) : i \in DOMAIN c.rest} \cup {0})
           pick == SelectInSeq(c.rest, LAMBDA h : PartLength(h, f) = length)
           x == c.rest[pick]
           d == [best |-> [c.best EXCEPT ![f] = x], rest |-> RemoveFirst(c.rest, x)]
<1>1. CASE c.best[f] # Blank \/ length = 0
  <2>1. Guess(c, f) = c
    BY <1>1 DEF Guess
  <2> QED BY <2>1
<1>2. CASE c.best[f] = Blank /\ length # 0
  <2>1. Guess(c, f) = d
    BY <1>2 DEF Guess, Assign
  <2>2. ColumnsShape(c) /\ Balanced(c, headers, n) /\ BestTaken(c, headers, n)
    BY DEF ColumnsInv
  <2>3. c.best \in [ToSet(Fields) -> Readable \cup {Blank}] /\ c.rest \in Seq(Readable)
    BY <2>2 DEF ColumnsShape
  <2>4. pick \in DOMAIN c.rest
    <3> DEFINE places == {i \in 1 .. Len(c.rest) : PartLength(c.rest[i], f) = length}
    <3>1. pick = IF places # {} THEN Min(places) ELSE 0
      BY DEF SelectInSeq
    <3> HIDE DEF pick
    <3>2. places # {} /\ Min(places) \in DOMAIN c.rest
      <4>1. length # 0
        BY <1>2
      <4> QED BY <2>3, <4>1, PickedWasKept
    <3> QED BY <3>1, <3>2
  <2> HIDE DEF pick, length
  <2>5. x \in Readable
    BY <2>3, <2>4
  <2>6. /\ d.rest \in Seq(Readable)
        /\ \A h : Times(d.rest, h) = Times(c.rest, h) - Same(x, h)
    BY <2>3, <2>4, RemovedOnce
  <2> HIDE DEF x
  <2>7. /\ d = [best |-> d.best, rest |-> d.rest]
        /\ d.best \in [ToSet(Fields) -> Readable \cup {Blank}]
        /\ Given(c, d, f, x)
    BY <2>3, <2>5 DEF Given
  <2> HIDE DEF d
  <2>8. ColumnsShape(d)
    BY <2>6, <2>7 DEF ColumnsShape
  <2>9. Balanced(d, headers, n)
    <3> SUFFICES ASSUME NEW h \in Readable
                 PROVE  Used(d, h) + Times(d.rest, h) = Copies(headers, n, h)
      BY DEF Balanced
    <3>1. Used(d, h) = Used(c, h) - Same(c.best[f], h) + Same(x, h)
      BY <2>7, UsedOnce
    <3>2. Same(c.best[f], h) = 0
      BY <1>2, HeaderShape DEF Same, Readable
    <3>3. Used(c, h) + Times(c.rest, h) = Copies(headers, n, h)
      BY <2>2 DEF Balanced
    <3>4. Used(c, h) \in Nat /\ Times(c.rest, h) \in Nat /\ Same(x, h) \in Nat
      BY <2>3, UsedIsNumber, TimesIsNumber DEF Same
    <3>5. Times(d.rest, h) = Times(c.rest, h) - Same(x, h)
      BY <2>6
    <3> QED BY <3>1, <3>2, <3>3, <3>4, <3>5
  <2>10. BestTaken(d, headers, n)
    BY <1>2, <2>2, <2>7 DEF BestTaken, Given
  <2> QED BY <2>1, <2>8, <2>9, <2>10 DEF ColumnsInv
<1> QED BY <1>1, <1>2

\* The fields are gone through from the first to the last.
LEMMA FieldsGoThrough ==
    ASSUME NEW headers
    PROVE  \E columns : /\ mapColumns(headers) = columns[Len(Fields)]
                        /\ columns[0] = Exact(headers)
                        /\ \A i \in 1 .. Len(Fields) : columns[i] = Guess(columns[i - 1], Fields[i])
<1> DEFINE From(f, n) == [i \in 0 .. n |-> IF i = 0 THEN Exact(headers)
                                           ELSE Guess(f[i - 1], Fields[i])]
           Undefined == {n \in Nat : ~\E f : f = From(f, n)}
<1>1. Undefined = {}
  <2> SUFFICES ASSUME Undefined # {} PROVE FALSE
    OBVIOUS
  <2> DEFINE n == Min(Undefined)
  <2>1. n \in Undefined /\ \A m \in Undefined : n <= m
    BY LeastNumber
  <2> HIDE DEF n
  <2>2. n \in Nat /\ ~\E f : f = From(f, n)
    BY <2>1
  <2>3. CASE n = 0
    <3> DEFINE f == [i \in 0 .. 0 |-> Exact(headers)]
    <3>1. f = From(f, 0)
      OBVIOUS
    <3> QED BY <2>2, <2>3, <3>1
  <2>4. CASE n # 0
    <3>1. n - 1 \in Nat /\ n - 1 \notin Undefined
      <4>1. n - 1 \in Nat /\ ~(n <= n - 1)
        BY <2>2, <2>4
      <4> HIDE DEF Undefined
      <4> QED BY <2>1, <4>1
    <3>2. PICK g : g = From(g, n - 1)
      BY <3>1
    <3> DEFINE f == [i \in 0 .. n |-> IF i = n THEN Guess(g[n - 1], Fields[n]) ELSE g[i]]
    <3>3. \A i \in 0 .. n - 1 : g[i] = IF i = 0 THEN Exact(headers) ELSE Guess(g[i - 1], Fields[i])
      BY <3>2
    <3>4. \A i \in 0 .. n : f[i] = IF i = 0 THEN Exact(headers) ELSE Guess(f[i - 1], Fields[i])
      BY <2>2, <2>4, <3>3
    <3>5. f = From(f, n)
      BY <3>4
    <3> QED BY <2>2, <3>5
  <2> QED BY <2>3, <2>4
<1>2. Len(Fields) \in Nat
  BY ImportAssumption
<1> DEFINE columns == CHOOSE f : f = From(f, Len(Fields))
<1>3. columns = From(columns, Len(Fields))
  BY <1>1, <1>2
<1>4. mapColumns(headers) = columns[Len(Fields)]
  BY DEF mapColumns
<1> HIDE DEF columns
<1>5. /\ columns[0] = Exact(headers)
      /\ \A i \in 1 .. Len(Fields) : columns[i] = Guess(columns[i - 1], Fields[i])
  BY <1>2, <1>3
<1> QED BY <1>4, <1>5

\* Whatever the headers of a file are, each is put to use or shown.
LEMMA AnyHeadersPutToUse ==
    ASSUME NEW headers \in Seq(HeaderCells)
    PROVE  AllPutToUse(headers)
<1>1. PICK columns : /\ mapColumns(headers) = columns[Len(Fields)]
                     /\ columns[0] = Exact(headers)
                     /\ \A i \in 1 .. Len(Fields) : columns[i] = Guess(columns[i - 1], Fields[i])
  BY FieldsGoThrough
<1> DEFINE Broken == {i \in 0 .. Len(Fields) : ~ColumnsInv(columns[i], headers, Len(headers))}
<1>2. Broken = {}
  <2> SUFFICES ASSUME Broken # {} PROVE FALSE
    OBVIOUS
  <2> DEFINE i == Min(Broken)
  <2>1. i \in Broken /\ \A j \in Broken : i <= j
    <3>1. Broken \in SUBSET Nat
      OBVIOUS
    <3> HIDE DEF Broken
    <3> QED BY <3>1, LeastNumber
  <2> HIDE DEF i
  <2>2. i \in 1 .. Len(Fields) /\ ~ColumnsInv(columns[i], headers, Len(headers))
    BY <1>1, <2>1, GoneThrough
  <2>3. ColumnsInv(columns[i - 1], headers, Len(headers))
    BY <2>1, <2>2
  <2>4. Fields[i] \in ToSet(Fields)
    BY <2>2, ImportAssumption DEF ToSet
  <2> QED BY <1>1, <2>2, <2>3, <2>4, GuessStep
<1> DEFINE c == mapColumns(headers)
           n == Len(headers)
<1>3. ColumnsInv(c, headers, n)
  <2>1. Len(Fields) \in 0 .. Len(Fields)
    BY ImportAssumption
  <2> QED BY <1>1, <1>2, <2>1
<1> HIDE DEF c
<1>4. DOMAIN headers = 1 .. n
  OBVIOUS
<1>5. ASSUME NEW h \in ToSet(headers), h.names # Unreadable
      PROVE  Cardinality({f \in ToSet(Fields) : c.best[f] = h}) + Times(c.rest, h) = Times(headers, h)
  <2>1. h \in Readable
    BY <1>5 DEF ToSet, Readable
  <2>2. Used(c, h) + Times(c.rest, h) = Copies(headers, n, h)
    BY <1>3, <2>1 DEF ColumnsInv, Balanced
  <2>3. Times(headers, h) = Copies(headers, n, h)
    BY <1>4 DEF Times, Copies
  <2> QED BY <2>2, <2>3 DEF Used
<1>6. ASSUME NEW f \in ToSet(Fields), {i \in DOMAIN headers : headers[i].names = f} # {}
      PROVE  /\ c.best[f].names = f
             /\ \A i \in DOMAIN headers : headers[i].names = f => c.best[f].rank <= headers[i].rank
  BY <1>3, <1>4, <1>6 DEF ColumnsInv, BestTaken
<1> QED BY <1>5, <1>6 DEF AllPutToUse, c

\* Every column of every file is put to use or shown as ignored, once, and by its
\* best name, however many columns and fields there are (mapColumns in csv.ts).
THEOREM EveryColumnCounts ==
    (\A headers \in Seq(HeaderCells) : AllPutToUse(headers)) /\ (Spec => []ColumnsAccounted)
<1>1. \A headers \in HeaderLists : headers \in Seq(HeaderCells)
  <2> SUFFICES ASSUME NEW n \in 1 .. 4, NEW headers \in [1 .. n -> HeaderCells]
               PROVE  headers \in Seq(HeaderCells)
    BY DEF HeaderLists
  <2>1. n \in Nat
    OBVIOUS
  <2> QED BY <2>1
<1>2. ColumnsAccounted
  BY <1>1, AnyHeadersPutToUse DEF ColumnsAccounted
<1>3. Spec => []ColumnsAccounted
  BY <1>2, PTL
<1> QED BY <1>3, AnyHeadersPutToUse

-----------------------------------------------------------------------------
(* Sorting: a set in the order of a relation. *)

StrictOrder(S, R) ==
    /\ \A x \in S : <<x, x>> \notin R
    /\ \A x, y, z \in S : <<x, y>> \in R /\ <<y, z>> \in R => <<x, z>> \in R
    /\ \A x, y \in S : x = y \/ <<x, y>> \in R \/ <<y, x>> \in R

\* A list of the members of a set, in the order of a relation.
Lists(list, S, R) ==
    /\ \E n \in Nat : list \in [1 .. n -> S]
    /\ \A k, l \in DOMAIN list : k < l => <<list[k], list[l]>> \in R
    /\ \A x \in S : \E k \in DOMAIN list : list[k] = x

\* Sorting, for any finite set and any strict order on it: who is before somebody has
\* fewer before him, so that the numbers of those before are all different.
LEMMA SortedLists ==
    ASSUME NEW S, IsFiniteSet(S), NEW R, StrictOrder(S, R)
    PROVE  Lists(Sorted(S, R), S, R) /\ DOMAIN Sorted(S, R) = 1 .. Cardinality(S)
<1> DEFINE n == Cardinality(S)
           ahead(x) == {y \in S : <<y, x>> \in R}
           place == [x \in S |-> Cardinality(ahead(x)) + 1]
           list == Sorted(S, R)
<1>1. n \in Nat
  BY FS_CardinalityType
<1>2. ASSUME NEW x \in S
      PROVE  IsFiniteSet(ahead(x)) /\ Cardinality(ahead(x)) \in Nat /\ Cardinality(ahead(x)) < n
  <2>1. /\ IsFiniteSet(S \ {x}) /\ Cardinality(S \ {x}) = n - 1
    BY FS_RemoveElement
  <2>2. ahead(x) \in SUBSET (S \ {x})
    BY DEF StrictOrder
  <2>3. IsFiniteSet(ahead(x)) /\ Cardinality(ahead(x)) <= n - 1
    <3> HIDE DEF ahead, n
    <3>1. IsFiniteSet(ahead(x)) /\ Cardinality(ahead(x)) <= Cardinality(S \ {x})
      BY <2>1, <2>2, FS_Subset
    <3> QED BY <2>1, <3>1
  <2>4. Cardinality(ahead(x)) \in Nat
    BY <2>3, FS_CardinalityType
  <2> HIDE DEF ahead, n
  <2> QED BY <1>1, <2>3, <2>4
<1>3. ASSUME NEW x \in S, NEW y \in S, <<x, y>> \in R
      PROVE  place[x] < place[y]
  <2>1. ahead(x) \in SUBSET ahead(y) /\ x \in ahead(y) /\ x \notin ahead(x)
    BY <1>3 DEF StrictOrder
  <2>2. /\ Cardinality(ahead(x)) <= Cardinality(ahead(y))
        /\ Cardinality(ahead(x)) # Cardinality(ahead(y))
    BY <1>2, <2>1, FS_Subset
  <2>3. Cardinality(ahead(x)) \in Nat /\ Cardinality(ahead(y)) \in Nat
    BY <1>2
  <2> HIDE DEF ahead
  <2> QED BY <2>2, <2>3
<1>4. place \in [S -> 1 .. n]
  <2> HIDE DEF ahead, n
  <2>1. ASSUME NEW x \in S PROVE Cardinality(ahead(x)) + 1 \in 1 .. n
    BY <1>1, <1>2
  <2> QED BY <2>1
<1> HIDE DEF place
<1>5. \A x, y \in S : place[x] = place[y] => x = y
  <2> TAKE x \in S, y \in S
  <2>1. place[x] \in Int /\ place[y] \in Int
    BY <1>4
  <2>2. x = y \/ place[x] < place[y] \/ place[y] < place[x]
    BY <1>3 DEF StrictOrder
  <2> QED BY <2>1, <2>2
<1>6. \A k \in 1 .. n : \E x \in S : place[x] = k
  <2>1. place \in Injection(S, 1 .. n)
    BY <1>4, <1>5 DEF Injection, IsInjective
  <2>2. IsFiniteSet(1 .. n) /\ Cardinality(1 .. n) = n
    <3> HIDE DEF n
    <3> QED BY <1>1, FS_Interval
  <2>3. place \in Surjection(S, 1 .. n)
    BY <2>1, <2>2, FS_Injection
  <2> QED BY <2>3 DEF Surjection
<1>7. ASSUME NEW k \in 1 .. n
      PROVE  list[k] \in S /\ place[list[k]] = k
  <2> DEFINE is(x) == Cardinality(ahead(x)) = k - 1
  <2>1. list[k] = CHOOSE x \in S : is(x)
    BY DEF Sorted
  <2>2. PICK x \in S : place[x] = k
    BY <1>6
  <2>3. ASSUME NEW y \in S PROVE is(y) <=> place[y] = k
    <3>1. place[y] = Cardinality(ahead(y)) + 1 /\ Cardinality(ahead(y)) \in Nat
      BY <1>2 DEF place
    <3> HIDE DEF ahead
    <3> QED BY <3>1
  <2>4. \E y \in S : is(y)
    BY <2>2, <2>3
  <2> HIDE DEF is
  <2>5. list[k] \in S /\ is(list[k])
    BY <2>1, <2>4
  <2> QED BY <2>3, <2>5
<1>8. DOMAIN list = 1 .. n
  BY DEF Sorted
<1>9. list \in [1 .. n -> S]
  <2> DEFINE at(k) == CHOOSE x \in S : Cardinality({y \in S : <<y, x>> \in R}) = k - 1
  <2>1. list = [k \in 1 .. n |-> at(k)]
    BY DEF Sorted
  <2> HIDE DEF list, n, at
  <2>2. \A k \in 1 .. n : list[k] = at(k)
    BY <2>1
  <2> QED BY <1>7, <2>1, <2>2
<1> HIDE DEF list, n
<1>10. ASSUME NEW k \in 1 .. n, NEW l \in 1 .. n, k < l
       PROVE  <<list[k], list[l]>> \in R
  <2>1. place[list[k]] = k /\ place[list[l]] = l /\ list[k] \in S /\ list[l] \in S
    BY <1>7
  <2>2. list[k] # list[l]
    BY <1>10, <2>1
  <2>3. <<list[l], list[k]>> \notin R
    <3>1. ~(l < k)
      BY <1>10
    <3> QED BY <1>3, <2>1, <3>1
  <2> QED BY <2>1, <2>2, <2>3 DEF StrictOrder
<1>11. ASSUME NEW x \in S PROVE \E k \in 1 .. n : list[k] = x
  <2>1. place[x] \in 1 .. n
    BY <1>4
  <2>2. list[place[x]] \in S /\ place[list[place[x]]] = place[x]
    BY <1>7, <2>1
  <2> QED BY <1>5, <2>1, <2>2
<1> QED BY <1>1, <1>8, <1>9, <1>10, <1>11 DEF Lists, list, n

\* Who is left of a list is in the order of the list.
LEMMA ThoseLists ==
    ASSUME NEW S, NEW R, NEW list, Lists(list, S, R), NEW A \in SUBSET S
    PROVE  Lists(Those(list, A), A, R)
<1> DEFINE places == {k \in DOMAIN list : list[k] \in A}
           earlier == {pair \in places \X places : pair[1] < pair[2]}
           order == Sorted(places, earlier)
           m == Cardinality(places)
           those == Those(list, A)
<1>1. PICK n \in Nat : list \in [1 .. n -> S]
  BY DEF Lists
<1>2. IsFiniteSet(places) /\ places \in SUBSET (1 .. n) /\ m \in Nat
  <2>1. IsFiniteSet(1 .. n)
    BY FS_Interval
  <2>2. places \in SUBSET (1 .. n)
    BY <1>1
  <2> HIDE DEF places
  <2> QED BY <2>1, <2>2, FS_Subset, FS_CardinalityType
<1>3. \A x, y \in places : <<x, y>> \in earlier <=> x < y
  OBVIOUS
<1>4. \A k \in places : list[k] \in A /\ k \in DOMAIN list
  OBVIOUS
<1>5. \A x \in A : \E k \in places : list[k] = x
  BY DEF Lists
<1>6. those = [k \in 1 .. m |-> list[order[k]]]
  BY DEF Those, Picked
<1> HIDE DEF places, earlier
<1>7. StrictOrder(places, earlier)
  <2>1. \A x \in places : x \in Int
    BY <1>2
  <2>2. \A x \in places : <<x, x>> \notin earlier
    BY <1>3, <2>1
  <2>3. \A x, y, z \in places : <<x, y>> \in earlier /\ <<y, z>> \in earlier => <<x, z>> \in earlier
    BY <1>3, <2>1
  <2>4. \A x, y \in places : x = y \/ <<x, y>> \in earlier \/ <<y, x>> \in earlier
    <3> TAKE x \in places, y \in places
    <3>1. x = y \/ x < y \/ y < x
      BY <2>1
    <3> QED BY <1>3, <3>1
  <2> QED BY <2>2, <2>3, <2>4 DEF StrictOrder
<1>8. Lists(order, places, earlier) /\ DOMAIN order = 1 .. m
  BY <1>2, <1>7, SortedLists
<1> HIDE DEF order, m, those
<1>9. /\ \A k \in 1 .. m : order[k] \in places
      /\ \A k, l \in 1 .. m : k < l => order[k] < order[l]
      /\ \A x \in places : \E k \in 1 .. m : order[k] = x
  <2>1. \A k \in 1 .. m : order[k] \in places
    BY <1>8 DEF Lists
  <2>2. \A k, l \in 1 .. m : k < l => <<order[k], order[l]>> \in earlier
    BY <1>8 DEF Lists
  <2> QED BY <1>3, <1>8, <2>1, <2>2 DEF Lists
<1>10. DOMAIN those = 1 .. m /\ those \in [1 .. m -> A]
  BY <1>4, <1>6, <1>9
<1>11. \A k, l \in 1 .. m : k < l => <<those[k], those[l]>> \in R
  <2> TAKE k \in 1 .. m, l \in 1 .. m
  <2> HAVE k < l
  <2>1. /\ order[k] \in DOMAIN list /\ order[l] \in DOMAIN list /\ order[k] < order[l]
        /\ those[k] = list[order[k]] /\ those[l] = list[order[l]]
    BY <1>4, <1>6, <1>9
  <2> QED BY <2>1 DEF Lists
<1>12. \A x \in A : \E k \in 1 .. m : those[k] = x
  <2> TAKE x \in A
  <2>1. PICK p \in places : list[p] = x
    BY <1>5
  <2>2. PICK k \in 1 .. m : order[k] = p
    BY <1>9
  <2> QED BY <1>6, <2>1, <2>2
<1> QED BY <1>2, <1>10, <1>11, <1>12 DEF Lists, those

-----------------------------------------------------------------------------
(* The sum over a set of rules. *)

\* The equation of the sum, one rule taken out after the other.
SumStep(f, s) ==
    IF s = {} THEN 0
    ELSE LET x == CHOOSE x \in s : TRUE IN Rules[x].points + f[s \ {x}]

IsTotal(f, S) == f = [s \in SUBSET S |-> SumStep(f, s)]

LEMMA SomeTotal ==
    ASSUME NEW S, IsFiniteSet(S)
    PROVE  \E f : IsTotal(f, S)
<1> DEFINE Small(n) == {s \in SUBSET S : Cardinality(s) <= n}
           Undefined == {n \in Nat : ~\E f : f = [s \in Small(n) |-> SumStep(f, s)]}
<1>1. \A s \in SUBSET S : IsFiniteSet(s) /\ Cardinality(s) \in Nat /\ Cardinality(s) <= Cardinality(S)
  BY FS_Subset, FS_CardinalityType
<1>2. Undefined = {}
  <2> SUFFICES ASSUME Undefined # {} PROVE FALSE
    OBVIOUS
  <2> DEFINE n == Min(Undefined)
  <2>1. n \in Undefined /\ \A m \in Undefined : n <= m
    BY LeastNumber
  <2> HIDE DEF n
  <2>2. n \in Nat /\ ~\E f : f = [s \in Small(n) |-> SumStep(f, s)]
    BY <2>1
  <2>3. CASE n = 0
    <3> DEFINE f == [s \in Small(0) |-> 0]
    <3>1. \A s \in Small(0) : s = {}
      BY <1>1, FS_EmptySet
    <3>2. \A s \in Small(0) : SumStep(f, s) = 0
      BY <3>1 DEF SumStep
    <3> HIDE DEF Small
    <3>3. f = [s \in Small(0) |-> SumStep(f, s)]
      BY <3>2
    <3> QED BY <2>2, <2>3, <3>3
  <2>4. CASE n # 0
    <3>1. n - 1 \in Nat /\ n - 1 \notin Undefined
      <4>1. n - 1 \in Nat /\ ~(n <= n - 1)
        BY <2>2, <2>4
      <4> HIDE DEF Undefined
      <4> QED BY <2>1, <4>1
    <3>2. PICK g : g = [s \in Small(n - 1) |-> SumStep(g, s)]
      BY <3>1
    <3> DEFINE f == [s \in Small(n) |-> SumStep(g, s)]
    <3>3. ASSUME NEW s \in Small(n), NEW x \in s
          PROVE  s \ {x} \in Small(n - 1) /\ s \ {x} \in Small(n)
      <4>1. /\ s \in SUBSET S /\ IsFiniteSet(s) /\ Cardinality(s) \in Nat /\ Cardinality(s) <= n
        BY <1>1
      <4>2. Cardinality(s \ {x}) = Cardinality(s) - 1
        BY <4>1, FS_RemoveElement
      <4>3. Cardinality(s \ {x}) <= n - 1 /\ Cardinality(s \ {x}) <= n
        BY <2>2, <4>1, <4>2
      <4> QED BY <4>1, <4>3
    <3> HIDE DEF Small
    <3>4. \A s \in Small(n - 1) : g[s] = SumStep(g, s)
      BY <3>2
    <3>5. \A s \in Small(n) : f[s] = SumStep(g, s)
      OBVIOUS
    <3> HIDE DEF f
    <3>6. ASSUME NEW s \in Small(n) PROVE SumStep(g, s) = SumStep(f, s)
      <4>1. CASE s = {}
        BY <4>1 DEF SumStep
      <4>2. CASE s # {}
        <5> DEFINE x == CHOOSE x \in s : TRUE
        <5>1. x \in s
          BY <4>2
        <5> HIDE DEF x
        <5>2. g[s \ {x}] = f[s \ {x}]
          BY <3>3, <3>4, <3>5, <5>1
        <5>3. \A h : SumStep(h, s) = Rules[x].points + h[s \ {x}]
          BY <4>2 DEF SumStep, x
        <5> QED BY <5>2, <5>3
      <4> QED BY <4>1, <4>2
    <3>7. f = [s \in Small(n) |-> SumStep(f, s)]
      BY <3>6 DEF f
    <3> QED BY <2>2, <3>7
  <2> QED BY <2>3, <2>4
<1>3. Cardinality(S) \in Nat
  BY FS_CardinalityType
<1>4. Small(Cardinality(S)) = SUBSET S
  BY <1>1
<1>5. ASSUME NEW n \in Nat PROVE \E f : f = [s \in Small(n) |-> SumStep(f, s)]
  BY <1>2
<1> HIDE DEF Small, Undefined
<1>6. \E f : f = [s \in Small(Cardinality(S)) |-> SumStep(f, s)]
  BY <1>3, <1>5
<1> QED BY <1>4, <1>6 DEF IsTotal

LEMMA RuleList ==
    /\ Len(Rules) \in Nat /\ DOMAIN Rules = 1 .. Len(Rules)
    /\ \A r \in DOMAIN Rules : Rules[r].points \in Int /\ Rules[r].disqualifies \in BOOLEAN
    /\ \A S \in SUBSET (DOMAIN Rules) : IsFiniteSet(S) /\ Cardinality(S) \in Nat
<1> DEFINE Rule == [match : SUBSET Traits, veto : SUBSET Traits, points : Int, disqualifies : BOOLEAN]
<1>1. Rules \in Seq(Rule)
  BY FinderAssumption
<1>2. \A rule \in Rule : rule.points \in Int /\ rule.disqualifies \in BOOLEAN
  OBVIOUS
<1> HIDE DEF Rule
<1>3. Len(Rules) \in Nat /\ DOMAIN Rules = 1 .. Len(Rules)
  BY <1>1
<1>4. \A r \in DOMAIN Rules : Rules[r] \in Rule
  BY <1>1
<1>5. IsFiniteSet(1 .. Len(Rules))
  BY <1>3, FS_Interval
<1>6. \A S \in SUBSET (DOMAIN Rules) : IsFiniteSet(S) /\ Cardinality(S) \in Nat
  BY <1>3, <1>5, FS_Subset, FS_CardinalityType
<1> QED BY <1>2, <1>3, <1>4, <1>6

\* The equation has one solution, and what it sums up are numbers.
LEMMA OneTotal ==
    ASSUME NEW S \in SUBSET (DOMAIN Rules), NEW T \in SUBSET (DOMAIN Rules), S \subseteq T,
           NEW f, IsTotal(f, S), NEW g, IsTotal(g, T)
    PROVE  \A s \in SUBSET S : f[s] = g[s] /\ g[s] \in Int
<1> DEFINE Agrees(s) == f[s] = g[s] /\ g[s] \in Int
           Bad == {n \in Nat : \E s \in SUBSET S : Cardinality(s) = n /\ ~Agrees(s)}
<1>1. /\ \A s \in SUBSET S : IsFiniteSet(s) /\ Cardinality(s) \in Nat
      /\ \A x \in DOMAIN Rules : Rules[x].points \in Int
  BY RuleList
<1>2. \A s \in SUBSET S : f[s] = SumStep(f, s) /\ g[s] = SumStep(g, s)
  BY Zenon DEF IsTotal
<1>3. Bad = {}
  <2> SUFFICES ASSUME Bad # {} PROVE FALSE
    OBVIOUS
  <2> DEFINE n == Min(Bad)
  <2>1. n \in Bad /\ \A m \in Bad : n <= m
    BY LeastNumber
  <2> HIDE DEF n
  <2>2. PICK s \in SUBSET S : Cardinality(s) = n /\ ~Agrees(s)
    BY <2>1
  <2>3. CASE s = {}
    <3>1. f[s] = 0 /\ g[s] = 0
      BY <1>2, <2>3 DEF SumStep
    <3> QED BY <2>2, <3>1
  <2>4. CASE s # {}
    <3> DEFINE x == CHOOSE x \in s : TRUE
    <3>1. x \in s
      BY <2>4
    <3>2. f[s] = Rules[x].points + f[s \ {x}] /\ g[s] = Rules[x].points + g[s \ {x}]
      BY <1>2, <2>4 DEF SumStep
    <3> HIDE DEF x
    <3>3. Agrees(s \ {x})
      <4>1. s \ {x} \in SUBSET S /\ Cardinality(s \ {x}) = n - 1
        BY <1>1, <2>2, <3>1, FS_RemoveElement
      <4>2. n \in Nat /\ n - 1 \in Nat /\ ~(n <= n - 1)
        BY <1>1, <2>2, <4>1
      <4>3. n - 1 \notin Bad
        <5> HIDE DEF Bad
        <5> QED BY <2>1, <4>2
      <4> HIDE DEF Agrees
      <4> QED BY <4>1, <4>2, <4>3
    <3>4. Rules[x].points \in Int
      BY <1>1, <3>1
    <3> QED BY <2>2, <3>2, <3>3, <3>4
  <2> QED BY <2>3, <2>4
<1> QED BY <1>1, <1>3

\* The sum over a set of rules is a number, and a rule may be taken out first
\* whichever it is: the order in which the rules are gone through does not matter.
LEMMA PointsAdd ==
    /\ PointsOf({}) = 0
    /\ \A S \in SUBSET (DOMAIN Rules) :
         /\ PointsOf(S) \in Int
         /\ \A x \in S : PointsOf(S) = Rules[x].points + PointsOf(S \ {x})
<1> DEFINE D == DOMAIN Rules
           total == CHOOSE g : IsTotal(g, D)
<1>1. IsFiniteSet(D) /\ \A S \in SUBSET D : IsFiniteSet(S) /\ Cardinality(S) \in Nat
  BY RuleList
<1>2. IsTotal(total, D)
  BY <1>1, SomeTotal
<1> HIDE DEF total
<1>3. ASSUME NEW S \in SUBSET D
      PROVE  PointsOf(S) = total[S] /\ total[S] \in Int
  <2> DEFINE f == CHOOSE g : IsTotal(g, S)
  <2>1. PointsOf(S) = f[S]
    BY DEF PointsOf, MapThenSumSet, MapThenFoldSet, SumStep, IsTotal
  <2>2. IsTotal(f, S)
    BY <1>1, SomeTotal
  <2> HIDE DEF f
  <2>3. f[S] = total[S] /\ total[S] \in Int
    <3>1. S \in SUBSET (DOMAIN Rules) /\ D \in SUBSET (DOMAIN Rules) /\ S \subseteq D
      OBVIOUS
    <3> HIDE DEF D
    <3>2. \A s \in SUBSET S : f[s] = total[s] /\ total[s] \in Int
      BY <1>2, <2>2, <3>1, OneTotal
    <3> QED BY <3>2
  <2> QED BY <2>1, <2>3
<1>4. /\ total[{}] = 0
      /\ \A s \in SUBSET D : s # {} =>
           \E x \in s : total[s] = Rules[x].points + total[s \ {x}]
  <2>1. \A s \in SUBSET D : total[s] = SumStep(total, s)
    BY <1>2, Zenon DEF IsTotal
  <2>2. total[{}] = 0
    BY <2>1 DEF SumStep
  <2>3. ASSUME NEW s \in SUBSET D, s # {}
        PROVE  \E x \in s : total[s] = Rules[x].points + total[s \ {x}]
    <3> DEFINE x == CHOOSE x \in s : TRUE
    <3>1. x \in s
      BY <2>3
    <3>2. total[s] = Rules[x].points + total[s \ {x}]
      BY <2>1, <2>3 DEF SumStep
    <3> QED BY <3>1, <3>2
  <2> QED BY <2>2, <2>3
<1> DEFINE SumsUp(s, x) == total[s] = Rules[x].points + total[s \ {x}]
           Bad == {n \in Nat : \E s \in SUBSET D : \E x \in s : Cardinality(s) = n /\ ~SumsUp(s, x)}
<1>5. Bad = {}
  <2> SUFFICES ASSUME Bad # {} PROVE FALSE
    OBVIOUS
  <2> DEFINE n == Min(Bad)
  <2>1. n \in Bad /\ \A m \in Bad : n <= m
    BY LeastNumber
  <2> HIDE DEF n
  <2>2. PICK s \in SUBSET D : \E x \in s : Cardinality(s) = n /\ ~SumsUp(s, x)
    BY <2>1
  <2>3. PICK x \in s : Cardinality(s) = n /\ ~SumsUp(s, x)
    BY <2>2
  <2>4. PICK c \in s : SumsUp(s, c)
    BY <1>4, <2>3
  <2>5. ASSUME NEW y \in s, NEW z \in s, y # z
        PROVE  SumsUp(s \ {y}, z)
    <3>1. /\ s \ {y} \in SUBSET D /\ z \in s \ {y} /\ Cardinality(s \ {y}) = n - 1
      BY <1>1, <2>3, <2>5, FS_RemoveElement
    <3>2. n \in Nat /\ n - 1 \in Nat /\ ~(n <= n - 1)
      BY <1>1, <2>3, <3>1
    <3>3. n - 1 \notin Bad
      <4> HIDE DEF Bad
      <4> QED BY <2>1, <3>2
    <3> HIDE DEF SumsUp
    <3> QED BY <3>1, <3>2, <3>3
  <2>6. x # c
    BY <2>3, <2>4
  <2>7. (s \ {c}) \ {x} = (s \ {x}) \ {c}
    OBVIOUS
  <2> DEFINE rest == total[(s \ {x}) \ {c}]
  <2>8. /\ total[s] = Rules[c].points + total[s \ {c}]
        /\ total[s \ {c}] = Rules[x].points + rest
        /\ total[s \ {x}] = Rules[c].points + rest
    BY <2>4, <2>5, <2>6, <2>7
  <2>9. /\ Rules[c].points \in Int /\ Rules[x].points \in Int /\ rest \in Int
    <3>1. (s \ {x}) \ {c} \in SUBSET D /\ x \in D /\ c \in D
      OBVIOUS
    <3>2. \A y \in D : Rules[y].points \in Int
      BY RuleList
    <3> QED BY <1>3, <3>1, <3>2
  <2> HIDE DEF rest
  <2>10. total[s] = Rules[x].points + total[s \ {x}]
    BY <2>8, <2>9
  <2> QED BY <2>3, <2>10
<1>6. ASSUME NEW S \in SUBSET D, NEW x \in S PROVE SumsUp(S, x)
  BY <1>1, <1>5
<1>7. ASSUME NEW S \in SUBSET D, NEW x \in S
      PROVE  PointsOf(S) = Rules[x].points + PointsOf(S \ {x})
  <2>1. PointsOf(S) = total[S] /\ PointsOf(S \ {x}) = total[S \ {x}]
    BY <1>3
  <2> QED BY <1>6, <2>1
<1>8. PointsOf({}) = 0
  BY <1>3, <1>4
<1> QED BY <1>3, <1>7, <1>8

Fired(traits) == {r \in DOMAIN Rules : Fires(Rules[r], traits)}

\* The loop over the rules adds up the points of those that fire.
LEMMA TallyIsSum ==
    ASSUME NEW traits
    PROVE  Tally(traits) = PointsOf(Fired(traits)) /\ Tally(traits) \in Int
<1> DEFINE N == Len(Rules)
           Step(f, r) == IF r = 0 THEN 0
                         ELSE IF Fires(Rules[r], traits) THEN f[r - 1] + Rules[r].points ELSE f[r - 1]
           From(f, n) == [r \in 0 .. n |-> Step(f, r)]
           Undefined == {n \in Nat : ~\E f : f = From(f, n)}
           upTo(r) == {q \in 1 .. r : Fires(Rules[q], traits)}
<1>1. Undefined = {}
  <2> SUFFICES ASSUME Undefined # {} PROVE FALSE
    OBVIOUS
  <2> DEFINE n == Min(Undefined)
  <2>1. n \in Undefined /\ \A m \in Undefined : n <= m
    BY LeastNumber
  <2> HIDE DEF n
  <2>2. n \in Nat /\ ~\E f : f = From(f, n)
    BY <2>1
  <2>3. CASE n = 0
    <3> DEFINE f == [r \in 0 .. 0 |-> 0]
    <3>1. f = From(f, 0)
      OBVIOUS
    <3> QED BY <2>2, <2>3, <3>1
  <2>4. CASE n # 0
    <3>1. n - 1 \in Nat /\ n - 1 \notin Undefined
      <4>1. n - 1 \in Nat /\ ~(n <= n - 1)
        BY <2>2, <2>4
      <4> HIDE DEF Undefined
      <4> QED BY <2>1, <4>1
    <3>2. PICK g : g = From(g, n - 1)
      BY <3>1
    <3> DEFINE f == [r \in 0 .. n |-> Step(g, r)]
    <3>3. \A r \in 0 .. n - 1 : g[r] = Step(g, r)
      BY <3>2
    <3>4. \A r \in 0 .. n : f[r] = Step(g, r)
      OBVIOUS
    <3> HIDE DEF f
    <3>5. \A r \in 0 .. n : Step(g, r) = Step(f, r)
      <4> TAKE r \in 0 .. n
      <4>1. CASE r = 0
        BY <4>1
      <4>2. CASE r # 0
        <5>1. r - 1 \in 0 .. n - 1 /\ r - 1 \in 0 .. n
          BY <2>2, <4>2
        <5> HIDE DEF Step
        <5>2. g[r - 1] = f[r - 1]
          BY <3>3, <3>4, <5>1
        <5> USE DEF Step
        <5> QED BY <4>2, <5>2
      <4> QED BY <4>1, <4>2
    <3> HIDE DEF Step
    <3>6. f = From(f, n)
      BY <3>5 DEF f
    <3> QED BY <2>2, <3>6
  <2> QED BY <2>3, <2>4
<1> DEFINE tally == CHOOSE f : f = From(f, N)
<1>2. N \in Nat /\ DOMAIN Rules = 1 .. N
  BY RuleList
<1>3. tally = From(tally, N)
  <2> HIDE DEF N, From
  <2>1. \E f : f = From(f, N)
    BY <1>1, <1>2
  <2> QED BY <2>1
<1>4. Tally(traits) = tally[N]
  BY DEF Tally
<1> HIDE DEF tally
<1>5. \A r \in 0 .. N : tally[r] = Step(tally, r)
  BY <1>3
<1> HIDE DEF N, From, Undefined
<1>6. \A r \in 0 .. N : upTo(r) \in SUBSET (DOMAIN Rules)
  BY <1>2
<1> DEFINE Sums(r) == tally[r] = PointsOf(upTo(r))
           Broken == {r \in 0 .. N : ~Sums(r)}
<1>7. Broken = {}
  <2> SUFFICES ASSUME Broken # {} PROVE FALSE
    OBVIOUS
  <2> DEFINE r == Min(Broken)
  <2>1. r \in Broken /\ \A q \in Broken : r <= q
    <3>1. Broken \in SUBSET Nat
      BY <1>2
    <3> HIDE DEF Broken
    <3> QED BY <3>1, LeastNumber
  <2> HIDE DEF r
  <2>2. r \in 0 .. N /\ r \in Nat /\ ~Sums(r)
    BY <1>2, <2>1
  <2>3. r # 0
    <3>1. SUFFICES ASSUME r = 0 PROVE FALSE
      OBVIOUS
    <3>2. upTo(r) = {} /\ tally[r] = 0
      BY <1>5, <2>2, <3>1
    <3> HIDE DEF upTo
    <3> QED BY <2>2, <3>2, PointsAdd
  <2>4. r - 1 \in 0 .. N /\ r - 1 < r /\ r \in DOMAIN Rules
    BY <1>2, <2>2, <2>3
  <2>5. Sums(r - 1)
    <3>1. r - 1 \notin Broken
      <4>1. ~(r <= r - 1)
        BY <2>2
      <4> HIDE DEF Broken
      <4> QED BY <2>1, <4>1
    <3> HIDE DEF Sums
    <3> QED BY <2>4, <3>1
  <2>6. CASE Fires(Rules[r], traits)
    <3>1. r \in upTo(r) /\ upTo(r) \ {r} = upTo(r - 1)
      BY <2>2, <2>4, <2>6
    <3>2. PointsOf(upTo(r)) = Rules[r].points + PointsOf(upTo(r - 1))
      <4> HIDE DEF upTo
      <4> QED BY <1>6, <2>2, <3>1, PointsAdd
    <3>3. tally[r] = tally[r - 1] + Rules[r].points
      BY <1>5, <2>2, <2>3, <2>6
    <3>4. Rules[r].points \in Int /\ PointsOf(upTo(r - 1)) \in Int
      <4> HIDE DEF upTo
      <4> QED BY <1>6, <2>4, RuleList, PointsAdd
    <3> HIDE DEF upTo
    <3> QED BY <2>2, <2>5, <3>2, <3>3, <3>4
  <2>7. CASE ~Fires(Rules[r], traits)
    <3>1. upTo(r) = upTo(r - 1)
      BY <2>2, <2>7
    <3>2. tally[r] = tally[r - 1]
      BY <1>5, <2>2, <2>3, <2>7
    <3> HIDE DEF upTo
    <3> QED BY <2>2, <2>5, <3>1, <3>2
  <2> QED BY <2>6, <2>7
<1>8. Sums(N)
  <2> HIDE DEF Sums
  <2> QED BY <1>2, <1>7
<1>9. upTo(N) = Fired(traits)
  BY <1>2 DEF Fired
<1>10. PointsOf(upTo(N)) \in Int
  <2> HIDE DEF upTo
  <2> QED BY <1>2, <1>6, PointsAdd
<1> QED BY <1>4, <1>8, <1>9, <1>10

-----------------------------------------------------------------------------
(* The score, the band and the ranking. *)

RankOf(band) == CHOOSE n \in DOMAIN Bands : Bands[n] = band

Clamped(points) == Max({0, Min({100, points})})

\* A score is kept between 0 and 100, and more points never make it less.
LEMMA ClampedRises ==
    /\ \A p \in Int : Clamped(p) \in Int /\ 0 <= Clamped(p) /\ Clamped(p) <= 100
    /\ \A p, q \in Int : p >= q => Clamped(p) >= Clamped(q)
<1> DEFINE least(p) == Min({100, p})
<1>1. ASSUME NEW p \in Int
      PROVE  Clamped(p) = IF p < 0 THEN 0 ELSE IF p > 100 THEN 100 ELSE p
  <2> DEFINE m == IF p > 100 THEN 100 ELSE p
             M == IF m < 0 THEN 0 ELSE m
  <2>1. m \in {100, p} /\ m \in Int /\ \A x \in {100, p} : m <= x
    OBVIOUS
  <2>2. \A x \in {100, p} : (\A y \in {100, p} : x <= y) => x = m
    OBVIOUS
  <2> HIDE DEF m
  <2>3. least(p) = m
    BY <2>1, <2>2 DEF Min
  <2>4. M \in {0, m} /\ \A x \in {0, m} : M >= x
    BY <2>1
  <2>5. \A x \in {0, m} : (\A y \in {0, m} : x >= y) => x = M
    BY <2>1
  <2> HIDE DEF M
  <2>6. Max({0, m}) = M
    BY <2>4, <2>5 DEF Max
  <2> QED BY <2>3, <2>6 DEF Clamped, m, M
<1> QED BY <1>1

\* Whatever the cuts are: more points never lead to a lower band.
LEMMA BandsFall ==
    ASSUME NEW hot \in Int, NEW warm \in Int, NEW cool \in Int
    PROVE  /\ \A p \in Int : /\ BandOf(p, hot, warm, cool) \in ToSet(Bands)
                             /\ BandOf(p, hot, warm, cool) # "Disqualified"
           /\ \A p, q \in Int : p >= q =>
                RankOf(BandOf(p, hot, warm, cool)) <= RankOf(BandOf(q, hot, warm, cool))
<1>1. DOMAIN Bands = 1 .. 4 /\ ToSet(Bands) = {"Hot", "Warm", "Cool", "Out"}
  <2>1. /\ DOMAIN Bands = 1 .. 4 /\ Bands[1] = "Hot" /\ Bands[2] = "Warm"
        /\ Bands[3] = "Cool" /\ Bands[4] = "Out"
    BY DEF Bands
  <2>2. ToSet(Bands) = {Bands[n] : n \in 1 .. 4}
    BY <2>1 DEF ToSet
  <2>3. \A n \in 1 .. 4 : n = 1 \/ n = 2 \/ n = 3 \/ n = 4
    OBVIOUS
  <2> QED BY <2>1, <2>2, <2>3
<1>2. ASSUME NEW n \in 1 .. 4 PROVE RankOf(Bands[n]) = n
  <2>1. /\ DOMAIN Bands = 1 .. 4 /\ Bands[1] = "Hot" /\ Bands[2] = "Warm"
        /\ Bands[3] = "Cool" /\ Bands[4] = "Out"
    BY DEF Bands
  <2>2. \A m \in 1 .. 4 : Bands[m] = Bands[n] => m = n
    BY <2>1
  <2> QED BY <2>1, <2>2 DEF RankOf
<1>3. RankOf("Hot") = 1 /\ RankOf("Warm") = 2 /\ RankOf("Cool") = 3 /\ RankOf("Out") = 4
  BY <1>2 DEF Bands
<1>4. \A p \in Int : /\ BandOf(p, hot, warm, cool) \in {"Hot", "Warm", "Cool", "Out"}
                     /\ BandOf(p, hot, warm, cool) # "Disqualified"
  BY DEF BandOf
<1>5. ASSUME NEW p \in Int, NEW q \in Int, p >= q
      PROVE  RankOf(BandOf(p, hot, warm, cool)) <= RankOf(BandOf(q, hot, warm, cool))
  <2>1. CASE p >= hot
    <3>1. BandOf(p, hot, warm, cool) = "Hot"
      BY <2>1 DEF BandOf
    <3>2. \A b \in {"Hot", "Warm", "Cool", "Out"} : 1 <= RankOf(b)
      BY <1>3
    <3> QED BY <1>3, <1>4, <3>1, <3>2
  <2>2. CASE p < hot /\ p >= warm
    <3>1. BandOf(p, hot, warm, cool) = "Warm" /\ BandOf(q, hot, warm, cool) \in {"Warm", "Cool", "Out"}
      BY <1>5, <2>2 DEF BandOf
    <3> QED BY <1>3, <3>1
  <2>3. CASE p < hot /\ p < warm /\ p >= cool
    <3>1. BandOf(p, hot, warm, cool) = "Cool" /\ BandOf(q, hot, warm, cool) \in {"Cool", "Out"}
      BY <1>5, <2>3 DEF BandOf
    <3> QED BY <1>3, <3>1
  <2>4. CASE p < hot /\ p < warm /\ p < cool
    <3>1. BandOf(p, hot, warm, cool) = "Out" /\ BandOf(q, hot, warm, cool) = "Out"
      BY <1>5, <2>4 DEF BandOf
    <3> QED BY <1>3, <3>1
  <2> QED BY <2>1, <2>2, <2>3, <2>4
<1> QED BY <1>1, <1>4, <1>5

IsOut(traits) == \E r \in Fired(traits) : Rules[r].disqualifies

\* What scoring makes of anybody.
LEMMA Scored ==
    ASSUME NEW traits
    PROVE  LET s == scoreLead(traits)
           IN /\ s = [points |-> s.points, score |-> s.score, band |-> s.band]
              /\ s.points \in Int /\ 0 <= s.score
              /\ IsOut(traits) => s.band = "Disqualified"
              /\ ~IsOut(traits) =>
                   /\ s.points = PointsOf(Fired(traits))
                   /\ s.band = BandOf(Clamped(s.points), HotAt, WarmAt, CoolAt)
<1> DEFINE out == \E i \in DOMAIN Rules : Rules[i].disqualifies /\ Fires(Rules[i], traits)
           points == IF out THEN 0 ELSE Tally(traits)
           s == scoreLead(traits)
<1>1. out <=> IsOut(traits)
  BY DEF IsOut, Fired
<1>2. Tally(traits) = PointsOf(Fired(traits)) /\ Tally(traits) \in Int
  BY TallyIsSum
<1>3. s = [points |-> points, score |-> Clamped(points),
           band |-> IF out THEN "Disqualified" ELSE BandOf(Clamped(points), HotAt, WarmAt, CoolAt)]
  BY DEF scoreLead, Clamped
<1> HIDE DEF out, s
<1>4. points \in Int
  BY <1>2
<1>5. 0 <= Clamped(points)
  <2> HIDE DEF points
  <2> QED BY <1>4, ClampedRises
<1> QED BY <1>1, <1>2, <1>3, <1>4, <1>5 DEF s

\* Everybody has one place in the ranking.
LEMMA RankingLists ==
    ASSUME NEW n \in Nat, NEW scores, DOMAIN scores = 1 .. n,
           \A i \in 1 .. n : scores[i].points \in Int
    PROVE  Lists(Ranking(scores), 1 .. n, Outranks(scores))
<1> DEFINE at(i) == scores[i].points
           ahead(i, j) == at(i) > at(j) \/ (at(i) = at(j) /\ i < j)
<1>1. \A i, j \in 1 .. n : <<i, j>> \in Outranks(scores) <=> ahead(i, j)
  BY DEF Outranks
<1>2. \A i \in 1 .. n : at(i) \in Int /\ i \in Int
  OBVIOUS
<1> HIDE DEF at
<1>3. \A i \in 1 .. n : ~ahead(i, i)
  BY <1>2
<1>4. \A i, j, k \in 1 .. n : ahead(i, j) /\ ahead(j, k) => ahead(i, k)
  BY <1>2
<1>5. \A i, j \in 1 .. n : i = j \/ ahead(i, j) \/ ahead(j, i)
  BY <1>2
<1> HIDE DEF ahead
<1>6. StrictOrder(1 .. n, Outranks(scores))
  BY <1>1, <1>3, <1>4, <1>5, Zenon DEF StrictOrder
<1>7. IsFiniteSet(1 .. n)
  BY FS_Interval
<1> QED BY <1>6, <1>7, SortedLists DEF Ranking

-----------------------------------------------------------------------------
(* The two files. *)

Everybody(people) == {i \in DOMAIN people : ~IsOut(people[i])}

\* The bands follow the points, as far as these people go.
BandsFollow(people, A, band) ==
    \A i, j \in A : PointsOf(Fired(people[i])) >= PointsOf(Fired(people[j])) =>
                      RankOf(band[i]) <= RankOf(band[j])

LEMMA PeopleScores ==
    ASSUME NEW n \in Nat, NEW people \in [1 .. n -> SUBSET Traits]
    PROVE  /\ DOMAIN Scores(people) = 1 .. n
           /\ \A i \in 1 .. n : LET s == Scores(people)[i]
                              IN /\ s = [points |-> s.points, score |-> s.score, band |-> s.band]
                                 /\ s.points \in Int /\ 0 <= s.score
           /\ \A i \in 1 .. n : i \in Everybody(people) <=> IsLive(Scores(people)[i])
           /\ \A i \in Everybody(people) :
                /\ Scores(people)[i].points = PointsOf(Fired(people[i]))
                /\ Scores(people)[i].band = BandOf(Clamped(Scores(people)[i].points), HotAt, WarmAt, CoolAt)
<1>1. /\ HotAt \in Int /\ WarmAt \in Int /\ CoolAt \in Int
  BY FinderAssumption
<1>2. DOMAIN people = 1 .. n
  OBVIOUS
<1>3. DOMAIN Scores(people) = 1 .. n /\ \A i \in 1 .. n : Scores(people)[i] = scoreLead(people[i])
  BY <1>2 DEF Scores
<1>4. ASSUME NEW i \in 1 .. n
      PROVE  LET s == Scores(people)[i]
             IN /\ s = [points |-> s.points, score |-> s.score, band |-> s.band]
                /\ s.points \in Int /\ 0 <= s.score
                /\ ~IsOut(people[i]) <=> IsLive(s)
                /\ ~IsOut(people[i]) =>
                     /\ s.points = PointsOf(Fired(people[i]))
                     /\ s.band = BandOf(Clamped(s.points), HotAt, WarmAt, CoolAt)
  <2> DEFINE s == Scores(people)[i]
  <2>1. s = scoreLead(people[i])
    BY <1>3
  <2>2. /\ s = [points |-> s.points, score |-> s.score, band |-> s.band]
        /\ s.points \in Int /\ 0 <= s.score
        /\ IsOut(people[i]) => s.band = "Disqualified"
        /\ ~IsOut(people[i]) =>
             /\ s.points = PointsOf(Fired(people[i]))
             /\ s.band = BandOf(Clamped(s.points), HotAt, WarmAt, CoolAt)
    BY <2>1, Scored
  <2>3. \A p \in Int : BandOf(Clamped(p), HotAt, WarmAt, CoolAt) # "Disqualified"
    <3>1. \A p \in Int : Clamped(p) \in Int
      BY ClampedRises
    <3> QED BY <1>1, <3>1, BandsFall
  <2> HIDE DEF s
  <2>4. ~IsOut(people[i]) <=> IsLive(s)
    BY <2>2, <2>3 DEF IsLive
  <2> QED BY <2>2, <2>4 DEF s
<1> QED BY <1>2, <1>3, <1>4 DEF Everybody

\* The first so many of a list of people who are not out is a file in order.
LEMMA FileOfList ==
    ASSUME NEW n \in Nat, NEW people \in [1 .. n -> SUBSET Traits], NEW bands,
           NEW A \in SUBSET Everybody(people), NEW band, \A i \in A : band[i] \in bands,
           BandsFollow(people, A, band),
           NEW order, Lists(order, A, Outranks(Scores(people))),
           NEW file, DOMAIN file \subseteq DOMAIN order,
           \A k \in DOMAIN file : file[k] = [person |-> order[k], band |-> band[order[k]]]
    PROVE  InOrder(file, people, bands)
<1> DEFINE scores == Scores(people)
           D == DOMAIN order
<1>1. Everybody(people) \subseteq 1 .. n
  BY DEF Everybody
<1>2. \A k \in D : order[k] \in A
  BY DEF Lists
<1>3. ASSUME NEW k \in D, NEW l \in D, k < l
      PROVE  /\ order[k] # order[l]
             /\ PointsOf(Fired(people[order[k]])) >= PointsOf(Fired(people[order[l]]))
  <2>1. <<order[k], order[l]>> \in Outranks(scores)
    BY <1>3 DEF Lists
  <2> DEFINE i == order[k]
             j == order[l]
  <2>2. i \in Everybody(people) /\ j \in Everybody(people) /\ i \in 1 .. n /\ j \in 1 .. n
    BY <1>1, <1>2
  <2> HIDE DEF i, j
  <2>3. scores[i].points > scores[j].points \/ (scores[i].points = scores[j].points /\ i < j)
    BY <2>1 DEF Outranks, i, j
  <2>4. /\ scores[i].points = PointsOf(Fired(people[i])) /\ scores[j].points = PointsOf(Fired(people[j]))
        /\ scores[i].points \in Int /\ scores[j].points \in Int
    BY <2>2, PeopleScores
  <2> HIDE DEF scores
  <2>5. i # j /\ scores[i].points >= scores[j].points
    BY <2>2, <2>3, <2>4
  <2> QED BY <2>4, <2>5 DEF i, j
<1>4. \A k \in DOMAIN file : k \in D /\ file[k].person = order[k] /\ file[k].band = band[order[k]]
  OBVIOUS
<1>5. ASSUME NEW k \in DOMAIN file
      PROVE  /\ \A r \in Fired(people[file[k].person]) : ~Rules[r].disqualifies
             /\ file[k].band \in bands
  <2>1. order[k] \in A /\ order[k] \in Everybody(people)
    BY <1>2, <1>4
  <2>2. ~IsOut(people[order[k]])
    BY <2>1 DEF Everybody
  <2> QED BY <1>4, <2>1, <2>2 DEF IsOut
<1>6. ASSUME NEW k \in DOMAIN file, NEW l \in DOMAIN file, k < l
      PROVE  /\ file[k].person # file[l].person
             /\ PointsOf(Fired(people[file[k].person])) >= PointsOf(Fired(people[file[l].person]))
             /\ RankOf(file[k].band) <= RankOf(file[l].band)
  <2>1. /\ order[k] \in A /\ order[l] \in A /\ order[k] # order[l]
        /\ PointsOf(Fired(people[order[k]])) >= PointsOf(Fired(people[order[l]]))
    BY <1>2, <1>3, <1>4, <1>6
  <2>2. RankOf(band[order[k]]) <= RankOf(band[order[l]])
    BY <2>1 DEF BandsFollow
  <2> QED BY <1>4, <2>1, <2>2
<1> QED BY <1>5, <1>6, Zenon DEF InOrder, Fired, RankOf

-----------------------------------------------------------------------------
(* The cuts, and the file of find-leads. *)

LEMMA CutsAreNumbers ==
    ASSUME NEW m \in Nat, m # 0, NEW p \in {15, 40, 70}
    PROVE  Min({m, 1 + (m * p) \div 100}) \in 1 .. m
<1> DEFINE at == 1 + (m * p) \div 100
<1>1. at \in Nat /\ at >= 1
  <2>1. CASE p = 15
    BY <2>1
  <2>2. CASE p = 40
    BY <2>2
  <2>3. CASE p = 70
    BY <2>3
  <2> QED BY <2>1, <2>2, <2>3
<1> HIDE DEF at
<1>2. {m, at} \in SUBSET Nat /\ {m, at} # {}
  BY <1>1
<1>3. Min({m, at}) \in {m, at} /\ Min({m, at}) <= m
  BY <1>2, LeastNumber
<1> QED BY <1>1, <1>3 DEF at

\* Calibrated or not: who is out stays out, and the bands of the others follow their points.
FinalBands(people, final) ==
    /\ DOMAIN final = DOMAIN people
    /\ \A i \in DOMAIN people : i \notin Everybody(people) => final[i].band = "Disqualified"
    /\ \A i \in Everybody(people) : final[i].band \in ToSet(Bands)
    /\ BandsFollow(people, Everybody(people), [i \in DOMAIN people |-> final[i].band])

LEMMA ScoredBands ==
    ASSUME NEW n \in Nat, NEW people \in [1 .. n -> SUBSET Traits]
    PROVE  FinalBands(people, Scores(people))
<1> DEFINE scores == Scores(people)
<1>1. /\ HotAt \in Int /\ WarmAt \in Int /\ CoolAt \in Int
  BY FinderAssumption
<1>2. /\ DOMAIN people = 1 .. n /\ DOMAIN scores = 1 .. n /\ Everybody(people) \subseteq 1 .. n
      /\ \A i \in 1 .. n : scores[i].points \in Int
      /\ \A i \in 1 .. n : i \in Everybody(people) <=> IsLive(scores[i])
      /\ \A i \in Everybody(people) :
           /\ scores[i].points = PointsOf(Fired(people[i]))
           /\ scores[i].band = BandOf(Clamped(scores[i].points), HotAt, WarmAt, CoolAt)
  BY PeopleScores DEF Everybody
<1> HIDE DEF scores
<1>3. \A p \in Int : Clamped(p) \in Int
  BY ClampedRises
<1>4. \A i \in Everybody(people) : scores[i].band \in ToSet(Bands)
  BY <1>1, <1>2, <1>3, BandsFall
<1>5. \A i \in 1 .. n : i \notin Everybody(people) => scores[i].band = "Disqualified"
  BY <1>2 DEF IsLive
<1>6. ASSUME NEW i \in Everybody(people), NEW j \in Everybody(people),
             PointsOf(Fired(people[i])) >= PointsOf(Fired(people[j]))
      PROVE  RankOf(scores[i].band) <= RankOf(scores[j].band)
  <2>1. /\ scores[i].points \in Int /\ scores[j].points \in Int
        /\ scores[i].points >= scores[j].points
    BY <1>2, <1>6
  <2>2. /\ Clamped(scores[i].points) \in Int /\ Clamped(scores[j].points) \in Int
        /\ Clamped(scores[i].points) >= Clamped(scores[j].points)
    BY <1>3, <2>1, ClampedRises
  <2> QED BY <1>1, <1>2, <2>2, BandsFall
<1>7. \A i \in 1 .. n : [k \in DOMAIN people |-> scores[k].band][i] = scores[i].band
  BY <1>2
<1> QED BY <1>2, <1>4, <1>5, <1>6, <1>7 DEF FinalBands, BandsFollow, scores

LEMMA CalibratedBands ==
    ASSUME NEW n \in Nat, NEW people \in [1 .. n -> SUBSET Traits], Everybody(people) # {}
    PROVE  FinalBands(people, Calibrate(Scores(people)))
<1> DEFINE scores == Scores(people)
           final == Calibrate(scores)
           live == Those(Ranking(scores), {i \in DOMAIN scores : IsLive(scores[i])})
           at(p) == Min({Len(live), 1 + (Len(live) * p) \div 100})
           cut == [p \in {15, 40, 70} |-> scores[live[at(p)]].points]
<1>1. /\ DOMAIN people = 1 .. n /\ DOMAIN scores = 1 .. n /\ Everybody(people) \subseteq 1 .. n
      /\ \A i \in 1 .. n : /\ scores[i] = [points |-> scores[i].points, score |-> scores[i].score,
                                           band |-> scores[i].band]
                           /\ scores[i].points \in Int
      /\ \A i \in 1 .. n : i \in Everybody(people) <=> IsLive(scores[i])
      /\ \A i \in Everybody(people) : scores[i].points = PointsOf(Fired(people[i]))
  BY PeopleScores DEF Everybody
<1>2. final = [i \in DOMAIN scores |-> Calibrated(scores[i], cut)]
  BY DEF Calibrate
<1>3. Lists(live, Everybody(people), Outranks(scores))
  <2>1. {i \in DOMAIN scores : IsLive(scores[i])} = Everybody(people)
    BY <1>1
  <2>2. Lists(Ranking(scores), 1 .. n, Outranks(scores))
    BY <1>1, RankingLists
  <2> QED BY <1>1, <2>1, <2>2, ThoseLists
<1>4. PICK m \in Nat : live \in [1 .. m -> Everybody(people)]
  BY <1>3 DEF Lists
<1>5. m # 0 /\ Len(live) = m
  <2> HIDE DEF live
  <2>1. \A x \in Everybody(people) : \E k \in DOMAIN live : live[k] = x
    BY <1>3 DEF Lists
  <2>2. 1 .. m # {}
    BY <1>4, <2>1
  <2>3. DOMAIN live = 1 .. m
    BY <1>4
  <2> QED BY <1>4, <2>2, <2>3
<1> HIDE DEF scores, final, live
<1>6. \A p \in {15, 40, 70} : cut[p] \in Int
  <2> TAKE p \in {15, 40, 70}
  <2>1. at(p) \in 1 .. m
    BY <1>5, CutsAreNumbers
  <2> HIDE DEF at
  <2>2. live[at(p)] \in 1 .. n
    BY <1>1, <1>4, <2>1
  <2> QED BY <1>1, <2>2
<1> HIDE DEF cut, at
<1> DEFINE hot == cut[15]  warm == cut[40]  cool == cut[70]
<1>7. hot \in Int /\ warm \in Int /\ cool \in Int
  BY <1>6
<1>8. /\ DOMAIN final = 1 .. n
      /\ \A i \in 1 .. n : i \notin Everybody(people) => final[i].band = "Disqualified"
      /\ \A i \in Everybody(people) : final[i].band = BandOf(scores[i].points, hot, warm, cool)
  <2>1. DOMAIN final = 1 .. n /\ \A i \in 1 .. n : final[i] = Calibrated(scores[i], cut)
    BY <1>1, <1>2
  <2>2. ASSUME NEW i \in 1 .. n, i \notin Everybody(people) PROVE final[i].band = "Disqualified"
    <3>1. ~IsLive(scores[i])
      BY <1>1, <2>2
    <3> QED BY <2>1, <3>1 DEF Calibrated, IsLive
  <2>3. ASSUME NEW i \in Everybody(people)
        PROVE  final[i].band = BandOf(scores[i].points, hot, warm, cool)
    <3>1. i \in 1 .. n /\ IsLive(scores[i])
      BY <1>1
    <3>2. final[i] = [scores[i] EXCEPT !.band = BandOf(scores[i].points, hot, warm, cool)]
      BY <2>1, <3>1 DEF Calibrated
    <3> HIDE DEF hot, warm, cool
    <3>3. \A s, b : s = [points |-> s.points, score |-> s.score, band |-> s.band] =>
                     [s EXCEPT !.band = b].band = b
      OBVIOUS
    <3> QED BY <1>1, <3>1, <3>2, <3>3
  <2> QED BY <2>1, <2>2, <2>3
<1> HIDE DEF hot, warm, cool
<1>9. \A i \in Everybody(people) : final[i].band \in ToSet(Bands)
  BY <1>1, <1>7, <1>8, BandsFall
<1>10. ASSUME NEW i \in Everybody(people), NEW j \in Everybody(people),
              PointsOf(Fired(people[i])) >= PointsOf(Fired(people[j]))
       PROVE  RankOf(final[i].band) <= RankOf(final[j].band)
  <2>1. /\ scores[i].points \in Int /\ scores[j].points \in Int
        /\ scores[i].points >= scores[j].points
    BY <1>1, <1>10
  <2>2. RankOf(BandOf(scores[i].points, hot, warm, cool)) <= RankOf(BandOf(scores[j].points, hot, warm, cool))
    BY <1>7, <2>1, BandsFall
  <2> QED BY <1>8, <2>2
<1>11. \A i \in 1 .. n : [k \in DOMAIN people |-> final[k].band][i] = final[i].band
  BY <1>1
<1> QED BY <1>1, <1>8, <1>9, <1>10, <1>11 DEF FinalBands, BandsFollow, final, scores

LEMMA OutIsNoBand ==
    "Disqualified" \notin ToSet(Bands) /\ "Hot" \in ToSet(Bands)
<1>1. /\ DOMAIN Bands = 1 .. 4 /\ Bands[1] = "Hot" /\ Bands[2] = "Warm"
      /\ Bands[3] = "Cool" /\ Bands[4] = "Out"
  BY DEF Bands
<1>2. \A n \in 1 .. 4 : n = 1 \/ n = 2 \/ n = 3 \/ n = 4
  OBVIOUS
<1>3. ToSet(Bands) = {Bands[n] : n \in 1 .. 4}
  BY <1>1 DEF ToSet
<1> QED BY <1>1, <1>2, <1>3

\* The file of find-leads is in order, and holds everybody where all bands are asked for.
LEMMA FoundInOrder ==
    ASSUME NEW n \in Nat, NEW people \in [1 .. n -> SUBSET Traits], NEW bands \in SUBSET ToSet(Bands),
           NEW calibrate \in BOOLEAN, ~CalibrationFails(people, calibrate)
    PROVE  LET found == FoundFile(people, calibrate, bands)
           IN /\ InOrder(found, people, bands)
              /\ bands = ToSet(Bands) =>
                   {found[k].person : k \in DOMAIN found} = Everybody(people)
<1> DEFINE scores == Scores(people)
           final == IF Calibrates(people, calibrate) THEN Calibrate(scores) ELSE scores
           A == {i \in DOMAIN scores : final[i].band \in bands}
           band == [i \in DOMAIN people |-> final[i].band]
           order == Those(Ranking(scores), A)
           found == FoundFile(people, calibrate, bands)
<1>1. /\ DOMAIN people = 1 .. n /\ DOMAIN scores = 1 .. n /\ Everybody(people) \subseteq 1 .. n
      /\ \A i \in 1 .. n : scores[i].points \in Int
      /\ \A i \in 1 .. n : i \in Everybody(people) <=> IsLive(scores[i])
      /\ \A i \in 1 .. n : scores[i] = scoreLead(people[i])
  BY PeopleScores DEF Everybody, Scores
<1>2. FinalBands(people, final)
  <2>1. CASE ~Calibrates(people, calibrate)
    BY <2>1, ScoredBands
  <2>2. CASE Calibrates(people, calibrate)
    <3>1. Everybody(people) # {}
      <4> HIDE DEF scores
      <4> QED BY <1>1, <2>2 DEF CalibrationFails
    <3>2. FinalBands(people, Calibrate(scores))
      BY <3>1, CalibratedBands
    <3> QED BY <2>2, <3>2
  <2> QED BY <2>1, <2>2
<1>3. found = [k \in DOMAIN order |-> [person |-> order[k], band |-> final[order[k]].band]]
  BY DEF FoundFile
<1>4. Lists(Ranking(scores), 1 .. n, Outranks(scores))
  BY <1>1, RankingLists
<1> HIDE DEF final, found
<1>5. A \in SUBSET (1 .. n)
  BY <1>1
<1>6. Lists(order, A, Outranks(scores))
  <2> HIDE DEF A, scores
  <2> QED BY <1>4, <1>5, ThoseLists
<1>7. A \in SUBSET Everybody(people)
  <2>1. "Disqualified" \notin ToSet(Bands)
    BY OutIsNoBand
  <2> HIDE DEF scores
  <2>2. \A i \in 1 .. n : final[i].band \in bands => i \in Everybody(people)
    BY <1>1, <1>2, <2>1 DEF FinalBands
  <2> QED BY <1>1, <2>2
<1>8. \A i \in A : band[i] = final[i].band /\ band[i] \in bands
  BY <1>1
<1>9. BandsFollow(people, A, band)
  <2> HIDE DEF A
  <2>1. BandsFollow(people, Everybody(people), band)
    BY <1>2, Zenon DEF FinalBands
  <2> HIDE DEF band
  <2> QED BY <1>7, <2>1 DEF BandsFollow
<1>10. bands = ToSet(Bands) => A = Everybody(people)
  <2> HIDE DEF scores
  <2>1. \A i \in Everybody(people) : i \in 1 .. n /\ final[i].band \in ToSet(Bands)
    BY <1>1, <1>2 DEF FinalBands
  <2> QED BY <1>1, <1>7, <2>1
<1> HIDE DEF A, order
<1>11. /\ DOMAIN found = DOMAIN order /\ \A k \in DOMAIN order : order[k] \in A
       /\ \A k \in DOMAIN found : found[k] = [person |-> order[k], band |-> band[order[k]]]
  <2>1. \A k \in DOMAIN order : order[k] \in A
    BY <1>6 DEF Lists
  <2> HIDE DEF band
  <2> QED BY <1>3, <1>8, <2>1
<1> HIDE DEF band
<1>12. InOrder(found, people, bands)
  <2>1. DOMAIN found \subseteq DOMAIN order
    BY <1>11
  <2> QED BY <1>6, <1>7, <1>8, <1>9, <1>11, <2>1, FileOfList
<1>13. {found[k].person : k \in DOMAIN found} = A
  <2>1. \A k \in DOMAIN found : found[k].person = order[k] /\ order[k] \in A
    BY <1>11
  <2>2. \A i \in A : \E k \in DOMAIN order : order[k] = i
    BY <1>6 DEF Lists
  <2> QED BY <1>11, <2>1, <2>2
<1> QED BY <1>10, <1>12, <1>13 DEF found

\* The file of qualify-leads is in order, and whom it leaves out is outranked by all
\* whom it takes.
LEMMA QualifiedInOrder ==
    ASSUME NEW n \in Nat, NEW people \in [1 .. n -> SUBSET Traits], NEW bands \in SUBSET ToSet(Bands),
           NEW top \in Nat
    PROVE  LET best == QualifiedFile(people, bands, 0, top)
               taken == {best[k].person : k \in DOMAIN best}
           IN /\ InOrder(best, people, bands)
              /\ bands = ToSet(Bands) =>
                   \A i \in Everybody(people) \ taken, j \in taken :
                     PointsOf(Fired(people[i])) <= PointsOf(Fired(people[j]))
<1> DEFINE scores == Scores(people)
           A == {i \in DOMAIN scores : scores[i].band \in bands /\ scores[i].score >= 0}
           band == [i \in DOMAIN people |-> scores[i].band]
           order == Those(Ranking(scores), A)
           best == QualifiedFile(people, bands, 0, top)
           taken == {best[k].person : k \in DOMAIN best}
           last == Min({top, Len(order)})
<1>1. /\ DOMAIN people = 1 .. n /\ DOMAIN scores = 1 .. n /\ Everybody(people) \subseteq 1 .. n
      /\ \A i \in 1 .. n : scores[i].points \in Int /\ 0 <= scores[i].score
      /\ \A i \in Everybody(people) : scores[i].points = PointsOf(Fired(people[i]))
  BY PeopleScores DEF Everybody
<1>2. FinalBands(people, scores)
  BY ScoredBands
<1>3. best = [k \in 1 .. last |-> [person |-> order[k], band |-> scores[order[k]].band]]
  BY DEF QualifiedFile
<1>4. Lists(Ranking(scores), 1 .. n, Outranks(scores))
  BY <1>1, RankingLists
<1> HIDE DEF best
<1>5. A \in SUBSET (1 .. n)
  BY <1>1
<1>6. Lists(order, A, Outranks(scores))
  <2> HIDE DEF A, scores
  <2> QED BY <1>4, <1>5, ThoseLists
<1>7. A \in SUBSET Everybody(people)
  <2>1. "Disqualified" \notin ToSet(Bands)
    BY OutIsNoBand
  <2> HIDE DEF scores
  <2>2. \A i \in 1 .. n : scores[i].band \in bands => i \in Everybody(people)
    BY <1>1, <1>2, <2>1 DEF FinalBands
  <2> QED BY <1>1, <2>2
<1>8. \A i \in A : band[i] = scores[i].band /\ band[i] \in bands
  BY <1>1
<1>9. BandsFollow(people, A, band)
  <2> HIDE DEF A
  <2>1. BandsFollow(people, Everybody(people), band)
    BY <1>2, Zenon DEF FinalBands
  <2> HIDE DEF band
  <2> QED BY <1>7, <2>1 DEF BandsFollow
<1>10. bands = ToSet(Bands) => A = Everybody(people)
  <2> HIDE DEF scores
  <2>1. \A i \in Everybody(people) : i \in 1 .. n /\ scores[i].band \in ToSet(Bands) /\ scores[i].score >= 0
    BY <1>1, <1>2 DEF FinalBands
  <2> QED BY <1>1, <1>7, <2>1
<1> HIDE DEF A, order
<1>11. PICK m \in Nat : order \in [1 .. m -> A]
  BY <1>6 DEF Lists
<1>12. Len(order) = m
  BY <1>11
<1>13. last \in 0 .. m
  <2>1. {top, m} \in SUBSET Nat /\ {top, m} # {}
    OBVIOUS
  <2>2. Min({top, m}) \in {top, m} /\ Min({top, m}) <= m
    BY <2>1, LeastNumber
  <2> QED BY <1>12, <2>2
<1> HIDE DEF last
<1>14. /\ DOMAIN best = 1 .. last /\ DOMAIN order = 1 .. m
       /\ \A k \in 1 .. m : order[k] \in A
       /\ \A k \in DOMAIN best : k \in 1 .. m /\ best[k] = [person |-> order[k], band |-> band[order[k]]]
  <2>1. \A k \in 1 .. last : k \in 1 .. m
    BY <1>13
  <2> HIDE DEF band, scores
  <2> QED BY <1>3, <1>8, <1>11, <2>1
<1> HIDE DEF band
<1>15. InOrder(best, people, bands)
  <2>1. DOMAIN best \subseteq DOMAIN order
    BY <1>14
  <2>2. \A i \in A : band[i] \in bands
    BY <1>8
  <2>3. \A k \in DOMAIN best : best[k] = [person |-> order[k], band |-> band[order[k]]]
    BY <1>14
  <2> QED BY <1>6, <1>7, <1>9, <2>1, <2>2, <2>3, FileOfList
<1>16. ASSUME bands = ToSet(Bands), NEW i \in Everybody(people) \ taken, NEW j \in taken
       PROVE  PointsOf(Fired(people[i])) <= PointsOf(Fired(people[j]))
  <2>1. \A x \in A : \E k \in 1 .. m : order[k] = x
    BY <1>6, <1>14 DEF Lists
  <2>2. PICK k \in 1 .. m : order[k] = i
    BY <1>10, <1>16, <2>1
  <2>3. PICK l \in DOMAIN best : best[l].person = j
    OBVIOUS
  <2>4. order[l] = j /\ l \in 1 .. m /\ l <= last
    BY <1>13, <1>14, <2>3
  <2>5. k \notin 1 .. last
    <3>1. SUFFICES ASSUME k \in 1 .. last PROVE FALSE
      OBVIOUS
    <3>2. best[k].person = i /\ k \in DOMAIN best
      BY <1>14, <2>2, <3>1
    <3> QED BY <3>2
  <2>6. l < k
    BY <1>13, <2>2, <2>4, <2>5
  <2>7. <<j, i>> \in Outranks(scores)
    BY <1>6, <1>14, <2>2, <2>4, <2>6 DEF Lists
  <2>8. i \in Everybody(people) /\ j \in Everybody(people)
    BY <1>7, <1>14, <2>4
  <2> HIDE DEF taken
  <2>9. scores[j].points > scores[i].points \/ scores[j].points = scores[i].points
    BY <2>7 DEF Outranks
  <2> HIDE DEF scores
  <2>10. scores[j].points \in Int /\ scores[i].points \in Int
    BY <1>1, <2>8
  <2> QED BY <1>1, <2>8, <2>9, <2>10
<1> QED BY <1>15, <1>16 DEF best

\* Every file of however many people, with any rules and any bands: in order, and
\* nobody lost or let in who should not be.
LEMMA AnyPeopleWellRanked ==
    ASSUME NEW n \in Nat, NEW people \in [1 .. n -> SUBSET Traits], NEW bands \in SUBSET ToSet(Bands),
           NEW calibrate \in BOOLEAN, NEW top \in Nat
    PROVE  WellRanked(people, bands, calibrate, top)
<1> DEFINE fails == CalibrationFails(people, calibrate)
           found == IF fails THEN <<>> ELSE FoundFile(people, calibrate, bands)
           best == QualifiedFile(people, bands, 0, top)
           in(file) == {file[k].person : k \in DOMAIN file}
<1>1. Everybody(people) = {i \in DOMAIN people : \A r \in Fired(people[i]) : ~Rules[r].disqualifies}
  BY DEF Everybody, IsOut
<1>2. ASSUME fails PROVE calibrate /\ Everybody(people) = {}
  <2>1. calibrate /\ \A i \in DOMAIN people : ~IsLive(scoreLead(people[i]))
    BY <1>2 DEF CalibrationFails, Calibrates
  <2>2. \A i \in Everybody(people) : i \in DOMAIN people /\ IsLive(scoreLead(people[i]))
    <3>1. DOMAIN people = 1 .. n /\ Everybody(people) \subseteq 1 .. n
      BY DEF Everybody
    <3>2. \A i \in 1 .. n : Scores(people)[i] = scoreLead(people[i])
      BY <3>1 DEF Scores
    <3> QED BY <3>1, <3>2, PeopleScores
  <2> QED BY <2>1, <2>2
<1>3. InOrder(<<>>, people, bands)
  <2>1. DOMAIN <<>> = {}
    OBVIOUS
  <2> QED BY <2>1 DEF InOrder
<1>4. InOrder(found, people, bands) /\ (bands = ToSet(Bands) => in(found) = Everybody(people))
  <2>1. CASE fails
    <3>1. found = <<>> /\ in(found) = {}
      BY <2>1
    <3> HIDE DEF found, in
    <3> QED BY <1>2, <1>3, <2>1, <3>1
  <2>2. CASE ~fails
    <3>1. found = FoundFile(people, calibrate, bands)
      BY <2>2
    <3> HIDE DEF found
    <3> QED BY <2>2, <3>1, FoundInOrder
  <2> QED BY <2>1, <2>2
<1>5. /\ InOrder(best, people, bands)
      /\ bands = ToSet(Bands) =>
           \A i \in Everybody(people) \ in(best), j \in in(best) :
             PointsOf(Fired(people[i])) <= PointsOf(Fired(people[j]))
  BY QualifiedInOrder
<1> DEFINE claim == /\ fails => calibrate /\ Everybody(people) = {}
                    /\ InOrder(found, people, bands) /\ InOrder(best, people, bands)
                    /\ bands = ToSet(Bands) => in(found) = Everybody(people)
                    /\ bands = ToSet(Bands) =>
                         \A i \in Everybody(people) \ in(best), j \in in(best) :
                           PointsOf(Fired(people[i])) <= PointsOf(Fired(people[j]))
<1>6. claim
  <2> HIDE DEF fails, found, best, in
  <2> QED BY <1>2, <1>4, <1>5
<1>7. claim <=> WellRanked(people, bands, calibrate, top)
  <2>1. Everybody(people) =
          {i \in DOMAIN people : \A r \in {q \in DOMAIN Rules : Fires(Rules[q], people[i])} :
                                   ~Rules[r].disqualifies}
    BY <1>1 DEF Fired
  <2> QED BY <2>1, Zenon DEF WellRanked, Fired
<1> QED BY <1>6, <1>7

\* However many people are found, whatever the rules and their points are, however
\* the bands are cut and whichever are asked for: the two files hold nobody who is
\* disqualified, in the order of the points and of the bands; nobody is lost from the
\* file of find-leads, and nobody left out of the file of qualify-leads outranks
\* somebody in it (scoreLead, find-leads.ts, qualify-leads.ts).
THEOREM WorklistInOrder ==
    /\ \A n, top \in Nat : \A people \in [1 .. n -> SUBSET Traits], bands \in SUBSET ToSet(Bands),
          calibrate \in BOOLEAN : WellRanked(people, bands, calibrate, top)
    /\ Spec => []WorklistRanked
<1>1. \A n, top \in Nat : \A people \in [1 .. n -> SUBSET Traits], bands \in SUBSET ToSet(Bands),
         calibrate \in BOOLEAN : WellRanked(people, bands, calibrate, top)
  BY AnyPeopleWellRanked
<1>2. WorklistRanked
  <2>1. LongestList \in Nat
    BY FinderAssumption
  <2>2. ToSet(Bands) \in SUBSET ToSet(Bands) /\ {"Hot"} \in SUBSET ToSet(Bands)
    BY OutIsNoBand
  <2> SUFFICES ASSUME NEW people \in UNION {[1 .. n -> SUBSET Traits] : n \in 0 .. LongestList},
                      NEW bands \in {ToSet(Bands), {"Hot"}}, NEW calibrate \in BOOLEAN,
                      NEW top \in 0 .. LongestList
               PROVE  WellRanked(people, bands, calibrate, top)
    BY Zenon DEF WorklistRanked
  <2>3. PICK n \in 0 .. LongestList : people \in [1 .. n -> SUBSET Traits]
    OBVIOUS
  <2>4. n \in Nat /\ top \in Nat /\ bands \in SUBSET ToSet(Bands)
    BY <2>1, <2>2
  <2> QED BY <1>1, <2>3, <2>4
<1> QED BY <1>1, <1>2, PTL
=============================================================================
