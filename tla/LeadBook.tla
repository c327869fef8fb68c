------------------------------ MODULE LeadBook ------------------------------
(***************************************************************************)
(* The book of leads: how people enter it, by an import in two phases from *)
(* the wizard's tab, by the command line or by hand, and how they leave it *)
(* (src/server/actions/leads.ts, src/components/lead-import-wizard.tsx,    *)
(* scripts/import-leads.ts).                                               *)
(* The outreach of OutreachQueue is here one visit of one worker.          *)
(***************************************************************************)
EXTENDS LeadImport, TLC

CONSTANTS Operators,    \* each has one tab open on the wizard
          Files,        \* the files they may choose
          FileRows,     \* [Files -> their rows]
          HeaderCells,  \* headers, of which all short lists are tried
          Typed,        \* the cells they may type as an address
          OpenFiles,    \* bound: the files whose preview is still to come
          MostScripts,  \* bound: the import scripts that run at once
          MostInvited,  \* bound: the invitations one person gets
          Faults        \* what goes wrong: LOST_REPORT

ASSUME BookAssumption ==
    /\ OpenFiles \in Nat /\ MostScripts \in Nat /\ MostInvited \in Nat
    /\ NoField \notin Files
    /\ FileRows \in [Files -> Seq(Seq(Cells))] /\ Typed \subseteq Cells

ASSUME HeaderAssumption ==
    \A h \in HeaderCells : /\ h \in Cells /\ h.kind = "TEXT" /\ IsFiniteSet(h.parts)
                           /\ h.names \in ToSet(Fields) \cup {NoField, Unreadable}
                           /\ h.names # Unreadable => h.text # ""

VARIABLES book,      \* the leads rows, by address
          invited,   \* how many invitations each person has really got
          tab,       \* the wizard's state in each operator's browser
          request,   \* the server action each operator has running
          visit,     \* the worker: the row it has claimed and whether it has pressed Send
          forgotten  \* who lost their record by a race or a lost report (history)

vars == <<book, invited, tab, request, visit, forgotten>>

Urls == [person : Persons, spelt : {"plain", "escaped"}]
Absent == [status |-> "ABSENT", sentAt |-> FALSE]
Pending == [status |-> "PENDING", sentAt |-> FALSE]
NoFile == NoField
NoPreview == -1
EmptyTab == [csv |-> NoFile, preview |-> NoPreview, reading |-> {}, calls |-> <<>>]
NoRequest == [kind |-> "NONE", file |-> NoFile, expected |-> 0, urls |-> {},
              seen |-> Absent]
Rows == {u \in Urls : book[u] # Absent}

BookTypeOK ==
    /\ book \in [Urls -> [status : {"ABSENT", "PENDING", "PROCESSING", "SENT", "FAILED"},
                          sentAt : BOOLEAN]]
    /\ \A u \in Urls : book[u].sentAt => book[u].status = "SENT"
    /\ invited \in [Persons -> 0 .. MostInvited]
    /\ \A o \in Operators : /\ tab[o].csv \in Files \cup {NoFile}
                            /\ tab[o].preview \in Nat \cup {NoPreview}
                            /\ tab[o].reading \subseteq Files
                            /\ ToSet(tab[o].calls) \subseteq Files
                            /\ request[o].urls \subseteq Urls
                            /\ request[o].kind \in {"CREATE", "DELETE"} => Cardinality(request[o].urls) = 1
    /\ visit.urls \subseteq Urls /\ Cardinality(visit.urls) <= 1 /\ visit.sent \in BOOLEAN
    /\ forgotten \subseteq Persons

Init ==
    /\ book = [u \in Urls |-> Absent]
    /\ invited = [p \in Persons |-> 0]
    /\ tab = [o \in Operators |-> EmptyTab]
    /\ request = [o \in Operators |-> NoRequest]
    /\ visit = [urls |-> {}, sent |-> FALSE]
    /\ forgotten = {}

-----------------------------------------------------------------------------
(* The wizard.  The preview is cleared when a file is chosen; the text of  *)
(* the file comes later, and the preview of it later still.                *)

Analysis == [f \in Files |-> analyzeLeadCsv(FileRows[f])]

Preview(f) == buildImportPreview(Analysis[f], Rows)

Opening == MapThenSumSet(LAMBDA o : Cardinality(tab[o].reading) + Len(tab[o].calls), Operators)

ChooseFile(o, f) ==
    /\ Opening < OpenFiles      \* bound
    /\ tab' = [tab EXCEPT ![o].preview = NoPreview, ![o].reading = @ \cup {f}]
    /\ UNCHANGED <<book, invited, request, visit, forgotten>>

FileRead(o) ==
    /\ \E f \in tab[o].reading :
         tab' = [tab EXCEPT ![o].csv = f, ![o].reading = @ \ {f}, ![o].calls = Append(@, f)]
    /\ UNCHANGED <<book, invited, request, visit, forgotten>>

\* previewLeadImport reads the book and answers; without an address column it is an error.
PreviewLeadImport(o) ==
    /\ tab[o].calls # <<>>
    /\ LET f == Head(tab[o].calls)
           answer == summarizePreview(Analysis[f], Preview(f)).willImport
           failed == /\ Analysis[f].prepared = {}
                     /\ \E i \in DOMAIN Analysis[f].rejected :
                          Analysis[f].rejected[i] = "NO_URL_COLUMN"
       IN tab' = [tab EXCEPT ![o].calls = Tail(@), ![o].preview = IF failed THEN @ ELSE answer]
    /\ UNCHANGED <<book, invited, request, visit, forgotten>>

\* The browser sends the text it has now and the count it shows now.
Confirm(o) ==
    /\ request[o] = NoRequest
    /\ tab[o].csv # NoFile /\ tab[o].preview > 0
    /\ request' = [request EXCEPT ![o] =
         [NoRequest EXCEPT !.kind = "CONFIRM", !.file = tab[o].csv, !.expected = tab[o].preview]]
    /\ UNCHANGED <<book, invited, tab, visit, forgotten>>

\* (Mutant: the count the operator was shown is not compared.)
CountUnchecked(urls, expected) == urls # {}

AsExpected(urls, expected) == Cardinality(urls) = expected /\ urls # {}

\* One tab's server actions run one after the other.
ConfirmRead(o) ==
    /\ request[o].kind = "CONFIRM" /\ tab[o].calls = <<>>
    /\ LET urls == Preview(request[o].file).toCreate
       IN request' = [request EXCEPT ![o] =
            IF AsExpected(urls, request[o].expected) THEN [@ EXCEPT !.kind = "IMPORT", !.urls = urls]
                                                     ELSE NoRequest]
    /\ UNCHANGED <<book, invited, tab, visit, forgotten>>

\* createMany with skipDuplicates.
Inserted(urls) == [u \in Urls |-> IF u \in urls /\ book[u] = Absent THEN Pending ELSE book[u]]

ConfirmWrite(o) ==
    /\ request[o].kind = "IMPORT"
    /\ book' = Inserted(request[o].urls)
    /\ request' = [request EXCEPT ![o] = NoRequest]
    /\ tab' = [tab EXCEPT ![o] = EmptyTab]      \* the wizard is done; the next one is a new one
    /\ UNCHANGED <<invited, visit, forgotten>>

\* The command line imports what it reads as new itself (--confirm): its preview and its
\* write are one run of the script, with the other writers in between.
CliRead(o, f) ==
    /\ request[o] = NoRequest /\ Preview(f).toCreate # {}
    /\ Cardinality({p \in Operators : request[p].kind = "CLI"}) < MostScripts
    /\ request' = [request EXCEPT ![o] =
         [NoRequest EXCEPT !.kind = "CLI", !.file = f, !.urls = Preview(f).toCreate,
                           !.expected = summarizePreview(Analysis[f], Preview(f)).willImport]]
    /\ UNCHANGED <<book, invited, tab, visit, forgotten>>

CliWrite(o) ==
    /\ request[o].kind = "CLI"
    /\ book' = Inserted(request[o].urls)
    /\ request' = [request EXCEPT ![o] = NoRequest]
    /\ UNCHANGED <<invited, tab, visit, forgotten>>

-----------------------------------------------------------------------------
(* A lead by hand, and the deletion of one.                                *)

CreateRead(o, cell) ==
    /\ request[o] = NoRequest /\ IsProfile(cell)
    /\ book[normalizeLinkedInUrl(cell).url] = Absent
    /\ request' = [request EXCEPT ![o] =
         [NoRequest EXCEPT !.kind = "CREATE", !.urls = {normalizeLinkedInUrl(cell).url}]]
    /\ UNCHANGED <<book, invited, tab, visit, forgotten>>

\* The unique index refuses the row if the address is there by now.
CreateWrite(o) ==
    /\ request[o].kind = "CREATE"
    /\ book' = Inserted(request[o].urls)
    /\ request' = [request EXCEPT ![o] = NoRequest]
    /\ UNCHANGED <<invited, tab, visit, forgotten>>

\* (Mutant: an invitation on record does not protect the row.)
MayDeleteUnlessBusy(row) == row.status # "PROCESSING"

MayDelete(row) == row.status # "PROCESSING" /\ ~row.sentAt

DeleteRead(o, u) ==
    /\ request[o] = NoRequest /\ book[u] # Absent /\ MayDelete(book[u])
    /\ request' = [request EXCEPT ![o] =
         [NoRequest EXCEPT !.kind = "DELETE", !.urls = {u}, !.seen = book[u]]]
    /\ UNCHANGED <<book, invited, tab, visit, forgotten>>

\* The transaction looks at nothing again.  The jobs of the lead go with it.
DeleteWrite(o) ==
    /\ request[o].kind = "DELETE"
    /\ book' = [u \in Urls |-> IF u \in request[o].urls THEN Absent ELSE book[u]]
    /\ forgotten' = forgotten \cup {u.person : u \in {v \in request[o].urls :
                                                    book[v] # request[o].seen}}
    /\ request' = [request EXCEPT ![o] = NoRequest]
    /\ UNCHANGED <<invited, tab, visit>>

-----------------------------------------------------------------------------
(* The outreach, as far as the book is concerned.                          *)

Claim(u) ==
    /\ visit.urls = {} /\ book[u].status \in {"PENDING", "FAILED"}
    /\ \A p \in Persons : invited[p] < (IF p = u.person THEN MostInvited ELSE MostInvited - 1)
    /\ visit' = [urls |-> {u}, sent |-> FALSE]
    /\ book' = [book EXCEPT ![u].status = "PROCESSING"]
    /\ UNCHANGED <<invited, tab, request, forgotten>>

PressSend ==
    /\ visit.urls # {} /\ ~visit.sent
    /\ visit' = [visit EXCEPT !.sent = TRUE]
    /\ invited' = [p \in Persons |-> IF \E u \in visit.urls : u.person = p
                                     THEN invited[p] + 1 ELSE invited[p]]
    /\ UNCHANGED <<book, tab, request, forgotten>>

\* A report about a row that is gone is answered JOB_NOT_FOUND and changes nothing.
Settle(row) ==
    /\ book' = [u \in Urls |-> IF u \in visit.urls /\ book[u] # Absent THEN row ELSE book[u]]
    /\ visit' = [urls |-> {}, sent |-> FALSE]
    /\ UNCHANGED <<invited, tab, request>>

\* (Mutant: the invitation is noted but the lead stays to be worked.)
OutcomeStillOpen == [status |-> "FAILED", sentAt |-> visit.sent]

Outcome == [status |-> IF visit.sent THEN "SENT" ELSE "FAILED", sentAt |-> visit.sent]

Report == visit.urls # {} /\ Settle(Outcome) /\ UNCHANGED forgotten

\* The report never arrives and the claim expires.
ReportLost ==
    /\ "LOST_REPORT" \in Faults /\ visit.urls # {}
    /\ Settle([status |-> "FAILED", sentAt |-> FALSE])
    /\ forgotten' = forgotten \cup {u.person : u \in visit.urls}

Next ==
    \/ \E o \in Operators :
         \/ \E f \in Files : ChooseFile(o, f) \/ CliRead(o, f)
         \/ FileRead(o) \/ PreviewLeadImport(o)
         \/ Confirm(o) \/ ConfirmRead(o) \/ ConfirmWrite(o) \/ CliWrite(o)
         \/ \E cell \in Typed : CreateRead(o, cell)
         \/ CreateWrite(o)
         \/ \E u \in Urls : DeleteRead(o, u)
         \/ DeleteWrite(o)
    \/ \E u \in Urls : Claim(u)
    \/ PressSend \/ Report \/ ReportLost

Spec == Init /\ [][Next]_vars

-----------------------------------------------------------------------------
(* The properties.                                                         *)

\* Nobody is in the book twice, however the address is spelt and by whichever
\* way, import or hand, it came in: the duplicate guards are all per row.
OneRowPerPerson == \A u, v \in Rows : u.person = v.person => u = v

\* Nobody gets a second invitation by being deleted and imported again, or by any
\* other sequence of calls: that takes a report that never arrived or a deletion
\* whose row changed between its read and its transaction.
NobodyInvitedTwice == \A p \in Persons : invited[p] > 1 => p \in forgotten

\* What an import writes are people of the confirmed file, no more of them than
\* the operator confirmed or the script counted, and it leaves everybody who was
\* in the book as he was, whatever other operators did since the preview.
ImportAsConfirmed ==
    [][\A o \in Operators :
         request[o].kind \in {"IMPORT", "CLI"} /\ request'[o].kind = "NONE" =>
           LET new == {u \in Urls : book[u] = Absent /\ book'[u] # Absent}
               rows == ToSet(FileRows[request[o].file])
               addresses == {cell \in UNION {ToSet(row) : row \in rows} : cell.kind = "URL"}
           IN /\ Cardinality(new) <= request[o].expected
              /\ {u.person : u \in new} \subseteq {cell.slug.person : cell \in addresses}
              /\ \A u \in Rows : book'[u] = book[u]]_vars

HeaderLists == UNION {[1 .. n -> HeaderCells] : n \in 1 .. 4}

\* How often a header is among some.
Times(headers, h) == Cardinality({i \in DOMAIN headers : headers[i] = h})

\* Every column of a file is put to use or shown as ignored, once, and by its best
\* name: a field that headers name exactly is read from one with the best alias,
\* whichever column comes first, and a guess is made only for the others.  (Columns
\* whose header has no letter or digit are left out: the code shows them nowhere.)
AllPutToUse(headers) ==
    LET columns == mapColumns(headers)
        named(f) == {i \in DOMAIN headers : headers[i].names = f}
        used(h) == Cardinality({f \in ToSet(Fields) : columns.best[f] = h})
    IN /\ \A h \in ToSet(headers) :
            h.names # Unreadable => used(h) + Times(columns.rest, h) = Times(headers, h)
       /\ \A f \in ToSet(Fields) : named(f) # {} =>
            /\ columns.best[f].names = f
            /\ \A i \in named(f) : columns.best[f].rank <= headers[i].rank

\* This is so for every list of headers (looked at once, in the initial state).
ColumnsAccounted == Init => \A headers \in HeaderLists : AllPutToUse(headers)
=============================================================================
