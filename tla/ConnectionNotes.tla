--------------------------- MODULE ConnectionNotes ---------------------------
(***************************************************************************)
(* The note of an invitation: templates, the campaigns they are attached   *)
(* to, the leads they are rendered for, and the claim that renders them    *)
(* (src/lib/template.ts, src/server/actions/templates.ts, campaigns.ts,    *)
(* leads.ts).  The server actions read, decide, and write by id later; the *)
(* gate, the stop and the tokens are in SafetyControls and OutreachQueue.  *)
(***************************************************************************)
EXTENDS Integers, FiniteSets, FiniteSetsExt

CONSTANTS Templates, Campaigns, Leads, Operators,
          Variables,   \* TEMPLATE_VARIABLES
          Bodies,      \* the texts that operators type
          Values,      \* functions from Variables to the length of a lead's value, 0 if it has none
          NoteLimit    \* MAX_CONNECTION_NOTE_CHARS

\* What inspectTemplateBody finds in a text, and the length of the rest of it.
TemplateBody == [vars : SUBSET Variables, unknown : BOOLEAN, plain : Nat]

ASSUME NotesAssumption ==
    /\ Bodies \subseteq TemplateBody
    /\ Values \subseteq [Variables -> Nat] /\ Values # {}
    /\ NoteLimit \in Nat

VARIABLES template,  \* [Templates -> at most one body]
          campaign,  \* [Campaigns -> status, attached template, skipLeadsMissingTemplateVars]
          agreed,    \* the body and the setting each campaign was last set running with (history)
          lead,      \* [Leads -> its campaign if it has one, values, status]
          job,       \* the campaign of a lead's waiting job
          held,      \* what the worker has claimed: the lead, and the note or its absence
          sent,      \* the invitations: lead, note, and what was agreed (history)
          request,   \* the server action each operator has running
          raced      \* campaigns changed while running by an action that read them idle (history)

vars == <<template, campaign, agreed, lead, job, held, sent, request, raced>>

None == {}
Free == [op |-> "NONE", id |-> None, data |-> None, idle |-> {}]

NotesTypeOK ==
    /\ \A t \in Templates : template[t] \subseteq Bodies /\ Cardinality(template[t]) <= 1
    /\ \A c \in Campaigns :
         /\ campaign[c].status \in {"ABSENT", "DRAFT", "RUNNING", "PAUSED", "COMPLETED"}
         /\ \A t \in campaign[c].template : t \in Templates /\ template[t] # None
         /\ campaign[c].skip \in BOOLEAN
    /\ lead \in [Leads -> [campaign : SUBSET Campaigns, values : Values,
                           status : {"PENDING", "PROCESSING", "FAILED", "SENT"}]]
    /\ \A l \in Leads : /\ job[l] \subseteq Campaigns /\ Cardinality(job[l]) <= 1
                        /\ lead[l].status \in {"PROCESSING", "SENT"} => job[l] = None
    /\ \A h \in held : lead[h.lead].status = "PROCESSING"
    /\ raced \subseteq Campaigns

-----------------------------------------------------------------------------
(* renderTemplate. *)

Length(body, values) == body.plain +
    MapThenSumSet(LAMBDA v : values[v], body.vars)

\* (Mutant: a variable without a value is rendered as nothing.)
RenderAnyway(body, values) == ~body.unknown /\ Length(body, values) \in 1 .. NoteLimit

Renders(body, values) ==
    /\ ~body.unknown
    /\ \A v \in body.vars : values[v] > 0
    /\ Length(body, values) \in 1 .. NoteLimit

\* What the claim hands to the worker: a note, no note, or the refusal to go without.
Bare == [kind |-> "BARE", body |-> None]

Note(c, values) ==
    IF campaign[c].template = None THEN Bare
    ELSE LET body == UNION {template[t] : t \in campaign[c].template}
         IN IF \A b \in body : Renders(b, values)
              THEN [kind |-> "NOTE", body |-> {[text |-> b, values |-> values] : b \in body}]
            ELSE IF campaign[c].skip THEN [kind |-> "REFUSED", body |-> None]
            ELSE Bare

-----------------------------------------------------------------------------

Init ==
    /\ template = [t \in Templates |-> None]
    /\ campaign = [c \in Campaigns |-> [status |-> "ABSENT", template |-> None, skip |-> TRUE]]
    /\ agreed = [c \in Campaigns |-> None]
    /\ lead \in [Leads -> [campaign : {None}, values : Values, status : {"PENDING"}]]
    /\ job = [l \in Leads |-> None]
    /\ held = None /\ sent = None
    /\ request = [o \in Operators |-> Free]
    /\ raced = {}

Running == {c \in Campaigns : campaign[c].status = "RUNNING"}
UsedBy(t) == {c \in Campaigns : t \in campaign[c].template}

Asks(o, op, id, data, idle) ==
    /\ request[o] = Free
    /\ request' = [request EXCEPT ![o] = [op |-> op, id |-> id, data |-> data, idle |-> idle]]
    /\ UNCHANGED <<template, campaign, agreed, lead, job, held, sent, raced>>

Answered(o) == request' = [request EXCEPT ![o] = Free]

\* The history: c is changed now, while it runs, on the word of a read that found it idle.
Races(o, changed) == raced' = raced \cup (changed \cap Running \cap request[o].idle)

-----------------------------------------------------------------------------
(* The templates. *)

\* An unsupported variable is refused in the form, and so is a text without anything.
templateBodySchema(b) == ~b.unknown /\ (b.vars # {} \/ b.plain > 0)

CreateTemplate(o, t, b) ==
    /\ request[o] = Free /\ template[t] = None /\ templateBodySchema(b)
    /\ template' = [template EXCEPT ![t] = {b}]
    /\ UNCHANGED <<campaign, agreed, lead, job, held, sent, request, raced>>

\* (Mutant: a template may be edited whatever runs with it.)
EditableAnyway(t) == template[t] # None

Editable(t) == template[t] # None /\ UsedBy(t) \cap Running = {}

UpdateTemplateRead(o, t, b) ==
    /\ templateBodySchema(b) /\ Editable(t)
    /\ Asks(o, "EDIT", {t}, {b}, Campaigns \ (Running \cap UsedBy(t)))

UpdateTemplateWrite(o) ==
    /\ request[o].op = "EDIT"
    /\ template' = [t \in Templates |-> IF t \in request[o].id /\ template[t] # None
                                        THEN request[o].data ELSE template[t]]
    /\ Races(o, UNION {UsedBy(t) : t \in request[o].id})
    /\ Answered(o)
    /\ UNCHANGED <<campaign, agreed, lead, job, held, sent>>

\* (Mutant: a template may be deleted while it is attached.)
DeletableAnyway(t) == template[t] # None

Deletable(t) == template[t] # None /\ UsedBy(t) = {}

DeleteTemplateRead(o, t) == Deletable(t) /\ Asks(o, "DELETE", {t}, None, Campaigns \ UsedBy(t))

\* Campaigns that it has been attached to since lose it: ON DELETE SET NULL.
DeleteTemplateWrite(o) ==
    /\ request[o].op = "DELETE"
    /\ template' = [t \in Templates |-> IF t \in request[o].id THEN None ELSE template[t]]
    /\ campaign' = [c \in Campaigns |-> [campaign[c] EXCEPT !.template = @ \ request[o].id]]
    /\ Races(o, UNION {UsedBy(t) : t \in request[o].id})
    /\ Answered(o)
    /\ UNCHANGED <<agreed, lead, job, held, sent>>

-----------------------------------------------------------------------------
(* The campaigns.                                                          *)

CreateCampaign(o, c, t, skip) ==
    /\ request[o] = Free /\ campaign[c].status = "ABSENT"
    /\ \A x \in t : template[x] # None
    /\ campaign' = [campaign EXCEPT ![c] = [status |-> "DRAFT", template |-> t, skip |-> skip]]
    /\ UNCHANGED <<template, agreed, lead, job, held, sent, request, raced>>

UpdateCampaignRead(o, c, t, skip) ==
    /\ campaign[c].status \notin {"ABSENT", "RUNNING"}
    /\ Asks(o, "CHANGE", {c}, [template |-> t, skip |-> skip], Campaigns \ Running)

\* Without the template the foreign key refuses the row.
UpdateCampaignWrite(o) ==
    /\ request[o].op = "CHANGE"
    /\ IF \E t \in request[o].data.template : template[t] = None
         THEN UNCHANGED <<campaign, raced>>
         ELSE /\ campaign' = [c \in Campaigns |->
                   IF c \in request[o].id
                     THEN [status |-> campaign[c].status, template |-> request[o].data.template,
                           skip |-> request[o].data.skip]
                     ELSE campaign[c]]
              /\ Races(o, request[o].id)
    /\ Answered(o)
    /\ UNCHANGED <<template, agreed, lead, job, held, sent>>

\* activateCampaign and resumeCampaign; the check of the template only warns.
StartRead(o, c) ==
    /\ campaign[c].status \in {"DRAFT", "PAUSED"}
    /\ \E l \in Leads : lead[l].campaign = {c} /\ lead[l].status \in {"PENDING", "FAILED"}
    /\ Asks(o, "START", {c}, None, {})

StartWrite(o) ==
    /\ request[o].op = "START"
    /\ campaign' = [c \in Campaigns |-> IF c \in request[o].id
                                        THEN [campaign[c] EXCEPT !.status = "RUNNING"] ELSE campaign[c]]
    /\ agreed' = [c \in Campaigns |->
         IF c \in request[o].id
           THEN {[body |-> UNION {template[t] : t \in campaign[c].template},
                  skip |-> campaign[c].skip]}
           ELSE agreed[c]]
    /\ request' = [request EXCEPT ![o] = [Free EXCEPT !.op = "GENERATE", !.id = request[o].id]]
    /\ raced' = raced \ request[o].id
    /\ UNCHANGED <<template, lead, job, held, sent>>

\* (Mutant: leads in work or already invited are queued as well.)
UnqueuedInAnyState(l) == job[l] = None

Unqueued(l) == job[l] = None /\ lead[l].status \in {"PENDING", "FAILED"}

\* The queue of the campaign, right after it is activated or when the operator asks.
Generate(o) ==
    /\ request[o].op = "GENERATE"
    /\ job' = [l \in Leads |->
         IF Unqueued(l) /\ lead[l].campaign = request[o].id THEN request[o].id ELSE job[l]]
    /\ Answered(o)
    /\ UNCHANGED <<template, campaign, agreed, lead, held, sent, raced>>

PauseCampaign(o, c) ==
    /\ request[o] = Free /\ campaign[c].status = "RUNNING"
    /\ campaign' = [campaign EXCEPT ![c].status = "PAUSED"]
    /\ UNCHANGED <<template, agreed, lead, job, held, sent, request, raced>>

-----------------------------------------------------------------------------
(* The leads.                                                              *)

UpdateLead(o, l, values) ==
    /\ request[o] = Free /\ lead[l].values # values
    /\ lead' = [lead EXCEPT ![l].values = values]
    /\ UNCHANGED <<template, campaign, agreed, job, held, sent, request, raced>>

\* assignLeadsToCampaign and updateLead: any campaign or none, any lead the worker
\* does not hold; its jobs stay where they are.
AssignLead(o, l, c) ==
    /\ request[o] = Free /\ \A x \in c : campaign[x].status # "ABSENT"
    /\ lead[l].status # "PROCESSING" /\ lead[l].campaign # c
    /\ lead' = [lead EXCEPT ![l].campaign = c]
    /\ UNCHANGED <<template, campaign, agreed, job, held, sent, request, raced>>

-----------------------------------------------------------------------------
(* The worker: the claim renders the note for the campaign of the job.     *)

Claim(l) ==
    /\ held = None
    /\ \E c \in job[l] \cap Running :
         held' = {[lead |-> l, campaign |-> c, note |-> Note(c, lead[l].values),
                   agreed |-> agreed[c], raced |-> c \in raced]}
    /\ lead' = [lead EXCEPT ![l].status = "PROCESSING"]
    /\ job' = [job EXCEPT ![l] = None]
    /\ UNCHANGED <<template, campaign, agreed, sent, request, raced>>

\* maybeCompleteCampaign, after a completion.
Completed(c) ==
    IF /\ campaign[c].status = "RUNNING"
       /\ \A l \in Leads : job[l] # {c}
       /\ \A l \in Leads : lead'[l].campaign = {c} => lead'[l].status \notin {"PENDING", "PROCESSING"}
      THEN "COMPLETED" ELSE campaign[c].status

\* A claim without a note it should have had is refused before any page is loaded.
Refuse ==
    /\ \E h \in held : /\ h.note.kind = "REFUSED"
                       /\ lead' = [lead EXCEPT ![h.lead].status = "FAILED"]
    /\ held' = None
    /\ UNCHANGED <<template, campaign, agreed, job, sent, request, raced>>

Send ==
    /\ \E h \in held : /\ h.note.kind # "REFUSED"
                       /\ lead' = [lead EXCEPT ![h.lead].status = "SENT"]
                       /\ sent' = sent \cup {h}
                       /\ campaign' = [campaign EXCEPT ![h.campaign].status = Completed(h.campaign)]
    /\ held' = None
    /\ UNCHANGED <<template, agreed, job, request, raced>>

Next ==
    \/ \E o \in Operators :
         \/ \E t \in Templates, b \in Bodies : CreateTemplate(o, t, b) \/ UpdateTemplateRead(o, t, b)
         \/ \E t \in Templates : DeleteTemplateRead(o, t)
         \/ UpdateTemplateWrite(o) \/ DeleteTemplateWrite(o)
         \/ \E c \in Campaigns, t \in {{x} : x \in Templates} \cup {None}, skip \in BOOLEAN :
              CreateCampaign(o, c, t, skip) \/ UpdateCampaignRead(o, c, t, skip)
         \/ UpdateCampaignWrite(o)
         \/ \E c \in Campaigns :
              \/ StartRead(o, c) \/ PauseCampaign(o, c)
              \/ Asks(o, "GENERATE", {c}, None, {})
         \/ StartWrite(o) \/ Generate(o)
         \/ \E l \in Leads, v \in Values : UpdateLead(o, l, v)
         \/ \E l \in Leads, c \in {{x} : x \in Campaigns} \cup {None} : AssignLead(o, l, c)
    \/ \E l \in Leads : Claim(l)
    \/ Refuse \/ Send

Spec == Init /\ [][Next]_vars

-----------------------------------------------------------------------------
(* The properties.                                                         *)

\* No note with a gap, an unsupported variable, nothing in it or too much in it ever
\* goes out, however lead and template were edited before and after the claim.
NoteIsWhole ==
    \A s \in sent : \A n \in s.note.body :
      /\ ~n.text.unknown
      /\ 0 \notin {n.values[v] : v \in n.text.vars}
      /\ Length(n.text, n.values) \in 1 .. NoteLimit

\* An invitation carries the note its campaign was activated or resumed with, and
\* no other, so that the log tells what was sent: nobody edits, detaches or deletes
\* the template of a running campaign but by a decision taken before it ran.
NoteAsActivated ==
    \A s \in sent : s.raced \/ \A a \in s.agreed : {n.text : n \in s.note.body} \subseteq a.body

\* Nobody is invited without a note by a campaign that was set running with a
\* template and with the instruction to leave out those it does not fit.
BareOnlyAsAgreed ==
    \A s \in sent : s.note.kind = "BARE" =>
      s.raced \/ \A a \in s.agreed : a.body = None \/ ~a.skip
=============================================================================
