------------------------ MODULE ConnectionNotesProofs ------------------------
(***************************************************************************)
(* What a note is made of, for any number of templates, campaigns, leads   *)
(* and operators.  The argument: a running campaign is as it was agreed    *)
(* until an action changes it (AsAgreed), an action that changes a running *)
(* campaign had read it idle (Excused), and the claim takes the note and   *)
(* the agreement together.                                                 *)
(***************************************************************************)
EXTENDS ConnectionNotes, FiniteSetTheorems, TLAPS

Body(c) == UNION {template[t] : t \in campaign[c].template}

Agreement(c) == [body |-> Body(c), skip |-> campaign[c].skip]

Status == {"ABSENT", "DRAFT", "RUNNING", "PAUSED", "COMPLETED"}

Shapes ==
    /\ campaign \in [Campaigns -> [status : Status, template : SUBSET Templates, skip : BOOLEAN]]
    /\ template = [t \in Templates |-> template[t]]
    /\ request = [o \in Operators |-> request[o]]
    /\ \A h \in held : h.campaign \in Campaigns

\* A campaign is attached to templates that exist.
Attached == \A c \in Campaigns : \A t \in campaign[c].template : template[t] # None

\* What an action in flight may change while it runs, it has read idle.
Excused(q) ==
    /\ q.op \in {"EDIT", "DELETE"} => q.idle = Campaigns
    /\ q.op = "EDIT" => q.data # None
    /\ q.op = "CHANGE" => /\ q.id \subseteq q.idle
                          /\ q.data.template \in SUBSET Templates
                          /\ q.data.skip \in BOOLEAN

AsAgreed == \A c \in Running \ raced : agreed[c] = {Agreement(c)}

CampaignInv ==
    /\ Shapes
    /\ Attached
    /\ \A o \in Operators : Excused(request[o])
    /\ AsAgreed

-----------------------------------------------------------------------------
(* What is handed to the worker. *)

Faithful(h) ==
    /\ \A n \in h.note.body : Renders(n.text, n.values)
    /\ h.raced \/ \A a \in h.agreed : /\ {n.text : n \in h.note.body} \subseteq a.body
                                      /\ h.note.kind = "BARE" => a.body = None \/ ~a.skip

LEMMA NoteOfCampaign ==
    ASSUME NEW c \in Campaigns, NEW values
    PROVE  LET note == Note(c, values)
           IN /\ \A n \in note.body : Renders(n.text, n.values)
              /\ {n.text : n \in note.body} \subseteq Body(c)
              /\ note.kind = "BARE" => Body(c) = None \/ ~campaign[c].skip
<1>1. CASE campaign[c].template = None
  BY <1>1 DEF Note, Bare, None, Body
<1>2. CASE campaign[c].template # None /\ \A b \in Body(c) : Renders(b, values)
  <2>1. Note(c, values) = [kind |-> "NOTE",
                           body |-> {[text |-> b, values |-> values] : b \in Body(c)}]
    BY <1>2 DEF Note, Body
  <2> QED BY <1>2, <2>1
<1>3. CASE campaign[c].template # None /\ ~\A b \in Body(c) : Renders(b, values)
  <2>1. Note(c, values) = IF campaign[c].skip THEN [kind |-> "REFUSED", body |-> None] ELSE Bare
    BY <1>3 DEF Note, Body
  <2> QED BY <2>1 DEF Bare, None
<1> QED BY <1>1, <1>2, <1>3

\* What is claimed is faithful: the campaign is as agreed, or somebody raced.
LEMMA ClaimIsFaithful ==
    ASSUME CampaignInv, NEW l \in Leads, Claim(l)
    PROVE  \A h \in held' : Faithful(h) /\ h.campaign \in Campaigns
<1>1. PICK c \in job[l] \cap Running :
        held' = {[lead |-> l, campaign |-> c, note |-> Note(c, lead[l].values),
                  agreed |-> agreed[c], raced |-> c \in raced]}
  BY DEF Claim
<1>2. c \in Campaigns
  BY DEF Running
<1>3. c \notin raced => agreed[c] = {Agreement(c)}
  BY <1>1 DEF CampaignInv, AsAgreed
<1>4. Agreement(c).body = Body(c) /\ Agreement(c).skip = campaign[c].skip
  BY DEF Agreement
<1> DEFINE note == Note(c, lead[l].values)
<1>5. /\ \A n \in note.body : Renders(n.text, n.values)
      /\ {n.text : n \in note.body} \subseteq Body(c)
      /\ note.kind = "BARE" => Body(c) = None \/ ~campaign[c].skip
  BY <1>2, NoteOfCampaign
<1> HIDE DEF note
<1>6. SUFFICES Faithful([lead |-> l, campaign |-> c, note |-> note,
                         agreed |-> agreed[c], raced |-> c \in raced])
  BY <1>1, <1>2 DEF note
<1>7. CASE c \in raced
  BY <1>5, <1>7 DEF Faithful
<1>8. CASE c \notin raced
  BY <1>3, <1>4, <1>5, <1>8 DEF Faithful
<1> QED BY <1>7, <1>8

-----------------------------------------------------------------------------
(* What the actions do to the campaigns. *)

LEMMA AgreementKept ==
    ASSUME NEW c, campaign'[c].template = campaign[c].template, campaign'[c].skip = campaign[c].skip,
           \A t \in campaign[c].template : template'[t] = template[t]
    PROVE  Agreement(c)' = Agreement(c)
<1>1. Body(c)' = Body(c)
  BY DEF Body
<1> QED BY <1>1 DEF Agreement

\* A step that leaves campaigns and templates alone, and asks for nothing it may not.
LEMMA RequestsOnly ==
    ASSUME CampaignInv, UNCHANGED <<template, campaign, agreed, raced>>,
           request' = [o \in Operators |-> request'[o]],
           \A o \in Operators : Excused(request'[o]),
           \A h \in held' : h.campaign \in Campaigns
    PROVE  CampaignInv'
<1>1. \A c : Agreement(c)' = Agreement(c)
  BY AgreementKept
<1> QED BY <1>1 DEF CampaignInv, Shapes, Attached, AsAgreed, Running

LEMMA AskedAndExcused ==
    ASSUME CampaignInv, NEW o \in Operators, NEW op, NEW id, NEW data, NEW idle,
           Asks(o, op, id, data, idle),
           Excused([op |-> op, id |-> id, data |-> data, idle |-> idle])
    PROVE  CampaignInv'
<1>1. /\ request' = [p \in Operators |-> request'[p]]
      /\ \A p \in Operators : Excused(request'[p])
  BY DEF Asks, CampaignInv, Shapes
<1> QED BY <1>1, RequestsOnly DEF Asks, CampaignInv, Shapes

LEMMA AnsweredIsExcused ==
    ASSUME CampaignInv, NEW o \in Operators, Answered(o)
    PROVE  /\ request' = [p \in Operators |-> request'[p]]
           /\ \A p \in Operators : Excused(request'[p])
BY DEF Answered, CampaignInv, Shapes, Excused, Free

LEMMA TemplateSteps ==
    ASSUME CampaignInv, NEW o \in Operators, NEW t, NEW b,
           \/ CreateTemplate(o, t, b) \/ UpdateTemplateRead(o, t, b) \/ DeleteTemplateRead(o, t)
           \/ UpdateTemplateWrite(o) \/ DeleteTemplateWrite(o)
    PROVE  CampaignInv'
<1> USE DEF CampaignInv
<1>1. CASE CreateTemplate(o, t, b)
  <2>1. \A c \in Campaigns : \A x \in campaign[c].template :
           template'[x] = template[x] /\ template'[x] # None
    BY <1>1 DEF CreateTemplate, Attached, Shapes
  <2>2. \A c \in Campaigns : Agreement(c)' = Agreement(c)
    BY <1>1, <2>1, AgreementKept DEF CreateTemplate
  <2>3. Shapes'
    BY <1>1 DEF CreateTemplate, Shapes
  <2>4. Attached'
    BY <1>1, <2>1 DEF CreateTemplate, Attached
  <2>5. \A p \in Operators : Excused(request'[p])
    BY <1>1 DEF CreateTemplate
  <2>6. AsAgreed'
    BY <1>1, <2>2 DEF CreateTemplate, AsAgreed, Running
  <2> QED BY <2>3, <2>4, <2>5, <2>6
<1>2. CASE UpdateTemplateRead(o, t, b)
  <2>1. Campaigns \ (Running \cap UsedBy(t)) = Campaigns
    BY <1>2 DEF UpdateTemplateRead, Editable, None
  <2> QED BY <1>2, <2>1, AskedAndExcused DEF UpdateTemplateRead, Excused, None
<1>3. CASE DeleteTemplateRead(o, t)
  <2>1. Campaigns \ UsedBy(t) = Campaigns
    BY <1>3 DEF DeleteTemplateRead, Deletable
  <2> QED BY <1>3, <2>1, AskedAndExcused DEF DeleteTemplateRead, Excused
<1>4. CASE UpdateTemplateWrite(o)
  <2>1. request[o].idle = Campaigns /\ request[o].data # None
    BY <1>4 DEF UpdateTemplateWrite, Excused
  <2>2. \A c \in Campaigns : \A x \in campaign[c].template : template'[x] # None
    BY <1>4, <2>1 DEF UpdateTemplateWrite, Attached, Shapes
  <2>3. ASSUME NEW c \in Running \ raced'
        PROVE  Agreement(c)' = Agreement(c)
    <3>1. c \in Campaigns
      BY DEF Running
    <3>2. \A x \in request[o].id : x \notin campaign[c].template
      BY <1>4, <2>1, <2>3, <3>1 DEF UpdateTemplateWrite, Races, UsedBy
    <3>3. \A x \in campaign[c].template : template'[x] = template[x]
      BY <1>4, <3>1, <3>2 DEF UpdateTemplateWrite, Shapes
    <3> QED BY <1>4, <3>3, AgreementKept DEF UpdateTemplateWrite
  <2>4. AsAgreed'
    BY <1>4, <2>3 DEF UpdateTemplateWrite, AsAgreed, Running, Races
  <2>5. Shapes'
    BY <1>4, AnsweredIsExcused DEF UpdateTemplateWrite, Shapes
  <2> QED BY <1>4, <2>2, <2>4, <2>5, AnsweredIsExcused DEF UpdateTemplateWrite, Attached
<1>5. CASE DeleteTemplateWrite(o)
  <2>1. request[o].idle = Campaigns
    BY <1>5 DEF DeleteTemplateWrite, Excused
  <2>2. /\ campaign' \in [Campaigns -> [status : Status, template : SUBSET Templates,
                                        skip : BOOLEAN]]
        /\ \A c \in Campaigns : /\ campaign'[c].status = campaign[c].status
                                 /\ campaign'[c].skip = campaign[c].skip
                                 /\ campaign'[c].template = campaign[c].template \ request[o].id
    BY <1>5 DEF DeleteTemplateWrite, Shapes
  <2>3. \A x \in Templates \ request[o].id : template'[x] = template[x]
    BY <1>5 DEF DeleteTemplateWrite
  <2>4. Attached'
    BY <2>2, <2>3 DEF Attached, Shapes
  <2>5. ASSUME NEW c \in Running \ raced'
        PROVE  Agreement(c)' = Agreement(c)
    <3>1. c \in Campaigns
      BY DEF Running
    <3>2. \A x \in request[o].id : x \notin campaign[c].template
      BY <1>5, <2>1, <2>5, <3>1 DEF DeleteTemplateWrite, Races, UsedBy
    <3>3. campaign'[c].template = campaign[c].template
      BY <2>2, <3>1, <3>2
    <3>4. \A x \in campaign[c].template : template'[x] = template[x]
      BY <2>3, <3>1, <3>2 DEF Shapes
    <3> QED BY <2>2, <3>1, <3>3, <3>4, AgreementKept
  <2>6. AsAgreed'
    BY <1>5, <2>2, <2>5 DEF DeleteTemplateWrite, AsAgreed, Running, Races
  <2>7. Shapes'
    BY <1>5, <2>2, AnsweredIsExcused DEF DeleteTemplateWrite, Shapes
  <2> QED BY <1>5, <2>4, <2>6, <2>7, AnsweredIsExcused DEF DeleteTemplateWrite
<1> QED BY <1>1, <1>2, <1>3, <1>4, <1>5

\* A campaign that is neither started nor changed, and its templates, stay as agreed.
LEMMA CampaignSteps ==
    ASSUME CampaignInv, NEW o \in Operators, NEW c \in Campaigns,
           NEW t \in {{x} : x \in Templates} \cup {None}, NEW skip \in BOOLEAN,
           \/ CreateCampaign(o, c, t, skip) \/ UpdateCampaignRead(o, c, t, skip)
           \/ PauseCampaign(o, c)
    PROVE  CampaignInv'
<1> USE DEF CampaignInv
<1>0. t \in SUBSET Templates
  BY DEF None
<1>1. CASE CreateCampaign(o, c, t, skip)
  <2>1. campaign' = [campaign EXCEPT ![c] = [status |-> "DRAFT", template |-> t, skip |-> skip]]
    BY <1>1 DEF CreateCampaign
  <2>2. Shapes'
    BY <1>0, <1>1, <2>1 DEF CreateCampaign, Shapes, Status
  <2>3. ASSUME NEW d \in Campaigns, NEW x \in campaign'[d].template
        PROVE  template'[x] # None
    <3>1. template' = template /\ \A y \in t : template[y] # None
      BY <1>1 DEF CreateCampaign
    <3>2. CASE d = c
      <4>1. campaign'[d].template = t
        BY <2>1, <3>2 DEF Shapes
      <4> QED BY <2>3, <3>1, <4>1
    <3>3. CASE d # c
      <4>1. campaign'[d] = campaign[d]
        BY <2>1, <3>3 DEF Shapes
      <4> QED BY <2>3, <3>1, <4>1 DEF Attached
    <3> QED BY <3>2, <3>3
  <2>4. ASSUME NEW d \in Running'
        PROVE  d \in Running /\ campaign'[d] = campaign[d]
    BY <2>1, <2>4 DEF Running, Shapes
  <2>5. \A d \in Running' : Agreement(d)' = Agreement(d)
    BY <1>1, <2>4, AgreementKept DEF CreateCampaign
  <2> QED BY <1>1, <2>2, <2>3, <2>4, <2>5 DEF CreateCampaign, AsAgreed, Attached
<1>2. CASE UpdateCampaignRead(o, c, t, skip)
  <2>1. Excused([op |-> "CHANGE", id |-> {c}, data |-> [template |-> t, skip |-> skip],
                 idle |-> Campaigns \ Running])
    BY <1>0, <1>2 DEF UpdateCampaignRead, Excused, Running
  <2> QED BY <1>2, <2>1, AskedAndExcused DEF UpdateCampaignRead
<1>3. CASE PauseCampaign(o, c)
  <2>1. campaign' = [campaign EXCEPT ![c].status = "PAUSED"]
    BY <1>3 DEF PauseCampaign
  <2>2. Shapes'
    BY <1>3, <2>1 DEF PauseCampaign, Shapes, Status
  <2>3. Attached'
    BY <1>3, <2>1 DEF PauseCampaign, Attached, Shapes
  <2>4. ASSUME NEW d \in Running'
        PROVE  d \in Running /\ campaign'[d] = campaign[d]
    BY <2>1, <2>4 DEF Running, Shapes
  <2>5. \A d \in Running' : Agreement(d)' = Agreement(d)
    BY <1>3, <2>4, AgreementKept DEF PauseCampaign
  <2> QED BY <1>3, <2>2, <2>3, <2>4, <2>5 DEF PauseCampaign, AsAgreed
<1> QED BY <1>1, <1>2, <1>3

\* The campaign of a change in flight that runs by now has been changed by a race.
LEMMA ChangeStep ==
    ASSUME CampaignInv, NEW o \in Operators, UpdateCampaignWrite(o)
    PROVE  CampaignInv'
<1> USE DEF CampaignInv
<1>1. CASE UNCHANGED <<campaign, raced>>
  BY <1>1, AnsweredIsExcused, RequestsOnly DEF UpdateCampaignWrite, Shapes
<1>2. CASE ~UNCHANGED <<campaign, raced>>
  <2> DEFINE q == request[o]
  <2>1. /\ campaign' = [d \in Campaigns |->
             IF d \in q.id THEN [status |-> campaign[d].status, template |-> q.data.template,
                                 skip |-> q.data.skip]
             ELSE campaign[d]]
        /\ raced' = raced \cup (q.id \cap Running \cap q.idle)
        /\ \A x \in q.data.template : template[x] # None
        /\ UNCHANGED <<template, agreed, held>>
    BY <1>2 DEF UpdateCampaignWrite, Races
  <2>2. /\ q.id \subseteq q.idle
        /\ q.data.template \in SUBSET Templates
        /\ q.data.skip \in BOOLEAN
    BY DEF UpdateCampaignWrite, Excused
  <2> HIDE DEF q
  <2>3. campaign' \in [Campaigns -> [status : Status, template : SUBSET Templates,
                                     skip : BOOLEAN]]
    BY <2>1, <2>2 DEF Shapes
  <2>4. Attached'
    BY <2>1 DEF Attached
  <2>5. ASSUME NEW d \in Running' \ raced'
        PROVE  d \in Running \ raced /\ campaign'[d] = campaign[d]
    BY <2>1, <2>2, <2>5 DEF Running
  <2>6. \A d \in Running' \ raced' : Agreement(d)' = Agreement(d)
    BY <2>1, <2>5, AgreementKept
  <2>7. AsAgreed'
    BY <2>1, <2>5, <2>6 DEF AsAgreed
  <2>8. Shapes'
    BY <2>1, <2>3, AnsweredIsExcused DEF UpdateCampaignWrite, Shapes
  <2> QED BY <2>4, <2>7, <2>8, AnsweredIsExcused DEF UpdateCampaignWrite
<1> QED BY <1>1, <1>2

\* To set a campaign running is to agree to what it is at that moment.
LEMMA StartSteps ==
    ASSUME CampaignInv, NEW o \in Operators, NEW c,
           \/ StartRead(o, c) \/ Asks(o, "GENERATE", {c}, None, {})
           \/ StartWrite(o) \/ Generate(o)
    PROVE  CampaignInv'
<1> USE DEF CampaignInv
<1>1. CASE StartRead(o, c)
  BY <1>1, AskedAndExcused DEF StartRead, Excused
<1>2. CASE Asks(o, "GENERATE", {c}, None, {})
  BY <1>2, AskedAndExcused DEF Excused
<1>3. CASE StartWrite(o)
  <2> DEFINE id == request[o].id
  <2>1. /\ campaign' = [d \in Campaigns |-> IF d \in id
                          THEN [campaign[d] EXCEPT !.status = "RUNNING"] ELSE campaign[d]]
        /\ agreed' = [d \in Campaigns |-> IF d \in id THEN {Agreement(d)} ELSE agreed[d]]
        /\ raced' = raced \ id
        /\ UNCHANGED <<template, held>>
    BY <1>3 DEF StartWrite, Agreement, Body
  <2>2. /\ request' = [p \in Operators |-> request'[p]]
        /\ \A p \in Operators : Excused(request'[p])
    BY <1>3 DEF StartWrite, Shapes, Excused, Free
  <2> HIDE DEF id
  <2>3. campaign' \in [Campaigns -> [status : Status, template : SUBSET Templates,
                                     skip : BOOLEAN]]
    BY <2>1 DEF Shapes, Status
  <2>4. \A d \in Campaigns : /\ campaign'[d].template = campaign[d].template
                             /\ campaign'[d].skip = campaign[d].skip
                             /\ d \notin id => campaign'[d] = campaign[d]
    BY <2>1 DEF Shapes
  <2>5. \A d \in Campaigns : Agreement(d)' = Agreement(d)
    BY <2>1, <2>4, AgreementKept
  <2>6. Attached'
    BY <2>1, <2>4 DEF Attached
  <2>7. ASSUME NEW d \in Running' \ raced'
        PROVE  agreed'[d] = {Agreement(d)}
    <3>1. d \in Campaigns /\ campaign'[d].status = "RUNNING"
      BY DEF Running
    <3>2. CASE d \in id
      BY <2>1, <3>1, <3>2
    <3>3. CASE d \notin id
      BY <2>1, <2>4, <2>7, <3>1, <3>3 DEF AsAgreed, Running
    <3> QED BY <3>2, <3>3
  <2>8. AsAgreed'
    BY <2>5, <2>7 DEF AsAgreed, Running
  <2> QED BY <2>1, <2>2, <2>3, <2>6, <2>8 DEF Shapes
<1>4. CASE Generate(o)
  BY <1>4, AnsweredIsExcused, RequestsOnly DEF Generate, Shapes
<1> QED BY <1>1, <1>2, <1>3, <1>4

LEMMA LeadSteps ==
    ASSUME CampaignInv,
           \/ \E o \in Operators, l \in Leads, v \in Values : UpdateLead(o, l, v)
           \/ \E o \in Operators, l \in Leads, c \in {{x} : x \in Campaigns} \cup {None} :
                AssignLead(o, l, c)
    PROVE  CampaignInv' /\ UNCHANGED <<held, sent>>
<1>1. UNCHANGED <<template, campaign, agreed, held, sent, request, raced>>
  BY DEF UpdateLead, AssignLead
<1> QED BY <1>1, RequestsOnly DEF CampaignInv, Shapes

LEMMA SendKeeps ==
    ASSUME CampaignInv, Send
    PROVE  CampaignInv'
<1> USE DEF CampaignInv
<1>1. PICK h \in held :
        campaign' = [campaign EXCEPT ![h.campaign].status = Completed(h.campaign)]
  BY DEF Send
<1>2. h.campaign \in Campaigns
  BY DEF Shapes
<1> DEFINE status == Completed(h.campaign)
<1>3. status \in Status /\ (status = "RUNNING" => campaign[h.campaign].status = "RUNNING")
  BY <1>2 DEF Completed, Shapes, Status
<1> HIDE DEF status
<1>4. campaign' = [campaign EXCEPT ![h.campaign].status = status]
  BY <1>1 DEF status
<1>5. /\ campaign' \in [Campaigns -> [status : Status, template : SUBSET Templates,
                                      skip : BOOLEAN]]
      /\ \A d \in Campaigns : /\ campaign'[d].template = campaign[d].template
                              /\ campaign'[d].skip = campaign[d].skip
                              /\ campaign'[d].status = "RUNNING" => campaign[d].status = "RUNNING"
  BY <1>2, <1>3, <1>4 DEF Shapes
<1>6. UNCHANGED <<template, agreed, request, raced>> /\ held' = None
  BY DEF Send
<1>7. Shapes'
  BY <1>5, <1>6 DEF Shapes, None
<1>8. Attached'
  BY <1>5, <1>6 DEF Attached
<1>9. \A d \in Campaigns : Agreement(d)' = Agreement(d)
  BY <1>5, <1>6, AgreementKept
<1>10. AsAgreed'
  BY <1>5, <1>6, <1>9 DEF AsAgreed, Running
<1> QED BY <1>6, <1>7, <1>8, <1>10

-----------------------------------------------------------------------------
(* The whole. *)

NotesInv == CampaignInv /\ \A s \in held \cup sent : Faithful(s)

LEMMA InitNotesInv == Init => NotesInv
<1> SUFFICES ASSUME Init PROVE NotesInv
  OBVIOUS
<1>1. /\ held = None /\ sent = None /\ raced = {}
      /\ template = [t \in Templates |-> None]
      /\ campaign = [c \in Campaigns |-> [status |-> "ABSENT", template |-> None, skip |-> TRUE]]
      /\ request = [o \in Operators |-> Free]
  BY DEF Init
<1>2. Shapes
  BY <1>1 DEF Shapes, Status, None
<1>3. Attached
  BY <1>1 DEF Attached, None
<1>4. \A o \in Operators : Excused(request[o])
  BY <1>1 DEF Excused, Free
<1>5. AsAgreed
  BY <1>1 DEF AsAgreed, Running
<1> QED BY <1>1, <1>2, <1>3, <1>4, <1>5 DEF NotesInv, CampaignInv, None

LEMMA StepKeepsNotesInv == NotesInv /\ [Next]_vars => NotesInv'
<1> SUFFICES ASSUME NotesInv, [Next]_vars PROVE NotesInv'
  OBVIOUS
<1> USE DEF NotesInv
<1>1. ASSUME CampaignInv', UNCHANGED <<held, sent>> PROVE NotesInv'
  BY <1>1 DEF Faithful
<1>2. ASSUME NEW o \in Operators, NEW t, NEW b,
             \/ CreateTemplate(o, t, b) \/ UpdateTemplateRead(o, t, b) \/ DeleteTemplateRead(o, t)
             \/ UpdateTemplateWrite(o) \/ DeleteTemplateWrite(o)
      PROVE  NotesInv'
  <2>1. UNCHANGED <<held, sent>>
    BY <1>2 DEF CreateTemplate, UpdateTemplateRead, DeleteTemplateRead, UpdateTemplateWrite,
                DeleteTemplateWrite, Asks
  <2> QED BY <1>1, <1>2, <2>1, TemplateSteps
<1>3. ASSUME NEW o \in Operators, NEW c \in Campaigns,
             NEW t \in {{x} : x \in Templates} \cup {None}, NEW skip \in BOOLEAN,
             CreateCampaign(o, c, t, skip) \/ UpdateCampaignRead(o, c, t, skip)
      PROVE  NotesInv'
  BY <1>1, <1>3, CampaignSteps DEF CreateCampaign, UpdateCampaignRead, Asks
<1>4. ASSUME NEW o \in Operators, NEW c \in Campaigns, PauseCampaign(o, c)
      PROVE  NotesInv'
  <2>1. None \in {{x} : x \in Templates} \cup {None} /\ TRUE \in BOOLEAN
    OBVIOUS
  <2>2. CampaignInv'
    BY <1>4, <2>1, CampaignSteps
  <2> QED BY <1>1, <1>4, <2>2 DEF PauseCampaign
<1>5. ASSUME NEW o \in Operators, UpdateCampaignWrite(o) PROVE NotesInv'
  BY <1>1, <1>5, ChangeStep DEF UpdateCampaignWrite
<1>6. ASSUME NEW o \in Operators, NEW c,
             \/ StartRead(o, c) \/ Asks(o, "GENERATE", {c}, None, {})
             \/ StartWrite(o) \/ Generate(o)
      PROVE  NotesInv'
  <2>1. UNCHANGED <<held, sent>>
    BY <1>6 DEF StartRead, StartWrite, Generate, Asks
  <2> QED BY <1>1, <1>6, <2>1, StartSteps
<1>7. ASSUME \/ \E o \in Operators, l \in Leads, v \in Values : UpdateLead(o, l, v)
             \/ \E o \in Operators, l \in Leads, c \in {{x} : x \in Campaigns} \cup {None} :
                  AssignLead(o, l, c)
      PROVE  NotesInv'
  BY <1>1, <1>7, LeadSteps
<1>8. ASSUME NEW l \in Leads, Claim(l) PROVE NotesInv'
  <2>1. \A h \in held' : Faithful(h) /\ h.campaign \in Campaigns
    BY <1>8, ClaimIsFaithful
  <2>2. UNCHANGED <<template, campaign, agreed, sent, request, raced>>
    BY <1>8 DEF Claim
  <2>3. CampaignInv'
    BY <2>1, <2>2, RequestsOnly DEF CampaignInv, Shapes
  <2>4. \A s \in sent' : Faithful(s)
    BY <2>2
  <2> QED BY <2>1, <2>3, <2>4 DEF Faithful
<1>9. ASSUME Refuse PROVE NotesInv'
  <2>1. UNCHANGED <<template, campaign, agreed, sent, request, raced>> /\ held' = {}
    BY <1>9 DEF Refuse, None
  <2>2. CampaignInv'
    BY <2>1, RequestsOnly DEF CampaignInv, Shapes
  <2> QED BY <2>1, <2>2 DEF Faithful
<1>10. ASSUME Send PROVE NotesInv'
  <2>1. CampaignInv'
    BY <1>10, SendKeeps
  <2>2. held' = {} /\ sent' \subseteq sent \cup held
    BY <1>10 DEF Send, None
  <2> QED BY <2>1, <2>2 DEF Faithful
<1>11. CASE UNCHANGED vars
  <2>1. UNCHANGED <<template, campaign, agreed, held, sent, request, raced>>
    BY <1>11 DEF vars
  <2>2. CampaignInv'
    BY <2>1, RequestsOnly DEF CampaignInv, Shapes
  <2> QED BY <1>1, <2>1, <2>2
<1> QED BY <1>2, <1>3, <1>4, <1>5, <1>6, <1>7, <1>8, <1>9, <1>10, <1>11 DEF Next

\* Every note that goes out is whole: the claim renders it once, and what it rendered
\* is what the worker sends.
THEOREM NotesWhole == Spec => []NoteIsWhole
<1>1. NotesInv => NoteIsWhole
  BY DEF NotesInv, Faithful, Renders, NoteIsWhole
<1> QED BY <1>1, InitNotesInv, StepKeepsNotesInv, PTL DEF Spec

\* Every note is the one its campaign was set running with, unless somebody changed
\* the campaign on the word of a read older than that.
THEOREM NotesAsActivated == Spec => []NoteAsActivated
<1>1. NotesInv => NoteAsActivated
  BY DEF NotesInv, Faithful, NoteAsActivated
<1> QED BY <1>1, InitNotesInv, StepKeepsNotesInv, PTL DEF Spec

\* An invitation without a note was agreed to, with the same exception.
THEOREM BareAsAgreed == Spec => []BareOnlyAsAgreed
<1>1. NotesInv => BareOnlyAsAgreed
  BY DEF NotesInv, Faithful, BareOnlyAsAgreed
<1> QED BY <1>1, InitNotesInv, StepKeepsNotesInv, PTL DEF Spec
-----------------------------------------------------------------------------
(* Who waits, who is held, and what the requests in flight will write: only *)
(* a lead nobody works on is queued, and nobody takes a second.             *)

Asked(q) ==
    /\ q.op = "EDIT" => \E b \in Bodies : q.data = {b}
    /\ q.op \in {"START", "GENERATE"} => \E c \in Campaigns : q.id = {c}

TemplatesFit == \A t \in Templates : template[t] = None \/ \E b \in Bodies : template[t] = {b}

LeadsFit == lead \in [Leads -> [campaign : SUBSET Campaigns, values : Values,
                                status : {"PENDING", "PROCESSING", "FAILED", "SENT"}]]

QueueFits ==
    /\ job = [l \in Leads |-> job[l]]
    /\ \A l \in Leads : /\ job[l] = None \/ \E c \in Campaigns : job[l] = {c}
                        /\ lead[l].status \in {"PROCESSING", "SENT"} => job[l] = None
    /\ \A h \in held : h.lead \in Leads /\ lead[h.lead].status = "PROCESSING"

WorkInv ==
    /\ \A o \in Operators : Asked(request[o])
    /\ TemplatesFit
    /\ LeadsFit
    /\ QueueFits
    /\ raced \subseteq Campaigns

LEMMA InitWorkInv == Init => WorkInv
<1> SUFFICES ASSUME Init PROVE WorkInv
  OBVIOUS
<1>1. /\ template = [t \in Templates |-> None] /\ held = None /\ raced = {}
      /\ request = [o \in Operators |-> Free]
      /\ job = [l \in Leads |-> None]
      /\ lead \in [Leads -> [campaign : {None}, values : Values, status : {"PENDING"}]]
  BY DEF Init
<1>2. \A o \in Operators : Asked(request[o])
  BY <1>1 DEF Asked, Free
<1>3. LeadsFit
  BY <1>1 DEF LeadsFit, None
<1>4. \A l \in Leads : lead[l].status = "PENDING"
  BY <1>1
<1>5. QueueFits
  BY <1>1, <1>4 DEF QueueFits, None
<1> QED BY <1>1, <1>2, <1>3, <1>5 DEF WorkInv, TemplatesFit

LEMMA AskedKeptByAsks ==
    ASSUME CampaignInv, WorkInv, NEW o \in Operators, NEW op, NEW id, NEW data, NEW idle,
           Asks(o, op, id, data, idle),
           Asked([op |-> op, id |-> id, data |-> data, idle |-> idle])
    PROVE  WorkInv'
<1>1. \A p \in Operators : Asked(request'[p])
  BY DEF Asks, CampaignInv, Shapes, WorkInv
<1>2. UNCHANGED <<template, lead, job, held, raced>>
  BY DEF Asks
<1> QED BY <1>1, <1>2 DEF WorkInv, TemplatesFit, LeadsFit, QueueFits

LEMMA AskedKeptByAnswer ==
    ASSUME CampaignInv, WorkInv, NEW o \in Operators, Answered(o)
    PROVE  \A p \in Operators : Asked(request'[p])
BY DEF Answered, CampaignInv, Shapes, WorkInv, Asked, Free

LEMMA AsksWork ==
    ASSUME CampaignInv, WorkInv, NEW o \in Operators,
           \/ \E t \in Templates, b \in Bodies : UpdateTemplateRead(o, t, b)
           \/ \E t \in Templates : DeleteTemplateRead(o, t)
           \/ \E c \in Campaigns, t \in {{x} : x \in Templates} \cup {None}, skip \in BOOLEAN :
                UpdateCampaignRead(o, c, t, skip)
           \/ \E c \in Campaigns : StartRead(o, c) \/ Asks(o, "GENERATE", {c}, None, {})
    PROVE  WorkInv'
<1>1. ASSUME NEW t, NEW b \in Bodies, UpdateTemplateRead(o, t, b) PROVE WorkInv'
  BY <1>1, AskedKeptByAsks DEF UpdateTemplateRead, Asked
<1>2. ASSUME NEW t, DeleteTemplateRead(o, t) PROVE WorkInv'
  BY <1>2, AskedKeptByAsks DEF DeleteTemplateRead, Asked
<1>3. ASSUME NEW c, NEW t, NEW skip, UpdateCampaignRead(o, c, t, skip) PROVE WorkInv'
  BY <1>3, AskedKeptByAsks DEF UpdateCampaignRead, Asked
<1>4. ASSUME NEW c \in Campaigns, StartRead(o, c) PROVE WorkInv'
  BY <1>4, AskedKeptByAsks DEF StartRead, Asked
<1>5. ASSUME NEW c \in Campaigns, Asks(o, "GENERATE", {c}, None, {}) PROVE WorkInv'
  BY <1>5, AskedKeptByAsks DEF Asked
<1> QED BY <1>1, <1>2, <1>3, <1>4, <1>5

LEMMA AtOnceWork ==
    ASSUME CampaignInv, WorkInv, NEW o \in Operators,
           \/ \E t \in Templates, b \in Bodies : CreateTemplate(o, t, b)
           \/ \E c \in Campaigns, t \in {{x} : x \in Templates} \cup {None}, skip \in BOOLEAN :
                CreateCampaign(o, c, t, skip)
           \/ \E c \in Campaigns : PauseCampaign(o, c)
    PROVE  WorkInv'
<1>1. UNCHANGED <<lead, job, held, request, raced>>
  BY DEF CreateTemplate, CreateCampaign, PauseCampaign
<1>2. TemplatesFit'
  BY DEF CreateTemplate, CreateCampaign, PauseCampaign, TemplatesFit, WorkInv, CampaignInv, Shapes
<1> QED BY <1>1, <1>2 DEF WorkInv, LeadsFit, QueueFits

LEMMA WritesWork ==
    ASSUME CampaignInv, WorkInv, NEW o \in Operators,
           UpdateTemplateWrite(o) \/ DeleteTemplateWrite(o) \/ UpdateCampaignWrite(o)
    PROVE  WorkInv'
<1>1. UNCHANGED <<lead, job, held>> /\ Answered(o)
  BY DEF UpdateTemplateWrite, DeleteTemplateWrite, UpdateCampaignWrite
<1>2. raced' \subseteq Campaigns
  BY DEF UpdateTemplateWrite, DeleteTemplateWrite, UpdateCampaignWrite, Races, Running, WorkInv
<1>3. TemplatesFit'
  <2>1. CASE UpdateTemplateWrite(o)
    <3>1. \E x \in Bodies : request[o].data = {x}
      BY <2>1 DEF UpdateTemplateWrite, WorkInv, Asked
    <3> QED BY <2>1, <3>1 DEF UpdateTemplateWrite, TemplatesFit, WorkInv
  <2>2. CASE DeleteTemplateWrite(o)
    BY <2>2 DEF DeleteTemplateWrite, TemplatesFit, WorkInv
  <2>3. CASE UpdateCampaignWrite(o)
    BY <2>3 DEF UpdateCampaignWrite, TemplatesFit, WorkInv
  <2> QED BY <2>1, <2>2, <2>3
<1> QED BY <1>1, <1>2, <1>3, AskedKeptByAnswer DEF WorkInv, LeadsFit, QueueFits

\* The queue of a campaign takes leads nobody works on, and those alone.
LEMMA StartsWork ==
    ASSUME CampaignInv, WorkInv, NEW o \in Operators, StartWrite(o) \/ Generate(o)
    PROVE  WorkInv'
<1>1. CASE StartWrite(o)
  <2>1. \A p \in Operators : Asked(request'[p])
    BY <1>1 DEF StartWrite, CampaignInv, Shapes, WorkInv, Asked, Free
  <2>2. UNCHANGED <<template, lead, job, held>> /\ raced' \subseteq raced
    BY <1>1 DEF StartWrite
  <2> QED BY <2>1, <2>2 DEF WorkInv, TemplatesFit, LeadsFit, QueueFits
<1>2. CASE Generate(o)
  <2>1. PICK d \in Campaigns : request[o].id = {d}
    BY <1>2 DEF Generate, WorkInv, Asked
  <2>2. job' = [l \in Leads |-> IF Unqueued(l) /\ lead[l].campaign = {d} THEN {d} ELSE job[l]]
    BY <1>2, <2>1 DEF Generate
  <2>3. UNCHANGED <<template, lead, held, raced>>
    BY <1>2 DEF Generate
  <2>4. QueueFits'
    BY <2>2, <2>3 DEF QueueFits, WorkInv, Unqueued
  <2> QED BY <1>2, <2>3, <2>4, AskedKeptByAnswer DEF Generate, WorkInv, TemplatesFit, LeadsFit
<1> QED BY <1>1, <1>2

LEMMA LeadsWork ==
    ASSUME CampaignInv, WorkInv, NEW o \in Operators, NEW l \in Leads,
           \/ \E v \in Values : UpdateLead(o, l, v)
           \/ \E c \in {{x} : x \in Campaigns} \cup {None} : AssignLead(o, l, c)
    PROVE  WorkInv'
<1>1. UNCHANGED <<template, job, held, request, raced>>
  BY DEF UpdateLead, AssignLead
<1>2. /\ LeadsFit'
      /\ \A x \in Leads : lead'[x].status = lead[x].status
  <2>1. CASE \E v \in Values : UpdateLead(o, l, v)
    BY <2>1 DEF UpdateLead, LeadsFit, WorkInv
  <2>2. CASE \E c \in {{x} : x \in Campaigns} \cup {None} : AssignLead(o, l, c)
    BY <2>2 DEF AssignLead, LeadsFit, WorkInv, None
  <2> QED BY <2>1, <2>2
<1> QED BY <1>1, <1>2 DEF WorkInv, TemplatesFit, QueueFits

\* A claim is of a lead with a job, so of one nobody works on; a report is of the one held.
LEMMA WorkerWork ==
    ASSUME CampaignInv, WorkInv, (\E l \in Leads : Claim(l)) \/ Refuse \/ Send
    PROVE  WorkInv'
<1> USE DEF WorkInv
<1>1. UNCHANGED <<template, request, raced>>
  BY DEF Claim, Refuse, Send
<1>2. CASE \E l \in Leads : Claim(l)
  <2>1. PICK l \in Leads : Claim(l)
    BY <1>2
  <2>2. /\ \A h \in held' : h.lead = l
        /\ lead' = [lead EXCEPT ![l].status = "PROCESSING"]
        /\ job' = [job EXCEPT ![l] = None]
    BY <2>1 DEF Claim
  <2>3. LeadsFit' /\ lead'[l].status = "PROCESSING"
        /\ \A x \in Leads \ {l} : lead'[x] = lead[x]
    BY <2>2 DEF LeadsFit
  <2>4. QueueFits'
    BY <2>2, <2>3 DEF QueueFits
  <2> QED BY <1>1, <2>3, <2>4 DEF TemplatesFit
<1>3. CASE Refuse \/ Send
  <2>1. PICK h \in held, to \in {"FAILED", "SENT"} :
          lead' = [lead EXCEPT ![h.lead].status = to]
    BY <1>3 DEF Refuse, Send
  <2>2. held' = {} /\ job' = job
    BY <1>3 DEF Refuse, Send, None
  <2>3. h.lead \in Leads /\ job[h.lead] = None
    BY DEF QueueFits
  <2>4. LeadsFit' /\ \A x \in Leads \ {h.lead} : lead'[x] = lead[x]
    BY <2>1, <2>3 DEF LeadsFit
  <2>5. QueueFits'
    BY <2>2, <2>3, <2>4 DEF QueueFits
  <2> QED BY <1>1, <2>4, <2>5 DEF TemplatesFit
<1> QED BY <1>2, <1>3

LEMMA StepKeepsWorkInv == NotesInv /\ WorkInv /\ [Next]_vars => WorkInv'
<1> SUFFICES ASSUME CampaignInv, WorkInv, [Next]_vars PROVE WorkInv'
  BY DEF NotesInv
<1>1. CASE UNCHANGED vars
  BY <1>1 DEF vars, WorkInv, TemplatesFit, LeadsFit, QueueFits
<1>2. CASE Next
  BY <1>2, AsksWork, AtOnceWork, WritesWork, StartsWork, LeadsWork, WorkerWork DEF Next
<1> QED BY <1>1, <1>2

\* The tables keep their shape, a campaign's template exists (the foreign key, whatever
\* was deleted between a read and its write), and a lead that the worker holds or that
\* is invited waits in no queue, for any number of operators at work at once.
THEOREM NotesTypeCorrect == Spec => []NotesTypeOK
<1>1. NotesInv /\ WorkInv => NotesTypeOK
  <2> SUFFICES ASSUME CampaignInv, WorkInv PROVE NotesTypeOK
    BY DEF NotesInv
  <2> USE DEF CampaignInv, WorkInv
  <2>1. /\ \A x : Cardinality({x}) = 1
        /\ Cardinality({}) = 0
    BY FS_EmptySet, FS_Singleton
  <2>2. \A t \in Templates : template[t] \subseteq Bodies /\ Cardinality(template[t]) <= 1
    <3> TAKE t \in Templates
    <3>1. CASE template[t] = {}
      BY <2>1, <3>1
    <3>2. CASE template[t] # {}
      <4>1. PICK b \in Bodies : template[t] = {b}
        BY <3>2 DEF TemplatesFit, None
      <4>2. Cardinality(template[t]) = 1
        BY <2>1, <4>1
      <4> QED BY <4>1, <4>2
    <3> QED BY <3>1, <3>2
  <2>3. \A c \in Campaigns :
          /\ campaign[c].status \in {"ABSENT", "DRAFT", "RUNNING", "PAUSED", "COMPLETED"}
          /\ \A t \in campaign[c].template : t \in Templates /\ template[t] # None
          /\ campaign[c].skip \in BOOLEAN
    BY DEF Shapes, Attached, Status
  <2>4. \A l \in Leads : /\ job[l] \subseteq Campaigns /\ Cardinality(job[l]) <= 1
                         /\ lead[l].status \in {"PROCESSING", "SENT"} => job[l] = None
    <3> TAKE l \in Leads
    <3>1. lead[l].status \in {"PROCESSING", "SENT"} => job[l] = {}
      BY DEF QueueFits, None
    <3>2. CASE job[l] = {}
      BY <2>1, <3>2 DEF None
    <3>3. CASE job[l] # {}
      <4>1. PICK c \in Campaigns : job[l] = {c}
        BY <3>3 DEF QueueFits, None
      <4>2. Cardinality(job[l]) = 1
        BY <2>1, <4>1
      <4> QED BY <3>1, <3>3, <4>1, <4>2 DEF None
    <3> QED BY <3>2, <3>3
  <2> QED BY <2>2, <2>3, <2>4 DEF NotesTypeOK, LeadsFit, QueueFits
<1> QED BY <1>1, InitNotesInv, StepKeepsNotesInv, InitWorkInv, StepKeepsWorkInv, PTL DEF Spec

=============================================================================
