----------------------------- MODULE ProfileVisit -----------------------------
(***************************************************************************)
(* One visit of the worker to one profile (performConnect and what it      *)
(* calls, src/worker/actions/connect.ts): navigate, detect, act, detect    *)
(* again, decide.  LinkedIn is the environment: it chooses every page,     *)
(* dialog and button, truthfully about the owner's own invitation.  What   *)
(* the database makes of the outcome is elsewhere.                         *)
(***************************************************************************)
EXTENDS Naturals, FiniteSets, PageDetection

CONSTANTS
    Sidebar,        \* what the strangers beside a profile may show
    UrlsSeen,       \* the sets of URL groups a page of this instance may match
    Immediate       \* are there profiles that send at once, without a dialog?

ASSUME VisitAssumption ==
    /\ Sidebar \subseteq {"strangerPending", "strangerConnect"}
    /\ UrlsSeen \subseteq SUBSET UrlSigns
    /\ Immediate \in BOOLEAN

VARIABLES
    visit,       \* the worker: where it is, what it decided
    page,        \* what the browser shows
    invited      \* whom LinkedIn has been asked to invite, and how

visitVars == <<visit, page, invited>>

Blank == [url |-> {}, dom |-> {}, controls |-> {}, titled |-> FALSE]

\* The dialog after a click on Connect: for whom is it, does it ask for an email
\* address, does it take a note, which send buttons does it have?
Dialog == [to : {"OWNER", "STRANGER"}, email : BOOLEAN, field : BOOLEAN, buttons : SUBSET {"SEND_WITHOUT_NOTE", "SEND"}]

NoDialog == [to |-> "OWNER", email |-> FALSE, field |-> FALSE, buttons |-> {}]

Undecided == [class |-> NULL, page |-> NULL]

Visiting == [at : {"START", "DETECT", "PRESS", "DIALOG", "VERIFY", "RELOADED", "DONE"},
             note : BOOLEAN, typed : BOOLEAN, aborted : BOOLEAN,
             dialog : Dialog, outcome : Report \cup {Undecided}]

Invitation == [to : {"OWNER", "STRANGER"}, note : BOOLEAN]

VisitTypeOK ==
    /\ visit \in Visiting
    /\ page \in Page
    /\ invited \in SUBSET Invitation

VisitInit ==
    /\ visit \in [at : {"START"}, note : BOOLEAN, typed : {FALSE}, aborted : {FALSE},
                  dialog : {NoDialog}, outcome : {Undecided}]
    /\ page = Blank
    /\ invited \in {{}, {[to |-> "OWNER", note |-> FALSE]}}

OwnerInvited == \E i \in invited : i.to = "OWNER"

\* The pages LinkedIn may show: "pending" for the owner exactly when invited.
ShownPages ==
    {p \in [url : UrlsSeen, dom : SUBSET DomSigns, titled : BOOLEAN,
            controls : SUBSET ({"ownerPending", "ownerConnect", "menuConnect", "firstDegree"}
                               \cup Sidebar)] :
        /\ "ownerPending" \in p.controls <=> OwnerInvited
        /\ Cardinality(p.controls \cap {"ownerPending", "ownerConnect", "menuConnect",
                                        "firstDegree"}) <= 1}

Decide(class, state) ==
    visit' = [visit EXCEPT !.at = "DONE", !.dialog = NoDialog,
                           !.outcome = [class |-> class, page |-> state]]

Proceed(place) == visit' = [visit EXCEPT !.at = place]

\* (Mutant: what cannot be processed counts as a safety state.)
UnprocessableAsSafety(state) == Decide("SAFETY", state)

Unprocessable(state) == Decide("PERMANENT", state)

-----------------------------------------------------------------------------

\* The stop is noticed: the visit ends where it next looks at the signal.
Abort ==
    /\ visit.at \in {"START", "PRESS", "DIALOG", "VERIFY"}
    /\ ~visit.aborted
    /\ visit' = [visit EXCEPT !.aborted = TRUE]
    /\ UNCHANGED <<page, invited>>

ThrowIfAborted ==
    /\ visit.aborted
    /\ visit.at # "DONE"
    /\ Decide("TECHNICAL", NULL)
    /\ page' = Blank
    /\ UNCHANGED invited

Navigate ==
    /\ visit.at = "START" /\ ~visit.aborted
    /\ \/ page' \in ShownPages /\ Proceed("DETECT")
       \/ Decide("TECHNICAL", "NETWORK_ERROR") /\ UNCHANGED page
    /\ UNCHANGED invited

DetectBefore ==
    /\ visit.at = "DETECT"
    /\ LET state == detectPageState(page, TRUE)
       IN \/ state \in SafetyStates /\ Decide("SAFETY", state)
          \/ /\ state \in {"ALREADY_CONNECTED", "INVITATION_PENDING", "PROFILE_NOT_FOUND"}
             /\ Decide("NONE", state)
          \/ state = "PROFILE_FOUND" /\ Unprocessable(state)
          \/ state = "CONNECT_AVAILABLE" /\ Proceed("PRESS")
    /\ UNCHANGED <<page, invited>>

Invite(person, note) == invited' = invited \cup {[to |-> person, note |-> note]}

\* The dialog that opens for a person, or the invitation that goes at once.
Pressed(person) ==
    \/ /\ \E d \in Dialog : /\ d.to = person
                           /\ visit' = [visit EXCEPT !.at = "DIALOG", !.dialog = d]
       /\ UNCHANGED invited
    \/ Immediate /\ Invite(person, FALSE) /\ Proceed("VERIFY")

\* (Mutant: the first Connect control of the page is clicked.)
PressFirstConnect ==
    /\ visit.at = "PRESS" /\ ~visit.aborted
    /\ IF "strangerConnect" \in page.controls THEN Pressed("STRANGER")
       ELSE IF "ownerConnect" \in page.controls THEN Pressed("OWNER")
       ELSE Unprocessable("CONNECT_AVAILABLE") /\ UNCHANGED invited
    /\ page' = Blank

\* findOwnerConnectButton, and the click: only a control that names the owner, on
\* the card or in its menu.
PressConnect ==
    /\ visit.at = "PRESS" /\ ~visit.aborted
    /\ \/ /\ page.titled
          /\ page.controls \cap {"ownerConnect", "menuConnect"} # {}
          /\ Pressed("OWNER")
       \/ Unprocessable("CONNECT_AVAILABLE") /\ UNCHANGED invited
    /\ page' = Blank

\* Fill the dialog in and click the first send control there is, the one that
\* sends without a note before the others.
CompleteDialog ==
    /\ visit.at = "DIALOG" /\ ~visit.aborted
    /\ LET d == visit.dialog
           stuck == d.email \/ (visit.note /\ ~d.field) \/ d.buttons = {}
       IN IF stuck
            THEN Unprocessable("PROFILE_FOUND") /\ UNCHANGED invited
            ELSE /\ visit' = [visit EXCEPT !.at = "VERIFY", !.dialog = NoDialog,
                                           !.typed = visit.note]
                 /\ \/ Invite(d.to, visit.note /\ "SEND_WITHOUT_NOTE" \notin d.buttons)
                    \/ UNCHANGED invited               \* LinkedIn drops it
    /\ UNCHANGED page

\* (Mutant: the click is believed.)
VerifyByClick ==
    /\ visit.at = "VERIFY" /\ ~visit.aborted
    /\ Decide("NONE", SENT_RESULT)
    /\ UNCHANGED <<page, invited>>

\* verifyInvitationSent: a "Pending" button anywhere on the page confirms it,
\* otherwise the profile is loaded again.
VerifyInvitationSent ==
    /\ visit.at = "VERIFY" /\ ~visit.aborted
    /\ \/ OwnerInvited /\ Decide("NONE", SENT_RESULT) /\ UNCHANGED page
       \/ "strangerPending" \in Sidebar /\ Decide("NONE", SENT_RESULT) /\ UNCHANGED page
       \/ Unprocessable("NETWORK_ERROR") /\ UNCHANGED page
       \/ page' \in ShownPages /\ Proceed("RELOADED")
    /\ UNCHANGED invited

DetectAfter ==
    /\ visit.at = "RELOADED"
    /\ LET state == detectPageState(page, TRUE)
       IN \/ state = "INVITATION_PENDING" /\ Decide("NONE", SENT_RESULT)
          \/ state \in SafetyStates /\ Decide("SAFETY", state)
          \/ state = "ALREADY_CONNECTED" /\ Decide("NONE", state)
          \/ state \in PageState \ (SafetyStates \cup {"INVITATION_PENDING", "ALREADY_CONNECTED"})
             /\ Unprocessable(state)
    /\ UNCHANGED <<page, invited>>

VisitNext ==
    \/ Abort \/ ThrowIfAborted
    \/ Navigate \/ DetectBefore \/ PressConnect \/ CompleteDialog
    \/ VerifyInvitationSent \/ DetectAfter

VisitSpec == VisitInit /\ [][VisitNext]_visitVars

-----------------------------------------------------------------------------

\* Nobody but the person the lead stands for is invited, whoever else the page
\* offers to connect to (findOwnerConnectButton).
OnlyTheOwnerIsInvited == \A i \in invited : i.to = "OWNER"

\* A page that shows any sign of a security control ends the visit as a safety
\* state, whatever else is on it, before acting and after (detectPageState).
SecuritySignStopsVisit ==
    visit.at = "DONE" /\ (page.url \cup page.dom) \cap (SecuritySigns \cup {"checkpoint"}) # {}
        => visit.outcome.class = "SAFETY" \/ visit.aborted

\* SENT is the outcome only of a visit after which the owner's invitation is
\* outstanding (verifyInvitationSent).
SentIsConfirmed == visit.outcome.page = SENT_RESULT => OwnerInvited
=============================================================================
