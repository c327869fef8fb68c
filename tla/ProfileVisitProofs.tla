-------------------------- MODULE ProfileVisitProofs --------------------------
(***************************************************************************)
(* What one visit may do, whatever pages LinkedIn shows.  The page is      *)
(* looked at only in the states DETECT and RELOADED, and is blank wherever *)
(* a click has made it another one (PageForgotten); so a visit that ends   *)
(* elsewhere ends on no sign at all, and one that ends there has asked for *)
(* the security signs first.                                               *)
(***************************************************************************)
EXTENDS ProfileVisit, TLAPS

Signs(p) == (p.url \cup p.dom) \cap (SecuritySigns \cup {"checkpoint"})

PageForgotten == visit.at \in {"START", "DIALOG", "VERIFY"} => page = Blank

\* What the page shown after the visit says of the owner is true.
PageTruthful ==
    visit.at = "RELOADED" =>
      /\ "ownerPending" \in page.controls <=> OwnerInvited
      /\ "strangerPending" \in page.controls => "strangerPending" \in Sidebar

VisitInv == VisitTypeOK /\ PageForgotten /\ SecuritySignStopsVisit

-----------------------------------------------------------------------------
(* Reading a page. *)

\* On a profile there are three kinds of connection, or none that is told.
LEMMA ConnectionStates ==
    ASSUME NEW p \in Page
    PROVE  /\ detectConnectionState(p) \in {"INVITATION_PENDING", "CONNECT_AVAILABLE",
                                            "ALREADY_CONNECTED", "PROFILE_FOUND"}
           /\ detectConnectionState(p) = "INVITATION_PENDING" =>
                \/ "ownerPending" \in p.controls
                \/ "strangerPending" \in p.controls
<1>1. CASE p.titled
  BY <1>1 DEF detectConnectionState, OwnersConnectionState
<1>2. CASE ~p.titled
  BY <1>2 DEF detectConnectionState, PagesConnectionState
<1> QED BY <1>1, <1>2

\* The states in which a visited page can be found; a security sign wins.
LEMMA DetectedStates ==
    ASSUME NEW p \in Page
    PROVE  /\ detectPageState(p, TRUE) \in
                SafetyStates \cup {"PROFILE_NOT_FOUND", "INVITATION_PENDING", "CONNECT_AVAILABLE",
                                   "ALREADY_CONNECTED", "PROFILE_FOUND"}
           /\ Signs(p) # {} => detectPageState(p, TRUE) \in SafetyStates
           /\ detectPageState(p, TRUE) = "INVITATION_PENDING" =>
                \/ "ownerPending" \in p.controls
                \/ "strangerPending" \in p.controls
<1>1. SecurityState(p) \in {NULL, "CAPTCHA", "ACCOUNT_RESTRICTED", "SECURITY_CHALLENGE"}
  BY DEF SecurityState
<1>2. Signs(p) # {} => SecurityState(p) # NULL
  BY DEF SecurityState, Signs, Shows, SecuritySigns, NULL
<1>3. {"CAPTCHA", "ACCOUNT_RESTRICTED", "SECURITY_CHALLENGE"} \subseteq SafetyStates
  BY DEF SafetyStates
<1>4. CASE SecurityState(p) # NULL
  <2>1. detectPageState(p, TRUE) = SecurityState(p)
    BY <1>4 DEF detectPageState
  <2> QED BY <1>1, <1>3, <1>4, <2>1
<1>5. CASE SecurityState(p) = NULL
  <2>1. detectPageState(p, TRUE) \in {"LOGIN_REQUIRED", "PROFILE_NOT_FOUND", "UNKNOWN_PAGE",
                                      detectConnectionState(p)}
    BY <1>5 DEF detectPageState
  <2>2. {"LOGIN_REQUIRED", "UNKNOWN_PAGE"} \subseteq SafetyStates
    BY DEF SafetyStates
  <2> QED BY <1>2, <1>5, <2>1, <2>2, ConnectionStates
<1> QED BY <1>4, <1>5

LEMMA ShownArePages == ShownPages \subseteq Page
BY VisitAssumption DEF ShownPages, Page, Controls

LEMMA BlankHasNoSigns == Blank \in Page /\ Signs(Blank) = {}
BY DEF Blank, Page, Signs

-----------------------------------------------------------------------------
(* The ways a visit ends. *)

\* A decision keeps the type if it is one that processJob reports.
LEMMA DecisionTyped ==
    ASSUME visit \in Visiting, NEW class, NEW state, [class |-> class, page |-> state] \in Report,
           Decide(class, state)
    PROVE  /\ visit' \in Visiting
           /\ visit'.at = "DONE" /\ visit'.outcome = [class |-> class, page |-> state]
           /\ visit'.aborted = visit.aborted
BY DEF Decide, Visiting, NoDialog, Dialog

LEMMA Reportable ==
    /\ \A s \in SafetyStates : [class |-> "SAFETY", page |-> s] \in Report
    /\ \A s \in {SENT_RESULT, "ALREADY_CONNECTED", "INVITATION_PENDING", "PROFILE_NOT_FOUND"} :
         [class |-> "NONE", page |-> s] \in Report
    /\ \A s \in {NULL, "PROFILE_FOUND", "CONNECT_AVAILABLE", "NETWORK_ERROR", "PROFILE_NOT_FOUND"} :
         [class |-> "PERMANENT", page |-> s] \in Report
    /\ \A s \in {NULL, "NETWORK_ERROR"} : [class |-> "TECHNICAL", page |-> s] \in Report
BY DEF Report, SafetyReports, Completions, PermanentFailures, TechnicalFailures

-----------------------------------------------------------------------------
(* Every step keeps the types, forgets the page it has left, and ends a     *)
(* visit that saw a security sign as a safety state.                        *)

LEMMA InitVisitInv == VisitInit => VisitInv
<1> SUFFICES ASSUME VisitInit PROVE VisitInv
  OBVIOUS
<1>1. VisitTypeOK
  <2>1. NoDialog \in Dialog
    BY DEF NoDialog, Dialog
  <2>2. visit \in Visiting
    BY <2>1 DEF VisitInit, Visiting
  <2>3. [to |-> "OWNER", note |-> FALSE] \in Invitation
    BY DEF Invitation
  <2>4. invited \in SUBSET Invitation
    BY <2>3 DEF VisitInit
  <2> QED BY <2>2, <2>4, BlankHasNoSigns DEF VisitInit, VisitTypeOK
<1> QED BY <1>1 DEF VisitInit, VisitInv, PageForgotten, SecuritySignStopsVisit

\* A visit that ends on a page without signs, or as a safety state, keeps the invariant.
LEMMA EndKeepsInv ==
    ASSUME VisitInv, NEW class, NEW state, [class |-> class, page |-> state] \in Report,
           Decide(class, state), page' \in Page, invited' \in SUBSET Invitation,
           Signs(page') = {} \/ class = "SAFETY" \/ visit.aborted
    PROVE  VisitInv'
<1>1. visit \in Visiting
  BY DEF VisitInv, VisitTypeOK
<1>2. /\ visit' \in Visiting /\ visit'.at = "DONE" /\ visit'.aborted = visit.aborted
      /\ visit'.outcome.class = class
  BY <1>1, DecisionTyped
<1> QED BY <1>2 DEF VisitInv, VisitTypeOK, PageForgotten, SecuritySignStopsVisit, Signs

\* So does a visit that goes on, if it forgets what it has to.
LEMMA GoingOnKeepsInv ==
    ASSUME VisitInv, visit' \in Visiting, visit'.at # "DONE",
           page' \in Page, invited' \in SUBSET Invitation,
           visit'.at \in {"START", "DIALOG", "VERIFY"} => page' = Blank
    PROVE  VisitInv'
BY DEF VisitInv, VisitTypeOK, PageForgotten, SecuritySignStopsVisit

LEMMA StepKeepsInv ==
    ASSUME VisitInv, [VisitNext]_visitVars
    PROVE  VisitInv'
<1> USE DEF VisitInv
<1>1. visit \in Visiting /\ page \in Page /\ invited \in SUBSET Invitation
  BY DEF VisitTypeOK
<1>2. ASSUME NEW person \in {"OWNER", "STRANGER"}, NEW note \in BOOLEAN, Invite(person, note)
      PROVE  invited' \in SUBSET Invitation
  BY <1>1, <1>2 DEF Invite, Invitation
<1>3. ASSUME NEW place \in {"START", "DETECT", "PRESS", "DIALOG", "VERIFY", "RELOADED"},
             Proceed(place)
      PROVE  visit' \in Visiting /\ visit'.at = place
  BY <1>1, <1>3 DEF Proceed, Visiting
<1>4. CASE Abort
  <2>1. visit' \in Visiting /\ visit'.at = visit.at /\ visit.at # "DONE"
    BY <1>1, <1>4 DEF Abort, Visiting
  <2> QED BY <1>1, <1>4, <2>1, GoingOnKeepsInv DEF Abort, PageForgotten
<1>5. CASE ThrowIfAborted
  BY <1>1, <1>5, EndKeepsInv, Reportable, BlankHasNoSigns DEF ThrowIfAborted
<1>6. CASE Navigate
  <2>1. CASE page' \in ShownPages /\ Proceed("DETECT")
    BY <1>1, <1>3, <1>6, <2>1, GoingOnKeepsInv, ShownArePages DEF Navigate
  <2>2. CASE Decide("TECHNICAL", "NETWORK_ERROR") /\ UNCHANGED page
    <3>1. page' = Blank
      BY <1>6, <2>2 DEF Navigate, PageForgotten
    <3> QED BY <1>1, <1>6, <2>2, <3>1, EndKeepsInv, Reportable, BlankHasNoSigns DEF Navigate
  <2> QED BY <1>6, <2>1, <2>2 DEF Navigate
<1>7. CASE DetectBefore
  <2> DEFINE state == detectPageState(page, TRUE)
  <2>1. page' = page /\ invited' = invited
    BY <1>7 DEF DetectBefore
  <2>2. Signs(page) # {} => state \in SafetyStates
    BY <1>1, DetectedStates
  <2>3. CASE state \in SafetyStates /\ Decide("SAFETY", state)
    BY <1>1, <2>1, <2>3, EndKeepsInv, Reportable
  <2>4. CASE state \in {"ALREADY_CONNECTED", "INVITATION_PENDING", "PROFILE_NOT_FOUND"}
             /\ Decide("NONE", state)
    <3>1. Signs(page) = {}
      BY <2>2, <2>4 DEF SafetyStates
    <3> QED BY <1>1, <2>1, <2>4, <3>1, EndKeepsInv, Reportable
  <2>5. CASE state = "PROFILE_FOUND" /\ Unprocessable(state)
    <3>1. Signs(page) = {}
      BY <2>2, <2>5 DEF SafetyStates
    <3> QED BY <1>1, <2>1, <2>5, <3>1, EndKeepsInv, Reportable DEF Unprocessable
  <2>6. CASE Proceed("PRESS")
    BY <1>1, <1>3, <2>1, <2>6, GoingOnKeepsInv
  <2> QED BY <1>7, <2>3, <2>4, <2>5, <2>6 DEF DetectBefore
<1>8. CASE PressConnect
  <2>1. page' = Blank
    BY <1>8 DEF PressConnect
  <2>2. CASE Pressed("OWNER")
    <3>1. ASSUME NEW d \in Dialog, visit' = [visit EXCEPT !.at = "DIALOG", !.dialog = d]
          PROVE  visit' \in Visiting /\ visit'.at = "DIALOG"
      BY <1>1, <3>1 DEF Visiting
    <3> QED BY <1>1, <1>2, <1>3, <2>1, <2>2, <3>1, GoingOnKeepsInv, BlankHasNoSigns DEF Pressed
  <2>3. CASE Unprocessable("CONNECT_AVAILABLE") /\ UNCHANGED invited
    BY <1>1, <2>1, <2>3, EndKeepsInv, Reportable, BlankHasNoSigns DEF Unprocessable
  <2> QED BY <1>8, <2>2, <2>3 DEF PressConnect
<1>9. CASE CompleteDialog
  <2>1. page' = Blank
    BY <1>9 DEF CompleteDialog, PageForgotten
  <2>2. CASE Unprocessable("PROFILE_FOUND") /\ UNCHANGED invited
    BY <1>1, <2>1, <2>2, EndKeepsInv, Reportable, BlankHasNoSigns DEF Unprocessable
  <2>3. CASE visit' = [visit EXCEPT !.at = "VERIFY", !.dialog = NoDialog, !.typed = visit.note]
    <3>1. visit' \in Visiting /\ visit'.at = "VERIFY"
      BY <1>1, <2>3 DEF Visiting, NoDialog, Dialog
    <3>2. invited' \in SUBSET Invitation
      <4>1. visit.note \in BOOLEAN
        BY <1>1 DEF Visiting
      <4>2. (visit.note /\ "SEND_WITHOUT_NOTE" \notin visit.dialog.buttons) \in BOOLEAN
        OBVIOUS
      <4>3. \/ Invite(visit.dialog.to, visit.note /\ "SEND_WITHOUT_NOTE" \notin visit.dialog.buttons)
            \/ UNCHANGED invited
        BY <1>9 DEF CompleteDialog
      <4>4. visit.dialog.to \in {"OWNER", "STRANGER"}
        BY <1>1 DEF Visiting, Dialog
      <4> QED BY <1>1, <1>2, <4>2, <4>3, <4>4
    <3> QED BY <1>1, <2>1, <3>1, <3>2, GoingOnKeepsInv, BlankHasNoSigns
  <2> QED BY <1>9, <2>2, <2>3 DEF CompleteDialog
<1>10. CASE VerifyInvitationSent
  <2>1. page = Blank /\ invited' = invited
    BY <1>10 DEF VerifyInvitationSent, PageForgotten
  <2>2. CASE Decide("NONE", SENT_RESULT) /\ UNCHANGED page
    BY <1>1, <2>1, <2>2, EndKeepsInv, Reportable, BlankHasNoSigns
  <2>3. CASE Unprocessable("NETWORK_ERROR") /\ UNCHANGED page
    BY <1>1, <2>1, <2>3, EndKeepsInv, Reportable, BlankHasNoSigns DEF Unprocessable
  <2>4. CASE page' \in ShownPages /\ Proceed("RELOADED")
    BY <1>1, <1>3, <2>1, <2>4, GoingOnKeepsInv, ShownArePages
  <2> QED BY <1>10, <2>2, <2>3, <2>4 DEF VerifyInvitationSent
<1>11. CASE DetectAfter
  <2> DEFINE state == detectPageState(page, TRUE)
  <2>1. page' = page /\ invited' = invited
    BY <1>11 DEF DetectAfter
  <2>2. /\ Signs(page) # {} => state \in SafetyStates
        /\ state \in SafetyStates \cup {"PROFILE_NOT_FOUND", "INVITATION_PENDING",
                          "CONNECT_AVAILABLE", "ALREADY_CONNECTED", "PROFILE_FOUND"}
    BY <1>1, DetectedStates
  <2>3. CASE state \in SafetyStates /\ Decide("SAFETY", state)
    BY <1>1, <2>1, <2>3, EndKeepsInv, Reportable
  <2>4. CASE \/ state = "INVITATION_PENDING" /\ Decide("NONE", SENT_RESULT)
             \/ state = "ALREADY_CONNECTED" /\ Decide("NONE", state)
    <3>1. Signs(page) = {}
      BY <2>2, <2>4 DEF SafetyStates
    <3> QED BY <1>1, <2>1, <2>4, <3>1, EndKeepsInv, Reportable
  <2>5. CASE /\ state \in PageState \ (SafetyStates \cup {"INVITATION_PENDING", "ALREADY_CONNECTED"})
             /\ Unprocessable(state)
    <3>1. Signs(page) = {} /\ state \in {"PROFILE_NOT_FOUND", "CONNECT_AVAILABLE", "PROFILE_FOUND"}
      BY <2>2, <2>5
    <3> QED BY <1>1, <2>1, <2>5, <3>1, EndKeepsInv, Reportable DEF Unprocessable
  <2> QED BY <1>11, <2>3, <2>4, <2>5 DEF DetectAfter
<1>12. CASE UNCHANGED visitVars
  BY <1>12 DEF visitVars, VisitTypeOK, PageForgotten, SecuritySignStopsVisit
<1> QED
  BY <1>4, <1>5, <1>6, <1>7, <1>8, <1>9, <1>10, <1>11, <1>12 DEF VisitNext

\* Types, for every set of pages and strangers.
THEOREM VisitTypeCorrect == VisitSpec => []VisitTypeOK
<1>1. VisitInv => VisitTypeOK
  BY DEF VisitInv
<1> QED BY <1>1, InitVisitInv, StepKeepsInv, PTL DEF VisitSpec

\* Whatever a page looks like that shows a security sign, the visit ends as a safety
\* state or by the stop: no other rule of detectPageState wins, before acting or after.
THEOREM SecuritySignWins == VisitSpec => []SecuritySignStopsVisit
<1>1. VisitInv => SecuritySignStopsVisit
  BY DEF VisitInv
<1> QED BY <1>1, InitVisitInv, StepKeepsInv, PTL DEF VisitSpec

-----------------------------------------------------------------------------
(* Whom a visit invites, and what it calls sent. *)

\* The dialog that is open is the owner's.
OwnersDialog == visit.at = "DIALOG" => visit.dialog.to = "OWNER"

\* Nobody but the owner is invited, whatever the sidebar offers: the control that is
\* clicked is asked for by the owner's name, and so the dialog is his.
THEOREM OwnerOnly == VisitSpec => []OnlyTheOwnerIsInvited
<1> DEFINE Inv == VisitInv /\ OnlyTheOwnerIsInvited /\ OwnersDialog
<1>1. ASSUME VisitInit PROVE Inv
  <2>1. OnlyTheOwnerIsInvited
    BY <1>1 DEF VisitInit, OnlyTheOwnerIsInvited
  <2>2. visit.at = "START"
    BY <1>1 DEF VisitInit
  <2> QED BY <1>1, <2>1, <2>2, InitVisitInv DEF OwnersDialog
<1>2. ASSUME Inv, [VisitNext]_visitVars
      PROVE  OnlyTheOwnerIsInvited' /\ OwnersDialog'
  <2>1. ASSUME NEW note, Invite("OWNER", note)
        PROVE  OnlyTheOwnerIsInvited'
    BY <1>2, <2>1 DEF Invite, OnlyTheOwnerIsInvited
  <2>2. ASSUME UNCHANGED invited
        PROVE  OnlyTheOwnerIsInvited'
    BY <1>2, <2>2 DEF OnlyTheOwnerIsInvited
  <2>3. visit \in Visiting
    BY <1>2 DEF VisitInv, VisitTypeOK
  <2>4. ASSUME NEW class, NEW state, Decide(class, state)
        PROVE  OwnersDialog'
    BY <2>3, <2>4 DEF Decide, Visiting, OwnersDialog
  <2>5. ASSUME NEW place \in {"DETECT", "PRESS", "VERIFY", "RELOADED"}, Proceed(place)
        PROVE  OwnersDialog'
    BY <2>3, <2>5 DEF Proceed, Visiting, OwnersDialog
  <2>6. CASE PressConnect
    <3>1. ASSUME NEW d \in Dialog, d.to = "OWNER",
                 visit' = [visit EXCEPT !.at = "DIALOG", !.dialog = d]
          PROVE  OwnersDialog'
      BY <2>3, <3>1 DEF Visiting, OwnersDialog
    <3> QED BY <2>1, <2>2, <2>4, <2>5, <2>6, <3>1 DEF PressConnect, Pressed, Unprocessable
  <2>7. CASE CompleteDialog
    <3>1. visit.dialog.to = "OWNER"
      BY <1>2, <2>7 DEF CompleteDialog, OwnersDialog
    <3>2. OnlyTheOwnerIsInvited'
      BY <2>1, <2>2, <2>7, <3>1 DEF CompleteDialog
    <3>3. ASSUME visit' = [visit EXCEPT !.at = "VERIFY", !.dialog = NoDialog, !.typed = visit.note]
          PROVE  OwnersDialog'
      BY <2>3, <3>3 DEF Visiting, OwnersDialog
    <3> QED BY <2>4, <2>7, <3>2, <3>3 DEF CompleteDialog, Unprocessable
  <2>8. CASE Abort
    BY <1>2, <2>2, <2>3, <2>8 DEF Abort, Visiting, OwnersDialog
  <2>9. CASE ThrowIfAborted \/ Navigate \/ DetectBefore
    BY <2>2, <2>4, <2>5, <2>9 DEF ThrowIfAborted, Navigate, DetectBefore, Unprocessable
  <2>10. CASE VerifyInvitationSent \/ DetectAfter
    BY <2>2, <2>4, <2>5, <2>10 DEF VerifyInvitationSent, DetectAfter, Unprocessable
  <2>11. CASE UNCHANGED visitVars
    BY <1>2, <2>2, <2>11 DEF visitVars, OwnersDialog
  <2> QED BY <1>2, <2>6, <2>7, <2>8, <2>9, <2>10, <2>11 DEF VisitNext
<1>3. Inv /\ [VisitNext]_visitVars => Inv'
  BY <1>2, StepKeepsInv
<1>4. Inv => OnlyTheOwnerIsInvited
  OBVIOUS
<1> QED BY <1>1, <1>3, <1>4, PTL DEF VisitSpec

SentInv == VisitInv /\ SentIsConfirmed /\ PageTruthful

\* A decision other than SENT confirms nothing and forgets no invitation.
LEMMA OtherEndKeepsSent ==
    ASSUME SentInv, NEW class, NEW state, state # SENT_RESULT, Decide(class, state)
    PROVE  SentIsConfirmed' /\ PageTruthful'
<1>1. visit'.outcome.page = state /\ visit'.at = "DONE"
  BY DEF Decide, SentInv, VisitInv, VisitTypeOK, Visiting
<1> QED BY <1>1 DEF SentIsConfirmed, PageTruthful

\* Nor does a step within the visit, if what is shown after it is what is so.
LEMMA StepKeepsSent ==
    ASSUME "strangerPending" \notin Sidebar, SentInv, [VisitNext]_visitVars
    PROVE  SentIsConfirmed' /\ PageTruthful'
<1> USE DEF SentInv
<1>1. visit \in Visiting /\ page \in Page
  BY DEF VisitInv, VisitTypeOK
<1>2. OwnerInvited => OwnerInvited'
  <2>1. invited \subseteq invited'
    BY DEF VisitNext, Abort, ThrowIfAborted, Navigate, DetectBefore, PressConnect, CompleteDialog,
           VerifyInvitationSent, DetectAfter, Pressed, Invite, visitVars
  <2> QED BY <2>1 DEF OwnerInvited
<1>3. ASSUME visit'.at # "RELOADED", visit'.outcome = visit.outcome
      PROVE  SentIsConfirmed' /\ PageTruthful'
  BY <1>2, <1>3 DEF SentIsConfirmed, PageTruthful
<1>4. \A s \in PageState \cup {NULL} : s # SENT_RESULT
  BY DEF PageState, PlainPages, SafetyStates, NULL, SENT_RESULT
<1>5. {"PROFILE_FOUND", "CONNECT_AVAILABLE", "NETWORK_ERROR", "PROFILE_NOT_FOUND",
       "ALREADY_CONNECTED", "INVITATION_PENDING"} \cup SafetyStates \subseteq PageState
  BY DEF PageState, PlainPages
<1>6. ASSUME NEW place \in {"START", "DETECT", "PRESS", "DIALOG", "VERIFY"}, Proceed(place)
      PROVE  visit'.at # "RELOADED" /\ visit'.outcome = visit.outcome
  BY <1>1, <1>6 DEF Proceed, Visiting
<1>7. ASSUME Decide("NONE", SENT_RESULT), OwnerInvited
      PROVE  SentIsConfirmed' /\ PageTruthful'
  BY <1>1, <1>2, <1>7 DEF Decide, Visiting, SentIsConfirmed, PageTruthful
<1>8. CASE Abort
  BY <1>1, <1>3, <1>8 DEF Abort, Visiting
<1>9. CASE ThrowIfAborted
  BY <1>4, <1>9, OtherEndKeepsSent DEF ThrowIfAborted
<1>10. CASE Navigate
  BY <1>3, <1>4, <1>5, <1>6, <1>10, OtherEndKeepsSent DEF Navigate
<1>11. CASE DetectBefore
  BY <1>3, <1>4, <1>5, <1>6, <1>11, OtherEndKeepsSent DEF DetectBefore, Unprocessable
<1>12. CASE PressConnect
  <2>1. ASSUME NEW d \in Dialog, visit' = [visit EXCEPT !.at = "DIALOG", !.dialog = d]
        PROVE  visit'.at # "RELOADED" /\ visit'.outcome = visit.outcome
    BY <1>1, <2>1 DEF Visiting
  <2> QED BY <1>3, <1>4, <1>5, <1>6, <1>12, <2>1, OtherEndKeepsSent
          DEF PressConnect, Pressed, Unprocessable
<1>13. CASE CompleteDialog
  <2>1. ASSUME visit' = [visit EXCEPT !.at = "VERIFY", !.dialog = NoDialog, !.typed = visit.note]
        PROVE  visit'.at # "RELOADED" /\ visit'.outcome = visit.outcome
    BY <1>1, <2>1 DEF Visiting
  <2> QED BY <1>3, <1>4, <1>5, <1>13, <2>1, OtherEndKeepsSent DEF CompleteDialog, Unprocessable
<1>14. CASE VerifyInvitationSent
  <2>1. CASE page' \in ShownPages /\ Proceed("RELOADED")
    <3>1. visit'.outcome = visit.outcome
      BY <1>1, <2>1 DEF Proceed, Visiting
    <3>2. OwnerInvited' <=> OwnerInvited
      BY <1>14 DEF VerifyInvitationSent, OwnerInvited
    <3>3. /\ "ownerPending" \in page'.controls <=> OwnerInvited
          /\ "strangerPending" \in page'.controls => "strangerPending" \in Sidebar
      BY <2>1 DEF ShownPages
    <3> QED BY <3>1, <3>2, <3>3 DEF SentIsConfirmed, PageTruthful
  <2> QED BY <1>4, <1>5, <1>7, <1>14, <2>1, OtherEndKeepsSent
          DEF VerifyInvitationSent, Unprocessable
<1>15. CASE DetectAfter
  <2>1. detectPageState(page, TRUE) = "INVITATION_PENDING" => OwnerInvited
    BY <1>1, <1>15, DetectedStates DEF DetectAfter, PageTruthful
  <2> QED BY <1>4, <1>5, <1>7, <1>15, <2>1, OtherEndKeepsSent DEF DetectAfter, Unprocessable
<1>16. CASE UNCHANGED visitVars
  BY <1>16 DEF visitVars, SentIsConfirmed, PageTruthful, OwnerInvited
<1> QED
  BY <1>8, <1>9, <1>10, <1>11, <1>12, <1>13, <1>14, <1>15, <1>16 DEF VisitNext

\* Where no stranger's pending invitation is in view, SENT means that the owner's is
\* outstanding: the page that is loaded after the click says so.
THEOREM SentOnlyIfConfirmed ==
    ASSUME "strangerPending" \notin Sidebar
    PROVE  VisitSpec => []SentIsConfirmed
<1>1. ASSUME VisitInit PROVE SentInv
  <2>1. visit.at = "START" /\ visit.outcome = Undecided
    BY <1>1 DEF VisitInit
  <2>2. Undecided.page # SENT_RESULT
    BY DEF Undecided, NULL, SENT_RESULT
  <2> QED BY <1>1, <2>1, <2>2, InitVisitInv DEF SentInv, SentIsConfirmed, PageTruthful
<1>2. SentInv /\ [VisitNext]_visitVars => SentInv'
  BY StepKeepsInv, StepKeepsSent DEF SentInv
<1>3. SentInv => SentIsConfirmed
  BY DEF SentInv
<1> QED BY <1>1, <1>2, <1>3, PTL DEF VisitSpec
=============================================================================
