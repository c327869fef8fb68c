---------------------------- MODULE PageDetection ----------------------------
(***************************************************************************)
(* How the worker reads a page (src/worker/page-state.ts): an ordered list *)
(* of rules over what the URL matches and what is visible.  A page is the  *)
(* set of rule groups its URL matches, the set of groups it shows, the     *)
(* connection controls on it and whether its title names an owner; which   *)
(* selector of a group fired is left out, and so is the wording.           *)
(***************************************************************************)
EXTENDS PageStatePolicy

SecuritySigns == {"captcha", "restricted", "challenge"}

\* "checkpoint" is a checkpoint URL that none of the specific patterns knows.
UrlSigns == SecuritySigns \cup {"checkpoint", "login", "notFound", "profile"}

DomSigns == SecuritySigns \cup {"login", "notFound", "topCard", "chrome"}

\* Controls for the owner of the profile, in its top card or in the overflow menu
\* of the card (not visible until the menu is opened), and for the strangers of
\* the sidebar.
Controls == {"ownerPending", "ownerConnect", "menuConnect", "firstDegree",
             "strangerPending", "strangerConnect"}

Page == [url : SUBSET UrlSigns, dom : SUBSET DomSigns, controls : SUBSET Controls,
         titled : BOOLEAN]

-----------------------------------------------------------------------------

\* With the owner's name the questions are asked about the owner; without it
\* they are asked of the whole page.
OwnersConnectionState(page) ==
    CASE "ownerPending" \in page.controls -> "INVITATION_PENDING"
      [] page.controls \cap {"ownerPending", "ownerConnect"} = {"ownerConnect"} ->
           "CONNECT_AVAILABLE"
      [] /\ page.controls \cap {"ownerPending", "ownerConnect"} = {}
         /\ "firstDegree" \in page.controls -> "ALREADY_CONNECTED"
      [] OTHER -> "PROFILE_FOUND"

PagesConnectionState(page) ==
    LET pending == page.controls \cap {"ownerPending", "strangerPending"} # {}
        connected == "firstDegree" \in page.controls
        connect == page.controls \cap {"ownerConnect", "strangerConnect"} # {}
    IN CASE pending -> "INVITATION_PENDING"
         [] ~pending /\ connected -> "ALREADY_CONNECTED"
         [] ~pending /\ ~connected /\ connect -> "CONNECT_AVAILABLE"
         [] OTHER -> "PROFILE_FOUND"

detectConnectionState(page) ==
    IF page.titled THEN OwnersConnectionState(page) ELSE PagesConnectionState(page)

Shows(page, sign) == sign \in page.url \cup page.dom

\* (Mutant: a page that shows the profile asked for is a profile.)
SecurityStateOffProfile(page) ==
    CASE {"profile", "topCard"} \subseteq page.url \cup page.dom -> NULL
      [] Shows(page, "captcha") -> "CAPTCHA"
      [] Shows(page, "restricted") -> "ACCOUNT_RESTRICTED"
      [] Shows(page, "challenge") \/ Shows(page, "checkpoint") -> "SECURITY_CHALLENGE"
      [] OTHER -> NULL

\* The rules of group 1, in order of precedence.
SecurityState(page) ==
    IF Shows(page, "captcha") THEN "CAPTCHA"
    ELSE IF Shows(page, "restricted") THEN "ACCOUNT_RESTRICTED"
    ELSE IF Shows(page, "challenge") \/ Shows(page, "checkpoint") THEN "SECURITY_CHALLENGE"
    ELSE NULL

detectPageState(page, expectProfile) ==
    IF SecurityState(page) # NULL THEN SecurityState(page)
    ELSE IF Shows(page, "login") THEN "LOGIN_REQUIRED"
    ELSE IF Shows(page, "notFound") THEN "PROFILE_NOT_FOUND"
    ELSE IF "profile" \in page.url /\ "topCard" \in page.dom THEN detectConnectionState(page)
    ELSE IF ~expectProfile /\ "chrome" \in page.dom THEN "AUTHENTICATED"
    ELSE "UNKNOWN_PAGE"
=============================================================================
