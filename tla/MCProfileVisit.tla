---------------------------- MODULE MCProfileVisit ----------------------------
(* A visit to every page that matches at most one URL group beside the       *)
(* profile's own and shows any set of signs and controls.                    *)
EXTENDS ProfileVisit

AnyUrl == {u \in SUBSET UrlSigns : Cardinality(u \ {"profile"}) <= 1}
ProfileUrl == {{"profile"}}
=============================================================================
