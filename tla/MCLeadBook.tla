----------------------------- MODULE MCLeadBook -----------------------------
EXTENDS LeadFinder

Header(text, names, rank) == [text |-> text, kind |-> "TEXT", names |-> names, rank |-> rank,
                             parts |-> {}, words |-> 1]
Part(text, parts) == [Header(text, NoField, 0) EXCEPT !.parts = parts]
Name(text, n) == [Header(text, NoField, 0) EXCEPT !.words = n]
Url(person, spelt) == [text |-> person, kind |-> "URL", linkedin |-> TRUE, segment |-> "in",
                       slug |-> [person |-> person, spelt |-> spelt]]
Company == [Url("acme", "plain") EXCEPT !.segment = "company"]

Address == Header("Profile URL", "linkedinUrl", 4)
Link == Header("Link", "linkedinUrl", 7)
FullName == Header("Name", "fullName", 1)
Contact == Part("Contact full name", {<<"fullName", 8>>})
NameAndLink == Part("Name and link", {<<"linkedinUrl", 4>>, <<"fullName", 4>>})
Other == Name("Colour", 1)
Dashes == Header("--", Unreadable, 0)

MCFields == <<"linkedinUrl", "fullName">>
MCHeaders == {Address, Link, FullName, Contact, NameAndLink, Other, Dashes}

\* A banner, a header, a person in two spellings, a row without a person and an
\* empty one; a file without a header, whose address column is found by its content.
MCRows ==
    [banner |-> <<<<Name("100 leads", 2)>>, <<Contact, Address>>,
                  <<Name("Ana", 1), Url("ana", "escaped")>>, <<Name("A", 1), Url("ana", "upper")>>,
                  <<Blank, Company>>, <<Blank, Blank, Other>>>>,
     bare |-> <<<<Url("bo", "plain"), Name("Bo", 1)>>, <<Url("ana", "upper")>>,
                <<Url("nobody", "plain")>>>>]

MCFiles == DOMAIN MCRows
MCTyped == {Url("bo", "escaped"), Company}

\* What the sources say: of ana under two names, of a desk, of somebody without a key.
Sighting(source, email, link, handle, marks) ==
    [source |-> source, email |-> email, link |-> link, github |-> NoField, handle |-> handle,
     located |-> FALSE, marks |-> marks, study |-> "s", name |-> "n"]

MCPosts == {[Sighting("POST", "a@x", Url("ana", "upper"), "ana", {}) EXCEPT !.github = "a"],
            Sighting("POST", NoField, Url("bo", "plain"), "ana", {}),
            Sighting("POST", NoField, Blank, "bo", {}),
            Sighting("POST", "a@x", Blank, "bo", {"deleted"})}
MCHits == {Sighting("HIT", NoField, Url("ana", "upper"), NoField, {}),
           Sighting("HIT", NoField, Url("ana", "plain"), NoField, {"hiring"})}
MCContacts == {Sighting("CONTACT", "a@x", Blank, NoField, {}),
               Sighting("CONTACT", NoField, Blank, NoField, {}),
               Sighting("CONTACT", "d@x", Blank, NoField, {"desk"})}
MCExportRows == {Sighting("ROW", NoField, Url("bo", "escaped"), "linkedin:bo", {}),
                 Sighting("ROW", NoField, Company, NoField, {})}

Rule(match, veto, points, disqualifies) ==
    [match |-> match, veto |-> veto, points |-> points, disqualifies |-> disqualifies]

MCTraits == {"owner", "assistant", "agency", "student"}
MCRules == <<Rule({"owner"}, {"assistant"}, 40, FALSE), Rule({"student"}, {}, 0, TRUE),
             Rule({"agency"}, {}, -30, FALSE), Rule({"owner", "assistant"}, {}, 25, FALSE)>>

Symmetry == Permutations(Operators)
=============================================================================
