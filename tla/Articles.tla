-------------------------------- MODULE Articles -------------------------------
(***************************************************************************)
(* Articles and the agreements that products make of them                  *)
(* (service/article.go, service/admin.go, model/model.go).  A product      *)
(* names one article in the old column and any number in the new one.      *)
(* Each request looks up what it depends on, and then writes.  Whether an  *)
(* article is published is left out: neither check asks for it.            *)
(***************************************************************************)
EXTENDS Integers

CONSTANTS
    Texts,          \* ids of articles
    Slugs,          \* what pages are called
    Deals,          \* products
    Scribes         \* administrators' requests under way

NoText == "no article"
NotWritten == "not written"    \* ids are not used twice
Erased == "erased"

ASSUME ArticlesAssumption == NoText \notin Texts /\ {NotWritten, Erased} \cap Slugs = {}

VARIABLES
    text,           \* each article: its slug
    deal,           \* each product's two columns
    errandOf,       \* what each request is about to do
    entangled       \* history: two requests were under way at once

articleVars == <<text, deal, errandOf, entangled>>

Stored == {a \in Texts : text[a] \in Slugs}

NoRevision == [at |-> "resting", text |-> NoText, slug |-> NotWritten, deal |-> "no deal",
               one |-> NoText, several |-> {}]

ArticlesTypeOK ==
    /\ text \in [Texts -> Slugs \cup {NotWritten, Erased}]
    /\ deal \in [Deals -> [one : Texts \cup {NoText}, several : SUBSET Texts]]
    /\ errandOf \in [Scribes -> [at : {"resting", "slug", "save", "count", "drop", "one", "several",
                                       "put"},
                                 text : Texts \cup {NoText}, slug : Slugs \cup {NotWritten},
                                 deal : Deals \cup {"no deal"}, one : Texts \cup {NoText},
                                 several : SUBSET Texts]]
    /\ entangled \in BOOLEAN

ArticlesInit ==
    /\ text = [a \in Texts |-> NotWritten]
    /\ deal = [d \in Deals |-> [one |-> NoText, several |-> {}]]
    /\ errandOf = [c \in Scribes |-> NoRevision] /\ entangled = FALSE

Sets(c, what) ==
    /\ errandOf[c] = NoRevision /\ errandOf' = [errandOf EXCEPT ![c] = what]
    /\ entangled' = (entangled \/ \E other \in Scribes : errandOf[other] # NoRevision)
    /\ UNCHANGED <<text, deal>>

\* A request passes a check, or ends there.
Passes(c, allowed, to) ==
    /\ errandOf' = [errandOf EXCEPT ![c] = IF allowed THEN [@ EXCEPT !.at = to] ELSE NoRevision]
    /\ UNCHANGED <<text, deal, entangled>>

Rests(c) == errandOf' = [errandOf EXCEPT ![c] = NoRevision] /\ UNCHANGED entangled

SlugTaken(slug, self) == \E a \in Stored \ {self} : text[a] = slug

\* Create and Update: validate counts the slug, the unique index decides.
SaveText(c, a, slug) ==
    /\ a \in Stored \cup {NoText}
    /\ Sets(c, [NoRevision EXCEPT !.at = "slug", !.text = a, !.slug = slug])

CheckSlug(c) ==
    /\ errandOf[c].at = "slug"
    /\ Passes(c, ~SlugTaken(errandOf[c].slug, errandOf[c].text), "save")

WriteText(c) ==
    LET slug == errandOf[c].slug
        self == errandOf[c].text
    IN
    /\ errandOf[c].at = "save" /\ Rests(c) /\ UNCHANGED deal
    /\ IF SlugTaken(slug, self) \/ (self # NoText /\ self \notin Stored)
       THEN UNCHANGED text
       ELSE \E a \in Texts : /\ a = self \/ (self = NoText /\ text[a] = NotWritten)
                             /\ text' = [text EXCEPT ![a] = slug]

\* Mutant: the new column is counted and the old one is not.
CountedNew(d, a) == a \in deal[d].several

\* Only the old column is counted.
Counted(d, a) == deal[d].one = a

\* Delete: a count and the deletion.
DropText(c, a) == a \in Stored /\ Sets(c, [NoRevision EXCEPT !.at = "count", !.text = a])

CountDeals(c) ==
    errandOf[c].at = "count" /\ Passes(c, ~\E d \in Deals : Counted(d, errandOf[c].text), "drop")

DeleteText(c) ==
    /\ errandOf[c].at = "drop" /\ Rests(c) /\ UNCHANGED deal
    /\ text' = [text EXCEPT ![errandOf[c].text] = Erased]

\* CreateProduct and UpdateProduct: the end of validateProduct, and the row.
PutTerms(c, d, one, several) ==
    Sets(c, [NoRevision EXCEPT !.at = "one", !.deal = d, !.one = one, !.several = several])

CheckOne(c) ==
    errandOf[c].at = "one" /\ Passes(c, errandOf[c].one \in Stored \cup {NoText}, "several")

CheckSeveral(c) ==
    errandOf[c].at = "several" /\ Passes(c, errandOf[c].several \subseteq Stored, "put")

WriteTerms(c) ==
    /\ errandOf[c].at = "put" /\ Rests(c) /\ UNCHANGED text
    /\ deal' = [deal EXCEPT ![errandOf[c].deal] =
                   [one |-> errandOf[c].one, several |-> errandOf[c].several]]

ArticlesNext ==
    \E c \in Scribes :
       \/ \E a \in Texts \cup {NoText}, slug \in Slugs : SaveText(c, a, slug)
       \/ \E a \in Texts : DropText(c, a)
       \/ \E d \in Deals, one \in Texts \cup {NoText}, several \in SUBSET Texts :
             PutTerms(c, d, one, several)
       \/ CheckSlug(c) \/ WriteText(c) \/ CountDeals(c) \/ DeleteText(c)
       \/ CheckOne(c) \/ CheckSeveral(c) \/ WriteTerms(c)

ArticlesSpec == ArticlesInit /\ [][ArticlesNext]_articleVars

-----------------------------------------------------------------------------
\* Where no two requests were under way at once, the article in a product's old column
\* is there.  Whatever overlaps, no two articles share a slug.
TermsStand ==
    /\ ~entangled => \A d \in Deals : deal[d].one \in Stored \cup {NoText}
    /\ \A a, b \in Stored : a # b => text[a] # text[b]
=============================================================================
