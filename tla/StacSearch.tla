----------------------------- MODULE StacSearch -----------------------------
(***************************************************************************)
(* One search of the STAC catalogue Tool (openwebui_tools/stac_catalog.py, *)
(* _search_all and the end of _execute): it follows "next" links up to a   *)
(* limit and says which of the wanted products the catalogue lacks.        *)
(*                                                                         *)
(* The server is external and may answer each request with any page, of    *)
(* any length, with any link and any count of matches: catalogues change   *)
(* between requests, links may lead back, and a request may fail.          *)
(***************************************************************************)
EXTENDS Naturals, Sequences, FiniteSets

CONSTANTS Products,      \* identifiers of catalogue items
          Links,         \* "next" links the server can answer with
          PageMax,       \* longest page of the server
          Counts,        \* counts of matches the server can state
          Limits,        \* requested limits: of the call, the user and the administrator
          NoLink, NoCount

ASSUME StacAssumption ==
    /\ PageMax \in Nat /\ Counts \subseteq Nat /\ Limits \subseteq Nat /\ Limits # {}
    /\ NoLink \notin Links /\ NoCount \notin Nat
    /\ IsFiniteSet(Links)

VARIABLES stage,         \* posting, reading, following or answered, failed
          limit,         \* selected_limit
          wanted,        \* selected_ids
          page, link,    \* the document: its features and its first next link
          matched,       \* the first document's count
          features, seen, truncated,
          served         \* history: products of all documents

vars == <<stage, limit, wanted, page, link, matched, features, seen, truncated, served>>

Pages == UNION {[1 .. n -> Products] : n \in 0 .. PageMax}

TypeOK ==
    /\ stage \in {"posting", "reading", "following", "answered", "failed"}
    /\ limit \in Nat \ {0}
    /\ wanted \subseteq Products
    /\ page \in Seq(Products) /\ features \in Seq(Products)
    /\ link \in Links \union {NoLink}
    /\ matched \in Nat \union {NoCount}
    /\ seen \subseteq Links
    /\ truncated \in BOOLEAN
    /\ served \subseteq Products

\* The least of the limits that apply, but at least one.
SelectedLimit(least) == IF least = 0 THEN 1 ELSE least

Init ==
    /\ \E asked \in SUBSET Limits : \E least \in asked :
          (\A n \in asked : least <= n) /\ limit = SelectedLimit(least)
    /\ wanted \in SUBSET Products
    /\ stage = "posting"
    /\ page = <<>> /\ features = <<>>
    /\ link = NoLink
    /\ matched = NoCount
    /\ seen = {} /\ served = {}
    /\ truncated = FALSE

-----------------------------------------------------------------------------

In(sequence) == {sequence[k] : k \in DOMAIN sequence}

\* POST /search, then GET or POST of the link: any document of the server.
Request ==
    /\ stage \in {"posting", "following"}
    /\ page' \in Pages
    /\ link' \in Links \union {NoLink}
    /\ IF stage = "posting" THEN matched' \in Counts \union {NoCount} ELSE UNCHANGED matched
    /\ served' = served \union In(page')
    /\ stage' = "reading"
    /\ UNCHANGED <<limit, wanted, features, seen, truncated>>

RequestFails ==
    /\ stage \in {"posting", "following"}
    /\ stage' = "failed"
    /\ UNCHANGED <<limit, wanted, page, link, matched, features, seen, truncated, served>>

Remaining == limit - Len(features)
\* Fault variant of Taken: the page as it is.
TakenWhole == features \o page
Taken == features \o SubSeq(page, 1, IF Len(page) < Remaining THEN Len(page) ELSE Remaining)
\* Fault variant of MoreToCome: the rest of the last page is forgotten.
MoreToComeLinked == link # NoLink /\ (Len(Taken) >= limit \/ link \in seen)
\* Items were left out, or the limit is reached or a link repeated with more to come.
MoreToCome ==
    \/ Len(page) > Remaining
    \/ link # NoLink /\ (Len(Taken) >= limit \/ link \in seen)

\* Fault variant of Follow: followed links are not remembered.
FollowForgetting ==
    /\ stage = "reading"
    /\ ~ MoreToCome /\ link # NoLink
    /\ features' = Taken
    /\ stage' = "following"
    /\ UNCHANGED <<limit, wanted, page, link, matched, seen, truncated, served>>

Follow ==
    /\ stage = "reading"
    /\ ~ MoreToCome /\ link # NoLink
    /\ features' = Taken
    /\ seen' = seen \union {link}
    /\ stage' = "following"
    /\ UNCHANGED <<limit, wanted, page, link, matched, truncated, served>>

Answer ==
    /\ stage = "reading"
    /\ MoreToCome \/ link = NoLink
    /\ features' = Taken
    /\ truncated' = (MoreToCome \/ (matched # NoCount /\ matched > Len(Taken)))
    /\ stage' = "answered"
    /\ UNCHANGED <<limit, wanted, page, link, matched, seen, served>>

Next == Request \/ RequestFails \/ Follow \/ Answer

Spec == Init /\ [][Next]_vars

\* Requests have a timeout (request_timeout_seconds).
FairSpec == Spec /\ WF_vars(Next)

-----------------------------------------------------------------------------
(* Properties.                                                             *)

\* What _execute reports of the wanted products.
Unresolved == wanted \ In(features)
NotFound == IF truncated THEN {} ELSE Unresolved

\* A product is called "not found" only if the server has come to the end of
\* its pages, has served it on none of them, and claims no more matches than it
\* has served (stac_catalog.py:643-646).
NotFoundIsAbsent ==
    stage = "answered" /\ NotFound # {} =>
        /\ NotFound \intersect served = {}
        /\ link = NoLink
        /\ matched # NoCount => matched <= Len(features)

\* Whatever pages the server makes, the answer has between them the limits'
\* number of items at most, and all of them unless it says so.
AnswerIsBounded ==
    /\ Len(features) <= limit
    /\ stage = "answered" /\ ~ truncated => In(features) = served

\* Links that lead back never keep the search going (finitely many links).
SearchEnds == <>(stage \in {"answered", "failed"})
=============================================================================
