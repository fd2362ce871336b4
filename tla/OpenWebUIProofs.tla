--------------------------- MODULE OpenWebUIProofs ---------------------------
(***************************************************************************)
(* Theorems about the two components that live in OpenWebUI: StacSearch,   *)
(* for any products, links, limits and lengths of pages, and NoteDocument, *)
(* for any sessions and edits.  They share no state.                       *)
(***************************************************************************)
EXTENDS StacSearch, NoteDocument, SequenceTheorems, FiniteSetTheorems, TLAPS

-----------------------------------------------------------------------------
(* Pages and what is taken of them.                                        *)

LEMMA PagesAreSequences == Pages \subseteq Seq(Products)
<1>1. \A n \in 0 .. PageMax : n \in Nat
  BY StacAssumption
<1>2. QED
  BY <1>1, SeqDef DEF Pages

\* A page that fits is taken whole; any other fills up the limit.
LEMMA TakenOfPage ==
    ASSUME TypeOK, Len(features) <= limit
    PROVE  /\ Taken \in Seq(Products) /\ Len(Taken) <= limit
           /\ Len(page) <= Remaining => In(Taken) = In(features) \union In(page)
<1> DEFINE n == IF Len(page) < Remaining THEN Len(page) ELSE Remaining
           part == SubSeq(page, 1, n)
<1>1. /\ Len(features) \in Nat /\ Len(page) \in Nat /\ limit \in Nat
      /\ features \in Seq(Products) /\ page \in Seq(Products)
  BY DEF TypeOK
<1>2. n \in Nat /\ n <= Len(page) /\ n <= Remaining /\ Remaining = limit - Len(features)
  BY <1>1 DEF Remaining
<1>3. \A k \in 1 .. n : page[k] \in Products
  BY <1>1, <1>2, ElementOfSeq
<1>4. /\ part \in Seq(Products) /\ Len(part) = n
      /\ \A k \in 1 .. n : part[k] = page[k]
  <2>1. /\ part \in Seq(Products) /\ Len(part) = IF 1 <= n THEN n - 1 + 1 ELSE 0
        /\ \A k \in 1 .. n - 1 + 1 : part[k] = page[1 + k - 1]
    BY <1>2, <1>3, SubSeqProperties
  <2>2. QED
    BY <2>1, <1>2
<1>5. Taken = features \o part
  BY DEF Taken
<1> HIDE DEF n, part
<1>6. /\ Taken \in Seq(Products) /\ Len(Taken) = Len(features) + n
      /\ \A k \in 1 .. Len(features) + n :
            Taken[k] = IF k <= Len(features) THEN features[k] ELSE part[k - Len(features)]
  BY <1>1, <1>4, <1>5, ConcatProperties
<1>7. ASSUME Len(page) <= Remaining PROVE In(Taken) = In(features) \union In(page)
  <2>1. n = Len(page)
    BY <1>7, <1>1, <1>2 DEF n
  <2>2. /\ DOMAIN Taken = 1 .. Len(features) + Len(page)
        /\ DOMAIN features = 1 .. Len(features) /\ DOMAIN page = 1 .. Len(page)
    BY <1>1, <1>6, <2>1, LenProperties
  <2>3. \A k \in DOMAIN features : k \in DOMAIN Taken /\ Taken[k] = features[k]
    BY <1>1, <1>6, <2>1, <2>2
  <2>4. \A k \in DOMAIN page :
           Len(features) + k \in DOMAIN Taken /\ Taken[Len(features) + k] = page[k]
    <3> TAKE k \in DOMAIN page
    <3>1. k \in 1 .. n /\ Len(features) + k \in 1 .. Len(features) + n
      BY <1>1, <2>1, <2>2
    <3>2. ~ Len(features) + k <= Len(features) /\ Len(features) + k - Len(features) = k
      BY <1>1, <3>1, <1>2
    <3>3. Taken[Len(features) + k] = part[k]
      BY <1>6, <3>1, <3>2
    <3>4. QED
      BY <1>4, <2>1, <2>2, <3>1, <3>3
  <2>5. \A k \in DOMAIN Taken : Taken[k] \in In(features) \union In(page)
    <3> TAKE k \in DOMAIN Taken
    <3>1. CASE k <= Len(features)
      BY <3>1, <1>1, <1>6, <2>1, <2>2 DEF In
    <3>2. CASE ~ k <= Len(features)
      <4>1. k - Len(features) \in DOMAIN page /\ Taken[k] = page[k - Len(features)]
        <5>1. k \in 1 .. Len(features) + n
          BY <2>1, <2>2
        <5>2. k - Len(features) \in 1 .. n
          BY <3>2, <5>1, <1>1, <1>2
        <5>3. Taken[k] = part[k - Len(features)]
          BY <3>2, <5>1, <1>6
        <5>4. QED
          BY <1>4, <2>1, <2>2, <5>2, <5>3
      <4>2. QED
        BY <4>1 DEF In
    <3>3. QED
      BY <3>1, <3>2
  <2>6. QED
    BY <2>3, <2>4, <2>5 DEF In
<1>8. QED
  BY <1>1, <1>2, <1>6, <1>7

-----------------------------------------------------------------------------
(* The search between two requests.                                        *)

\* Until it answers, the search has everything that was served, but for the
\* page it is reading; what it says in the end it says of all of it.
SearchInv ==
    /\ TypeOK
    /\ Len(features) <= limit
    /\ stage \in {"posting", "following"} => served = In(features)
    /\ stage = "reading" => served = In(features) \union In(page)
    /\ stage = "answered" /\ ~ truncated =>
          /\ served = In(features)
          /\ link = NoLink
          /\ matched # NoCount => matched <= Len(features)

LEMMA SearchInvInit == Init => SearchInv
<1> SUFFICES ASSUME Init PROVE SearchInv
  OBVIOUS
<1>1. limit \in Nat \ {0}
  BY StacAssumption DEF Init, SelectedLimit
<1>2. features \in Seq(Products) /\ page \in Seq(Products) /\ Len(features) = 0
  BY DEF Init
<1>3. In(features) = {}
  BY DEF Init, In
<1>4. TypeOK
  BY <1>1, <1>2 DEF Init, TypeOK
<1>5. QED
  BY <1>1, <1>2, <1>3, <1>4 DEF Init, SearchInv

LEMMA SearchInvStep == ASSUME SearchInv, [Next]_vars PROVE SearchInv'
<1>1. CASE Request
  <2>1. page' \in Seq(Products)
    BY <1>1, PagesAreSequences DEF Request
  <2>2. In(page') \subseteq Products
    BY <2>1, LenProperties, ElementOfSeq DEF In
  <2>3. matched' \in Nat \union {NoCount}
    BY <1>1, StacAssumption DEF Request, SearchInv, TypeOK
  <2>4. TypeOK'
    BY <1>1, <2>1, <2>2, <2>3 DEF Request, SearchInv, TypeOK
  <2>5. served' = In(features) \union In(page')
    BY <1>1 DEF Request, SearchInv
  <2>6. QED
    BY <1>1, <2>4, <2>5 DEF Request, SearchInv, In
<1>2. CASE RequestFails
  BY <1>2 DEF RequestFails, SearchInv, TypeOK
<1>3. CASE Follow
  <2>1. Taken \in Seq(Products) /\ Len(Taken) <= limit
    BY TakenOfPage DEF SearchInv
  <2>2. Len(page) <= Remaining
    BY <1>3 DEF Follow, MoreToCome, SearchInv, TypeOK, Remaining
  <2>3. In(features') = served
    BY <1>3, <2>2, TakenOfPage DEF Follow, SearchInv
  <2>4. TypeOK'
    BY <1>3, <2>1 DEF Follow, SearchInv, TypeOK
  <2>5. QED
    BY <1>3, <2>1, <2>3, <2>4 DEF Follow, SearchInv, In
<1>4. CASE Answer
  <2>1. Taken \in Seq(Products) /\ Len(Taken) <= limit
    BY TakenOfPage DEF SearchInv
  <2>2. TypeOK'
    BY <1>4, <2>1 DEF Answer, SearchInv, TypeOK
  <2>3. ASSUME ~ truncated'
        PROVE  /\ served' = In(features') /\ link' = NoLink
               /\ matched' # NoCount => matched' <= Len(features')
    <3>1. ~ MoreToCome /\ (matched # NoCount => ~ matched > Len(Taken))
      BY <1>4, <2>3 DEF Answer
    <3>2. Len(page) <= Remaining
      BY <3>1 DEF MoreToCome, SearchInv, TypeOK, Remaining
    <3>3. In(features') = served
      BY <1>4, <3>2, TakenOfPage DEF Answer, SearchInv
    <3>4. matched # NoCount => matched <= Len(Taken)
      BY <3>1, <2>1 DEF SearchInv, TypeOK
    <3>5. QED
      BY <1>4, <3>1, <3>3, <3>4 DEF Answer
  <2>4. QED
    BY <1>4, <2>1, <2>2, <2>3 DEF Answer, SearchInv
<1>5. CASE UNCHANGED vars
  BY <1>5 DEF vars, SearchInv, TypeOK, In
<1>6. QED
  BY <1>1, <1>2, <1>3, <1>4, <1>5 DEF Next

LEMMA SearchInvariant == Spec => []SearchInv
  BY SearchInvInit, SearchInvStep, PTL DEF Spec

-----------------------------------------------------------------------------
(* The steps a search has left.                                            *)

Pending == Links \ seen
StepsOfStage == CASE stage \in {"posting", "following"} -> 2
                  [] stage = "reading" -> 1
                  [] OTHER -> 0
StepsLeft == 2 * Cardinality(Pending) + StepsOfStage

\* Following a link uses it up.
LEMMA FollowUsesLink ==
    ASSUME TypeOK, Follow
    PROVE  /\ IsFiniteSet(Pending) /\ Cardinality(Pending) \in Nat \ {0}
           /\ Cardinality(Pending') = Cardinality(Pending) - 1
<1>1. link \in Pending /\ Pending' = Pending \ {link}
  BY DEF Follow, MoreToCome, TypeOK, Pending
<1>2. IsFiniteSet(Pending)
  BY StacAssumption, FS_Difference DEF Pending
<1>3. /\ Cardinality(Pending) \in Nat
      /\ IsFiniteSet(Pending') /\ Cardinality(Pending') = Cardinality(Pending) - 1
  BY <1>1, <1>2, FS_RemoveElement, FS_CardinalityType
<1>4. Cardinality(Pending') \in Nat
  BY <1>3, FS_CardinalityType
<1>5. QED
  BY <1>2, <1>3, <1>4

LEMMA StepsType == ASSUME TypeOK PROVE StepsLeft \in Nat /\ Cardinality(Pending) \in Nat
<1>1. IsFiniteSet(Pending)
  BY StacAssumption, FS_Difference DEF Pending
<1>2. QED
  BY <1>1, FS_CardinalityType DEF StepsLeft, StepsOfStage

LEMMA StepsDecrease ==
    ASSUME TypeOK, Next PROVE StepsLeft \in Nat /\ StepsLeft' < StepsLeft
<1>1. CASE Follow
  <2>1. StepsOfStage = 1 /\ StepsOfStage' = 2
    BY <1>1 DEF Follow, StepsOfStage
  <2>2. QED
    BY <1>1, <2>1, FollowUsesLink, StepsType DEF StepsLeft
<1>2. CASE Request \/ RequestFails \/ Answer
  <2>1. Pending' = Pending
    BY <1>2 DEF Request, RequestFails, Answer, Pending
  <2>2. StepsOfStage' \in Nat /\ StepsOfStage \in Nat /\ StepsOfStage' < StepsOfStage
    BY <1>2 DEF Request, RequestFails, Answer, StepsOfStage
  <2>3. Cardinality(Pending') = Cardinality(Pending)
    BY <2>1
  <2>4. QED
    BY <2>2, <2>3, StepsType DEF StepsLeft
<1>3. QED
  BY <1>1, <1>2 DEF Next

-----------------------------------------------------------------------------
(* What the search promises.                                               *)

\* Whatever a server answers, links that lead back included, each step leaves
\* fewer: a search makes at most one request more than there are links.  Only
\* that the steps are taken is left to fairness (SearchEnds).
THEOREM SearchRunsOut == Spec => [][StepsLeft' < StepsLeft /\ StepsLeft \in Nat]_vars
<1>1. SearchInv => TypeOK
  BY DEF SearchInv
<1>2. TypeOK /\ [Next]_vars => [StepsLeft' < StepsLeft /\ StepsLeft \in Nat]_vars
  BY StepsDecrease
<1>3. QED
  BY <1>1, <1>2, SearchInvariant, PTL DEF Spec

\* Every variable keeps its type, the limit being at least one.
THEOREM SearchTypeCorrect == Spec => []TypeOK
<1>1. SearchInv => TypeOK
  BY DEF SearchInv
<1>2. QED
  BY <1>1, SearchInvariant, PTL

\* Only what no document had is called "not found", by a search that came to
\* the end of the catalogue.
THEOREM NotFoundIsTrue == Spec => []NotFoundIsAbsent
<1>1. SearchInv => NotFoundIsAbsent
  BY DEF SearchInv, NotFoundIsAbsent, NotFound, Unresolved
<1>2. QED
  BY <1>1, SearchInvariant, PTL

\* The answer keeps the limit, and is complete unless it says otherwise.
THEOREM AnswersAreBounded == Spec => []AnswerIsBounded
<1>1. SearchInv => AnswerIsBounded
  BY DEF SearchInv, AnswerIsBounded
<1>2. QED
  BY <1>1, SearchInvariant, PTL

-----------------------------------------------------------------------------
(* The shared note.                                                        *)

\* The list without one of its tasks.
LEMMA WithoutType ==
    ASSUME NEW list \in Seq(Edits), NEW k \in DOMAIN list
    PROVE  Without(k, list) \in Seq(Edits)
<1>1. k \in 1 .. Len(list) /\ Len(list) \in Nat
  OBVIOUS
<1>2. SubSeq(list, 1, k - 1) \in Seq(Edits)
  BY <1>1, SubSeqProperties
<1>3. SubSeq(list, k + 1, Len(list)) \in Seq(Edits)
  BY <1>1, SubSeqProperties
<1>4. QED
  BY <1>2, <1>3 DEF Without

\* Every step keeps every variable in its type.
LEMMA NoteTypeStep == ASSUME NoteTypeOK, [NoteNext]_noteVars PROVE NoteTypeOK'
<1> USE DEF NoteTypeOK, membership, handlers, saving
<1>1. ASSUME NEW s \in Sids, Join(s) \/ JoinRefused(s) \/ Joined(s) PROVE NoteTypeOK'
  BY <1>1 DEF Join, JoinRefused, Joined
<1>2. ASSUME NEW s \in Sids, Leave(s) \/ Left(s) \/ Disconnect(s) PROVE NoteTypeOK'
  BY <1>2 DEF Leave, Left, Disconnect, Clear
<1>3. ASSUME NEW s \in Sids, NEW e \in Edits, Send(s, e) PROVE NoteTypeOK'
  BY <1>3 DEF Send
<1>4. ASSUME NEW e \in Edits, StopNext(e) PROVE NoteTypeOK'
  BY <1>4 DEF StopNext, Stops, Commit, Discard
<1>5. ASSUME NEW e \in Edits, AppendEdit(e) PROVE NoteTypeOK'
  BY <1>5 DEF AppendEdit, Discard
<1>6. ASSUME NEW e \in Edits, CreateSave(e) \/ SaveNothing(e) PROVE NoteTypeOK'
  <2>1. CASE CreateSave(e)
    BY <2>1 DEF CreateSave
  <2>2. CASE SaveNothing(e)
    BY <2>2 DEF SaveNothing
  <2>3. QED
    BY <1>6, <2>1, <2>2
<1>7. ASSUME NEW e \in Edits, Wake(e) \/ SaveNote(e) PROVE NoteTypeOK'
  BY <1>7 DEF Wake, SaveNote, Commit, Discard
<1>8. ASSUME NEW e \in Edits, Cleanup(e) PROVE NoteTypeOK'
  <2>1. itemTasks' \in Seq(Edits)
    BY <1>8, WithoutType DEF Cleanup
  <2>2. QED
    BY <1>8, <2>1 DEF Cleanup
<1>9. CASE UNCHANGED noteVars
  BY <1>9 DEF noteVars
<1>10. QED
  BY <1>1, <1>2, <1>3, <1>4, <1>5, <1>6, <1>7, <1>8, <1>9
     DEF NoteNext, Membership, Handler

\* Room and users change together, the store holds accepted edits only, and an
\* edit that was not sent was not accepted.
RoomInv ==
    /\ room \subseteq users /\ room \subseteq connected
    /\ store \subseteq appended
    /\ \A e \in Edits : phase[e] = "new" => e \notin appended
    /\ MembersAgree
    /\ DocumentIsReleased

\* A save is created at the end of its handler, and until then the update's text,
\* if it came with one, has the edit.
HandlersInv ==
    \A e \in Edits :
        /\ phase[e] # "done" => save[e] = "none"
        /\ e \in tasks => save[e] # "none"
        /\ phase[e] \in {"stopping", "emitting"} => text[e] = {} \/ e \in text[e]

NoteInv == NoteTypeOK /\ RoomInv /\ HandlersInv /\ EditsPending

LEMMA NoteInvInit == NoteInit => NoteInv
<1>1. NoteInit => NoteTypeOK
  <2>1. NoteInit => itemTasks \in Seq(Edits)
    BY DEF NoteInit
  <2>2. NoteInit => /\ phase \in [Edits -> {"new", "stopping", "emitting", "done"}]
                    /\ save \in [Edits -> {"none", "sleeping", "writing", "over"}]
    BY DEF NoteInit
  <2>3. NoteInit => /\ documents \in [Sids -> SUBSET Edits] /\ text \in [Edits -> SUBSET Edits]
                    /\ walked \in [Edits -> Nat]
    BY DEF NoteInit
  <2>4. QED
    BY <2>1, <2>2, <2>3 DEF NoteInit, NoteTypeOK
<1>2. NoteInit => RoomInv
  BY DEF NoteInit, RoomInv, MembersAgree, DocumentIsReleased
<1>3. NoteInit => HandlersInv /\ EditsPending
  BY DEF NoteInit, HandlersInv, EditsPending
<1>4. QED
  BY <1>1, <1>2, <1>3 DEF NoteInv

\* Every step keeps the invariant: sessions first, then edits.
LEMMA RoomStep == ASSUME NoteTypeOK, RoomInv, [NoteNext]_noteVars PROVE RoomInv'
<1> USE DEF NoteTypeOK, RoomInv, MembersAgree, DocumentIsReleased,
            membership, handlers, saving
<1>1. ASSUME NEW s \in Sids, Join(s) \/ JoinRefused(s) PROVE RoomInv'
  BY <1>1 DEF Join, JoinRefused
<1>2. ASSUME NEW s \in Sids, Joined(s) PROVE RoomInv'
  BY <1>2 DEF Joined
<1>3. ASSUME NEW s \in Sids, Leave(s) PROVE RoomInv'
  BY <1>3 DEF Leave
<1>4. ASSUME NEW s \in Sids, Left(s) PROVE RoomInv'
  BY <1>4 DEF Left, Clear
<1>5. ASSUME NEW s \in Sids, Disconnect(s) PROVE RoomInv'
  BY <1>5 DEF Disconnect, Clear
<1>6. ASSUME NEW s \in Sids, NEW e \in Edits, Send(s, e) PROVE RoomInv'
  BY <1>6 DEF Send
<1>7. ASSUME NEW e \in Edits, AppendEdit(e) PROVE RoomInv'
  BY <1>7 DEF AppendEdit
<1>8. ASSUME NEW e \in Edits, StopNext(e) PROVE RoomInv'
  BY <1>8 DEF StopNext
<1>9. ASSUME NEW e \in Edits, CreateSave(e) PROVE RoomInv'
  BY <1>9 DEF CreateSave
<1>10. ASSUME NEW e \in Edits, SaveNothing(e) PROVE RoomInv'
  BY <1>10 DEF SaveNothing
<1>11. ASSUME NEW e \in Edits, Wake(e) \/ SaveNote(e) \/ Cleanup(e) PROVE RoomInv'
  BY <1>11 DEF Wake, SaveNote, Cleanup
<1>12. CASE UNCHANGED noteVars
  BY <1>12 DEF noteVars
<1>13. QED
  BY <1>1, <1>2, <1>3, <1>4, <1>5, <1>6, <1>7, <1>8, <1>9, <1>10, <1>11, <1>12
     DEF NoteNext, Membership, Handler

\* Handlers go from phase to phase, and saves follow them.
LEMMA HandlersStep ==
    ASSUME NoteTypeOK, HandlersInv, [NoteNext]_noteVars PROVE HandlersInv'
<1> USE DEF NoteTypeOK, HandlersInv
<1>1. ASSUME NEW s \in Sids, Membership(s) PROVE HandlersInv'
  <2>1. ASSUME NEW e \in Edits, Send(s, e) PROVE HandlersInv'
    BY <2>1 DEF Send
  <2>2. CASE UNCHANGED <<handlers, saving>>
    BY <2>2 DEF handlers, saving
  <2>3. QED
    BY <1>1, <2>1, <2>2
       DEF Membership, Join, Joined, JoinRefused, Leave, Left, Disconnect
<1>2. ASSUME NEW f \in Edits, StopNext(f) PROVE HandlersInv'
  <2>1. PICK t \in Edits : save' = [save EXCEPT ![t] = "over"] /\ save[t] # "none"
    BY <1>2 DEF StopNext, Stops
  <2>2. QED
    BY <1>2, <2>1 DEF StopNext
<1>3. ASSUME NEW f \in Edits, AppendEdit(f) PROVE HandlersInv'
  BY <1>3 DEF AppendEdit
<1>4. ASSUME NEW f \in Edits, CreateSave(f) \/ SaveNothing(f) PROVE HandlersInv'
  BY <1>4 DEF CreateSave, SaveNothing, saving
<1>5. ASSUME NEW f \in Edits, Wake(f) \/ SaveNote(f) PROVE HandlersInv'
  BY <1>5 DEF Wake, SaveNote, handlers
<1>6. ASSUME NEW f \in Edits, Cleanup(f) PROVE HandlersInv'
  BY <1>6 DEF Cleanup, handlers
<1>7. CASE UNCHANGED noteVars
  BY <1>7 DEF noteVars, handlers, saving
<1>8. QED
  BY <1>1, <1>2, <1>3, <1>4, <1>5, <1>6, <1>7 DEF NoteNext, Handler

\* An update or a save that still brings an edit of its text into the note.
Bringing(f) == phase[f] \in {"stopping", "emitting"} \/ save[f] \in {"sleeping", "writing"}

\* What was in a save that is stopped is in the text of the update that stops it,
\* or discarded.
LEMMA PendingStep ==
    ASSUME NoteTypeOK, HandlersInv, RoomInv, EditsPending, [NoteNext]_noteVars
    PROVE  EditsPending'
<1>0. \A e \in appended \ (saved \union discarded) : \E f \in Edits : e \in text[f] /\ Bringing(f)
  BY DEF EditsPending, Bringing
<1>1. ASSUME \A e \in appended' \ (saved' \union discarded') :
                \E f \in Edits : e \in text'[f] /\ Bringing(f)'
      PROVE  EditsPending'
  BY <1>1 DEF EditsPending, Bringing
<1>2. ASSUME NEW s \in Sids, Membership(s) PROVE EditsPending'
  <2>1. ASSUME NEW e \in Edits, Send(s, e) PROVE EditsPending'
    <3>1. ~ Bringing(e)
      BY <2>1 DEF Send, Bringing, HandlersInv
    <3>2. \A f \in Edits \ {e} : text'[f] = text[f] /\ (Bringing(f) => Bringing(f)')
      BY <2>1 DEF Send, Bringing, NoteTypeOK
    <3>3. UNCHANGED <<appended, saved, discarded>>
      BY <2>1 DEF Send
    <3>4. QED
      BY <1>0, <1>1, <3>1, <3>2, <3>3
  <2>2. CASE UNCHANGED <<phase, saving, appended>>
    BY <2>2 DEF EditsPending, saving
  <2>3. QED
    BY <1>2, <2>1, <2>2
       DEF Membership, Join, Joined, JoinRefused, Leave, Left, Disconnect, handlers
<1>3. ASSUME NEW f \in Edits, StopNext(f) PROVE EditsPending'
  <2>1. PICK t \in Edits :
            /\ save' = [save EXCEPT ![t] = "over"]
            /\ \/ save[t] = "writing" /\ Commit(t)
               \/ Discard(IF save[t] = "over" THEN {} ELSE text[t] \ text[f])
    BY <1>3 DEF StopNext, Stops, NoteTypeOK
  <2>2. UNCHANGED <<phase, text, appended>> /\ Bringing(f)'
    BY <1>3 DEF StopNext, Bringing
  <2>3. \A g \in Edits \ {t} : Bringing(g) => Bringing(g)'
    BY <2>1, <2>2 DEF Bringing, NoteTypeOK
  <2>4. saved \subseteq saved' /\ discarded \subseteq discarded'
    BY <2>1 DEF Commit, Discard
  <2>5. Bringing(t) => Bringing(t)' \/ text[t] \subseteq saved' \union discarded' \union text[f]
    BY <2>1, <2>2 DEF Bringing, Commit, Discard
  <2>6. QED
    BY <1>0, <1>1, <2>2, <2>3, <2>4, <2>5
<1>4. ASSUME NEW f \in Edits, AppendEdit(f) PROVE EditsPending'
  <2>1. UNCHANGED <<text, save, saved>> /\ discarded \subseteq discarded'
        /\ appended' = appended \union {f}
    BY <1>4 DEF AppendEdit, Discard
  <2>2. \A g \in Edits : Bringing(g) => Bringing(g)'
    BY <1>4, <2>1 DEF AppendEdit, Bringing, NoteTypeOK
  <2>3. f \in discarded' \/ (f \in text[f] /\ Bringing(f))
    BY <1>4 DEF AppendEdit, Discard, Bringing, HandlersInv
  <2>4. QED
    BY <1>0, <1>1, <2>1, <2>2, <2>3
<1>5. ASSUME NEW f \in Edits, CreateSave(f) PROVE EditsPending'
  <2>1. UNCHANGED <<text, saved, appended>> /\ discarded' = discarded \ text[f]
    BY <1>5 DEF CreateSave
  <2>2. Bringing(f)' /\ \A g \in Edits : Bringing(g) => Bringing(g)'
    BY <1>5 DEF CreateSave, Bringing, NoteTypeOK
  <2>3. QED
    BY <1>0, <1>1, <2>1, <2>2
<1>6. ASSUME NEW f \in Edits, SaveNothing(f) PROVE EditsPending'
  <2>1. text[f] = {} /\ UNCHANGED <<saving, appended>>
    BY <1>6 DEF SaveNothing
  <2>2. \A g \in Edits \ {f} : Bringing(g) => Bringing(g)'
    BY <1>6, <2>1 DEF SaveNothing, Bringing, NoteTypeOK, saving
  <2>3. QED
    BY <1>0, <1>1, <2>1, <2>2 DEF saving
<1>7. ASSUME NEW f \in Edits, Wake(f) PROVE EditsPending'
  <2>1. \A g \in Edits : Bringing(g) => Bringing(g)'
    BY <1>7 DEF Wake, Bringing, NoteTypeOK, handlers
  <2>2. QED
    BY <1>0, <1>1, <1>7, <2>1 DEF Wake
<1>8. ASSUME NEW f \in Edits, SaveNote(f) PROVE EditsPending'
  <2>1. \A g \in Edits \ {f} : Bringing(g) => Bringing(g)'
    BY <1>8 DEF SaveNote, Bringing, NoteTypeOK, handlers
  <2>2. /\ UNCHANGED <<text, appended>> /\ saved \subseteq saved' /\ discarded \subseteq discarded'
        /\ text[f] \subseteq saved' \union discarded'
    BY <1>8 DEF SaveNote, Commit, Discard
  <2>3. QED
    BY <1>0, <1>1, <2>1, <2>2
<1>9. ASSUME NEW f \in Edits, Cleanup(f) PROVE EditsPending'
  <2>1. save[f] = "over" /\ phase[f] = "done"
    BY <1>9 DEF Cleanup, HandlersInv, NoteTypeOK
  <2>2. ~ Bringing(f) /\ \A g \in Edits : Bringing(g) => Bringing(g)'
    BY <1>9, <2>1 DEF Cleanup, Bringing, handlers
  <2>3. \A g \in Edits \ {f} : text'[g] = text[g]
    BY <1>9 DEF Cleanup, NoteTypeOK
  <2>4. QED
    BY <1>0, <1>1, <1>9, <2>2, <2>3 DEF Cleanup
<1>10. CASE UNCHANGED noteVars
  BY <1>10 DEF noteVars, handlers, saving, EditsPending
<1>11. QED
  BY <1>2, <1>3, <1>4, <1>5, <1>6, <1>7, <1>8, <1>9, <1>10 DEF NoteNext, Handler

LEMMA NoteInvariant == NoteSpec => []NoteInv
<1>1. NoteInv /\ [NoteNext]_noteVars => NoteInv'
  BY NoteTypeStep, RoomStep, HandlersStep, PendingStep DEF NoteInv
<1>2. QED
  BY <1>1, NoteInvInit, PTL DEF NoteSpec

\* Every variable keeps its type, the task list included.
THEOREM NoteTypeCorrect == NoteSpec => []NoteTypeOK
<1>1. NoteInv => NoteTypeOK
  BY DEF NoteInv
<1>2. QED
  BY <1>1, NoteInvariant, PTL

\* The document a member sees is the stored one, for any number of sessions
\* that join, edit, leave and disconnect.
THEOREM NoteMembersAgree == NoteSpec => []MembersAgree
<1>1. NoteInv => MembersAgree
  BY DEF NoteInv, RoomInv
<1>2. QED
  BY <1>1, NoteInvariant, PTL

\* The last one to leave or disconnect takes the document along.
THEOREM NoteIsReleased == NoteSpec => []DocumentIsReleased
<1>1. NoteInv => DocumentIsReleased
  BY DEF NoteInv, RoomInv
<1>2. QED
  BY <1>1, NoteInvariant, PTL

\* For any number of editors whose handlers stop each other's saves, an accepted
\* edit is saved, is to be saved, or is one of the exceptions that EditsPending
\* names: the safety half of EditsAreSaved.
THEOREM NoEditIsForgotten == NoteSpec => []EditsPending
<1>1. NoteInv => EditsPending
  BY DEF NoteInv
<1>2. QED
  BY <1>1, NoteInvariant, PTL
=============================================================================
