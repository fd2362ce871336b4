---------------------------- MODULE NoteDocument ----------------------------
(***************************************************************************)
(* A note that several sessions edit at once in OpenWebUI: the socket      *)
(* handlers of socket/main.py, the YdocManager of socket/utils.py and the  *)
(* registry of save tasks in tasks.py, as docker-compose.yml deploys them: *)
(* one process without Redis.                                              *)
(*                                                                         *)
(* Handlers and tasks are coroutines of one loop.  What lies between two   *)
(* awaits that suspend is one step; the awaits of the managers without     *)
(* Redis do not suspend.  An edit is an opaque Yjs update, a document the  *)
(* set of its updates, so compaction, which merges updates, is no step.    *)
(*                                                                         *)
(* The client sends an edit with the whole text of its editor; only when   *)
(* it meets an empty document after a reconnect does it send what it has   *)
(* without a text (Collaboration.ts).  What is saved is the sender's text. *)
(***************************************************************************)
EXTENDS Naturals, Sequences

CONSTANTS Sids,          \* socket sessions, each of which joins and edits the note
          Edits          \* updates: each is sent once

VARIABLES connected,     \* SESSION_POOL
          joining,       \* join handlers that wait for the note and its access grants
          leaving,       \* leave handlers that wait for their emit
          room,          \* the Socket.IO room of the note
          users,         \* YDOC_MANAGER._users
          store,         \* YDOC_MANAGER._updates
          documents,          \* updates in the client's document, per session
          phase,         \* where the handler of each edit is
          walked,        \* tasks of item_tasks the handler has walked over
          itemTasks,     \* item_tasks[document_id]
          tasks,         \* tasks
          save,          \* debounced_save of each edit
          appended,      \* history: edits appended so far
          text,          \* edits in the text that came with an update: none without a text
          saved,         \* history: edits in some text that was written to the note
          discarded,     \* history: accepted edits that were left without a save
          late,          \* history: the store has an edit that came when there were no users
          ghosts         \* history: sessions that ended before their join handler did

membership == <<connected, joining, leaving, room, users>>
handlers == <<phase, walked>>
saving == <<itemTasks, tasks, save, text, saved, discarded>>
noteVars == <<membership, store, documents, handlers, saving, appended, late, ghosts>>

NoteTypeOK ==
    /\ connected \subseteq Sids /\ joining \subseteq Sids /\ leaving \subseteq Sids
    /\ room \subseteq Sids /\ users \subseteq Sids /\ ghosts \subseteq Sids
    /\ store \subseteq Edits /\ tasks \subseteq Edits
    /\ appended \subseteq Edits /\ saved \subseteq Edits /\ discarded \subseteq Edits
    /\ documents \in [Sids -> SUBSET Edits]
    /\ phase \in [Edits -> {"new", "stopping", "emitting", "done"}]
    /\ text \in [Edits -> SUBSET Edits]
    /\ walked \in [Edits -> Nat]
    /\ itemTasks \in Seq(Edits)
    /\ save \in [Edits -> {"none", "sleeping", "writing", "over"}]
    /\ late \in BOOLEAN

NoteInit ==
    /\ connected = Sids
    /\ joining = {} /\ leaving = {} /\ room = {} /\ users = {} /\ ghosts = {}
    /\ store = {} /\ tasks = {} /\ appended = {} /\ saved = {} /\ discarded = {}
    /\ documents = [s \in Sids |-> {}]
    /\ phase = [e \in Edits |-> "new"]
    /\ text = [e \in Edits |-> {}]
    /\ walked = [e \in Edits |-> 0]
    /\ itemTasks = <<>>
    /\ save = [e \in Edits |-> "none"]
    /\ late = FALSE

-----------------------------------------------------------------------------
(* Sessions.                                                               *)

Join(s) ==
    /\ s \in connected \ (joining \union room)
    /\ joining' = joining \union {s}
    /\ UNCHANGED <<connected, leaving, room, users, store, documents, handlers, saving,
                   appended, late, ghosts>>

\* The database has answered; the session may be gone by now.
Joined(s) ==
    /\ s \in joining
    /\ joining' = joining \ {s}
    /\ users' = users \union {s}
    /\ room' = IF s \in connected THEN room \union {s} ELSE room
    /\ documents' = [documents EXCEPT ![s] = IF s \in connected THEN store ELSE {}]
    /\ ghosts' = IF s \in connected THEN ghosts ELSE ghosts \union {s}
    /\ UNCHANGED <<connected, leaving, store, handlers, saving, appended, late>>

\* Access is denied or the note is gone.
JoinRefused(s) ==
    /\ s \in joining
    /\ joining' = joining \ {s}
    /\ UNCHANGED <<connected, leaving, room, users, store, documents, handlers, saving,
                   appended, late, ghosts>>

\* Nobody asks whether the session has joined.
Leave(s) ==
    /\ s \in connected
    /\ users' = users \ {s}
    /\ room' = room \ {s}
    /\ leaving' = leaving \union {s}
    /\ documents' = [documents EXCEPT ![s] = {}]
    /\ UNCHANGED <<connected, joining, store, handlers, saving, appended, late, ghosts>>

Clear == store' = {} /\ late' = FALSE

\* Fault variant of Left: the users are not looked at again.
LeftBlindly(s) ==
    /\ s \in leaving
    /\ leaving' = leaving \ {s}
    /\ Clear
    /\ UNCHANGED <<connected, joining, room, users, documents, handlers, saving, appended, ghosts>>

\* The other sessions have been told: the last one clears the document.
Left(s) ==
    /\ s \in leaving
    /\ leaving' = leaving \ {s}
    /\ IF users = {} THEN Clear ELSE UNCHANGED <<store, late>>
    /\ UNCHANGED <<connected, joining, room, users, documents, handlers, saving, appended, ghosts>>

\* Fault variant of Disconnect: the document stays.
DisconnectKeeping(s) ==
    /\ s \in connected
    /\ connected' = connected \ {s}
    /\ room' = room \ {s}
    /\ users' = users \ {s}
    /\ documents' = [documents EXCEPT ![s] = {}]
    /\ UNCHANGED <<joining, leaving, store, handlers, saving, appended, late, ghosts>>

\* The session's handlers go on.
Disconnect(s) ==
    /\ s \in connected
    /\ connected' = connected \ {s}
    /\ room' = room \ {s}
    /\ users' = users \ {s}
    /\ documents' = [documents EXCEPT ![s] = {}]
    /\ IF users = {s} THEN Clear ELSE UNCHANGED <<store, late>>
    /\ UNCHANGED <<joining, leaving, handlers, saving, appended, ghosts>>

-----------------------------------------------------------------------------
(* Edits.                                                                  *)

\* A member of the room sends an update: with the text of its editor, or, after
\* a reconnect, without.
Send(s, e) ==
    /\ s \in room \intersect connected
    /\ phase[e] = "new"
    /\ phase' = [phase EXCEPT ![e] = "stopping"]
    /\ documents' = [documents EXCEPT ![s] = @ \union {e}]
    /\ \E sent \in {{}, documents[s] \union {e}} : text' = [text EXCEPT ![e] = sent]
    /\ UNCHANGED <<membership, store, walked, itemTasks, tasks, save, saved, discarded,
                   appended, late, ghosts>>

\* stop_item_tasks walks over the list, which shrinks meanwhile, and gives up at
\* the first task that somebody else is stopping.
Stops(e) == walked[e] < Len(itemTasks) /\ itemTasks[walked[e] + 1] \in tasks

Commit(t) == saved' = saved \union text[t] /\ UNCHANGED discarded
Discard(edits) == discarded' = discarded \union edits /\ UNCHANGED saved

\* A save that is cancelled while it writes may have been committed.  What the
\* update's own text lacks is left behind.
StopNext(e) ==
    /\ phase[e] = "stopping" /\ Stops(e)
    /\ LET t == itemTasks[walked[e] + 1]
       IN  /\ tasks' = tasks \ {t}
           /\ save' = [save EXCEPT ![t] = "over"]
           /\ \/ save[t] = "writing" /\ Commit(t)
              \/ Discard(IF save[t] = "over" THEN {} ELSE text[t] \ text[e])
    /\ walked' = [walked EXCEPT ![e] = @ + 1]
    /\ UNCHANGED <<membership, store, documents, phase, itemTasks, text, appended, late, ghosts>>

\* Appended and broadcast; the handler waits for the emit.
AppendEdit(e) ==
    /\ phase[e] = "stopping" /\ ~ Stops(e)
    /\ phase' = [phase EXCEPT ![e] = "emitting"]
    /\ walked' = [walked EXCEPT ![e] = 0]
    /\ store' = store \union {e}
    /\ appended' = appended \union {e}
    /\ documents' = [s \in Sids |-> IF s \in room THEN documents[s] \union {e} ELSE documents[s]]
    /\ late' = (late \/ users = {})
    /\ Discard(IF text[e] = {} THEN {e} ELSE {})
    /\ UNCHANGED <<membership, itemTasks, tasks, save, text, ghosts>>

\* Fault variant of CreateSave: one save in the list is enough.
CreateSaveOnce(e) ==
    /\ phase[e] = "emitting" /\ text[e] # {}
    /\ phase' = [phase EXCEPT ![e] = "done"]
    /\ IF itemTasks = <<>>
          THEN /\ itemTasks' = <<e>> /\ tasks' = tasks \union {e}
               /\ save' = [save EXCEPT ![e] = "sleeping"]
          ELSE UNCHANGED <<itemTasks, tasks, save>>
    /\ discarded' = discarded \ text[e]
    /\ UNCHANGED <<membership, store, documents, walked, text, saved, appended, late, ghosts>>

CreateSave(e) ==
    /\ phase[e] = "emitting" /\ text[e] # {}
    /\ phase' = [phase EXCEPT ![e] = "done"]
    /\ itemTasks' = Append(itemTasks, e)
    /\ tasks' = tasks \union {e}
    /\ save' = [save EXCEPT ![e] = "sleeping"]
    /\ discarded' = discarded \ text[e]
    /\ UNCHANGED <<membership, store, documents, walked, text, saved, appended, late, ghosts>>

\* Without a text there is nothing to save, although the saves are stopped.
SaveNothing(e) ==
    /\ phase[e] = "emitting" /\ text[e] = {}
    /\ phase' = [phase EXCEPT ![e] = "done"]
    /\ UNCHANGED <<membership, store, documents, walked, saving, appended, late, ghosts>>

\* After half a second.
Wake(t) ==
    /\ save[t] = "sleeping"
    /\ save' = [save EXCEPT ![t] = "writing"]
    /\ UNCHANGED <<membership, store, documents, handlers, itemTasks, tasks, text, saved,
                   discarded, appended, late, ghosts>>

\* Or the note is gone, or the sender may no longer write it, or writing fails.
SaveNote(t) ==
    /\ save[t] = "writing"
    /\ save' = [save EXCEPT ![t] = "over"]
    /\ Commit(t) \/ Discard(text[t])
    /\ UNCHANGED <<membership, store, documents, handlers, itemTasks, tasks, text,
                   appended, late, ghosts>>

Without(k, list) == SubSeq(list, 1, k - 1) \o SubSeq(list, k + 1, Len(list))

\* The done callback, of a save that has ended or was cancelled.
Cleanup(t) ==
    /\ save[t] = "over"
    /\ \E k \in DOMAIN itemTasks : itemTasks[k] = t /\ itemTasks' = Without(k, itemTasks)
    /\ tasks' = tasks \ {t}
    /\ text' = [text EXCEPT ![t] = {}]
    /\ UNCHANGED <<membership, store, documents, handlers, save, saved, discarded,
                   appended, late, ghosts>>

Membership(s) ==
    \/ Join(s) \/ Joined(s) \/ JoinRefused(s)
    \/ Leave(s) \/ Left(s) \/ Disconnect(s)
    \/ \E e \in Edits : Send(s, e)

Handler(e) ==
    \/ StopNext(e) \/ AppendEdit(e) \/ CreateSave(e) \/ SaveNothing(e)
    \/ Wake(e) \/ SaveNote(e) \/ Cleanup(e)

NoteNext == (\E s \in Sids : Membership(s)) \/ (\E e \in Edits : Handler(e))

NoteSpec == NoteInit /\ [][NoteNext]_noteVars

\* Coroutines that can go on do.
NoteFairSpec == NoteSpec /\ \A e \in Edits : WF_noteVars(Handler(e))

-----------------------------------------------------------------------------
(* Properties.                                                             *)

\* The members of the room and the store agree on the edits that were accepted:
\* however joins, edits and leaves interleave, the document is not cleared
\* under a member, and who joins late or comes back gets all of it.
MembersAgree == \A s \in room : documents[s] \intersect appended = store

\* socket/main.py:797, "Cleaning up document [...] as no users are left": only a
\* late edit, whose handler overtook nobody, leaves updates without users, and
\* only a join that outlived its session leaves users without session.
DocumentIsReleased ==
    /\ users \ ghosts \subseteq connected
    /\ users = {} /\ leaving = {} /\ ~ late => store = {}

\* An accepted edit that was in no saved text is in the text of a save that is
\* under way, or of an update whose handler has stopped the saves and has yet to
\* create its own.  The exceptions are edits that came without a text, those
\* whose save was refused, and those whose save was stopped by an update that
\* lacks them, until the next save has them in its text.
EditsPending ==
    \A e \in appended \ (saved \union discarded) :
        \E f \in Edits :
            /\ e \in text[f]
            /\ phase[f] \in {"stopping", "emitting"} \/ save[f] \in {"sleeping", "writing"}

\* With these exceptions every accepted edit is saved in the end: a handler that
\* stops a save with the edit in it creates another.
EditsAreSaved == \A e \in Edits : e \in appended ~> e \in saved \union discarded
=============================================================================
