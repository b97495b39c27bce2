------------------------------ MODULE NoteSync ------------------------------
(***************************************************************************)
(* One note of the NoteApp on several devices of its owner.  Each device   *)
(* shows the note as its local store has it: the last version known of     *)
(* the server, with an overlay that stands for the device's own writes     *)
(* still in the mutation queue.  Versions come in on two streams that do   *)
(* not wait for each other, the acknowledgements of the device's writes    *)
(* and the watch stream's changes; a write whose acknowledgement is lost   *)
(* is sent, and applied, again.                                            *)
(*                                                                         *)
(* A note is its title, so a merge of fields and a replacement of the      *)
(* document are the same.  How the queue reaches the server is the matter  *)
(* of WritePipeline; here it is the promise of WriteQueue.                 *)
(***************************************************************************)
EXTENDS Integers, Sequences, FiniteSets, SequencesExt, FiniteSetsExt

CONSTANTS
    Devices,     \* running copies of the app, one user signed in on all
    Author,      \* the device the note is written on
    Titles,      \* what the user may type
    NoTitle,     \* the data of a document that is not there
    MaxWrites,   \* bound: writes of the app
    MaxFaults    \* bound: lost acknowledgements, refusals and restarts

ASSUME NoteSyncAssumption ==
    /\ Author \in Devices /\ NoTitle \notin Titles
    /\ MaxWrites \in Nat /\ MaxFaults \in Nat

VARIABLES
    store,    \* per device: local store and list view
    details,  \* devices with a DetailsView of the note
    results,  \* per device: results of its oldest queued writes, unread
    seen,     \* per device: last server version the watch stream brought
    server,   \* the versions of the document, from the first to the current
    issued,   \* writes so far
    faults    \* faults so far

vars == <<store, details, results, seen, server, issued, faults>>

Title == Titles \cup {NoTitle}
Version == 0 .. MaxWrites * (MaxFaults + 1)

\* A MutableDocument; 0 is SnapshotVersion::None.
Document ==
    [type : {"invalid", "found", "none", "unknown"}, version : Version,
     title : Title, state : {"synced", "committed", "local"}]
Mutation == [op : {"set", "patch", "delete"}, title : Title]
Batch == [id : 1 .. MaxWrites, m : Mutation]

\* A result: the version the write made, or a refusal.
Refused == -1

Store ==
    [queue : Seq(Batch),               \* the mutation queue
     cache : Document,                 \* remote_document_cache_
     overlay : SUBSET Batch,           \* document_overlay_cache_: none or one
     view : Document,                  \* document_set_: found, or not there
     mutated : BOOLEAN]                \* mutated_keys_

TypeOK ==
    /\ store \in [Devices -> Store]
    /\ \A d \in Devices : Cardinality(store[d].overlay) <= 1
    /\ details \subseteq Devices
    /\ results \in [Devices -> Seq(Version \cup {Refused})]
    /\ seen \in [Devices -> Version]
    /\ server \in Seq(Title)
    /\ issued \in 0 .. MaxWrites /\ faults \in 0 .. MaxFaults

-----------------------------------------------------------------------------
(* Documents and mutations. *)

Doc(type, version, title, state) ==
    [type |-> type, version |-> version, title |-> title, state |-> state]

Invalid == Doc("invalid", 0, NoTitle, "synced")
Found(doc) == doc.type = "found"
PendingWrites(doc) == doc.state # "synced"

\* A mutation's ApplyToLocalView.  updateData's precondition is that the
\* document exists; an overlay has none.
ApplyToLocalView(m, doc, exists) ==
    IF m.op = "delete" THEN Doc("none", 0, NoTitle, "local")
    ELSE IF m.op = "patch" /\ exists /\ ~Found(doc) THEN doc
    ELSE Doc("found", 0, m.title, "local")

\* Mutant of ApplyToRemoteDocument: the document keeps its version.
ApplyToRemoteKeepsVersion(m, doc, version) ==
    IF m.op = "delete" THEN Doc("none", doc.version, NoTitle, "committed")
    ELSE IF m.op = "patch" /\ ~Found(doc)
    THEN Doc("unknown", doc.version, NoTitle, "committed")
    ELSE Doc("found", doc.version, m.title, "committed")

\* Its ApplyToRemoteDocument, for the version the server has given it.
ApplyToRemoteDocument(m, doc, version) ==
    IF m.op = "delete" THEN Doc("none", version, NoTitle, "committed")
    ELSE IF m.op = "patch" /\ ~Found(doc)
    THEN Doc("unknown", version, NoTitle, "committed")
    ELSE Doc("found", version, m.title, "committed")

\* A batch applied to a document and to the mask of the fields changed so
\* far: none, the title, or all of the document.
Overlayed(doc, mask) == [doc |-> doc, mask |-> mask]

ApplyBatch(o, b) ==
    LET doc == ApplyToLocalView(b.m, o.doc, TRUE)
        skipped == b.m.op = "patch" /\ ~Found(o.doc)
    IN  Overlayed(doc, IF skipped THEN o.mask
                       ELSE IF b.m.op = "patch" /\ o.mask # "all" THEN "title"
                       ELSE "all")

\* CalculateOverlayMutation, as the set of the overlays to save under id.
CalculateOverlay(o, id) ==
    LET op == IF o.mask # "all" THEN "patch"
              ELSE IF Found(o.doc) THEN "set" ELSE "delete"
    IN  IF o.doc.state # "local" THEN {}
        ELSE {[id |-> id, m |-> [op |-> op, title |-> o.doc.title]]}

\* Mutant of SaveOverlays: what is there stays.
SaveOverlaysBeside(old, new) == old \cup new

\* SaveOverlays: what is saved replaces what is there; nothing leaves it.
SaveOverlays(old, new) == IF new = {} THEN old ELSE new

RemoveOverlaysForBatchId(old, id) == {x \in old : x.id # id}

-----------------------------------------------------------------------------
(* The local documents view. *)

\* ComputeViews of one document whose existence has not changed.
View(doc, overlay) ==
    IF overlay = {} THEN Overlayed(doc, "none")
    ELSE LET x == CHOOSE x \in overlay : TRUE
         IN  Overlayed(ApplyToLocalView(x.m, doc, FALSE),
                       IF x.m.op = "patch" THEN "title" ELSE "all")

\* Every batch of the queue, oldest first, on top of doc.
ApplyQueue(doc, queue) ==
    LET upTo[n \in 0 .. Len(queue)] ==
            IF n = 0 THEN Overlayed(doc, "none")
            ELSE ApplyBatch(upTo[n - 1], queue[n])
    IN  upTo[Len(queue)]

\* RecalculateAndSaveOverlays: the overlays once doc is the base.
Recalculate(doc, queue, overlay) ==
    IF queue = <<>> THEN overlay
    ELSE SaveOverlays(overlay,
             CalculateOverlay(ApplyQueue(doc, queue), Last(queue).id))

-----------------------------------------------------------------------------
(* The list's View. *)

ShouldWaitForSyncedDocument(new, old) == old.state = "local" /\ new.state = "committed"

\* ComputeDocumentChanges: what the list shows once doc has changed.
Emit(s, doc) ==
    LET had == s.mutated
        has == doc.state = "local" \/ (s.mutated /\ doc.state = "committed")
        applied ==
            IF Found(s.view) /\ Found(doc)
            THEN IF s.view.title # doc.title
                 THEN ~ShouldWaitForSyncedDocument(doc, s.view)
                 ELSE had # has
            ELSE TRUE
    IN  IF ~applied THEN s
        ELSE IF Found(doc)
        THEN [s EXCEPT !.view = doc, !.mutated = doc.state = "local"]
        ELSE [s EXCEPT !.view = Invalid, !.mutated = FALSE]

-----------------------------------------------------------------------------
(* The local store. *)

\* WriteLocally.
WriteLocally(s, b) ==
    LET o == ApplyBatch(View(s.cache, s.overlay), b)
    IN  Emit([s EXCEPT !.queue = Append(@, b),
                       !.overlay = SaveOverlays(@, CalculateOverlay(o, b.id))],
             o.doc)

\* Mutant of AcknowledgeBatch: the version in the cache is not compared.
AcknowledgeBatchBlind(s, version) ==
    LET b == Head(s.queue)
        cache == ApplyToRemoteDocument(b.m, s.cache, version)
        overlay == RemoveOverlaysForBatchId(s.overlay, b.id)
    IN  Emit([s EXCEPT !.queue = Tail(@), !.cache = cache, !.overlay = overlay],
             View(cache, overlay).doc)

\* AcknowledgeBatch of the oldest batch: the result enters the cache unless
\* the watch stream has brought that version, or a later one, before.
AcknowledgeBatch(s, version) ==
    LET b == Head(s.queue)
        cache == IF s.cache.version < version
                 THEN ApplyToRemoteDocument(b.m, s.cache, version)
                 ELSE s.cache
        overlay == RemoveOverlaysForBatchId(s.overlay, b.id)
    IN  Emit([s EXCEPT !.queue = Tail(@), !.cache = cache, !.overlay = overlay],
             View(cache, overlay).doc)

\* Mutant of RejectBatch: the overlay stays.
RejectBatchKeepsOverlay(s) ==
    LET overlay == Recalculate(s.cache, Tail(s.queue), s.overlay)
    IN  Emit([s EXCEPT !.queue = Tail(@), !.overlay = overlay],
             View(s.cache, overlay).doc)

\* RejectBatch of the oldest batch.
RejectBatch(s) ==
    LET overlay == Recalculate(
                       s.cache, Tail(s.queue),
                       RemoveOverlaysForBatchId(s.overlay, Head(s.queue).id))
    IN  Emit([s EXCEPT !.queue = Tail(@), !.overlay = overlay],
             View(s.cache, overlay).doc)

\* PopulateDocumentChanges: is the change news to the cache?
IsNews(s, doc) ==
    \/ s.cache.type = "invalid"
    \/ doc.version > s.cache.version
    \/ doc.version = s.cache.version /\ PendingWrites(s.cache)

\* ApplyRemoteEvent: a patch overlay, or none, is computed anew when the
\* document comes or goes.
ApplyRemoteEvent(s, doc) ==
    LET recalculate == /\ Found(doc) # Found(s.cache)
                       /\ \A x \in s.overlay : x.m.op = "patch"
    IN  IF ~IsNews(s, doc) THEN s
        ELSE IF recalculate
        THEN Emit([s EXCEPT !.cache = doc,
                            !.overlay = Recalculate(doc, s.queue, @)],
                  ApplyQueue(doc, s.queue).doc)
        ELSE Emit([s EXCEPT !.cache = doc], View(doc, s.overlay).doc)

\* A new process queries its store; the view starts empty.
Listen(s) ==
    Emit([s EXCEPT !.view = Invalid, !.mutated = FALSE],
         View(s.cache, s.overlay).doc)

-----------------------------------------------------------------------------

Init ==
    /\ store = [d \in Devices |->
                   [queue |-> <<>>, cache |-> Invalid, overlay |-> {},
                    view |-> Invalid, mutated |-> FALSE]]
    /\ details = {}
    /\ results = [d \in Devices |-> <<>>]
    /\ seen = [d \in Devices |-> 0]
    /\ server = <<>>
    /\ issued = 0 /\ faults = 0

Fault == faults < MaxFaults /\ faults' = faults + 1
remoteVars == <<results, seen, server>>

\* SyncEngine::WriteMutations; a batch id is only compared on its device.
Write(d, op, title) ==
    /\ issued < MaxWrites
    /\ issued' = issued + 1
    /\ store' = [store EXCEPT ![d] =
                    WriteLocally(@, [id |-> issued',
                                     m |-> [op |-> op, title |-> title]])]
    /\ UNCHANGED <<remoteVars, faults>>

\* NoteViewModel.addData: the document gets a new id, so this is done once.
AddData(title) ==
    /\ issued = 0
    /\ Write(Author, "set", title)
    /\ UNCHANGED details

\* A row of the list opens a DetailsView, which keeps its copy of the note.
OpenDetails(d) ==
    /\ Found(store[d].view) /\ d \notin details
    /\ details' = details \cup {d}
    /\ UNCHANGED <<store, remoteVars, issued, faults>>

\* NoteViewModel.updateData
UpdateData(d, title) ==
    /\ d \in details
    /\ Write(d, "patch", title)
    /\ UNCHANGED details

\* NoteViewModel.deleteData, on the list.
DeleteData(d) ==
    /\ Found(store[d].view)
    /\ Write(d, "delete", NoTitle)
    /\ details' = details \ {d}

\* SyncEngine::HandleSuccessfulWrite and HandleRejectedWrite.
HandleResult(d) ==
    /\ results[d] # <<>>
    /\ results' = [results EXCEPT ![d] = Tail(@)]
    /\ store' = [store EXCEPT ![d] =
                    IF Head(results[d]) = Refused THEN RejectBatch(@)
                    ELSE AcknowledgeBatch(@, Head(results[d]))]
    /\ UNCHANGED <<details, seen, server, issued, faults>>

\* The document of the server's version n, as the watch stream sends it, or
\* the resolution of a limbo document if it was never in the target.
WatchDocument(n) ==
    Doc(IF server[n] = NoTitle THEN "none" ELSE "found", n, server[n], "synced")

\* SyncEngine::ApplyRemoteEvent; versions may be skipped.
WatchChange(d, n) ==
    /\ n \in seen[d] .. Len(server) /\ n > 0
    /\ seen' = [seen EXCEPT ![d] = n]
    /\ store' = [store EXCEPT ![d] = ApplyRemoteEvent(@, WatchDocument(n))]
    /\ UNCHANGED <<details, results, server, issued, faults>>

\* The process ends; what is on disk stays.
Kill(d) ==
    /\ Fault
    /\ store' = [store EXCEPT ![d] = Listen(@)]
    /\ details' = details \ {d}
    /\ results' = [results EXCEPT ![d] = <<>>]
    /\ UNCHANGED <<seen, server, issued>>

-----------------------------------------------------------------------------
(* The server and the network, as the client meets them. *)

Current == IF server = <<>> THEN NoTitle ELSE Last(server)

\* The oldest write of d that has no result; a refusal stops the stream.
Serving(d) ==
    /\ Len(results[d]) < Len(store[d].queue)
    /\ Refused \notin Range(results[d])

\* A write that changes nothing keeps the document's version; a delete is
\* told the version of its commit.
Commit(d) ==
    /\ Serving(d)
    /\ LET m == store[d].queue[Len(results[d]) + 1].m
           refused == m.op = "patch" /\ Current = NoTitle
           same == m.op # "delete" /\ m.title = Current
       IN  /\ server' = IF refused \/ same THEN server
                        ELSE Append(server, m.title)
           /\ results' = [results EXCEPT ![d] =
                             Append(@, IF refused THEN Refused
                                       ELSE Len(server'))]
    /\ UNCHANGED <<store, details, seen, issued, faults>>

\* A security rule refuses the write.
Refuse(d) ==
    /\ Serving(d) /\ Fault
    /\ results' = [results EXCEPT ![d] = Append(@, Refused)]
    /\ UNCHANGED <<store, details, seen, server, issued>>

\* The write stream breaks, and what was on its way is lost.
Lose(d) ==
    /\ results[d] # <<>> /\ Fault
    /\ \E k \in 0 .. Len(results[d]) - 1 :
           results' = [results EXCEPT ![d] = SubSeq(@, 1, k)]
    /\ UNCHANGED <<store, details, seen, server, issued>>

-----------------------------------------------------------------------------

Next ==
    \/ \E t \in Titles : AddData(t)
    \/ \E d \in Devices :
          \/ OpenDetails(d) \/ DeleteData(d) \/ HandleResult(d) \/ Kill(d)
          \/ Commit(d) \/ Refuse(d) \/ Lose(d)
          \/ \E t \in Titles : UpdateData(d, t)
          \/ \E n \in 1 .. Len(server) : WatchChange(d, n)

Spec == Init /\ [][Next]_vars

\* The worker queue handles what arrives; the streams, reopened after every
\* error, bring the writes to the server and its current version back.
Fairness ==
    \A d \in Devices :
        /\ WF_vars(Commit(d)) /\ WF_vars(HandleResult(d))
        /\ WF_vars(seen[d] < Len(server) /\ WatchChange(d, Len(server)))

FairSpec == Spec /\ Fairness

-----------------------------------------------------------------------------

\* What the cache holds is what the server had at that version, though the
\* acknowledgements and the watch stream reach it in any order.
CacheIsTrue ==
    \A d \in Devices :
        LET doc == store[d].cache
        IN  doc.type \in {"found", "none"} =>
                /\ doc.version \in DOMAIN server
                /\ doc.title = server[doc.version]

\* A device whose writes are settled, and whose watch stream has caught up
\* with them, shows the version it has cached: nothing is left of a write that
\* was refused, or of one that another device has overtaken.
SettledShowsCache ==
    \A d \in Devices :
        LET s == store[d]
        IN  s.queue = <<>> /\ ~PendingWrites(s.cache) =>
                s.overlay = {} /\ s.view.title = s.cache.title

\* The overlay gives the local view of the document: what its own queue
\* makes of the version in the cache.
OverlayIsLocalView ==
    \A d \in Devices :
        LET s == store[d]
            shown == View(s.cache, s.overlay).doc
            wanted == ApplyQueue(s.cache, s.queue).doc
        IN  /\ Found(shown) <=> Found(wanted)
            /\ shown.title = wanted.title

\* Once nothing fails any more, every device shows the server's note.
Converges == []<>(\A d \in Devices : store[d].view.title = Current)

=============================================================================
