---------------------------- MODULE PostLifecycle ----------------------------
(***************************************************************************)
(* The life of a post of the UIKit app across Firestore and Storage:       *)
(* NewPostViewController.addData uploads a picture and then adds the       *)
(* document, Post.checkImageURL completes the document with the URL of the *)
(* thumbnail, PostService.updatePost and deletePost change and remove it.  *)
(* Each operation is a chain of asynchronous calls; the chains of several  *)
(* devices, and of one device, interleave.                                 *)
(*                                                                         *)
(* A document is the set of the fields it has, {} when it does not exist:  *)
(* the code and its queries only tell documents apart by which fields are  *)
(* there.  The UUID that names the uploaded file, the id of the document   *)
(* added for it and the name of its thumbnail belong to one call of        *)
(* addData and are one element of Posts.                                   *)
(***************************************************************************)
EXTENDS Naturals, Sequences

CONSTANTS
    Posts,       \* calls of addData
    Devices,     \* running copies of the app
    MaxPending   \* bound: per device, the writes it may have queued

ASSUME PostAssumption == MaxPending \in [Devices -> Nat]

VARIABLES
    server,    \* Firestore collection "Posts": [Posts -> SUBSET Fields]
    synced,    \* per device, the last server version of each document
    pending,   \* per device, the queue of its unacknowledged writes
    files,     \* Storage: uploaded pictures
    thumbs,    \* Storage: thumbs/<path>_320x200
    tasks,     \* Storage calls and document reads in flight
    detail,    \* per device, the post of the open PostDetailViewController
    used,      \* UUIDs already taken
    deleted,   \* history: posts whose delete the server has applied
    repeated   \* history: posts with a write that is sent again though applied

vars == <<server, synced, pending, files, thumbs, tasks, detail, used,
          deleted, repeated>>

Fields == {"description", "datePublished", "userId", "userName", "path",
           "imageURL"}

\* The fields of the dictionary addData hands to addDocument.
NewPostFields == {"description", "datePublished", "userId", "userName", "path"}

\* A write leaves (document \ del) \cup set; then names what its completion
\* does next: read the document back, delete the image, or nothing here.
Write == [id : Posts, set : SUBSET Fields, del : SUBSET (Fields \cup {"paht"}),
          then : {"none", "get", "image"}]

Task == [op : {"put", "url", "get", "image"}, dev : Devices, id : Posts]

TypeOK ==
    /\ server \in [Posts -> SUBSET Fields]
    /\ synced \in [Devices -> [Posts -> SUBSET Fields]]
    /\ pending \in [Devices -> Seq(Write)]
    /\ files \in SUBSET Posts
    /\ thumbs \in SUBSET Posts
    /\ tasks \in SUBSET Task
    /\ detail \in [Devices -> SUBSET [id : Posts, url : BOOLEAN]]
    /\ used \in SUBSET Posts
    /\ deleted \in SUBSET Posts
    /\ repeated \in SUBSET Posts

Init ==
    /\ server = [i \in Posts |-> {}]
    /\ synced = [d \in Devices |-> [i \in Posts |-> {}]]
    /\ pending = [d \in Devices |-> <<>>]
    /\ files = {} /\ thumbs = {} /\ tasks = {} /\ used = {}
    /\ deleted = {} /\ repeated = {}
    /\ detail = [d \in Devices |-> {}]

-----------------------------------------------------------------------------
(* Firestore as the app sees it.                                           *)

Apply(w, doc) == (doc \ w.del) \cup w.set

\* The document i as a device shows it: the version base with the queued
\* writes q on top.  A field is there if base or a write put it there and no
\* later write took it away.
Overlay(base, q, i) ==
    {f \in Fields :
        \E k \in 0 .. Len(q) :
            /\ IF k = 0 THEN f \in base ELSE q[k].id = i /\ f \in q[k].set
            /\ \A m \in k + 1 .. Len(q) : ~(q[m].id = i /\ f \in q[m].del)}

View(d, i) == Overlay(synced[d][i], pending[d], i)

\* order(by: "datePublished") returns only documents that have the field.
Listed(doc) == "datePublished" \in doc

\* Mutants of the writes: the misspelled key is written instead of deleted;
\* an edit sends the whole post; an edit without merge: true.
SetImageURLWritesPaht(i) ==
    [id |-> i, set |-> {"imageURL", "paht"}, del |-> {}, then |-> "none"]
SetWholePost(i) ==
    [id |-> i, set |-> NewPostFields, del |-> {}, then |-> "get"]
SetWithoutMerge(i) ==
    [id |-> i, set |-> {"description"}, del |-> Fields, then |-> "get"]

\* The writes of the code.
AddDocument(i) ==
    [id |-> i, set |-> NewPostFields, del |-> Fields, then |-> "none"]
SetImageURL(i) ==
    [id |-> i, set |-> {"imageURL"}, del |-> {"paht"}, then |-> "none"]
SetDescription(i) ==
    [id |-> i, set |-> {"description"}, del |-> {}, then |-> "get"]
Delete(p) ==
    [id |-> p.id, set |-> {}, del |-> Fields,
     then |-> IF p.url THEN "image" ELSE "none"]

Enqueue(d, w) ==
    /\ Len(pending[d]) < MaxPending[d]
    /\ pending' = [pending EXCEPT ![d] = Append(@, w)]

Call(o, d, i) == [op |-> o, dev |-> d, id |-> i]

\* The server applies the oldest write of a device and acknowledges it.
Commit(d) ==
    /\ pending[d] # <<>>
    /\ LET w == Head(pending[d]) IN
        /\ server' = [server EXCEPT ![w.id] = Apply(w, @)]
        /\ synced' = [synced EXCEPT ![d][w.id] = Apply(w, @)]
        /\ tasks' = tasks \cup
               (IF w.then = "none" THEN {} ELSE {Call(w.then, d, w.id)})
        /\ deleted' = IF w.set = {} THEN deleted \cup {w.id} ELSE deleted
    /\ pending' = [pending EXCEPT ![d] = Tail(@)]
    /\ UNCHANGED <<files, thumbs, detail, used, repeated>>

\* The server applies it and the acknowledgement is lost: the write stays in
\* the queue and is sent again when the stream is reopened.
CommitUnheard(d) ==
    /\ pending[d] # <<>>
    /\ LET w == Head(pending[d]) IN
        /\ server' = [server EXCEPT ![w.id] = Apply(w, @)]
        /\ deleted' = IF w.set = {} THEN deleted \cup {w.id} ELSE deleted
        /\ repeated' = repeated \cup {w.id}
    /\ UNCHANGED <<synced, pending, files, thumbs, tasks, detail, used>>

\* The server refuses it: the completion gets an error and nothing follows.
Reject(d) ==
    /\ pending[d] # <<>>
    /\ pending' = [pending EXCEPT ![d] = Tail(@)]
    /\ UNCHANGED <<server, synced, files, thumbs, tasks, detail, used, deleted,
                   repeated>>

\* The snapshot listener of the feed learns the server's documents.
Sync(d) ==
    /\ synced' = [synced EXCEPT ![d] = server]
    /\ UNCHANGED <<server, pending, files, thumbs, tasks, detail, used, deleted,
                   repeated>>

-----------------------------------------------------------------------------
(* NewPostViewController.addData                                           *)

AddData(d, i) ==
    /\ i \notin used
    /\ used' = used \cup {i}
    /\ tasks' = tasks \cup {Call("put", d, i)}
    /\ UNCHANGED <<server, synced, pending, files, thumbs, detail, deleted,
                   repeated>>

PutData(d, i) ==
    /\ Call("put", d, i) \in tasks
    /\ tasks' = tasks \ {Call("put", d, i)}
    /\ files' = files \cup {i}
    /\ Enqueue(d, AddDocument(i))
    /\ UNCHANGED <<server, synced, thumbs, detail, used, deleted, repeated>>

\* Mutant of PutDataFails: the completion does not test the error.
PutDataErrorIgnored(d, i) ==
    /\ Call("put", d, i) \in tasks
    /\ tasks' = tasks \ {Call("put", d, i)}
    /\ files' \in {files, files \cup {i}}
    /\ Enqueue(d, AddDocument(i))
    /\ UNCHANGED <<server, synced, thumbs, detail, used, deleted, repeated>>

\* completion(error): the file may have been stored all the same.
PutDataFails(d, i) ==
    /\ Call("put", d, i) \in tasks
    /\ tasks' = tasks \ {Call("put", d, i)}
    /\ files' \in {files, files \cup {i}}
    /\ UNCHANGED <<server, synced, pending, thumbs, detail, used, deleted,
                   repeated>>

\* The image resizer attached to the bucket; it may run again for a file.
MakeThumbnail(i) ==
    /\ i \in files \ thumbs
    /\ thumbs' = thumbs \cup {i}
    /\ UNCHANGED <<server, synced, pending, files, tasks, detail, used, deleted,
                   repeated>>

-----------------------------------------------------------------------------
(* Post.checkImageURL                                                      *)

\* A table cell of a post that has a path and no URL yet.
ConfigureItem(d, i) ==
    /\ LET doc == View(d, i)
       IN Listed(doc) /\ "imageURL" \notin doc /\ "path" \in doc
    /\ tasks' = tasks \cup {Call("url", d, i)}
    /\ UNCHANGED <<server, synced, pending, files, thumbs, detail, used, deleted,
                   repeated>>

\* Pull to refresh: every listed post that has a path, with or without a URL.
ReloadData(d) ==
    /\ LET found == {i \in Posts : Listed(View(d, i)) /\ "path" \in View(d, i)}
       IN tasks' = tasks \cup {Call("url", d, i) : i \in found}
    /\ UNCHANGED <<server, synced, pending, files, thumbs, detail, used, deleted,
                   repeated>>

\* Mutant of DownloadURL: the URL is written whether the thumbnail is there
\* or not.
DownloadURLUnchecked(d, i) ==
    /\ Call("url", d, i) \in tasks
    /\ tasks' = tasks \ {Call("url", d, i)}
    /\ Enqueue(d, SetImageURL(i))
    /\ UNCHANGED <<server, synced, files, thumbs, detail, used, deleted,
                   repeated>>

\* thumbRef.downloadURL succeeds: the URL is merged into the document, which
\* keeps its path (the key to delete is misspelled "paht").
DownloadURL(d, i) ==
    /\ Call("url", d, i) \in tasks
    /\ i \in thumbs
    /\ tasks' = tasks \ {Call("url", d, i)}
    /\ Enqueue(d, SetImageURL(i))
    /\ UNCHANGED <<server, synced, files, thumbs, detail, used, deleted,
                   repeated>>

-----------------------------------------------------------------------------
(* PostDetailViewController and PostService                                *)

\* The screen keeps a copy of the post: what matters is whether it had a URL.
OpenDetail(d, i) ==
    /\ detail[d] = {}
    /\ Listed(View(d, i))
    /\ detail' = [detail EXCEPT
                    ![d] = {[id |-> i, url |-> "imageURL" \in View(d, i)]}]
    /\ UNCHANGED <<server, synced, pending, files, thumbs, tasks, used, deleted,
                   repeated>>

CloseDetail(d) ==
    /\ detail[d] # {}
    /\ detail' = [detail EXCEPT ![d] = {}]
    /\ UNCHANGED <<server, synced, pending, files, thumbs, tasks, used, deleted,
                   repeated>>

UpdatePost(d) ==
    /\ \E p \in detail[d] : Enqueue(d, SetDescription(p.id))
    /\ UNCHANGED <<server, synced, files, thumbs, tasks, detail, used, deleted,
                   repeated>>

\* A screen of post i after self.post = updatedPost.
Refreshed(p, i) == IF p.id = i THEN [p EXCEPT !.url = TRUE] ELSE p

\* The document read back after an update.  With a description, an image URL
\* and a date the screen, if it is still the one that asked, gets the post
\* that was read; without them the completion is never called.
GetDocument(d, i) ==
    /\ Call("get", d, i) \in tasks
    /\ tasks' = tasks \ {Call("get", d, i)}
    /\ synced' = [synced EXCEPT ![d][i] = server[i]]
    /\ \/ /\ {"description", "imageURL", "datePublished"}
                \subseteq Overlay(server[i], pending[d], i)
          /\ detail' = [detail EXCEPT ![d] = {Refreshed(p, i) : p \in @}]
       \/ detail' = detail
    /\ UNCHANGED <<server, pending, files, thumbs, used, deleted, repeated>>

DeletePost(d) ==
    /\ \E p \in detail[d] : Enqueue(d, Delete(p))
    /\ UNCHANGED <<server, synced, files, thumbs, tasks, detail, used, deleted,
                   repeated>>

\* The second half of deletePost: the thumbnail goes and the screen, if it is
\* still the one that asked, is popped.
DeleteImage(d, i) ==
    /\ Call("image", d, i) \in tasks
    /\ i \in thumbs
    /\ tasks' = tasks \ {Call("image", d, i)}
    /\ thumbs' = thumbs \ {i}
    /\ \/ detail' = [detail EXCEPT ![d] = {p \in @ : p.id # i}]
       \/ detail' = detail
    /\ UNCHANGED <<server, synced, pending, files, used, deleted, repeated>>

\* downloadURL, getDocument or the image's delete reports an error, and the
\* chain ends.
CallFails(c) ==
    /\ c.op # "put"
    /\ tasks' = tasks \ {c}
    /\ UNCHANGED <<server, synced, pending, files, thumbs, detail, used, deleted,
                   repeated>>

\* The app is killed.  The queue of writes is kept on disk; the closures that
\* wait for their completion, and the calls in flight, are gone.
Kill(d) ==
    /\ tasks' = {c \in tasks : c.dev # d}
    /\ \E stored \in SUBSET {i \in Posts : Call("put", d, i) \in tasks} :
           files' = files \cup stored
    /\ pending' = [pending EXCEPT ![d] =
                      [k \in 1 .. Len(@) |-> [@[k] EXCEPT !.then = "none"]]]
    /\ detail' = [detail EXCEPT ![d] = {}]
    /\ UNCHANGED <<server, synced, thumbs, used, deleted, repeated>>

-----------------------------------------------------------------------------

Next ==
    \/ \E d \in Devices :
          \/ Commit(d) \/ CommitUnheard(d) \/ Reject(d) \/ Sync(d)
          \/ ReloadData(d)
          \/ CloseDetail(d) \/ UpdatePost(d) \/ DeletePost(d) \/ Kill(d)
          \/ \E i \in Posts :
                \/ AddData(d, i) \/ PutData(d, i) \/ PutDataFails(d, i)
                \/ ConfigureItem(d, i) \/ DownloadURL(d, i)
                \/ OpenDetail(d, i) \/ GetDocument(d, i) \/ DeleteImage(d, i)
    \/ \E i \in Posts : MakeThumbnail(i)
    \/ \E c \in tasks : CallFails(c)

Spec == Init /\ [][Next]_vars

-----------------------------------------------------------------------------
(* Properties                                                              *)

\* No device, online or off, ever lists a post whose picture is not in
\* Storage: addData adds the document only in the completion of putData.
ListedHasPicture ==
    \A d \in Devices, i \in Posts : Listed(View(d, i)) => i \in files

\* A post in the server's feed that carries an image URL has that thumbnail:
\* checkImageURL writes the URL only once the thumbnail answers, and
\* deletePost removes the thumbnail only after the document, so no late
\* merge of another device can list the post again with a dead link.  Only a
\* write the client repeats can: the add brings the document back.
ListedURLResolves ==
    \A i \in Posts :
        Listed(server[i]) /\ "imageURL" \in server[i] =>
            i \in thumbs \cup repeated

\* A deleted post never comes back to the feed.  updatePost and checkImageURL
\* use setData(merge: true), which creates the document again when it reaches
\* the server after a delete; what it creates has no date and is not listed.
\* Again an add that is repeated after the delete is the only way back.
DeletedStaysUnlisted ==
    \A i \in deleted \ repeated : ~Listed(server[i])

\* Concurrent edits of one post do not overwrite each other's fields: until
\* it is deleted, or one of its writes repeated, a document only gains fields.
NoLostFields ==
    [][\A i \in Posts :
          server[i] \subseteq server'[i] \/ i \in deleted' \cup repeated']_vars

=============================================================================
