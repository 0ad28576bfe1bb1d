---------------------------- MODULE MediaUploads ----------------------------
(***************************************************************************)
(* A picture on its way into a post: the compose pages of the web and the  *)
(* mobile client, the presigned upload, the row of the media and the post. *)
(* Source: apps/web/src/app/(app)/compose/page.tsx,                        *)
(* apps/mobile/app/(app)/compose.tsx, apps/api/src/modules/media,          *)
(* apps/api/src/common/storage and the creation of posts.                  *)
(*                                                                         *)
(* A page is one draft.  A call is one step of its page, and ends well,    *)
(* with an error status, or without an answer, before or after its effect. *)
(* Keys are numbered; 0 is the empty key.                                  *)
(***************************************************************************)
EXTENDS Integers, FiniteSets

CONSTANTS Pages, Files,
          Supported,     \* the files of a type that the API accepts
          Shown,         \* the pictures and videos
          None,
          MaxPublishes,  \* bound of the clicks on Post
          MaxPicks,      \* bound of the files picked
          MaxFaults      \* bound of the calls that end badly by chance

ASSUME UploadsAssumption ==
    /\ Supported \cup Shown \subseteq Files /\ None \notin Files
    /\ MaxPublishes \in Nat /\ MaxPicks \in Nat /\ MaxFaults \in Nat

VARIABLES
    client,     \* client[p]: "web" or "mobile"
    s3,         \* the bucket is configured; otherwise files go to a directory
    page,       \* page[p]: the state of the page
    keys,       \* how many keys were presigned
    stored,     \* the keys that have an object in the bucket
    rows,       \* the rows of media
    posts,      \* the rows of posts: [by, media, n]
    publishes,  \* publishes[p]: the clicks on Post
    clicks,     \* the clicks on Post of all pages
    picks, faults,
    crossed,    \* history: pages that picked or removed a file while one was read
    unseen,     \* history: keys whose upload failed with a status
    repeated    \* history: repeated[p]: publishes that made the post and failed

server == <<stored, rows, posts, keys>>
history == <<crossed, unseen, repeated>>
clicked == <<publishes, clicks>>
uploadsVars == <<client, s3, page, server, clicked, picks, faults, history>>

Fresh == [file |-> None, chosen |-> None, preview |-> None, reading |-> {},
          at |-> "edit", sent |-> None, words |-> FALSE, key |-> 0, media |-> 0]

UploadsInit ==
    /\ client \in [Pages -> {"web", "mobile"}] /\ s3 \in BOOLEAN
    /\ page = [p \in Pages |-> Fresh]
    /\ keys = 0 /\ stored = {} /\ rows = {} /\ posts = {}
    /\ publishes = [p \in Pages |-> 0] /\ clicks = 0 /\ picks = 0 /\ faults = 0
    /\ crossed = {} /\ unseen = {}
    /\ repeated = [p \in Pages |-> 0]

Web(p) == client[p] = "web"

----------------------------------------------------------------------------
(* The page                                                                *)

Open(p) == page[p].at # "posted"

\* The input reports a file only when it differs from the one chosen before; the
\* picker of the mobile client always does, and reads nothing.
Pick(p) ==
    \E f \in Files :
        /\ Open(p) /\ picks < MaxPicks /\ picks' = picks + 1
        /\ Web(p) => f # page[p].chosen
        /\ page' = [page EXCEPT ![p].file = f, ![p].chosen = f,
                      ![p].preview = IF Web(p) THEN @ ELSE f,
                      ![p].reading = IF Web(p) THEN @ \cup {f} ELSE @]
        /\ crossed' = IF page[p].reading # {} THEN crossed \cup {p} ELSE crossed
        /\ UNCHANGED <<client, s3, server, clicked, faults, unseen, repeated>>

\* Mutant: only the first file picked is shown.
PreviewAfterFirst(p, f) == IF page[p].preview = None THEN f ELSE page[p].preview
\* The readers of two files may end in either order.
PreviewAfter(p, f) == f

EndReading(p) ==
    \E f \in page[p].reading :
        /\ Open(p)
        /\ page' = [page EXCEPT ![p].reading = @ \ {f}, ![p].preview = PreviewAfter(p, f)]
        /\ crossed' = IF page[p].reading = {f} /\ page[p].file = f THEN crossed \ {p} ELSE crossed
        /\ UNCHANGED <<client, s3, server, clicked, picks, faults, unseen, repeated>>

\* The button is on the preview.
Remove(p) ==
    /\ Open(p) /\ page[p].preview # None
    /\ page' = [page EXCEPT ![p].file = None, ![p].preview = None]
    /\ crossed' = IF page[p].reading # {} THEN crossed \cup {p} ELSE crossed
    /\ UNCHANGED <<client, s3, server, clicked, picks, faults, unseen, repeated>>

\* The publish that starts keeps the file and the words of its click; the button
\* wants one of them.
Publish(p) ==
    \E words \in BOOLEAN :
        /\ page[p].at = "edit" /\ clicks < MaxPublishes
        /\ clicks' = clicks + 1
        /\ publishes' = [publishes EXCEPT ![p] = @ + 1]
        /\ words \/ page[p].file # None
        /\ page' = [page EXCEPT ![p].at = IF page[p].file = None THEN "create" ELSE "presign",
                      ![p].sent = page[p].file, ![p].words = words, ![p].key = 0, ![p].media = 0]
        /\ UNCHANGED <<client, s3, server, picks, faults, history>>

----------------------------------------------------------------------------
(* The calls of a publish                                                  *)

Fault == faults < MaxFaults /\ faults' = faults + 1
NoFault == faults' = faults

\* Mutant: a null is let through.
ValidAnyway(p) == TRUE
\* A null is refused, and so is a post without words and media.
ValidPost(p) ==
    IF Web(p) /\ page[p].sent # None THEN page[p].media # 0 ELSE page[p].words

Draft(p) == [page[p] EXCEPT !.at = "edit", !.sent = None, !.words = FALSE,
                            !.key = 0, !.media = 0]
\* Mutant: a post that is refused is tried again at once.
AfterAlertBusy(p) == IF page[p].at = "create" /\ ~ValidPost(p) THEN page[p] ELSE Draft(p)
\* The alert; the draft stays for another try.
AfterAlert(p) == Draft(p)

GivesUp(p) == page' = [page EXCEPT ![p] = AfterAlert(p)]
Goes(p, at) == page' = [page EXCEPT ![p].at = at]
\* A call for the media throws: the mobile client posts without them.
Throws(p) == IF Web(p) THEN GivesUp(p) ELSE Goes(p, "create")

\* Mutant: the row first.
AfterPresignRegister == "register"
AfterPresign == "upload"

\* A web page does not look at the status: without a key and without an address
\* it goes on to the row.  The mobile client says image/jpeg of every file.
Presign(p) ==
    /\ page[p].at = "presign"
    /\ \/ /\ (Web(p) => page[p].sent \in Supported) /\ NoFault
          /\ keys' = keys + 1
          /\ page' = [page EXCEPT ![p].key = keys + 1,
                        ![p].at = IF Web(p) THEN AfterPresign ELSE "register"]
       \/ /\ Web(p) /\ page[p].sent \notin Supported /\ NoFault
          /\ Goes(p, "register") /\ UNCHANGED keys
       \/ /\ Fault /\ UNCHANGED keys
          /\ Goes(p, IF Web(p) THEN "register" ELSE "create") \/ Throws(p)
    /\ UNCHANGED <<client, s3, stored, rows, posts, clicked, picks, history>>

\* The status is not looked at either.  The local endpoint wants a token, which
\* this call alone does not carry.
Upload(p) ==
    LET k == page[p].key IN
    /\ page[p].at = "upload"
    /\ \/ /\ s3 /\ stored' = stored \cup {k} /\ UNCHANGED unseen
          /\ (NoFault /\ Goes(p, "register")) \/ (Fault /\ GivesUp(p))
       \/ /\ (IF s3 THEN Fault ELSE NoFault)
          /\ unseen' = unseen \cup {k} /\ Goes(p, "register") /\ UNCHANGED stored
       \/ Fault /\ GivesUp(p) /\ UNCHANGED <<stored, unseen>>
    /\ UNCHANGED <<client, s3, rows, posts, keys, clicked, picks, crossed, repeated>>

\* Mutant: cid is not unique.
FreeAlways(k) == TRUE
\* media.cid is unique.
FreeKey(k) == \A r \in rows : r.key # k

\* The web page says "file" of what is neither a picture nor a video, sounds
\* included, which is no media_type; the mobile client says "image" of every file.
RowIsTaken(p) == FreeKey(page[p].key) /\ (Web(p) => page[p].sent \in Shown)

\* saveMetadata; an answer without an id becomes a null in the list of the post.
Register(p) ==
    LET k == page[p].key
        n == Cardinality(rows) + 1
    IN  /\ page[p].at = "register"
        /\ \/ /\ RowIsTaken(p)
              /\ rows' = rows \cup {[key |-> k, by |-> p, id |-> n]}
              /\ \/ /\ NoFault
                    /\ page' = [page EXCEPT ![p].at = "create", ![p].media = n]
                 \/ Fault /\ Throws(p)
           \/ /\ (IF RowIsTaken(p) THEN Fault ELSE NoFault)
              /\ Goes(p, "create") /\ UNCHANGED rows
           \/ Fault /\ Throws(p) /\ UNCHANGED rows
        /\ UNCHANGED <<client, s3, stored, posts, keys, clicked, picks, crossed, unseen, repeated>>

\* Mutant: the web client does not name it either.
MediaDropped(p) == 0
\* What the post is asked to carry; the mobile client never names its media.
Media(p) == IF Web(p) THEN page[p].media ELSE 0
\* Mutant: the page stays open.
AfterPostOpen(p) == Fresh
\* The page is left.
AfterPost(p) == [Fresh EXCEPT !.at = "posted"]

\* The row of the post, then the event and the cache; any of them may fail.
CreatePost(p) ==
    /\ page[p].at = "create"
    /\ \/ /\ ValidPost(p)
          /\ posts' = posts \cup {[by |-> p, media |-> Media(p), file |-> page[p].sent,
                                   n |-> Cardinality(posts)]}
          /\ \/ /\ NoFault /\ UNCHANGED repeated
                /\ page' = [page EXCEPT ![p] = AfterPost(p)]
             \/ Fault /\ GivesUp(p) /\ repeated' = [repeated EXCEPT ![p] = @ + 1]
       \/ /\ (IF ValidPost(p) THEN Fault ELSE NoFault)
          /\ GivesUp(p) /\ UNCHANGED <<posts, repeated>>
    /\ crossed' = IF page'[p].at = "posted" THEN crossed \ {p} ELSE crossed
    /\ UNCHANGED <<client, s3, stored, rows, keys, clicked, picks, unseen>>

Step(p) == Presign(p) \/ Upload(p) \/ Register(p) \/ CreatePost(p)

\* deleteMedia reads its query before it has an answer and throws: it changes
\* nothing and is no action.
UploadsNext ==
    \E p \in Pages : Pick(p) \/ EndReading(p) \/ Remove(p) \/ Publish(p) \/ Step(p)

\* Every call ends.
UploadsSpec == UploadsInit /\ [][UploadsNext]_uploadsVars /\ \A p \in Pages : WF_uploadsVars(Step(p))

----------------------------------------------------------------------------
(* Properties                                                              *)

\* Every variable has its type, and a key has one row.
UploadsTypeOK ==
    /\ \A p \in Pages :
          /\ page[p].at \in {"edit", "presign", "upload", "register", "create", "posted"}
          /\ {page[p].file, page[p].chosen, page[p].preview, page[p].sent} \subseteq Files \cup {None}
          /\ page[p].reading \subseteq Files /\ page[p].key \in 0 .. keys
          /\ page[p].media \in Nat
    /\ stored \subseteq 1 .. keys /\ unseen \subseteq 1 .. keys /\ crossed \subseteq Pages
    /\ \A r, q \in rows : r.key = q.key => r = q
    /\ \A x \in posts : x.by \in Pages /\ x.media \in Nat
    /\ faults \in 0 .. MaxFaults /\ publishes \in [Pages -> 0 .. MaxPublishes]
    /\ clicks \in 0 .. MaxPublishes /\ picks \in 0 .. MaxPicks

\* A post of the web client that was clicked with a file has the row of a media
\* its page registered, even when the answers of the calls were not looked at;
\* a post of the mobile client has words and never a media.
PostsHaveTheirMedia ==
    \A x \in posts :
        IF Web(x.by) /\ x.file # None THEN \E r \in rows : r.id = x.media /\ r.by = x.by
        ELSE x.media = 0

\* The object of a media that a web page registered is in the bucket, unless its
\* upload failed with a status nobody looked at, or it has no key at all.
RowsHaveObjects ==
    \A r \in rows : (s3 /\ Web(r.by)) => r.key \in stored \cup unseen \cup {0}

\* A draft is posted once, and once more for every publish that failed after its
\* post was made: nothing tells the retry from a new post.
OnePostPerDraft ==
    \A p \in Pages :
        Cardinality({x \in posts : x.by = p})
            = repeated[p] + (IF page[p].at = "posted" THEN 1 ELSE 0)

\* A publish leaves one row at most, and only one that failed, or is under way,
\* leaves it without a post.
OrphansComeFromFailures ==
    \A p \in Pages : Web(p) =>
        Cardinality({r \in rows : r.by = p /\ \A x \in posts : x.media # r.id})
            <= publishes[p] - Cardinality({x \in posts : x.by = p})

\* The preview is of the file that will be sent, unless another was picked or
\* removed while one was read.
PreviewIsFile ==
    \A p \in Pages : (page[p].reading = {} /\ p \notin crossed) => page[p].preview = page[p].file

\* A publish ends, posted or back in the draft.
PublishesEnd ==
    \A p \in Pages : (page[p].at = "presign") ~> (page[p].at \in {"edit", "posted"})

\* What holds of files, rows, objects and posts in every state.
UploadsInv ==
    /\ UploadsTypeOK
    /\ PostsHaveTheirMedia
    /\ RowsHaveObjects
    /\ OrphansComeFromFailures
    /\ PreviewIsFile
=============================================================================
