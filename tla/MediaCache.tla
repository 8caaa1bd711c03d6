----------------------------- MODULE MediaCache -----------------------------
(***************************************************************************)
(* The pictures of an account: photos of image messages (messages_v2,      *)
(* media/) and the stickers and sticons of its packages (stickers_v2,      *)
(* sticons_v2, purchases/).  A row names the files of its picture, with    *)
(* their dimensions, or it is pending; nothing but the code below keeps    *)
(* the rows and the files together.                                        *)
(*                                                                         *)
(* One worker thread at a time fetches pictures: a full sync, an           *)
(* attachments-only sync or the stream's handler (AccountEngine: a sync    *)
(* waits for the stream's thread).  The thread of an image send moves its  *)
(* own files to the name of the sent message, beside the worker.           *)
(*                                                                         *)
(* Files are published by a rename, so a download or a rendering is one    *)
(* step here; a copy is not.  The jobs of a list of items run in threads,  *)
(* each on files of its own, and are applied once all have ended.  The CDN,*)
(* OBS and LINE are external and may fail at every request, and so may     *)
(* every statement of the database.                                        *)
(***************************************************************************)
EXTENDS Naturals, FiniteSets

CONSTANTS
  Images,     \* image messages
  Stickers,   \* items of the sticker shop
  Sticons,    \* items of the sticon shop
  Packs,      \* packages of both shops
  PackOf,     \* the package of an item
  Moving,     \* items the CDN has an animation or popup of
  Sealed,     \* image messages encrypted end to end
  None,
  Setups      \* what a behaviour starts from, see SetupType

Items  == Stickers \union Sticons
Assets == Images \union Items
ItemsOf(p) == {i \in Items : PackOf[i] = p}
StickerPacks == {p \in Packs : ItemsOf(p) \subseteq Stickers}
SticonPacks  == Packs \ StickerPacks

(* A setup bounds a behaviour:                                              *)
(*   seen    pictures that messages of this behaviour refer to              *)
(*   owned   packages the account has bought                                *)
(*   sends   the image messages among them that this account sends          *)
(*   worn    pictures with rows and files of earlier runs, in any condition *)
SetupType == [seen : SUBSET Assets, owned : SUBSET Packs,
              sends : SUBSET Images, worn : SUBSET Assets]

ASSUME AssetAssumption ==
  /\ Images \intersect Items = {} /\ Stickers \intersect Sticons = {}
  /\ IsFiniteSet(Assets)
  /\ PackOf \in [Items -> Packs]
  /\ \A p \in Packs : ItemsOf(p) \subseteq Stickers \/ ItemsOf(p) \subseteq Sticons
  /\ Moving \subseteq Items /\ Sealed \subseteq Images
  /\ None \notin Assets
  /\ Setups \subseteq SetupType

VARIABLES
  file,     \* what is on disk under the names of an asset
  row,      \* its row: absent, pending, or naming files and dimensions
  pack,     \* sticker_packages_v2 and sticon_packages_v2
  alt,      \* the sticons that have an alt_text
  worker,   \* the thread that fetches
  send,     \* how far the thread of an image send is
  suspect,  \* rows that something outside the worker's care may have left wrong
  setup

db     == <<row, pack, alt>>
vars   == <<file, db, worker, send, suspect, setup>>

-----------------------------------------------------------------------------
(* Files and rows.                                                         *)

\* A file is missing, being copied, damaged, complete, or complete but not the
\* picture that was announced (another size in bytes or in pixels).
Contents == {"none", "partial", "bad", "other", "good"}

\* enil_png_info and enil_image_validate decode the whole file.
Valid(c) == c \in {"other", "good"}

\* A photo must also have the announced size.
MediaOk(c) == c = "good"

\* "image" is the original of a photo and the animation or popup of an item;
\* an item without one is shown by its thumb.
Files  == [image : Contents, thumb : Contents]
NoFile == [image |-> "none", thumb |-> "none"]

\* A row that is set names its files and has the dimensions they had.
Row     == [in : BOOLEAN, set : BOOLEAN, still : BOOLEAN, image : Contents, thumb : Contents]
NoRow   == [in |-> FALSE, set |-> FALSE, still |-> FALSE, image |-> "none", thumb |-> "none"]
Pending == [NoRow EXCEPT !.in = TRUE]
Named(still, image, thumb) ==
  [in |-> TRUE, set |-> TRUE, still |-> still, image |-> image, thumb |-> thumb]

\* The picture of a row that is set: the file its image_path names.
Shown(r, f) == IF r.still THEN f.thumb ELSE f.image

\* The files are what the row says they are.
Whole(a) ==
  IF a \in Images
  THEN MediaOk(file[a].image) /\ Valid(file[a].thumb)
  ELSE /\ Valid(Shown(row[a], file[a])) /\ Valid(file[a].thumb)
       /\ Shown(row[a], file[a]) = row[a].image /\ file[a].thumb = row[a].thumb
Complete(a) == row[a].set /\ Whole(a)

\* An INSERT of a row leaves one that is there as it is.
Upserted(r) == IF r.in THEN r ELSE Pending

\* sticonResourceType: NULL, 0 (the catalog did not say), 1 or 2.
PackRow == [in : BOOLEAN, owned : BOOLEAN, type : {"null", "zero", "static", "animation"}]
NoPack  == [in |-> FALSE, owned |-> FALSE, type |-> "null"]
TypeOf(p) == IF ItemsOf(p) \intersect Moving # {} THEN "animation" ELSE "static"

Discovered(pk) == IF pk.in THEN pk ELSE [NoPack EXCEPT !.in = TRUE]

\* Owned and never expanded; and not owned with a sticon that has no text.
NeedMeta == {p \in SticonPacks : pack[p].owned /\ \A i \in ItemsOf(p) : ~row[i].in}
NeedAlt  == {p \in SticonPacks : /\ pack[p].in /\ ~pack[p].owned
                                 /\ \E i \in ItemsOf(p) : row[i].in /\ i \notin alt}

\* The four lists of the download phase: bought ones first.
ListOf(n) == {i \in (IF n \in {1, 3} THEN Stickers ELSE Sticons) :
                /\ row[i].in /\ ~row[i].set
                /\ pack[PackOf[i]].in /\ pack[PackOf[i]].owned = (n \in {1, 2})}

-----------------------------------------------------------------------------
(* The worker: what it does, its place, and its lists.                     *)

Places == {"idle", "prepare", "catchup", "reconcile", "images", "check", "checkThumb",
           "clear", "fetch", "verify", "thumb", "stamp", "items", "finish", "meta",
           "resolve"}
WorkerType ==
  [kind : {"idle", "full", "attach", "live"}, pc : Places,
   owned : SUBSET Packs,        \* packages of the catalog still to store
   expand : SUBSET Packs,       \* the one whose metadata is fetched next
   metas : SUBSET Packs,        \* packages to catch up
   alts : SUBSET Packs,         \* packages to enrich
   told : BOOLEAN,              \* catalog and metadata were all fetched
   list : 0 .. 4,               \* the list of items at work; 0: the handler's own
   todo : SUBSET Assets,        \* its entries that are not begun
   at : Assets \union {None},   \* the entry at work
   have : BOOLEAN,              \* its original was there
   ended : SUBSET Items,        \* jobs that have ended and are not applied
   jobs : [Items -> Row],       \* what they found; NoRow for an error
   errors : 0 .. Cardinality(Assets),   \* unavailable attachments
   sure : SUBSET Images]        \* photos listed, and not touched by a send since

Idle == [kind |-> "idle", pc |-> "idle", owned |-> {}, expand |-> {}, metas |-> {},
         alts |-> {}, told |-> FALSE, list |-> 0, todo |-> {}, at |-> None,
         have |-> FALSE, ended |-> {}, jobs |-> [i \in Items |-> NoRow],
         errors |-> 0, sure |-> {}]

SendPlaces == {"idle", "posted", "image", "thumb", "copy", "copying",
               "copyThumb", "copyingThumb", "stamp", "done"}
\* Between the first removal and the row's update.
Moves(m) == send[m] \in SendPlaces \ {"idle", "posted", "image", "done"}

\* What each variable holds; a row that is set has the dimensions of pictures
\* that were once decoded.
TypeOK ==
  /\ file \in [Assets -> Files]
  /\ row \in [Assets -> Row]
  /\ \A a \in Assets : row[a].set => row[a].in /\ Valid(row[a].image) /\ Valid(row[a].thumb)
  /\ pack \in [Packs -> PackRow]
  /\ alt \subseteq Sticons
  /\ worker \in WorkerType
  /\ send \in [Images -> SendPlaces]
  /\ suspect \subseteq Assets
  /\ setup \in Setups

\* Earlier runs, and earlier builds, may have left anything: damaged files,
\* rows without files, files without rows, other dimensions.
WornFile == [image : Contents \ {"partial"}, thumb : Contents \ {"partial"}]
WornRow(a, r) ==
  /\ r.still => a \in Items /\ r.image = r.thumb
  /\ a \in Stickers => r.still = (a \notin Moving)
  /\ a \in Sticons \ Moving => r.still

WornPack(p) ==
  IF ItemsOf(p) \intersect setup.worn = {} THEN {NoPack}
  ELSE [in : {TRUE}, owned : BOOLEAN,
        type : {"null"} \union (IF p \in SticonPacks THEN {"zero", TypeOf(p)} ELSE {})]

Init ==
  /\ setup \in Setups
  /\ \E f \in [setup.worn -> WornFile] :
       /\ file = [a \in Assets |-> IF a \in setup.worn THEN f[a] ELSE NoFile]
       /\ \A i \in Items \ Moving : file[i].image = "none"
  /\ \E r \in [setup.worn -> {Pending} \union {Named(s, i, t) : s \in BOOLEAN,
                                    i \in {"other", "good"}, t \in {"other", "good"}}] :
       /\ \A a \in setup.worn : r[a].set => WornRow(a, r[a])
       /\ row = [a \in Assets |-> IF a \in setup.worn THEN r[a] ELSE NoRow]
  /\ pack \in {k \in [Packs -> PackRow] : \A p \in Packs : k[p] \in WornPack(p)}
  /\ alt \in SUBSET (Sticons \intersect setup.worn)
  /\ worker = Idle
  /\ send = [m \in Images |-> "idle"]
  /\ suspect = {a \in Assets : row[a].set /\ ~Whole(a)}

-----------------------------------------------------------------------------
(* Messages arrive and the catalog is read.                                *)

\* The echo of a send exists once LINE has accepted it.
Seen(a) == a \in setup.seen /\ (a \in setup.sends => send[a] # "idle")

\* enil_db_message_upsert and scan_messages_for_stickers: a package that is
\* not known is discovered, and a row that is there is left as it is.
Inserted(A) == [a \in Assets |-> IF a \in A THEN Upserted(row[a]) ELSE row[a]]
Store(A) ==
  /\ row' = Inserted(A)
  /\ pack' = [p \in Packs |-> IF ItemsOf(p) \intersect A # {}
                              THEN Discovered(pack[p]) ELSE pack[p]]
  /\ alt' = alt

\* A statement failed: the sync reports an error, or the event is not
\* acknowledged and comes again.
Abort == worker' = Idle

\* What the catalogs of both shops list; one that fails is taken for empty.
Catalogs == {setup.owned, setup.owned \intersect StickerPacks,
             setup.owned \intersect SticonPacks, {}}

\* The messages of a full sync are stored, the packages to enrich noted, then
\* the catalogs of both shops fetched.
SyncBegin ==
  /\ worker = Idle
  /\ \E new \in SUBSET {a \in Assets : Seen(a) /\ ~row[a].in} : Store(new)
  /\ \/ \E listed \in Catalogs :
          worker' = [Idle EXCEPT !.kind = "full", !.pc = "prepare", !.owned = listed,
                                 !.told = (listed = setup.owned),
                                 !.metas = NeedMeta', !.alts = NeedAlt']
     \/ Abort
  /\ UNCHANGED <<file, send, suspect, setup>>

AttachBegin ==
  /\ worker = Idle
  /\ worker' = [Idle EXCEPT !.kind = "attach", !.pc = "reconcile"]
  /\ UNCHANGED <<file, db, send, suspect, setup>>

\* A sticker package and its stickers, in one savepoint.
PrepareSticker(p) ==
  /\ worker.pc = "prepare" /\ p \in worker.owned \intersect StickerPacks
  /\ \/ /\ row' = Inserted(ItemsOf(p))
        /\ pack' = [pack EXCEPT ![p].in = TRUE, ![p].owned = TRUE]
        /\ worker' = [worker EXCEPT !.owned = @ \ {p}]
     \/ Abort /\ UNCHANGED <<row, pack>>
  /\ UNCHANGED <<file, alt, send, suspect, setup>>

\* A sticon package replaces its row, with the type that the catalog gives or
\* 0; its metadata is fetched next.
PrepareSticon(p) ==
  /\ worker.pc = "prepare" /\ worker.expand = {}
  /\ worker.owned \subseteq SticonPacks /\ p \in worker.owned
  /\ \/ /\ \E type \in {"zero", TypeOf(p)} :
             pack' = [pack EXCEPT ![p] = [in |-> TRUE, owned |-> TRUE, type |-> type]]
        /\ worker' = [worker EXCEPT !.owned = @ \ {p}, !.expand = {p}]
     \/ Abort /\ UNCHANGED pack
  /\ UNCHANGED <<file, row, alt, send, suspect, setup>>

-----------------------------------------------------------------------------
(* meta.json of a sticon package (sync_sticonshop_meta).                   *)

\* The type of the package is filled in while it is NULL, its sticons are
\* inserted (expand) or only get their text (enrich), in one savepoint.
MetaStored(p, expand) ==
  LET known == IF expand THEN ItemsOf(p) ELSE {i \in ItemsOf(p) : row[i].in}
  IN /\ pack' = [pack EXCEPT ![p].type =
                    IF @ = "null" /\ TypeOf(p) = "animation" THEN TypeOf(p) ELSE @]
     /\ row' = Inserted(known)
     /\ alt' = alt \union known

\* A fetch that fails changes nothing and is not an error of the sync; a
\* write that fails is.
NotFetched(next) == worker' = [next EXCEPT !.told = FALSE] /\ UNCHANGED db

SyncMeta(p, expand, next) ==
  \/ MetaStored(p, expand) /\ worker' = next
  \/ NotFetched(next)
  \/ Abort /\ UNCHANGED db

Expand(p) ==
  /\ worker.pc = "prepare" /\ p \in worker.expand
  /\ SyncMeta(p, TRUE, [worker EXCEPT !.expand = {}])
  /\ UNCHANGED <<file, send, suspect, setup>>

\* Of the packages that needed metadata before, those that still do.
PrepareRest ==
  /\ worker.pc = "prepare" /\ worker.owned = {} /\ worker.expand = {}
  /\ worker' = [worker EXCEPT !.pc = "catchup", !.metas = @ \intersect NeedMeta]
  /\ UNCHANGED <<file, db, send, suspect, setup>>

CatchUp(p) ==
  /\ worker.pc = "catchup" /\ p \in worker.metas
  /\ SyncMeta(p, TRUE, [worker EXCEPT !.metas = @ \ {p}])
  /\ UNCHANGED <<file, send, suspect, setup>>

Enrich(p) ==
  /\ worker.pc = "catchup" /\ worker.metas = {} /\ p \in worker.alts
  /\ SyncMeta(p, FALSE, [worker EXCEPT !.alts = @ \ {p}])
  /\ UNCHANGED <<file, send, suspect, setup>>

PrepareDone ==
  /\ worker.pc = "catchup" /\ worker.metas = {} /\ worker.alts = {}
  /\ worker' = [worker EXCEPT !.pc = "reconcile"]
  /\ UNCHANGED <<file, db, send, suspect, setup>>

-----------------------------------------------------------------------------
(* enil_asset_cache_reconcile.                                             *)

\* Mutant: the thumbnail is not looked at.
StaleImage(i) == row[i].set /\ ~(/\ Valid(Shown(row[i], file[i]))
                                 /\ Shown(row[i], file[i]) = row[i].image)

\* An item that names a file that is damaged or gone, or whose dimensions
\* differ.
Stale(i) == row[i].set /\ ~Whole(i)

Cleared(A) == [a \in Assets |-> IF a \in A /\ row[a].in THEN Pending ELSE row[a]]

\* enil_db_get_messages_needing_media lists every image message.
Listed == {m \in Images : row[m].in}

\* Stale items become pending again; the download phase follows.
Reconcile ==
  LET stale == {i \in Items : Stale(i)} IN
  /\ worker.pc = "reconcile"
  /\ \/ /\ row' = Cleared(stale)
        /\ suspect' = suspect \ Items
        /\ worker' = [worker EXCEPT !.pc = "images", !.todo = Listed, !.sure = Listed]
     \/ /\ \E part \in SUBSET stale :
             row' = Cleared(part) /\ suspect' = suspect \ part
        /\ Abort
  /\ UNCHANGED <<file, pack, alt, send, setup>>

-----------------------------------------------------------------------------
(* download_media_entry: one photo.                                        *)

\* The photo at work is finished with or without an error.
PhotoEnds(err) ==
  worker' = IF worker.kind = "live" THEN Idle
            ELSE [worker EXCEPT !.pc = "images", !.at = None, !.have = FALSE,
                                !.errors = @ + err]

MediaPick(m) ==
  /\ worker.pc = "images" /\ m \in worker.todo
  /\ worker' = [worker EXCEPT !.pc = "check", !.at = m, !.todo = @ \ {m}]
  /\ UNCHANGED <<file, db, send, suspect, setup>>

MediaCheck ==
  LET ok == MediaOk(file[worker.at].image) IN
  /\ worker.pc = "check"
  /\ worker' = [worker EXCEPT !.pc = IF ok THEN "checkThumb" ELSE "clear", !.have = ok]
  /\ UNCHANGED <<file, db, send, suspect, setup>>

MediaCheckThumb ==
  LET m == worker.at IN
  /\ worker.pc = "checkThumb"
  /\ worker' = [worker EXCEPT !.pc = IF Valid(file[m].thumb) THEN "stamp" ELSE "clear"]
  /\ suspect' = IF Whole(m) THEN suspect \ {m} ELSE suspect
  /\ UNCHANGED <<file, db, send, setup>>

\* Mutant: the row keeps naming the files that are about to be repaired.
MediaClearKept ==
  /\ worker.pc = "clear"
  /\ worker' = [worker EXCEPT !.pc = IF worker.have THEN "thumb" ELSE "fetch"]
  /\ suspect' = suspect \ {worker.at}
  /\ UNCHANGED <<file, db, send, setup>>

\* The row becomes pending before anything is repaired.
MediaClear ==
  LET m == worker.at IN
  /\ worker.pc = "clear"
  /\ \/ /\ row' = Cleared({m})
        /\ suspect' = suspect \ {m}
        /\ worker' = [worker EXCEPT !.pc = IF worker.have THEN "thumb" ELSE "fetch"]
     \/ Abort /\ UNCHANGED <<row, suspect>>
  /\ UNCHANGED <<file, pack, alt, send, setup>>

\* OBS refuses, or still answers 202 after the last retry.
Unavailable == PhotoEnds(1) /\ UNCHANGED <<file, suspect>>

\* What was sealed is authenticated before it is written; anything else, and the
\* sealed bytes of a message that was not decrypted, is written as it came.
Opened(m) == IF m \in Sealed THEN {"bad", "good"} ELSE {"bad", "other", "good"}

\* A complete file is renamed to its name.
Published(m, c) == file' = [file EXCEPT ![m].image = c]

\* enil_obs_download_message.  If the thread of a send has published the row
\* since it was cleared, its photo may be replaced by a damaged one.
MediaFetch ==
  LET m == worker.at IN
  /\ worker.pc = "fetch"
  /\ \/ \E c \in Opened(m) :
          /\ Published(m, c)
          /\ suspect' = IF ~MediaOk(c) /\ send[m] = "done" THEN suspect \union {m} ELSE suspect
          /\ worker' = [worker EXCEPT !.pc = "verify"]
     \/ Unavailable
  /\ UNCHANGED <<db, send, setup>>

MediaVerify ==
  /\ worker.pc = "verify"
  /\ IF MediaOk(file[worker.at].image) THEN worker' = [worker EXCEPT !.pc = "thumb"]
                                       ELSE PhotoEnds(1)
  /\ UNCHANGED <<file, db, send, suspect, setup>>

\* enil_thumb_generate renders the original that is there now.
MediaThumb ==
  /\ worker.pc = "thumb"
  /\ \/ /\ Valid(file[worker.at].image)
        /\ file' = [file EXCEPT ![worker.at].thumb = "good"]
        /\ worker' = [worker EXCEPT !.pc = "stamp"]
     \/ PhotoEnds(1) /\ UNCHANGED file
  /\ UNCHANGED <<db, send, suspect, setup>>

\* The row of a photo names both files with their dimensions.
Stamped(m) == [row EXCEPT ![m] = IF @.in THEN Named(FALSE, "good", "good") ELSE @]

MediaStamp ==
  /\ worker.pc = "stamp"
  /\ \/ row' = Stamped(worker.at) /\ PhotoEnds(0)
     \/ Abort /\ UNCHANGED row
  /\ UNCHANGED <<file, pack, alt, send, suspect, setup>>

-----------------------------------------------------------------------------
(* download_sticker_list: a list of items.                                 *)

ItemsBegin ==
  /\ worker.pc = "images" /\ worker.todo = {}
  /\ worker' = [worker EXCEPT !.pc = "items", !.list = 1, !.todo = ListOf(1)]
  /\ UNCHANGED <<file, db, send, suspect, setup>>

\* The moving picture of a sticker is required.  That of a sticon is fetched
\* if the list names its package's type, and is optional.
Required(i) == i \in Stickers \intersect Moving
Wanted(i) ==
  \/ Required(i)
  \/ /\ i \in Sticons \intersect Moving
     /\ worker.list # 0 /\ pack[PackOf[i]].type = "animation"

\* download_png_if_missing: a valid file is kept, and only a valid one
\* replaces it.
Fetched(c) == IF Valid(c) THEN {c} ELSE {c, "good"}

\* What the job of an item reports.  A sticon shows its animation if it has
\* one.
Found(i, f) ==
  IF ~Valid(f.thumb) \/ (Required(i) /\ ~Valid(f.image)) THEN NoRow
  ELSE IF Required(i) \/ (i \in Sticons /\ Valid(f.image)) THEN Named(FALSE, f.image, f.thumb)
  ELSE Named(TRUE, f.thumb, f.thumb)

ItemJob(i) ==
  /\ worker.pc = "items" /\ i \in worker.todo
  /\ \E thumb \in Fetched(file[i].thumb) :
     \E image \in IF Valid(thumb) /\ Wanted(i) THEN Fetched(file[i].image) ELSE {file[i].image} :
       LET f == [image |-> image, thumb |-> thumb] IN
       /\ file' = [file EXCEPT ![i] = f]
       /\ worker' = [worker EXCEPT !.todo = @ \ {i}, !.ended = @ \union {i},
                                   !.jobs[i] = Found(i, f)]
  /\ UNCHANGED <<db, send, suspect, setup>>

\* Mutant: the job's error is not looked at.
ItemApplyAny(i) ==
  /\ worker.pc = "items" /\ worker.todo = {} /\ i \in worker.ended
  /\ row' = [row EXCEPT ![i] = [worker.jobs[i] EXCEPT !.in = TRUE, !.set = TRUE]]
  /\ worker' = [worker EXCEPT !.ended = @ \ {i}, !.jobs[i] = NoRow]
  /\ UNCHANGED <<file, pack, alt, send, suspect, setup>>

\* apply_sticker_job: an item without both pictures stays pending.
ItemApply(i) ==
  LET job == worker.jobs[i] IN
  /\ worker.pc = "items" /\ worker.todo = {} /\ i \in worker.ended
  /\ \/ /\ row' = IF job.set /\ row[i].in THEN [row EXCEPT ![i] = job] ELSE row
        /\ worker' = [worker EXCEPT !.ended = @ \ {i}, !.jobs[i] = NoRow,
                                    !.errors = IF job.set THEN @ ELSE @ + 1]
     \/ job.set /\ Abort /\ UNCHANGED row
  /\ UNCHANGED <<file, pack, alt, send, suspect, setup>>

ItemsEnd ==
  LET n == worker.list IN
  /\ worker.pc = "items" /\ worker.todo = {} /\ worker.ended = {}
  /\ worker' = CASE n = 0 -> Idle
                  [] n \in 1 .. 3 -> [worker EXCEPT !.list = n + 1, !.todo = ListOf(n + 1)]
                  [] OTHER -> [worker EXCEPT !.pc = "finish"]
  /\ UNCHANGED <<file, db, send, suspect, setup>>

\* The sync reports the unavailable attachments, or that all were checked.
Finish ==
  /\ worker.pc = "finish"
  /\ worker' = Idle
  /\ UNCHANGED <<file, db, send, suspect, setup>>

\* A list of the sync cannot be read from the database.
QueryFails ==
  /\ worker.kind # "live" /\ worker.pc \in {"prepare", "catchup", "reconcile", "images", "items"}
  /\ Abort
  /\ UNCHANGED <<file, db, send, suspect, setup>>

-----------------------------------------------------------------------------
(* The stream's handler: the pictures of the one message that came.        *)

Handle(pc, a) == worker' = [Idle EXCEPT !.kind = "live", !.pc = pc, !.at = a]

\* A message that cannot be stored ends the handler.
LivePhoto(m) ==
  /\ worker = Idle /\ Seen(m)
  /\ Store({m})
  /\ Handle("check", m)
  /\ UNCHANGED <<file, send, suspect, setup>>

\* The scan discovers the package, then stores the item; the pictures are
\* fetched even if one of the two failed.
DiscoverOnly(p) == pack' = [pack EXCEPT ![p] = Discovered(@)] /\ UNCHANGED <<row, alt>>
Scanned(i) == Store({i}) \/ DiscoverOnly(PackOf[i]) \/ UNCHANGED db

LiveSticker(i) ==
  /\ worker = Idle /\ Seen(i)
  /\ Scanned(i)
  /\ Handle("resolve", i)
  /\ UNCHANGED <<file, send, suspect, setup>>

\* A text names packages, and sticons of them or none.
LiveSticon(p, i) ==
  /\ worker = Idle
  /\ \E j \in ItemsOf(p) : Seen(j)
  /\ i # None => Seen(i) /\ PackOf[i] = p
  /\ IF i # None THEN Scanned(i) ELSE DiscoverOnly(p) \/ UNCHANGED db
  /\ worker' = [Idle EXCEPT !.kind = "live", !.pc = "meta", !.at = i, !.expand = {p}]
  /\ UNCHANGED <<file, send, suspect, setup>>

\* enil_db_sticon_package_meta_state
MetaState(p) == CASE p \in NeedMeta -> "expand" [] p \in NeedAlt -> "enrich" [] OTHER -> "ready"

\* sync_one_message_sticons: metadata for a package that needs it.
LiveMeta(p) ==
  LET next == IF worker.at = None THEN Idle ELSE [worker EXCEPT !.pc = "resolve", !.expand = {}]
  IN
  /\ worker.pc = "meta" /\ p \in worker.expand
  /\ CASE MetaState(p) = "expand" -> SyncMeta(p, TRUE, next)
       [] MetaState(p) = "enrich" -> SyncMeta(p, FALSE, next)
       [] OTHER -> worker' = next /\ UNCHANGED db
  /\ UNCHANGED <<file, send, suspect, setup>>

\* The picture that is shown is there, or the row is cleared and a list of one
\* entry begun.
LiveResolve ==
  LET i == worker.at IN
  /\ worker.pc = "resolve"
  /\ IF row[i].set /\ Valid(Shown(row[i], file[i]))
     THEN worker' = Idle /\ UNCHANGED <<row, suspect>>
     ELSE \/ /\ row' = Cleared({i})
             /\ suspect' = suspect \ {i}
             /\ worker' = [worker EXCEPT !.pc = "items", !.at = None, !.todo = {i}]
          \/ Abort /\ UNCHANGED <<row, suspect>>
  /\ UNCHANGED <<file, pack, alt, send, setup>>

-----------------------------------------------------------------------------
(* The thread of an image send (sendImageInBackground).                    *)

Sends(m, from, to) ==
  /\ send[m] = from
  /\ send' = [send EXCEPT ![m] = to]
  /\ worker' = [worker EXCEPT !.sure = @ \ {m}]
  /\ UNCHANGED <<pack, alt, setup>>

\* LINE accepts the message.
SendPost(m) ==
  /\ m \in setup.sends
  /\ Sends(m, "idle", "posted")
  /\ UNCHANGED <<file, row, suspect>>

\* The response is stored, or lost or not stored: then no file is moved.
SendStore(m) ==
  /\ \/ Sends(m, "posted", "image") /\ row' = Inserted({m})
     \/ Sends(m, "posted", "done") /\ UNCHANGED row
  /\ UNCHANGED <<file, suspect>>

\* Removals and copies are not checked for errors.
SendRemove(m, part, to) ==
  /\ Sends(m, part, to)
  /\ file' \in {file, [file EXCEPT ![m][part] = "none"]}
  /\ UNCHANGED <<row, suspect>>

\* A copy never replaces a file that is there.
SendCopy(m, part, from, to, next) ==
  /\ \/ /\ Sends(m, from, to)
        /\ file[m][part] = "none"
        /\ file' = [file EXCEPT ![m][part] = "partial"]
     \/ Sends(m, from, next) /\ UNCHANGED file
  /\ UNCHANGED <<row, suspect>>

\* enil_account_prepare_image rendered and decoded both files before the send.
Prepared == "good"

\* It completes or is cut short; the worker may have renamed a file of its own
\* over the copy.
SendCopied(m, part, from, to) ==
  /\ Sends(m, from, to)
  /\ IF file[m][part] = "partial"
     THEN \E c \in {Prepared, "bad"} : file' = [file EXCEPT ![m][part] = c]
     ELSE UNCHANGED file
  /\ UNCHANGED <<row, suspect>>

\* The row names the files whatever became of them.
SendStamp(m) ==
  /\ Sends(m, "stamp", "done")
  /\ row' \in {row, Stamped(m)}
  /\ suspect' = IF Whole(m) THEN suspect \ {m} ELSE suspect \union {m}
  /\ UNCHANGED file

SendFiles(m) ==
  \/ SendRemove(m, "image", "thumb") \/ SendRemove(m, "thumb", "copy")
  \/ SendCopy(m, "image", "copy", "copying", "copyThumb")
  \/ SendCopied(m, "image", "copying", "copyThumb")
  \/ SendCopy(m, "thumb", "copyThumb", "copyingThumb", "stamp")
  \/ SendCopied(m, "thumb", "copyingThumb", "stamp")

\* The process stops.  A copy that was under way stays as it is.
Crash ==
  LET left(c) == IF c = "partial" THEN "bad" ELSE c IN
  /\ worker # Idle \/ \E m \in Images : send[m] \notin {"idle", "done"}
  /\ worker' = Idle
  /\ send' = [m \in Images |-> IF send[m] = "idle" THEN "idle" ELSE "done"]
  /\ file' = [a \in Assets |->
                [image |-> left(file[a].image), thumb |-> left(file[a].thumb)]]
  /\ suspect' = suspect \union {m \in Images : Moves(m) /\ ~Whole(m)}
  /\ UNCHANGED <<db, setup>>

-----------------------------------------------------------------------------
Prepare ==
  \/ SyncBegin \/ AttachBegin \/ PrepareRest \/ PrepareDone \/ Reconcile
  \/ \E p \in Packs : \/ PrepareSticker(p) \/ PrepareSticon(p) \/ Expand(p)
                      \/ CatchUp(p) \/ Enrich(p)

Photos ==
  \/ \E m \in Images : MediaPick(m)
  \/ MediaCheck \/ MediaCheckThumb \/ MediaClear \/ MediaFetch \/ MediaVerify
  \/ MediaThumb \/ MediaStamp

Lists == \/ ItemsBegin \/ ItemsEnd \/ Finish \/ QueryFails
         \/ \E i \in Items : ItemJob(i) \/ ItemApply(i)

Live ==
  \/ \E m \in Images : LivePhoto(m)
  \/ \E i \in Stickers : LiveSticker(i)
  \/ \E p \in SticonPacks : LiveMeta(p) \/ \E i \in ItemsOf(p) \union {None} : LiveSticon(p, i)
  \/ LiveResolve

Sender == \E m \in Images : SendPost(m) \/ SendStore(m) \/ SendFiles(m) \/ SendStamp(m)

Next == Prepare \/ Photos \/ Lists \/ Live \/ Sender \/ Crash

Spec == Init /\ [][Next]_vars

-----------------------------------------------------------------------------
(* Properties.                                                             *)

\* A row that names files names files that are there, complete and of the
\* dimensions it says, whatever fails and wherever the process stops: "a failed
\* transfer or thumbnail must never leave a completed row behind"
\* (download_media_entry), "publish or invalidate both paths"
\* (enil_db_set_sticker_asset).  Excused are rows found wrong at the start and
\* not yet looked at again, and the rows of a send, whose copies nothing checks.
NamedFilesWhole ==
  \A a \in Assets : row[a].set /\ ~Whole(a) => a \in suspect \/ (a \in Images /\ Moves(a))

\* A sync that reports no unavailable attachment has left none: every photo it
\* listed, every item whose package is known, and after a full sync that got
\* the catalog and its metadata every item of every owned package, has its row
\* and its files.
CleanSyncComplete ==
  worker.pc = "finish" /\ worker.errors = 0 =>
    /\ \A m \in worker.sure : Complete(m)
    /\ \A i \in Items : row[i].in /\ pack[PackOf[i]].in => Complete(i)
    /\ worker.kind = "full" /\ worker.told =>
         \A p \in setup.owned : \A i \in ItemsOf(p) : Complete(i)
=============================================================================
