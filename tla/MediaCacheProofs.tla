--------------------------- MODULE MediaCacheProofs ---------------------------
(***************************************************************************)
(* Proofs about MediaCache, for every set of photos, stickers, sticons and *)
(* packages and every setup: type correctness, rows that name whole files, *)
(* and a sync without errors that leaves nothing to fetch.                 *)
(***************************************************************************)
EXTENDS MediaCache, FiniteSetTheorems, TLAPS

-----------------------------------------------------------------------------
(* The inductive invariant.  What is on disk is in order by itself; of the *)
(* worker it says which files it has seen, and whom it has still to serve. *)

PhotoPlaces == {"check", "checkThumb", "clear", "fetch", "verify", "thumb", "stamp"}
Fetching    == PhotoPlaces \cup {"images", "items", "finish"}

DiskTypes ==
  /\ file \in [Assets -> Files]
  /\ row \in [Assets -> Row]
  /\ \A a \in Assets : row[a].set => row[a].in /\ Valid(row[a].image) /\ Valid(row[a].thumb)
  /\ pack \in [Packs -> PackRow]
  /\ alt \subseteq Sticons
  /\ send \in [Images -> SendPlaces]
  /\ suspect \subseteq Assets
  /\ setup \in Setups

DiskSound == DiskTypes /\ NamedFilesWhole

\* The list that an item belongs to, whether or not it is pending.
Turn(i) == IF i \in Stickers THEN (IF pack[PackOf[i]].owned THEN 1 ELSE 3)
                             ELSE (IF pack[PackOf[i]].owned THEN 2 ELSE 4)
Later(n) == {i \in Items : n < Turn(i)}

\* What the worker has not been through.
Ahead == worker.todo \cup worker.ended \cup ({worker.at} \ {None})
          \cup (IF worker.kind = "live" THEN {} ELSE Later(worker.list))

WorkerTypes ==
  /\ worker \in WorkerType
  /\ \A i \in Items : worker.jobs[i].set =>
       worker.jobs[i].in /\ Valid(worker.jobs[i].image) /\ Valid(worker.jobs[i].thumb)

\* The entry at work and the lists, by the worker's place.
Shape ==
  /\ worker.pc = "idle" => worker = Idle
  /\ worker.kind = "live" =>
       worker.pc \in PhotoPlaces \cup {"meta", "resolve", "items"} /\ worker.list = 0
  /\ worker.pc \in {"meta", "resolve"} => worker.kind = "live"
  /\ worker.pc \in PhotoPlaces => worker.at \in Images
  /\ worker.pc = "resolve" => worker.at \in Items
  /\ worker.pc = "meta" => worker.at \in Items \cup {None}
  /\ worker.pc \notin PhotoPlaces \cup {"meta", "resolve"} => worker.at = None
  /\ worker.pc \in PhotoPlaces \cup {"images"} => worker.todo \subseteq Images \ {worker.at}
  /\ worker.pc = "items" => worker.todo \subseteq Items
  /\ worker.pc = "finish" => worker.todo = {} /\ worker.list = 4
  /\ worker.pc \notin {"items", "finish"} => worker.list = 0
  /\ worker.pc \notin Fetching => worker.errors = 0
  /\ worker.expand \cup worker.metas \cup worker.alts \subseteq SticonPacks
  /\ worker.pc = "prepare" => \A p \in worker.expand : worker.expand = {p} /\ pack[p].in

\* Every error is that of an asset the worker has been through.
Counted == worker.errors <= Cardinality(Assets \ Ahead)

\* The worker has found or fetched the original and goes on from there.
Original == worker.pc \in {"checkThumb", "thumb"} \/ (worker.pc = "clear" /\ worker.have)

\* Nothing is repaired under a row that names it, but for a row that the thread
\* of a send has just written; what is stamped is whole, but for its copies.
PhotoSound == worker.pc \in PhotoPlaces =>
  LET m == worker.at IN
  /\ worker.pc \in {"fetch", "verify", "thumb"} /\ row[m].set => send[m] = "done"
  /\ Original => file[m].image # "other"
  /\ worker.pc = "checkThumb" => MediaOk(file[m].image) \/ Moves(m) \/ m \in suspect
  /\ worker.pc = "stamp" => Whole(m) \/ Moves(m) \/ m \in suspect
  /\ m \in worker.sure /\ Original => MediaOk(file[m].image)
  /\ m \in worker.sure /\ worker.pc = "stamp" => Whole(m)

\* Items at work are pending, and what a job found is still so when it is applied.
ItemSound ==
  /\ worker.pc # "items" => worker.ended = {}
  /\ worker.pc = "items" => worker.todo \cap worker.ended = {}
  /\ worker.pc = "items" => \A i \in worker.todo \cup worker.ended : ~row[i].set
  /\ worker.pc = "items" /\ worker.kind # "live" =>
       \A i \in worker.todo \cup worker.ended : Turn(i) = worker.list
  /\ \A i \in worker.ended : worker.jobs[i] = Found(i, file[i])

\* A sync without an error has completed all it has been through.
Due == worker.sure \cup {i \in Items : row[i].in /\ pack[PackOf[i]].in}
Clean ==
  /\ \A m \in worker.sure : row[m].in
  /\ worker.pc \in Fetching /\ worker.kind # "live" =>
       /\ suspect \cap Items = {}
       /\ worker.errors = 0 => \A a \in Due : a \in Ahead \/ Complete(a)

\* The packages of the catalog are stored with all their items, or still to be.
Stocked(p) == pack[p].in /\ \A i \in ItemsOf(p) : row[i].in
Stock ==
  worker.kind = "full" /\ worker.told => \A p \in setup.owned :
    Stocked(p) \/ (worker.pc = "prepare" /\ p \in worker.owned \cup worker.expand)

WorkerSound == WorkerTypes /\ Shape /\ Counted /\ PhotoSound /\ ItemSound /\ Clean /\ Stock

IInv == DiskSound /\ WorkerSound

-----------------------------------------------------------------------------
(* Facts about the constants and the data.                                 *)

LEMMA ConstantFacts ==
  /\ Images \subseteq Assets /\ Items \subseteq Assets
  /\ \A a \in Assets : a \in Images <=> a \notin Items
  /\ \A i \in Items : i \in Stickers <=> i \notin Sticons
  /\ IsFiniteSet(Assets) /\ None \notin Assets
  /\ \A i \in Items : PackOf[i] \in Packs
  /\ \A s \in Setups :
       s.seen \subseteq Assets /\ s.owned \subseteq Packs /\ s.sends \subseteq Images
BY AssetAssumption DEF Assets, Items, SetupType

LEMMA PartsFinite ==
  ASSUME NEW S
  PROVE  IsFiniteSet(Assets \ S) /\ Cardinality(Assets \ S) \in 0..Cardinality(Assets)
<1>1. IsFiniteSet(Assets) /\ Cardinality(Assets) \in Nat
  BY ConstantFacts, FS_CardinalityType
<1>2. Assets \ S \subseteq Assets
  OBVIOUS
<1>3. IsFiniteSet(Assets \ S) /\ Cardinality(Assets \ S) <= Cardinality(Assets)
  BY <1>1, <1>2, FS_Subset
<1> QED BY <1>1, <1>3, FS_CardinalityType

\* The bound on errors grows as the worker gets on.
LEMMA BehindGrows ==
  ASSUME NEW S, NEW T, T \cap Assets \subseteq S
  PROVE  Cardinality(Assets \ S) <= Cardinality(Assets \ T)
<1>1. Assets \ S \subseteq Assets \ T
  OBVIOUS
<1> QED BY <1>1, PartsFinite, FS_Subset

\* ... by one at least with each asset.
LEMMA BehindGrowsBy ==
  ASSUME NEW S, NEW T, NEW a \in Assets, a \in S, a \notin T, T \cap Assets \subseteq S
  PROVE  Cardinality(Assets \ S) + 1 <= Cardinality(Assets \ T)
<1>1. Assets \ S \subseteq (Assets \ T) \ {a}
  OBVIOUS
<1>2. IsFiniteSet(Assets \ T) /\ a \in Assets \ T
  BY PartsFinite
<1>3. /\ IsFiniteSet((Assets \ T) \ {a})
      /\ Cardinality((Assets \ T) \ {a}) = Cardinality(Assets \ T) - 1
  BY <1>2, FS_RemoveElement
<1>4. Cardinality(Assets \ S) <= Cardinality((Assets \ T) \ {a})
  BY <1>1, <1>3, FS_Subset
<1>5. Cardinality(Assets \ S) \in Nat /\ Cardinality(Assets \ T) \in Nat
  BY PartsFinite
<1> QED BY <1>3, <1>4, <1>5

LEMMA PackFacts ==
  /\ StickerPacks \subseteq Packs /\ SticonPacks \subseteq Packs
  /\ \A p \in Packs : ItemsOf(p) \subseteq Items
  /\ \A p \in SticonPacks : ItemsOf(p) \subseteq Sticons
  /\ \A p \in Packs : p \in SticonPacks <=> p \notin StickerPacks
BY AssetAssumption DEF StickerPacks, SticonPacks, ItemsOf

LEMMA DataFacts ==
  /\ NoRow \in Row /\ Pending \in Row /\ NoRow.set = FALSE /\ NoRow.in = FALSE
  /\ Pending.set = FALSE /\ Pending.in = TRUE
  /\ NoPack \in PackRow
  /\ \A r \in Row : Upserted(r) \in Row /\ Upserted(r).in /\ (Upserted(r) = r \/ ~Upserted(r).set)
  /\ \A k \in PackRow : Discovered(k) \in PackRow /\ Discovered(k).in
BY DEF NoRow, Pending, Row, Contents, NoPack, PackRow, Upserted, Discovered

LEMMA IdleFits == Idle \in WorkerType
<1>1. Cardinality(Assets) \in Nat
  BY ConstantFacts, FS_CardinalityType
<1>2. [i \in Items |-> NoRow] \in [Items -> Row]
  BY DataFacts
<1> QED BY <1>1, <1>2 DEF Idle, WorkerType, Places

-----------------------------------------------------------------------------
(* Steps of the two halves.                                                *)

\* A worker that stops leaves nothing behind.
LEMMA StopsSound ==
  ASSUME worker' = Idle
  PROVE  WorkerSound'
<1>1. /\ worker'.pc = "idle" /\ worker'.kind = "idle" /\ worker'.list = 0 /\ worker'.errors = 0
      /\ worker'.sure = {} /\ worker'.ended = {} /\ worker'.jobs = [i \in Items |-> NoRow]
      /\ worker'.expand = {} /\ worker'.metas = {} /\ worker'.alts = {} /\ worker'.at = None
  BY DEF Idle
<1>2. WorkerTypes'
  BY <1>1, IdleFits, DataFacts DEF WorkerTypes
<1>3. Counted'
  <2>1. Cardinality(Assets \ Ahead') \in Nat
    BY PartsFinite
  <2> QED BY <1>1, <2>1 DEF Counted
<1>4. Shape'
  BY <1>1 DEF Shape, PhotoPlaces
<1>5. PhotoSound' /\ ItemSound' /\ Clean' /\ Stock'
  BY <1>1 DEF PhotoSound, PhotoPlaces, ItemSound, Clean, Fetching, Stock
<1> QED BY <1>2, <1>3, <1>4, <1>5 DEF WorkerSound

LEMMA DiskKept ==
  ASSUME DiskSound, UNCHANGED <<file, db, send, suspect, setup>>
  PROVE  DiskSound'
BY DEF DiskSound, DiskTypes, NamedFilesWhole, Whole, Moves, Shown, db

\* Rows that are cleared, inserted or kept, or written for whole files.
LEMMA RowsMove ==
  ASSUME DiskSound, file' = file, send' = send, setup' = setup,
         row' \in [Assets -> Row], pack' \in [Packs -> PackRow], alt' \subseteq Sticons,
         suspect' \subseteq Assets,
         \A a \in Assets : row'[a] = row[a] \/ ~row'[a].set,
         \A a \in suspect \ suspect' : ~row'[a].set \/ (row'[a] = row[a] /\ Whole(a))
  PROVE  DiskSound'
<1>1. DiskTypes'
  BY DEF DiskSound, DiskTypes
<1>2. ASSUME NEW a \in Assets, row'[a].set, ~Whole(a)'
      PROVE  a \in suspect' \/ (a \in Images /\ Moves(a)')
  <2>1. row'[a] = row[a]
    BY <1>2
  <2>2. ~Whole(a)
    BY <1>2, <2>1 DEF Whole, Shown
  <2>3. a \in suspect \/ (a \in Images /\ Moves(a))
    BY <1>2, <2>1, <2>2 DEF DiskSound, NamedFilesWhole
  <2> QED BY <1>2, <2>2, <2>3 DEF Moves
<1> QED BY <1>1, <1>2 DEF DiskSound, NamedFilesWhole

\* Rows and packages that are there stay there.
Grows ==
  /\ \A a \in Assets : row[a].in => row'[a].in
  /\ \A p \in Packs : pack[p].in => pack'[p].in

LEMMA InsertedFacts ==
  ASSUME DiskSound, NEW A \in SUBSET Assets, row' = Inserted(A)
  PROVE  /\ row' \in [Assets -> Row]
         /\ \A a \in Assets : row'[a] = row[a] \/ ~row'[a].set
         /\ \A a \in Assets : row[a].in \/ a \in A => row'[a].in
<1>1. row \in [Assets -> Row]
  BY DEF DiskSound, DiskTypes
<1> QED BY <1>1, DataFacts DEF Inserted

LEMMA InsertMove ==
  ASSUME DiskSound, NEW A \in SUBSET Assets, row' = Inserted(A),
         pack' \in [Packs -> PackRow], \A p \in Packs : pack[p].in => pack'[p].in,
         alt' \subseteq Sticons, UNCHANGED <<file, send, suspect, setup>>
  PROVE  DiskSound' /\ Grows /\ \A a \in A : row'[a].in
<1>1. suspect' \subseteq Assets /\ suspect \ suspect' = {}
  BY DEF DiskSound, DiskTypes
<1> QED BY <1>1, InsertedFacts, RowsMove DEF Grows

LEMMA StoreMove ==
  ASSUME DiskSound, NEW A \in SUBSET Assets, Store(A), UNCHANGED <<file, send, suspect, setup>>
  PROVE  DiskSound' /\ Grows /\ \A a \in A : row'[a].in
<1>1. pack \in [Packs -> PackRow] /\ alt \subseteq Sticons
  BY DEF DiskSound, DiskTypes
<1>2. pack' \in [Packs -> PackRow] /\ \A p \in Packs : pack[p].in => pack'[p].in
  BY <1>1, DataFacts DEF Store
<1> QED BY <1>1, <1>2, InsertMove DEF Store

LEMMA KeptGrows ==
  ASSUME DiskSound, UNCHANGED <<file, db, send, suspect, setup>>
  PROVE  DiskSound' /\ Grows
BY DiskKept DEF Grows, db

\* A package changes its row and stays there.
LEMMA PackMove ==
  ASSUME DiskSound, NEW p \in Packs, NEW k \in PackRow, k.in, pack' = [pack EXCEPT ![p] = k],
         UNCHANGED <<file, row, alt, send, suspect, setup>>
  PROVE  DiskSound' /\ Grows
<1>1. /\ pack \in [Packs -> PackRow] /\ alt' \subseteq Sticons /\ row' \in [Assets -> Row]
      /\ suspect' \subseteq Assets /\ suspect \ suspect' = {}
  BY DEF DiskSound, DiskTypes
<1>2. pack' \in [Packs -> PackRow] /\ \A q \in Packs : pack[q].in => pack'[q].in
  BY <1>1
<1> QED BY <1>1, <1>2, RowsMove DEF Grows

\* meta.json: it is stored, or not fetched, or the sync ends.
LEMMA MetaMove ==
  ASSUME DiskSound, NEW p \in SticonPacks, NEW expand \in BOOLEAN, NEW next,
         SyncMeta(p, expand, next), UNCHANGED <<file, send, suspect, setup>>
  PROVE  /\ DiskSound' /\ Grows
         /\ \/ worker' = next /\ (expand => \A i \in ItemsOf(p) : row'[i].in)
            \/ worker' = [next EXCEPT !.told = FALSE]
            \/ worker' = Idle
<1>1. CASE MetaStored(p, expand) /\ worker' = next
  <2> DEFINE A == IF expand THEN ItemsOf(p) ELSE {i \in ItemsOf(p) : row[i].in}
             x == IF pack[p].type = "null" /\ TypeOf(p) = "animation"
                  THEN TypeOf(p) ELSE pack[p].type
  <2>1. pack \in [Packs -> PackRow] /\ alt \subseteq Sticons /\ p \in Packs
    BY PackFacts DEF DiskSound, DiskTypes
  <2>2. A \in SUBSET Assets /\ A \subseteq Sticons
    BY <2>1, ConstantFacts, PackFacts
  <2>3. x \in {"null", "zero", "static", "animation"} /\ pack[p] \in PackRow
    BY <2>1 DEF PackRow, TypeOf
  <2>4. [pack[p] EXCEPT !.type = x] \in PackRow /\ [pack[p] EXCEPT !.type = x].in = pack[p].in
    BY <2>3 DEF PackRow
  <2>5. /\ pack' = [pack EXCEPT ![p] = [pack[p] EXCEPT !.type = x]]
        /\ row' = Inserted(A) /\ alt' = alt \cup A
    BY <1>1, <2>1 DEF MetaStored
  <2>6. expand => A = ItemsOf(p)
    OBVIOUS
  <2> HIDE DEF x, A
  <2>7. pack' \in [Packs -> PackRow] /\ \A q \in Packs : pack[q].in => pack'[q].in
    BY <2>1, <2>4, <2>5
  <2> QED BY <1>1, <2>1, <2>2, <2>5, <2>6, <2>7, InsertMove
<1>2. CASE NotFetched(next)
  BY <1>2, KeptGrows DEF NotFetched
<1>3. CASE Abort /\ UNCHANGED db
  BY <1>3, KeptGrows DEF Abort
<1> QED BY <1>1, <1>2, <1>3 DEF SyncMeta

\* A worker that is not fetching yet needs its fields and the packages.
LEMMA NotYetSound ==
  ASSUME WorkerTypes', worker'.pc \notin Fetching \cup {"idle"}, worker'.list = 0,
         worker'.errors = 0, worker'.ended = {},
         worker'.expand \cup worker'.metas \cup worker'.alts \subseteq SticonPacks,
         worker'.kind = "live" <=> worker'.pc \in {"meta", "resolve"},
         worker'.pc = "meta" => worker'.at \in Items \cup {None},
         worker'.pc = "resolve" => worker'.at \in Items,
         worker'.pc \notin {"meta", "resolve"} => worker'.at = None,
         worker'.pc = "prepare" => \A p \in worker'.expand : worker'.expand = {p} /\ pack'[p].in,
         \A m \in worker'.sure : row'[m].in, Stock'
  PROVE  WorkerSound'
<1>1. Counted'
  <2>1. Cardinality(Assets \ Ahead') \in Nat
    BY PartsFinite
  <2> QED BY <2>1 DEF Counted
<1>2. Shape'
  BY DEF Shape, Fetching
<1>3. PhotoSound' /\ ItemSound' /\ Clean'
  BY DEF PhotoSound, Fetching, ItemSound, Clean
<1> QED BY <1>1, <1>2, <1>3 DEF WorkerSound

\* What a worker that is not fetching yet looks like.
LEMMA NotYetFacts ==
  ASSUME WorkerSound, worker.pc \notin Fetching
  PROVE  /\ worker \in WorkerType /\ worker.list = 0 /\ worker.errors = 0 /\ worker.ended = {}
         /\ worker.expand \cup worker.metas \cup worker.alts \subseteq SticonPacks
         /\ worker.sure \subseteq Images
         /\ \A m \in worker.sure : row[m].in
         /\ worker.kind = "live" <=> worker.pc \in {"meta", "resolve"}
         /\ worker.pc \notin {"meta", "resolve"} => worker.at = None
         /\ worker.pc = "prepare" => \A p \in worker.expand : worker.expand = {p} /\ pack[p].in
BY DEF WorkerSound, WorkerTypes, Shape, ItemSound, Clean, Fetching, WorkerType

\* Rows and packages that stay serve the packages of the catalog.
LEMMA StockMove ==
  ASSUME Stock, Grows, setup \in Setups, setup' = setup, worker'.kind = worker.kind,
         worker'.told => worker.told,
         \A p \in worker.owned \cup worker.expand : worker.pc = "prepare" /\ worker'.told =>
           Stocked(p)' \/ (worker'.pc = "prepare" /\ p \in worker'.owned \cup worker'.expand)
  PROVE  Stock'
<1> SUFFICES ASSUME worker.kind = "full", worker.told, worker'.told, NEW p \in setup.owned
             PROVE \/ Stocked(p)'
                   \/ worker'.pc = "prepare" /\ p \in worker'.owned \cup worker'.expand
  BY DEF Stock
<1>1. p \in Packs /\ ItemsOf(p) \subseteq Assets
  BY ConstantFacts, PackFacts
<1>2. Stocked(p) => Stocked(p)'
  BY <1>1 DEF Stocked, Grows
<1> QED BY <1>2 DEF Stock

-----------------------------------------------------------------------------
(* The preparing phase.                                                    *)

LEMMA IdlePlace ==
  ASSUME IInv
  PROVE  worker.pc = "idle" <=> worker = Idle
BY DEF IInv, WorkerSound, Shape, Idle

LEMMA SyncBeginInv ==
  ASSUME IInv, SyncBegin
  PROVE  IInv'
<1>1. PICK new \in SUBSET {a \in Assets : Seen(a) /\ ~row[a].in} : Store(new)
  BY DEF SyncBegin
<1>2. DiskSound' /\ setup \in Setups /\ setup' = setup
  BY <1>1, StoreMove DEF SyncBegin, IInv, DiskSound, DiskTypes
<1>3. ASSUME NEW listed \in Catalogs,
             worker' = [Idle EXCEPT !.kind = "full", !.pc = "prepare", !.owned = listed,
                                    !.told = (listed = setup.owned),
                                    !.metas = NeedMeta', !.alts = NeedAlt']
      PROVE  WorkerSound'
  <2>1. /\ listed \subseteq Packs
        /\ NeedMeta' \subseteq SticonPacks /\ NeedAlt' \subseteq SticonPacks
    BY <1>2, ConstantFacts DEF Catalogs, NeedMeta, NeedAlt
  <2>2. worker' \in WorkerType
    BY <1>3, <2>1, IdleFits, PackFacts DEF WorkerType, Places
  <2>3. /\ worker'.kind = "full" /\ worker'.pc = "prepare" /\ worker'.owned = listed
        /\ worker'.told = (listed = setup.owned) /\ worker'.metas = NeedMeta'
        /\ worker'.alts = NeedAlt' /\ worker'.expand = {} /\ worker'.list = 0
        /\ worker'.errors = 0 /\ worker'.ended = {} /\ worker'.sure = {}
        /\ worker'.jobs = [i \in Items |-> NoRow] /\ worker'.at = None
    BY <1>3 DEF Idle
  <2>4. WorkerTypes'
    BY <2>2, <2>3, DataFacts DEF WorkerTypes
  <2>5. Stock'
    BY <1>2, <2>3 DEF Stock
  <2> QED BY <2>1, <2>3, <2>4, <2>5, NotYetSound DEF Fetching, PhotoPlaces
<1>4. ASSUME Abort PROVE WorkerSound'
  BY <1>4, StopsSound DEF Abort
<1> QED BY <1>2, <1>3, <1>4 DEF SyncBegin, IInv

LEMMA AttachBeginInv ==
  ASSUME IInv, AttachBegin
  PROVE  IInv'
<1>1. DiskSound'
  BY DiskKept DEF AttachBegin, IInv
<1>2. worker' \in WorkerType
  BY IdleFits DEF AttachBegin, WorkerType, Places
<1>3. /\ worker'.kind = "attach" /\ worker'.pc = "reconcile" /\ worker'.expand = {}
      /\ worker'.metas = {} /\ worker'.alts = {} /\ worker'.list = 0 /\ worker'.errors = 0
      /\ worker'.ended = {} /\ worker'.sure = {} /\ worker'.jobs = [i \in Items |-> NoRow]
      /\ worker'.at = None
  BY DEF AttachBegin, Idle
<1>4. WorkerTypes' /\ Stock'
  BY <1>2, <1>3, DataFacts DEF WorkerTypes, Stock
<1> QED BY <1>1, <1>3, <1>4, NotYetSound DEF IInv, Fetching, PhotoPlaces

\* A step of the preparing phase, to a worker w of the same sync.
LEMMA PrepareMove ==
  ASSUME IInv, DiskSound', Grows, setup' = setup, worker.pc \in {"prepare", "catchup"},
         worker' \in WorkerType, worker'.pc \in {"prepare", "catchup", "reconcile"},
         worker'.kind = worker.kind, worker'.list = worker.list, worker'.errors = worker.errors,
         worker'.ended = worker.ended, worker'.jobs = worker.jobs, worker'.sure = worker.sure,
         worker'.at = worker.at, worker'.told => worker.told,
         worker'.expand \cup worker'.metas \cup worker'.alts \subseteq SticonPacks,
         \A p \in worker.owned \cup worker.expand : worker.pc = "prepare" /\ worker'.told =>
           Stocked(p)' \/ (worker'.pc = "prepare" /\ p \in worker'.owned \cup worker'.expand),
         worker'.pc = "prepare" => \A p \in worker'.expand : worker'.expand = {p} /\ pack'[p].in
  PROVE  IInv'
<1>1. /\ worker \in WorkerType /\ worker.list = 0 /\ worker.errors = 0 /\ worker.ended = {}
      /\ worker.sure \subseteq Images /\ \A m \in worker.sure : row[m].in
      /\ worker.kind # "live" /\ worker.at = None
  BY NotYetFacts DEF IInv, Fetching, PhotoPlaces
<1>2. Stock'
  BY StockMove DEF IInv, WorkerSound, DiskSound, DiskTypes
<1>3. WorkerTypes'
  BY DEF WorkerTypes, IInv, WorkerSound
<1>4. \A m \in worker'.sure : row'[m].in
  BY <1>1, ConstantFacts DEF Grows
<1> QED BY <1>1, <1>2, <1>3, <1>4, NotYetSound DEF IInv, Fetching, PhotoPlaces

LEMMA PrepareFacts ==
  ASSUME IInv, worker.pc \in {"prepare", "catchup"}
  PROVE  /\ worker \in WorkerType /\ DiskSound
         /\ worker.expand \cup worker.metas \cup worker.alts \subseteq SticonPacks
         /\ worker.pc = "prepare" => \A p \in worker.expand : worker.expand = {p} /\ pack[p].in
BY NotYetFacts DEF IInv, Fetching, PhotoPlaces

LEMMA PrepareStickerInv ==
  ASSUME IInv, NEW p \in Packs, PrepareSticker(p)
  PROVE  IInv'
<1>1. /\ worker \in WorkerType /\ DiskSound /\ worker.pc = "prepare"
      /\ worker.expand \cup worker.metas \cup worker.alts \subseteq SticonPacks
      /\ \A q \in worker.expand : worker.expand = {q} /\ pack[q].in
      /\ UNCHANGED <<file, alt, send, suspect, setup>> /\ ItemsOf(p) \in SUBSET Assets
  BY PrepareFacts, PackFacts, ConstantFacts DEF PrepareSticker
<1>2. CASE /\ row' = Inserted(ItemsOf(p))
           /\ pack' = [pack EXCEPT ![p].in = TRUE, ![p].owned = TRUE]
           /\ worker' = [worker EXCEPT !.owned = @ \ {p}]
  <2>1. /\ pack \in [Packs -> PackRow] /\ alt' \subseteq Sticons
        /\ pack' \in [Packs -> PackRow] /\ pack'[p].in
        /\ \A q \in Packs : pack[q].in => pack'[q].in
    <3> DEFINE k == [pack[p] EXCEPT !.in = TRUE, !.owned = TRUE]
    <3>1. pack \in [Packs -> PackRow] /\ alt' \subseteq Sticons
      BY <1>1 DEF DiskSound, DiskTypes
    <3>2. k \in PackRow /\ k.in
      BY <3>1 DEF PackRow
    <3>3. pack' = [pack EXCEPT ![p] = k]
      BY <1>2, <3>1
    <3> HIDE DEF k
    <3> QED BY <3>1, <3>2, <3>3
  <2>2. DiskSound' /\ Grows /\ Stocked(p)'
    BY <1>1, <1>2, <2>1, InsertMove DEF Stocked
  <2>4. \A q \in worker.expand : worker.expand = {q} /\ pack'[q].in
    BY <1>1, <2>1, PackFacts
  <2>3. /\ worker' \in WorkerType /\ worker'.pc = worker.pc /\ worker'.kind = worker.kind
        /\ worker'.list = worker.list /\ worker'.errors = worker.errors
        /\ worker'.ended = worker.ended /\ worker'.jobs = worker.jobs
        /\ worker'.sure = worker.sure /\ worker'.at = worker.at /\ worker'.told = worker.told
        /\ worker'.expand = worker.expand /\ worker'.metas = worker.metas
        /\ worker'.alts = worker.alts /\ worker'.owned = worker.owned \ {p}
    BY <1>1, <1>2 DEF WorkerType
  <2> QED BY <1>1, <2>2, <2>3, <2>4, PrepareMove
<1>3. CASE Abort /\ UNCHANGED <<row, pack>>
  BY <1>1, <1>3, StopsSound, DiskKept DEF Abort, IInv, db
<1> QED BY <1>2, <1>3 DEF PrepareSticker

LEMMA PrepareSticonInv ==
  ASSUME IInv, NEW p \in Packs, PrepareSticon(p)
  PROVE  IInv'
<1>1. /\ worker \in WorkerType /\ DiskSound /\ worker.pc = "prepare"
      /\ worker.expand \cup worker.metas \cup worker.alts \subseteq SticonPacks
      /\ UNCHANGED <<file, row, alt, send, suspect, setup>> /\ p \in SticonPacks
  BY PrepareFacts DEF PrepareSticon
<1>2. ASSUME NEW type \in {"zero", TypeOf(p)},
             pack' = [pack EXCEPT ![p] = [in |-> TRUE, owned |-> TRUE, type |-> type]],
             worker' = [worker EXCEPT !.owned = @ \ {p}, !.expand = {p}]
      PROVE  IInv'
  <2>1. [in |-> TRUE, owned |-> TRUE, type |-> type] \in PackRow
    BY DEF TypeOf, PackRow
  <2>2. DiskSound' /\ Grows
    BY <1>1, <1>2, <2>1, PackMove
  <2>5. pack'[p].in
    BY <1>1, <1>2 DEF DiskSound, DiskTypes
  <2>3. /\ worker' \in WorkerType /\ worker'.pc = worker.pc /\ worker'.kind = worker.kind
        /\ worker'.list = worker.list /\ worker'.errors = worker.errors
        /\ worker'.ended = worker.ended /\ worker'.jobs = worker.jobs
        /\ worker'.sure = worker.sure /\ worker'.at = worker.at /\ worker'.told = worker.told
        /\ worker'.expand = {p} /\ worker'.metas = worker.metas
        /\ worker'.alts = worker.alts /\ worker'.owned = worker.owned \ {p}
    BY <1>1, <1>2 DEF WorkerType
  <2>4. worker.expand = {}
    BY DEF PrepareSticon
  <2> QED BY <1>1, <2>2, <2>3, <2>4, <2>5, PrepareMove
<1>3. CASE Abort /\ UNCHANGED pack
  BY <1>1, <1>3, StopsSound, DiskKept DEF Abort, IInv, db
<1> QED BY <1>2, <1>3 DEF PrepareSticon

\* A fetch of metadata in this phase; next serves the package from the list.
LEMMA PrepareMeta ==
  ASSUME IInv, worker.pc \in {"prepare", "catchup"}, NEW p \in SticonPacks,
         NEW expand \in BOOLEAN, NEW next \in WorkerType, SyncMeta(p, expand, next),
         UNCHANGED <<file, send, suspect, setup>>,
         next.pc = worker.pc, next.kind = worker.kind, next.list = worker.list,
         next.errors = worker.errors, next.ended = worker.ended, next.jobs = worker.jobs,
         next.sure = worker.sure, next.at = worker.at, next.told = worker.told,
         next.owned = worker.owned,
         next.expand \cup next.metas \cup next.alts \subseteq SticonPacks,
         worker.pc = "prepare" => expand /\ p \in worker.expand /\ next.expand = {}
  PROVE  IInv'
<1>1. DiskSound /\ DiskSound' /\ Grows
  BY MetaMove DEF IInv
<1>2. CASE worker' = next /\ (expand => \A i \in ItemsOf(p) : row'[i].in)
  <2>1. worker.pc = "prepare" => \A q \in worker.expand : Stocked(q)'
    BY <1>1, <1>2, PrepareFacts, PackFacts DEF Stocked, Grows
  <2> QED BY <1>1, <1>2, <2>1, PrepareMove
<1>3. CASE worker' = [next EXCEPT !.told = FALSE]
  <2>1. /\ worker' \in WorkerType /\ worker'.pc = next.pc /\ worker'.kind = next.kind
        /\ worker'.list = next.list /\ worker'.errors = next.errors
        /\ worker'.ended = next.ended /\ worker'.jobs = next.jobs
        /\ worker'.sure = next.sure /\ worker'.at = next.at /\ worker'.told = FALSE
        /\ worker'.expand = next.expand /\ worker'.metas = next.metas
        /\ worker'.alts = next.alts
    BY <1>3 DEF WorkerType
  <2> QED BY <1>1, <2>1, PrepareMove
<1>4. CASE worker' = Idle
  BY <1>1, <1>4, StopsSound DEF IInv
<1> QED BY <1>2, <1>3, <1>4, MetaMove DEF IInv

LEMMA ExpandInv ==
  ASSUME IInv, NEW p \in Packs, Expand(p)
  PROVE  IInv'
<1> DEFINE next == [worker EXCEPT !.expand = {}]
<1>1. /\ worker \in WorkerType /\ worker.pc = "prepare" /\ p \in worker.expand
      /\ worker.expand \cup worker.metas \cup worker.alts \subseteq SticonPacks
      /\ SyncMeta(p, TRUE, next) /\ UNCHANGED <<file, send, suspect, setup>>
  BY PrepareFacts DEF Expand
<1>2. /\ next \in WorkerType /\ next.pc = worker.pc /\ next.kind = worker.kind
      /\ next.list = worker.list /\ next.errors = worker.errors /\ next.ended = worker.ended
      /\ next.jobs = worker.jobs /\ next.sure = worker.sure /\ next.at = worker.at
      /\ next.told = worker.told
      /\ next.owned = worker.owned /\ next.expand = {} /\ next.metas = worker.metas
      /\ next.alts = worker.alts
  BY <1>1 DEF WorkerType
<1> HIDE DEF next
<1> QED BY <1>1, <1>2, PrepareMeta

LEMMA CatchUpInv ==
  ASSUME IInv, NEW p \in Packs, CatchUp(p)
  PROVE  IInv'
<1> DEFINE next == [worker EXCEPT !.metas = @ \ {p}]
<1>1. /\ worker \in WorkerType /\ worker.pc = "catchup" /\ p \in worker.metas
      /\ worker.expand \cup worker.metas \cup worker.alts \subseteq SticonPacks
      /\ SyncMeta(p, TRUE, next) /\ UNCHANGED <<file, send, suspect, setup>>
  BY PrepareFacts DEF CatchUp
<1>2. /\ next \in WorkerType /\ next.pc = worker.pc /\ next.kind = worker.kind
      /\ next.list = worker.list /\ next.errors = worker.errors /\ next.ended = worker.ended
      /\ next.jobs = worker.jobs /\ next.sure = worker.sure /\ next.at = worker.at
      /\ next.told = worker.told
      /\ next.owned = worker.owned /\ next.expand = worker.expand
      /\ next.metas = worker.metas \ {p} /\ next.alts = worker.alts
  BY <1>1 DEF WorkerType
<1> HIDE DEF next
<1> QED BY <1>1, <1>2, PrepareMeta

LEMMA EnrichInv ==
  ASSUME IInv, NEW p \in Packs, Enrich(p)
  PROVE  IInv'
<1> DEFINE next == [worker EXCEPT !.alts = @ \ {p}]
<1>1. /\ worker \in WorkerType /\ worker.pc = "catchup" /\ p \in worker.alts
      /\ worker.expand \cup worker.metas \cup worker.alts \subseteq SticonPacks
      /\ SyncMeta(p, FALSE, next) /\ UNCHANGED <<file, send, suspect, setup>>
  BY PrepareFacts DEF Enrich
<1>2. /\ next \in WorkerType /\ next.pc = worker.pc /\ next.kind = worker.kind
      /\ next.list = worker.list /\ next.errors = worker.errors /\ next.ended = worker.ended
      /\ next.jobs = worker.jobs /\ next.sure = worker.sure /\ next.at = worker.at
      /\ next.told = worker.told
      /\ next.owned = worker.owned /\ next.expand = worker.expand
      /\ next.metas = worker.metas /\ next.alts = worker.alts \ {p}
  BY <1>1 DEF WorkerType
<1> HIDE DEF next
<1> QED BY <1>1, <1>2, PrepareMeta

LEMMA PrepareRestInv ==
  ASSUME IInv, PrepareRest
  PROVE  IInv'
<1>1. /\ worker \in WorkerType /\ worker.pc = "prepare" /\ worker.owned = {} /\ worker.expand = {}
      /\ worker.expand \cup worker.metas \cup worker.alts \subseteq SticonPacks
      /\ worker' = [worker EXCEPT !.pc = "catchup", !.metas = @ \cap NeedMeta]
  BY PrepareFacts DEF PrepareRest
<1>2. DiskSound' /\ Grows /\ setup' = setup
  BY KeptGrows DEF PrepareRest, IInv
<1>3. /\ worker' \in WorkerType /\ worker'.pc = "catchup" /\ worker'.kind = worker.kind
      /\ worker'.list = worker.list /\ worker'.errors = worker.errors
      /\ worker'.ended = worker.ended /\ worker'.jobs = worker.jobs
      /\ worker'.sure = worker.sure /\ worker'.at = worker.at /\ worker'.told = worker.told
      /\ worker'.expand = worker.expand /\ worker'.metas \subseteq worker.metas
      /\ worker'.alts = worker.alts
  BY <1>1 DEF WorkerType, Places
<1> QED BY <1>1, <1>2, <1>3, PrepareMove

LEMMA PrepareDoneInv ==
  ASSUME IInv, PrepareDone
  PROVE  IInv'
<1>1. /\ worker \in WorkerType /\ worker.pc = "catchup"
      /\ worker.expand \cup worker.metas \cup worker.alts \subseteq SticonPacks
      /\ worker' = [worker EXCEPT !.pc = "reconcile"]
  BY PrepareFacts DEF PrepareDone
<1>2. DiskSound' /\ Grows /\ setup' = setup
  BY KeptGrows DEF PrepareDone, IInv
<1>3. /\ worker' \in WorkerType /\ worker'.pc = "reconcile" /\ worker'.kind = worker.kind
      /\ worker'.list = worker.list /\ worker'.errors = worker.errors
      /\ worker'.ended = worker.ended /\ worker'.jobs = worker.jobs
      /\ worker'.sure = worker.sure /\ worker'.at = worker.at /\ worker'.told = worker.told
      /\ worker'.expand = worker.expand /\ worker'.metas = worker.metas
      /\ worker'.alts = worker.alts
  BY <1>1 DEF WorkerType, Places
<1> QED BY <1>1, <1>2, <1>3, PrepareMove

LEMMA TurnFacts == \A i \in Items : Turn(i) \in 1..4 /\ Turn(i)' \in 1..4
BY DEF Turn

LEMMA ClearedFacts ==
  ASSUME DiskSound, NEW A \in SUBSET Assets, row' = Cleared(A)
  PROVE  /\ row' \in [Assets -> Row]
         /\ \A a \in Assets : row'[a] = row[a] \/ ~row'[a].set
         /\ \A a \in A : ~row'[a].set
         /\ \A a \in Assets \ A : row'[a] = row[a]
         /\ \A a \in Assets : row[a].in => row'[a].in
<1>1. row \in [Assets -> Row] /\ \A a \in Assets : row[a].set => row[a].in
  BY DEF DiskSound, DiskTypes
<1>2. row' = [a \in Assets |-> IF a \in A /\ row[a].in THEN Pending ELSE row[a]]
  BY DEF Cleared
<1> QED BY <1>1, <1>2, DataFacts

\* Rows are cleared, and with them what was to be excused.
LEMMA ClearMove ==
  ASSUME DiskSound, NEW A \in SUBSET Assets, row' = Cleared(A), suspect' \subseteq suspect,
         \A a \in suspect \ suspect' : a \in A \/ Whole(a) \/ ~row[a].set,
         UNCHANGED <<file, pack, alt, send, setup>>
  PROVE  DiskSound' /\ Grows
<1>1. /\ pack' \in [Packs -> PackRow] /\ alt' \subseteq Sticons /\ suspect' \subseteq Assets
      /\ suspect \subseteq Assets
  BY DEF DiskSound, DiskTypes
<1>2. Grows
  BY ClearedFacts DEF Grows
<1>3. \A a \in suspect \ suspect' : ~row'[a].set \/ (row'[a] = row[a] /\ Whole(a))
  BY <1>1, ClearedFacts
<1> QED BY <1>1, <1>2, <1>3, ClearedFacts, RowsMove

LEMMA ReconcileInv ==
  ASSUME IInv, Reconcile
  PROVE  IInv'
<1> DEFINE stale == {i \in Items : Stale(i)}
<1>1. /\ worker \in WorkerType /\ worker.pc = "reconcile" /\ worker.list = 0
      /\ worker.errors = 0 /\ worker.ended = {} /\ worker.kind # "live" /\ worker.at = None
      /\ worker.expand \cup worker.metas \cup worker.alts \subseteq SticonPacks
      /\ UNCHANGED <<file, pack, alt, send, setup>> /\ DiskSound
      /\ stale \in SUBSET Assets /\ Items \subseteq Assets /\ setup \in Setups
  BY NotYetFacts, ConstantFacts
     DEF IInv, Reconcile, Fetching, PhotoPlaces, DiskSound, DiskTypes
<1>2. CASE /\ row' = Cleared(stale) /\ suspect' = suspect \ Items
           /\ worker' = [worker EXCEPT !.pc = "images", !.todo = Listed, !.sure = Listed]
  <2>1. DiskSound' /\ Grows
    <3>1. \A a \in suspect \ suspect' : a \in stale \/ Whole(a) \/ ~row[a].set
      BY <1>2 DEF Stale
    <3>2. suspect' \subseteq suspect
      BY <1>2
    <3> HIDE DEF stale
    <3> QED BY <1>1, <1>2, <3>1, <3>2, ClearMove
  <2>2. Listed \subseteq Images /\ Listed \subseteq Assets /\ None \notin Listed
    BY ConstantFacts DEF Listed
  <2>3. /\ worker' \in WorkerType /\ worker'.pc = "images" /\ worker'.kind = worker.kind
        /\ worker'.list = 0 /\ worker'.errors = 0
        /\ worker'.ended = {} /\ worker'.jobs = worker.jobs /\ worker'.at = worker.at
        /\ worker'.sure = Listed /\ worker'.todo = Listed /\ worker'.told = worker.told
        /\ worker'.expand = worker.expand /\ worker'.metas = worker.metas
        /\ worker'.alts = worker.alts
    BY <1>1, <1>2, <2>2 DEF WorkerType, Places
  <2>4. WorkerTypes' /\ Stock'
    BY <1>1, <2>1, <2>3, StockMove DEF IInv, WorkerSound, WorkerTypes
  <2>5. Counted' /\ PhotoSound' /\ ItemSound'
    <3>1. Cardinality(Assets \ Ahead') \in Nat
      BY PartsFinite
    <3> QED BY <2>3, <3>1 DEF Counted, PhotoSound, PhotoPlaces, ItemSound
  <2>6. Clean'
    <3>1. \A i \in Items : i \in Ahead'
      BY <1>1, <2>3, TurnFacts DEF Ahead, Later
    <3>2. \A m \in worker'.sure : row'[m].in /\ m \in Ahead'
      BY <2>1, <2>2, <2>3 DEF Ahead, Listed, Grows
    <3>3. suspect' \cap Items = {}
      BY <1>2
    <3> QED BY <3>1, <3>2, <3>3 DEF Clean, Due
  <2>7. Shape'
    BY <1>1, <2>2, <2>3 DEF Shape, Fetching, PhotoPlaces
  <2> QED BY <2>1, <2>4, <2>5, <2>6, <2>7 DEF IInv, WorkerSound
<1>3. ASSUME NEW part \in SUBSET stale, row' = Cleared(part), suspect' = suspect \ part, Abort
      PROVE  IInv'
  <2>1. DiskSound'
    BY <1>1, <1>3, ClearMove
  <2> QED BY <1>3, <2>1, StopsSound DEF IInv, Abort
<1> QED BY <1>2, <1>3 DEF Reconcile

-----------------------------------------------------------------------------
(* Photos.                                                                 *)

LEMMA PhotoFacts ==
  ASSUME IInv, worker.pc \in PhotoPlaces
  PROVE  /\ worker \in WorkerType /\ DiskSound
         /\ worker.at \in Images /\ worker.at \in Assets /\ worker.at # None
         /\ worker.todo \subseteq Images \ {worker.at}
         /\ worker.ended = {} /\ worker.list = 0
         /\ \A i \in Items : worker.jobs[i].set =>
              worker.jobs[i].in /\ Valid(worker.jobs[i].image) /\ Valid(worker.jobs[i].thumb)
         /\ worker.expand \cup worker.metas \cup worker.alts \subseteq SticonPacks
         /\ worker.at \in Ahead
BY ConstantFacts
   DEF IInv, WorkerSound, WorkerTypes, Shape, ItemSound, PhotoPlaces, Ahead

\* What a step on the photo at work leaves alone.
Others ==
  /\ UNCHANGED <<pack, alt, setup>>
  /\ \A a \in Assets \ {worker.at} : row'[a] = row[a] /\ file'[a] = file[a]
  /\ row[worker.at].in => row'[worker.at].in
  /\ suspect' \subseteq suspect \cup {worker.at}

LEMMA OthersFacts ==
  ASSUME IInv, worker.pc \in PhotoPlaces, Others
  PROVE  /\ \A n : Later(n)' = Later(n)
         /\ worker.kind # "live" => suspect' \cap Items = {}
         /\ \A m \in worker.sure : row'[m].in
         /\ \A i \in Items : row'[i] = row[i]
         /\ \A a \in Assets \ {worker.at} : Complete(a) => Complete(a)'
         /\ \A p \in setup.owned : Stocked(p) => Stocked(p)'
<1>1. worker.at \in Images /\ Items \subseteq Assets \ {worker.at} /\ worker.sure \subseteq Images
  BY PhotoFacts, ConstantFacts DEF WorkerType
<1>2. \A n : Later(n)' = Later(n)
  BY DEF Others, Later, Turn
<1>3. worker.kind # "live" => suspect \cap Items = {}
  BY DEF IInv, WorkerSound, Clean, Fetching
<1>4. \A m \in worker.sure : row[m].in
  BY DEF IInv, WorkerSound, Clean
<1>5. \A a \in Assets \ {worker.at} : Complete(a) => Complete(a)'
  BY DEF Others, Complete, Whole, Shown
<1>6. \A p \in setup.owned : Stocked(p) => Stocked(p)'
  BY <1>1, PackFacts, ConstantFacts DEF Others, Stocked, IInv, DiskSound, DiskTypes
<1>7. \A m \in worker.sure : row'[m].in
  BY <1>1, <1>4, ConstantFacts DEF Others
<1> QED BY <1>1, <1>2, <1>3, <1>5, <1>6, <1>7 DEF Others

\* The next step on the same photo.
LEMMA PhotoStep ==
  ASSUME IInv, worker.pc \in PhotoPlaces, DiskSound', Others, PhotoSound',
         NEW q \in PhotoPlaces, NEW h \in BOOLEAN,
         worker' = [worker EXCEPT !.pc = q, !.have = h]
  PROVE  IInv'
<1>1. /\ worker' \in WorkerType /\ worker'.pc = q /\ worker'.have = h
      /\ worker'.kind = worker.kind /\ worker'.at = worker.at /\ worker'.todo = worker.todo
      /\ worker'.list = worker.list /\ worker'.errors = worker.errors
      /\ worker'.ended = worker.ended /\ worker'.jobs = worker.jobs
      /\ worker'.sure = worker.sure /\ worker'.told = worker.told
      /\ worker'.owned = worker.owned /\ worker'.expand = worker.expand
      /\ worker'.metas = worker.metas /\ worker'.alts = worker.alts
  BY PhotoFacts DEF WorkerType, Places, PhotoPlaces
<1>2. Ahead' = Ahead
  BY <1>1, OthersFacts DEF Ahead
<1>3. WorkerTypes' /\ Counted' /\ ItemSound'
  BY <1>1, <1>2, PhotoFacts
     DEF IInv, WorkerSound, WorkerTypes, Counted, ItemSound, PhotoPlaces
<1>4. Shape'
  BY <1>1, PhotoFacts DEF IInv, WorkerSound, Shape, PhotoPlaces, Fetching
<1>5. Stock'
  BY <1>1, OthersFacts DEF IInv, WorkerSound, Stock, PhotoPlaces, Others
<1>6. Clean'
  <2>1. ASSUME worker.kind # "live", worker.errors = 0, NEW a \in Due', a \notin Ahead
        PROVE  Complete(a)'
    <3>1. a \in Due /\ a \in Assets \ {worker.at}
      BY <1>1, <2>1, OthersFacts, PhotoFacts, ConstantFacts DEF Due, Others, WorkerType
    <3> QED BY <2>1, <3>1, OthersFacts DEF IInv, WorkerSound, Clean, Fetching
  <2> QED BY <1>1, <1>2, <2>1, OthersFacts DEF Clean
<1> QED BY <1>3, <1>4, <1>5, <1>6 DEF IInv, WorkerSound

\* The photo is finished; one without an error is complete.
LEMMA PhotoOver ==
  ASSUME IInv, worker.pc \in PhotoPlaces, DiskSound', Others, NEW err \in {0, 1},
         PhotoEnds(err),
         \A m \in worker.sure : err = 0 /\ m = worker.at => Complete(m)'
  PROVE  IInv'
<1>1. CASE worker.kind = "live"
  BY <1>1, StopsSound DEF PhotoEnds, IInv
<1>2. CASE worker.kind # "live"
  <2> DEFINE e == worker.errors + err
  <2>1. worker' = [worker EXCEPT !.pc = "images", !.at = None, !.have = FALSE, !.errors = e]
    BY <1>2, PhotoFacts DEF PhotoEnds, WorkerType
  <2>2. Cardinality(Assets) \in Nat /\ worker.errors \in Nat
    BY PhotoFacts, ConstantFacts, FS_CardinalityType DEF WorkerType
  <2>3. /\ worker'.pc = "images" /\ worker'.have = FALSE /\ worker'.errors = e
        /\ worker'.kind = worker.kind /\ worker'.at = None /\ worker'.todo = worker.todo
        /\ worker'.list = worker.list
        /\ worker'.ended = worker.ended /\ worker'.jobs = worker.jobs
        /\ worker'.sure = worker.sure /\ worker'.told = worker.told
        /\ worker'.owned = worker.owned /\ worker'.expand = worker.expand
        /\ worker'.metas = worker.metas /\ worker'.alts = worker.alts
    BY <2>1, PhotoFacts DEF WorkerType
  <2>4. Ahead' = Ahead \ {worker.at}
    BY <1>2, <2>3, OthersFacts, PhotoFacts, ConstantFacts DEF Ahead, Later
  <2>5. e <= Cardinality(Assets \ Ahead')
    <3>1. Cardinality(Assets \ Ahead) + 1 <= Cardinality(Assets \ Ahead')
      BY <2>4, PhotoFacts, BehindGrowsBy
    <3>2. worker.errors <= Cardinality(Assets \ Ahead)
      BY DEF IInv, WorkerSound, Counted
    <3>3. Cardinality(Assets \ Ahead) \in Nat /\ Cardinality(Assets \ Ahead') \in Nat
      BY PartsFinite
    <3> QED BY <2>2, <3>1, <3>2, <3>3
  <2>6. e \in 0..Cardinality(Assets)
    <3>1. Cardinality(Assets \ Ahead') \in 0..Cardinality(Assets)
      BY PartsFinite
    <3> QED BY <2>2, <2>5, <3>1
  <2>7. worker' \in WorkerType
    <3> HIDE DEF e
    <3> QED BY <2>1, <2>6, PhotoFacts DEF WorkerType, Places
  <2>8. WorkerTypes' /\ Counted' /\ ItemSound' /\ PhotoSound'
    BY <2>3, <2>5, <2>7, PhotoFacts DEF WorkerTypes, Counted, ItemSound, PhotoSound, PhotoPlaces
  <2>9. Shape'
    <3> HIDE DEF e
    <3> QED BY <1>2, <2>3, PhotoFacts, ConstantFacts DEF Shape, PhotoPlaces, Fetching
  <2>10. Stock'
    BY <2>3, OthersFacts DEF IInv, WorkerSound, Stock, PhotoPlaces, Others
  <2>11. Clean'
    <3>1. ASSUME e = 0, NEW a \in Due', a \notin Ahead' PROVE Complete(a)'
      <4>1. err = 0 /\ worker.errors = 0
        BY <2>2, <3>1
      <4>2. a \in Due /\ a \in Assets
        BY <2>3, OthersFacts, PhotoFacts, ConstantFacts DEF Due, Others, WorkerType
      <4>3. CASE a = worker.at
        <5>1. a \in worker.sure
          BY <4>2, <4>3, PhotoFacts, ConstantFacts DEF Due
        <5> QED BY <4>1, <4>3, <5>1
      <4>4. CASE a # worker.at
        BY <1>2, <2>4, <3>1, <4>1, <4>2, <4>4, OthersFacts DEF IInv, WorkerSound, Clean, Fetching
      <4> QED BY <4>3, <4>4
    <3> HIDE DEF e
    <3> QED BY <1>2, <2>3, <3>1, OthersFacts DEF Clean
  <2> QED BY <2>8, <2>9, <2>10, <2>11 DEF IInv, WorkerSound
<1> QED BY <1>1, <1>2

LEMMA PhotoGoes ==
  ASSUME IInv, worker.pc \in PhotoPlaces, DiskSound', Others, PhotoSound',
         NEW q \in PhotoPlaces, worker' = [worker EXCEPT !.pc = q]
  PROVE  IInv'
<1>1. worker.have \in BOOLEAN /\ worker' = [worker EXCEPT !.pc = q, !.have = worker.have]
  BY PhotoFacts DEF WorkerType
<1> QED BY <1>1, PhotoStep

LEMMA PhotoFields ==
  ASSUME worker \in WorkerType, NEW q, worker' = [worker EXCEPT !.pc = q]
  PROVE  /\ worker'.pc = q /\ worker'.at = worker.at /\ worker'.have = worker.have
         /\ worker'.sure = worker.sure
BY DEF WorkerType

LEMMA NothingMoves ==
  ASSUME IInv, UNCHANGED <<file, db, send, suspect, setup>>
  PROVE  DiskSound' /\ Others /\ (\A m \in Images : Whole(m)' = Whole(m) /\ Moves(m)' = Moves(m))
BY DiskKept DEF IInv, db, Others, Whole, Moves, Shown

LEMMA MediaPickInv ==
  ASSUME IInv, NEW m \in Images, MediaPick(m)
  PROVE  IInv'
<1>1. /\ worker \in WorkerType /\ worker.at = None /\ worker.ended = {} /\ worker.list = 0
      /\ worker.todo \subseteq Images /\ m \in worker.todo /\ m \in Assets /\ m # None
      /\ worker.kind # "live" /\ worker.pc = "images"
      /\ worker' = [worker EXCEPT !.pc = "check", !.at = m, !.todo = @ \ {m}]
  BY ConstantFacts DEF IInv, WorkerSound, WorkerTypes, Shape, ItemSound, PhotoPlaces, MediaPick
<1>2. DiskSound' /\ UNCHANGED <<file, row, pack, alt, send, suspect, setup>>
  BY DiskKept DEF MediaPick, IInv, db
<1>3. /\ worker' \in WorkerType /\ worker'.pc = "check" /\ worker'.at = m
      /\ worker'.todo = worker.todo \ {m}
      /\ worker'.kind = worker.kind /\ worker'.list = worker.list
      /\ worker'.errors = worker.errors /\ worker'.ended = worker.ended
      /\ worker'.jobs = worker.jobs /\ worker'.sure = worker.sure /\ worker'.told = worker.told
      /\ worker'.owned = worker.owned /\ worker'.expand = worker.expand
      /\ worker'.metas = worker.metas /\ worker'.alts = worker.alts
  BY <1>1 DEF WorkerType, Places
<1>4. Ahead' = Ahead
  BY <1>1, <1>2, <1>3 DEF Ahead, Later, Turn
<1>5. WorkerTypes' /\ Counted' /\ ItemSound' /\ PhotoSound'
  BY <1>1, <1>3, <1>4
     DEF IInv, WorkerSound, WorkerTypes, Counted, ItemSound, PhotoSound, Original
<1>6. Shape'
  BY <1>1, <1>3 DEF IInv, WorkerSound, Shape, PhotoPlaces, Fetching
<1>7. Stock'
  BY <1>1, <1>2, <1>3 DEF IInv, WorkerSound, Stock, Stocked
<1>8. Clean'
  BY <1>1, <1>2, <1>3, <1>4
     DEF IInv, WorkerSound, Clean, Due, Fetching, PhotoPlaces, Complete, Whole, Shown
<1> QED BY <1>2, <1>5, <1>6, <1>7, <1>8 DEF IInv, WorkerSound

LEMMA MediaCheckInv ==
  ASSUME IInv, MediaCheck
  PROVE  IInv'
<1> DEFINE ok == MediaOk(file[worker.at].image)
           q  == IF ok THEN "checkThumb" ELSE "clear"
<1>1. /\ worker.pc \in PhotoPlaces /\ worker \in WorkerType /\ worker.at \in Images
      /\ UNCHANGED <<file, db, send, suspect, setup>>
      /\ worker' = [worker EXCEPT !.pc = q, !.have = ok]
  BY PhotoFacts DEF MediaCheck, PhotoPlaces
<1>2. q \in PhotoPlaces /\ ok \in BOOLEAN
  BY DEF PhotoPlaces, MediaOk
<1>3. worker'.pc = q /\ worker'.at = worker.at /\ worker'.have = ok /\ worker'.sure = worker.sure
  BY <1>1 DEF WorkerType
<1>4. PhotoSound'
  <2>1. CASE ok
    <3>1. worker'.pc = "checkThumb" /\ file[worker.at].image = "good"
      BY <1>3, <2>1 DEF MediaOk
    <3> QED BY <1>1, <1>3, <3>1 DEF PhotoSound, MediaOk
  <2>2. CASE ~ok
    <3>1. worker'.pc = "clear" /\ ~worker'.have
      BY <1>3, <2>2
    <3> QED BY <3>1 DEF PhotoSound, Original
  <2> QED BY <2>1, <2>2
<1> HIDE DEF ok, q
<1> QED BY <1>1, <1>2, <1>4, PhotoStep, NothingMoves

LEMMA MediaCheckThumbInv ==
  ASSUME IInv, MediaCheckThumb
  PROVE  IInv'
<1> DEFINE m == worker.at
           q == IF Valid(file[m].thumb) THEN "stamp" ELSE "clear"
<1>1. /\ worker.pc \in PhotoPlaces /\ worker \in WorkerType /\ m \in Images /\ m \in Assets
      /\ worker.pc = "checkThumb" /\ UNCHANGED <<file, db, send, setup>>
      /\ worker' = [worker EXCEPT !.pc = q] /\ q \in PhotoPlaces
      /\ suspect' = IF Whole(m) THEN suspect \ {m} ELSE suspect
  BY PhotoFacts DEF MediaCheckThumb, PhotoPlaces
<1>2. worker'.pc = q /\ worker'.at = m /\ worker'.have = worker.have /\ worker'.sure = worker.sure
  BY <1>1, PhotoFields
<1>3. DiskSound'
  <2>1. /\ row' \in [Assets -> Row] /\ pack' \in [Packs -> PackRow] /\ alt' \subseteq Sticons
        /\ suspect' \subseteq Assets /\ DiskSound
    BY <1>1 DEF IInv, DiskSound, DiskTypes, db
  <2>2. \A a \in suspect \ suspect' : ~row'[a].set \/ (row'[a] = row[a] /\ Whole(a))
    BY <1>1 DEF db
  <2> QED BY <1>1, <2>1, <2>2, RowsMove DEF db
<1>4. Others
  BY <1>1 DEF Others, db
<1>5. Whole(m)' = Whole(m) /\ Moves(m)' = Moves(m)
  BY <1>1, <1>2 DEF Whole, Shown, Moves, db
<1>6. PhotoSound'
  <2>1. /\ file[m].image # "other" /\ (MediaOk(file[m].image) \/ Moves(m) \/ m \in suspect)
        /\ m \in worker.sure => MediaOk(file[m].image)
    BY <1>1 DEF IInv, WorkerSound, PhotoSound, Original
  <2>2. q = "stamp" => Whole(m) \/ Moves(m) \/ m \in suspect'
    BY <1>1, <2>1 DEF Whole
  <2>3. q = "stamp" /\ m \in worker.sure => Whole(m)
    BY <1>1, <2>1 DEF Whole
  <2> QED BY <1>1, <1>2, <1>5, <2>1, <2>2, <2>3 DEF PhotoSound, Original, Whole, Moves, db
<1> HIDE DEF q
<1> QED BY <1>1, <1>3, <1>4, <1>6, PhotoGoes

LEMMA MediaClearInv ==
  ASSUME IInv, MediaClear
  PROVE  IInv'
<1> DEFINE m == worker.at
           q == IF worker.have THEN "thumb" ELSE "fetch"
<1>1. /\ worker.pc \in PhotoPlaces /\ worker \in WorkerType /\ m \in Images /\ m \in Assets
      /\ worker.pc = "clear" /\ UNCHANGED <<file, pack, alt, send, setup>>
      /\ q \in PhotoPlaces /\ DiskSound
  BY PhotoFacts DEF MediaClear, PhotoPlaces
<1>2. CASE /\ row' = Cleared({m}) /\ suspect' = suspect \ {m}
           /\ worker' = [worker EXCEPT !.pc = q]
  <2>1. worker'.pc = q /\ worker'.at = m /\ worker'.have = worker.have /\ worker'.sure = worker.sure
    BY <1>1, <1>2, PhotoFields
  <2>2. /\ {m} \in SUBSET Assets /\ suspect' \subseteq suspect
        /\ \A a \in suspect \ suspect' : a \in {m} \/ Whole(a) \/ ~row[a].set
    BY <1>1, <1>2
  <2>3. DiskSound' /\ Grows
    BY <1>1, <1>2, <2>2, ClearMove
  <2>4. ~row'[m].set /\ \A a \in Assets \ {m} : row'[a] = row[a]
    BY <1>1, <1>2, <2>2, ClearedFacts
  <2>5. Others
    BY <1>1, <1>2, <2>3, <2>4 DEF Others, Grows
  <2>6. PhotoSound'
    <3>1. worker.have => file[m].image # "other" /\ (m \in worker.sure => MediaOk(file[m].image))
      BY <1>1 DEF IInv, WorkerSound, PhotoSound, Original
    <3> QED BY <1>1, <2>1, <2>4, <3>1 DEF PhotoSound, Original
  <2> HIDE DEF q
  <2> QED BY <1>1, <1>2, <2>3, <2>5, <2>6, PhotoGoes
<1>3. CASE Abort /\ UNCHANGED <<row, suspect>>
  BY <1>1, <1>3, DiskKept, StopsSound DEF Abort, IInv, db
<1> QED BY <1>1, <1>2, <1>3 DEF MediaClear

\* A file of one photo is replaced.
LEMMA PhotoFile ==
  ASSUME DiskSound, NEW m \in Images, NEW f \in Files, file' = [file EXCEPT ![m] = f],
         UNCHANGED <<db, send, setup>>, suspect \subseteq suspect', suspect' \subseteq Assets,
         row[m].set /\ ~(MediaOk(f.image) /\ Valid(f.thumb)) => m \in suspect' \/ Moves(m)
  PROVE  DiskSound' /\ file'[m] = f /\ \A a \in Assets \ {m} : file'[a] = file[a]
<1>1. file \in [Assets -> Files] /\ m \in Assets
  BY ConstantFacts DEF DiskSound, DiskTypes
<1>2. file' \in [Assets -> Files] /\ file'[m] = f /\ \A a \in Assets \ {m} : file'[a] = file[a]
  BY <1>1
<1>3. DiskTypes'
  BY <1>2 DEF DiskSound, DiskTypes, db
<1>4. ASSUME NEW a \in Assets, row'[a].set, ~Whole(a)'
      PROVE  a \in suspect' \/ (a \in Images /\ Moves(a)')
  <2>1. CASE a = m
    BY <1>2, <1>4, <2>1 DEF Whole, Moves, db
  <2>2. CASE a # m
    BY <1>2, <1>4, <2>2 DEF DiskSound, NamedFilesWhole, Whole, Shown, Moves, db
  <2> QED BY <2>1, <2>2
<1> QED BY <1>2, <1>3, <1>4 DEF DiskSound, NamedFilesWhole

LEMMA MediaFetchInv ==
  ASSUME IInv, MediaFetch
  PROVE  IInv'
<1> DEFINE m == worker.at
<1>1. /\ worker.pc \in PhotoPlaces /\ worker \in WorkerType /\ m \in Images /\ m \in Assets
      /\ worker.pc = "fetch" /\ UNCHANGED <<db, send, setup>> /\ DiskSound
      /\ row[m].set => send[m] = "done"
  BY PhotoFacts DEF MediaFetch, PhotoPlaces, IInv, WorkerSound, PhotoSound
<1>2. ASSUME NEW c \in Opened(m), Published(m, c),
             suspect' = IF ~MediaOk(c) /\ send[m] = "done" THEN suspect \union {m} ELSE suspect,
             worker' = [worker EXCEPT !.pc = "verify"]
      PROVE  IInv'
  <2> DEFINE f == [file[m] EXCEPT !.image = c]
  <2>1. file[m] \in Files /\ c \in Contents /\ suspect \subseteq Assets
    BY <1>1 DEF DiskSound, DiskTypes, Opened, Contents
  <2>2. f \in Files /\ f.image = c /\ f.thumb = file[m].thumb
    BY <2>1 DEF Files
  <2>3. file' = [file EXCEPT ![m] = f]
    BY <1>1, <1>2 DEF Published
  <2> HIDE DEF f
  <2>4. row[m].set /\ ~(MediaOk(f.image) /\ Valid(f.thumb)) => m \in suspect' \/ Moves(m)
    BY <1>1, <1>2, <2>2 DEF DiskSound, NamedFilesWhole, Whole, Moves
  <2>5. suspect \subseteq suspect' /\ suspect' \subseteq Assets
        /\ suspect' \subseteq suspect \cup {m}
    BY <1>1, <1>2, <2>1
  <2>6. DiskSound' /\ \A a \in Assets \ {m} : file'[a] = file[a]
    BY <1>1, <2>2, <2>3, <2>4, <2>5, PhotoFile
  <2>7. Others
    BY <1>1, <2>5, <2>6 DEF Others, db
  <2>8. worker'.pc = "verify" /\ worker'.at = m
    BY <1>1, <1>2, PhotoFields
  <2>9. PhotoSound'
    BY <1>1, <2>8 DEF PhotoSound, Original, db
  <2> QED BY <1>1, <1>2, <2>6, <2>7, <2>9, PhotoGoes DEF PhotoPlaces
<1>3. CASE Unavailable
  <2>1. PhotoEnds(1) /\ DiskSound' /\ Others
    BY <1>1, <1>3, NothingMoves DEF Unavailable
  <2> QED BY <1>1, <2>1, PhotoOver
<1> QED BY <1>2, <1>3 DEF MediaFetch

LEMMA MediaVerifyInv ==
  ASSUME IInv, MediaVerify
  PROVE  IInv'
<1>1. /\ worker.pc \in PhotoPlaces /\ worker \in WorkerType /\ worker.at \in Images
      /\ worker.pc = "verify" /\ UNCHANGED <<file, db, send, suspect, setup>>
  BY PhotoFacts DEF MediaVerify, PhotoPlaces
<1>2. CASE MediaOk(file[worker.at].image) /\ worker' = [worker EXCEPT !.pc = "thumb"]
  <2>1. worker'.pc = "thumb" /\ worker'.at = worker.at /\ worker'.sure = worker.sure
    BY <1>1, <1>2, PhotoFields
  <2>2. row[worker.at].set => send[worker.at] = "done"
    BY <1>1 DEF IInv, WorkerSound, PhotoSound
  <2>3. PhotoSound'
    BY <1>1, <1>2, <2>1, <2>2 DEF PhotoSound, Original, MediaOk, db
  <2> QED BY <1>1, <1>2, <2>3, NothingMoves, PhotoGoes DEF PhotoPlaces
<1>3. CASE PhotoEnds(1)
  BY <1>1, <1>3, NothingMoves, PhotoOver
<1> QED BY <1>2, <1>3 DEF MediaVerify

LEMMA MediaThumbInv ==
  ASSUME IInv, MediaThumb
  PROVE  IInv'
<1> DEFINE m == worker.at
<1>1. /\ worker.pc \in PhotoPlaces /\ worker \in WorkerType /\ m \in Images /\ m \in Assets
      /\ worker.pc = "thumb" /\ UNCHANGED <<db, send, suspect, setup>> /\ DiskSound
      /\ file[m].image # "other"
  BY PhotoFacts DEF MediaThumb, PhotoPlaces, IInv, WorkerSound, PhotoSound, Original
<1>2. CASE /\ Valid(file[m].image)
           /\ file' = [file EXCEPT ![m].thumb = "good"]
           /\ worker' = [worker EXCEPT !.pc = "stamp"]
  <2> DEFINE f == [file[m] EXCEPT !.thumb = "good"]
  <2>1. file[m] \in Files /\ suspect \subseteq Assets /\ file[m].image = "good"
    BY <1>1, <1>2 DEF DiskSound, DiskTypes, Valid
  <2>2. f \in Files /\ f.image = "good" /\ f.thumb = "good"
    BY <2>1 DEF Files, Contents
  <2>3. file' = [file EXCEPT ![m] = f]
    BY <1>1, <1>2
  <2> HIDE DEF f
  <2>4. DiskSound' /\ file'[m] = f /\ \A a \in Assets \ {m} : file'[a] = file[a]
    BY <1>1, <2>1, <2>2, <2>3, PhotoFile DEF MediaOk, Valid
  <2>5. Others
    BY <1>1, <2>4 DEF Others, db
  <2>6. worker'.pc = "stamp" /\ worker'.at = m
    BY <1>1, <1>2, PhotoFields
  <2>7. PhotoSound'
    BY <1>1, <2>2, <2>4, <2>6 DEF PhotoSound, Original, Whole, MediaOk, Valid
  <2> QED BY <1>1, <1>2, <2>4, <2>5, <2>7, PhotoGoes DEF PhotoPlaces
<1>3. CASE PhotoEnds(1) /\ UNCHANGED file
  BY <1>1, <1>3, NothingMoves, PhotoOver
<1> QED BY <1>1, <1>2, <1>3 DEF MediaThumb

\* A row is stamped with both files.
LEMMA StampMove ==
  ASSUME DiskSound, NEW m \in Images, row' = Stamped(m), UNCHANGED <<file, pack, alt, setup>>,
         suspect' \ {m} = suspect \ {m}, suspect' \subseteq Assets,
         send' \in [Images -> SendPlaces], \A n \in Images \ {m} : send'[n] = send[n],
         Whole(m) \/ m \in suspect' \/ Moves(m)'
  PROVE  /\ DiskSound'
         /\ \A a \in Assets \ {m} : row'[a] = row[a]
         /\ row[m].in => row'[m].in /\ row'[m].set
         /\ row' \in [Assets -> Row]
<1>1. row \in [Assets -> Row] /\ m \in Assets
  BY ConstantFacts DEF DiskSound, DiskTypes
<1>2. Named(FALSE, "good", "good") \in Row /\ Named(FALSE, "good", "good").in
      /\ Named(FALSE, "good", "good").set /\ Named(FALSE, "good", "good").image = "good"
      /\ Named(FALSE, "good", "good").thumb = "good"
  BY DEF Named, Row, Contents
<1>3. /\ row' \in [Assets -> Row] /\ \A a \in Assets \ {m} : row'[a] = row[a]
      /\ row[m].in => row'[m] = Named(FALSE, "good", "good")
      /\ ~row[m].in => row'[m] = row[m]
  BY <1>1, <1>2 DEF Stamped
<1>4. DiskTypes'
  BY <1>2, <1>3 DEF DiskSound, DiskTypes, Valid
<1>5. ASSUME NEW a \in Assets, row'[a].set, ~Whole(a)'
      PROVE  a \in suspect' \/ (a \in Images /\ Moves(a)')
  <2>1. CASE a = m
    BY <1>5, <2>1 DEF Whole
  <2>2. CASE a # m
    <3>1. row[a].set /\ ~Whole(a)
      BY <1>3, <1>5, <2>2 DEF Whole, Shown
    <3> QED BY <2>2, <3>1 DEF DiskSound, NamedFilesWhole, Moves
  <2> QED BY <2>1, <2>2
<1> QED BY <1>2, <1>3, <1>4, <1>5 DEF DiskSound, NamedFilesWhole

LEMMA MediaStampInv ==
  ASSUME IInv, MediaStamp
  PROVE  IInv'
<1> DEFINE m == worker.at
<1>1. /\ worker.pc \in PhotoPlaces /\ worker \in WorkerType /\ m \in Images /\ m \in Assets
      /\ worker.pc = "stamp" /\ UNCHANGED <<file, pack, alt, send, suspect, setup>>
      /\ DiskSound
  BY PhotoFacts DEF MediaStamp, PhotoPlaces
<1>2. /\ Whole(m) \/ Moves(m) \/ m \in suspect
      /\ m \in worker.sure => Whole(m) /\ row[m].in
  BY <1>1 DEF IInv, WorkerSound, PhotoSound, Clean
<1>3. CASE row' = Stamped(m) /\ PhotoEnds(0)
  <2>1. suspect' \subseteq Assets /\ send' \in [Images -> SendPlaces]
    BY <1>1 DEF DiskSound, DiskTypes
  <2>2. Moves(m) => \A n \in Images : n = m => Moves(n)'
    BY <1>1 DEF Moves
  <2>3. /\ DiskSound' /\ \A a \in Assets \ {m} : row'[a] = row[a]
        /\ row[m].in => row'[m].in /\ row'[m].set
    <3>1. ASSUME NEW n \in Images, n = m
          PROVE  /\ DiskSound' /\ \A a \in Assets \ {n} : row'[a] = row[a]
                 /\ row[n].in => row'[n].in /\ row'[n].set
      BY <1>1, <1>2, <1>3, <2>1, <2>2, <3>1, StampMove
    <3> QED BY <1>1, <3>1
  <2>4. Others
    BY <1>1, <2>3 DEF Others
  <2>5. \A n \in worker.sure : n = m => Complete(n)'
    BY <1>1, <1>2, <2>3 DEF Complete, Whole
  <2> QED BY <1>1, <1>3, <2>3, <2>4, <2>5, PhotoOver
<1>4. CASE Abort /\ UNCHANGED row
  BY <1>1, <1>4, DiskKept, StopsSound DEF Abort, IInv, db
<1> QED BY <1>1, <1>3, <1>4 DEF MediaStamp

-----------------------------------------------------------------------------
(* Lists of items.                                                         *)

LEMMA ListFacts ==
  ASSUME DiskSound, NEW n \in 1..4
  PROVE  /\ ListOf(n) \subseteq Items /\ \A i \in ListOf(n) : ~row[i].set /\ Turn(i) = n
         /\ \A i \in Items : Turn(i) = n /\ row[i].in /\ pack[PackOf[i]].in /\ i \notin ListOf(n)
              => row[i].set
<1>1. \A i \in Items : pack[PackOf[i]].owned \in BOOLEAN
  BY ConstantFacts DEF DiskSound, DiskTypes, PackRow
<1>2. \A i \in Items : i \in Stickers \/ i \in Sticons
  BY DEF Items
<1>3. Stickers \subseteq Items /\ Sticons \subseteq Items
  BY DEF Items
<1>4. n = 1 \/ n = 2 \/ n = 3 \/ n = 4
  OBVIOUS
<1>5. CASE n = 1
  BY <1>1, <1>2, <1>3, <1>5, ConstantFacts DEF ListOf, Turn
<1>6. CASE n = 2
  BY <1>1, <1>2, <1>3, <1>6, ConstantFacts DEF ListOf, Turn
<1>7. CASE n = 3
  BY <1>1, <1>2, <1>3, <1>7, ConstantFacts DEF ListOf, Turn
<1>8. CASE n = 4
  BY <1>1, <1>2, <1>3, <1>8, ConstantFacts DEF ListOf, Turn
<1> QED BY <1>4, <1>5, <1>6, <1>7, <1>8

LEMMA FoundFacts ==
  ASSUME NEW i \in Items, NEW f \in Files
  PROVE  /\ Found(i, f) \in Row
         /\ Found(i, f).set =>
              /\ Found(i, f).in /\ Valid(Found(i, f).image) /\ Valid(Found(i, f).thumb)
              /\ Valid(Shown(Found(i, f), f)) /\ Valid(f.thumb)
              /\ Shown(Found(i, f), f) = Found(i, f).image /\ f.thumb = Found(i, f).thumb
<1>1. f.image \in Contents /\ f.thumb \in Contents
  BY DEF Files
<1>2. CASE ~Valid(f.thumb) \/ (Required(i) /\ ~Valid(f.image))
  BY <1>2, DataFacts DEF Found
<1>3. CASE Valid(f.thumb) /\ (Required(i) => Valid(f.image))
  <2>1. CASE Required(i) \/ (i \in Sticons /\ Valid(f.image))
    <3>1. Found(i, f) = Named(FALSE, f.image, f.thumb) /\ Valid(f.image)
      BY <1>3, <2>1 DEF Found
    <3> QED BY <1>1, <1>3, <3>1 DEF Named, Row, Shown
  <2>2. CASE ~(Required(i) \/ (i \in Sticons /\ Valid(f.image)))
    <3>1. Found(i, f) = Named(TRUE, f.thumb, f.thumb)
      BY <1>3, <2>2 DEF Found
    <3> QED BY <1>1, <1>3, <3>1 DEF Named, Row, Shown
  <2> QED BY <2>1, <2>2
<1> QED BY <1>2, <1>3

LEMMA ListWorker ==
  ASSUME worker \in WorkerType, NEW n \in 0..4, NEW L \in SUBSET Assets,
         worker' = [worker EXCEPT !.pc = "items", !.list = n, !.todo = L]
  PROVE  /\ worker' \in WorkerType /\ worker'.pc = "items" /\ worker'.at = worker.at
         /\ worker'.todo = L /\ worker'.list = n
         /\ worker'.kind = worker.kind /\ worker'.errors = worker.errors
         /\ worker'.ended = worker.ended /\ worker'.jobs = worker.jobs
         /\ worker'.sure = worker.sure /\ worker'.told = worker.told
         /\ worker'.owned = worker.owned /\ worker'.expand = worker.expand
         /\ worker'.metas = worker.metas /\ worker'.alts = worker.alts
BY DEF WorkerType, Places

\* A sync goes on to its next list.
LEMMA ListStep ==
  ASSUME IInv, worker.pc \in {"images", "items"}, worker.todo = {}, worker.ended = {},
         worker.kind # "live", worker.list \in 0..3, DiskSound',
         UNCHANGED <<file, row, pack, alt, send, suspect, setup>>,
         worker' = [worker EXCEPT !.pc = "items", !.list = worker.list + 1,
                                  !.todo = ListOf(worker.list + 1)]
  PROVE  IInv'
<1> DEFINE n == worker.list + 1
<1>1. /\ worker \in WorkerType /\ worker.at = None /\ n \in 1..4 /\ DiskSound
      /\ ListOf(n) \subseteq Items /\ Items \subseteq Assets
      /\ worker.sure \subseteq Images /\ suspect \cap Items = {}
      /\ worker.expand \cup worker.metas \cup worker.alts \subseteq SticonPacks
      /\ worker' = [worker EXCEPT !.pc = "items", !.list = n, !.todo = ListOf(n)]
      /\ n \in 0..4 /\ n = worker.list + 1
  BY ListFacts, ConstantFacts
     DEF IInv, WorkerSound, WorkerTypes, WorkerType, Shape, Clean, Fetching, PhotoPlaces
<1> HIDE DEF n
<1>2. /\ worker' \in WorkerType /\ worker'.pc = "items" /\ worker'.at = None
      /\ worker'.todo = ListOf(n) /\ worker'.list = n
      /\ worker'.kind = worker.kind /\ worker'.errors = worker.errors
      /\ worker'.ended = {} /\ worker'.jobs = worker.jobs /\ worker'.sure = worker.sure
      /\ worker'.told = worker.told
      /\ worker'.owned = worker.owned /\ worker'.expand = worker.expand
      /\ worker'.metas = worker.metas /\ worker'.alts = worker.alts
  <2>1. ListOf(n) \in SUBSET Assets
    BY <1>1
  <2>2. /\ n \in 0..4 /\ worker \in WorkerType
        /\ worker' = [worker EXCEPT !.pc = "items", !.list = n, !.todo = ListOf(n)]
    BY <1>1
  <2>3. /\ worker' \in WorkerType /\ worker'.pc = "items" /\ worker'.at = worker.at
        /\ worker'.todo = ListOf(n) /\ worker'.list = n
        /\ worker'.kind = worker.kind /\ worker'.errors = worker.errors
        /\ worker'.ended = worker.ended /\ worker'.jobs = worker.jobs
        /\ worker'.sure = worker.sure /\ worker'.told = worker.told
        /\ worker'.owned = worker.owned /\ worker'.expand = worker.expand
        /\ worker'.metas = worker.metas /\ worker'.alts = worker.alts
    BY <2>1, <2>2, ListWorker
  <2> QED BY <1>1, <2>3
<1>3. /\ Ahead = {i \in Items : worker.list < Turn(i)}
      /\ Ahead' = ListOf(n) \cup {i \in Items : n < Turn(i)}
      /\ \A i \in Items : Turn(i)' = Turn(i)
  BY <1>1, <1>2 DEF Ahead, Later, Turn
<1>4. \A i \in ListOf(n) : Turn(i) = n /\ ~row[i].set
  BY <1>1, ListFacts
<1>5. Ahead' \subseteq Ahead
  BY <1>1, <1>3, <1>4, TurnFacts
<1>6. Counted'
  <2>1. Cardinality(Assets \ Ahead) <= Cardinality(Assets \ Ahead')
    BY <1>5, BehindGrows
  <2>2. /\ Cardinality(Assets \ Ahead) \in Nat /\ Cardinality(Assets \ Ahead') \in Nat
        /\ worker.errors \in Nat
    <3>1. worker.errors \in 0..Cardinality(Assets) /\ Cardinality(Assets) \in Nat
      BY <1>1, ConstantFacts, FS_CardinalityType DEF WorkerType
    <3> QED BY <3>1, PartsFinite
  <2> QED BY <1>2, <2>1, <2>2 DEF IInv, WorkerSound, Counted
<1>7. WorkerTypes' /\ PhotoSound' /\ ItemSound'
  BY <1>1, <1>2, <1>3, <1>4
     DEF IInv, WorkerSound, WorkerTypes, PhotoSound, PhotoPlaces, ItemSound
<1>8. Shape'
  BY <1>1, <1>2 DEF Shape, PhotoPlaces, Fetching
<1>9. Stock'
  BY <1>2 DEF IInv, WorkerSound, Stock, Stocked
<1>10. Clean'
  <2>1. Due' = Due /\ \A a \in Assets : Complete(a)' = Complete(a)
    BY <1>2 DEF Due, Complete, Whole, Shown
  <2>2. ASSUME worker.errors = 0, NEW a \in Due, a \notin Ahead' PROVE Complete(a)
    <3>1. CASE a \in Ahead
      <4>1. a \in Items /\ Turn(a) = n
        BY <1>1, <1>3, <2>2, <3>1, TurnFacts
      <4>2. row[a].in /\ pack[PackOf[a]].in
        BY <1>1, <2>2, <4>1, ConstantFacts DEF Due
      <4>3. row[a].set
        BY <1>1, <1>2, <1>3, <2>2, <4>1, <4>2, ListFacts
      <4> QED BY <1>1, <4>1, <4>3, ConstantFacts DEF Complete, DiskSound, NamedFilesWhole
    <3>2. CASE a \notin Ahead
      BY <2>2, <3>2 DEF IInv, WorkerSound, Clean, Fetching
    <3> QED BY <3>1, <3>2
  <2>3. Due \subseteq Assets
    BY <1>1, ConstantFacts DEF Due
  <2> QED BY <1>1, <1>2, <2>1, <2>2, <2>3 DEF Clean, IInv, WorkerSound
<1> QED BY <1>6, <1>7, <1>8, <1>9, <1>10 DEF IInv, WorkerSound

LEMMA ItemsBeginInv ==
  ASSUME IInv, ItemsBegin
  PROVE  IInv'
<1>1. /\ worker.pc = "images" /\ worker.todo = {} /\ worker.ended = {} /\ worker.kind # "live"
      /\ worker.list = 0
  BY DEF ItemsBegin, IInv, WorkerSound, Shape, ItemSound, PhotoPlaces
<1>2. DiskSound' /\ UNCHANGED <<file, row, pack, alt, send, suspect, setup>>
  BY DiskKept DEF ItemsBegin, IInv, db
<1> QED BY <1>1, <1>2, ListStep DEF ItemsBegin

LEMMA ItemsFacts ==
  ASSUME IInv, worker.pc = "items"
  PROVE  /\ worker \in WorkerType /\ DiskSound /\ worker.at = None
         /\ worker.todo \subseteq Items /\ worker.ended \subseteq Items
         /\ worker.todo \cap worker.ended = {}
         /\ worker.sure \subseteq Images
         /\ \A i \in Items : worker.jobs[i].set =>
              worker.jobs[i].in /\ Valid(worker.jobs[i].image) /\ Valid(worker.jobs[i].thumb)
         /\ worker.expand \cup worker.metas \cup worker.alts \subseteq SticonPacks
         /\ \A i \in worker.todo \cup worker.ended : ~row[i].set
         /\ worker.kind = "live" => worker.list = 0
         /\ worker.kind # "live" => suspect \cap Items = {}
         /\ worker.kind # "live" =>
              \A i \in worker.todo \cup worker.ended : Turn(i) = worker.list
BY DEF IInv, WorkerSound, WorkerTypes, WorkerType, Shape, ItemSound, PhotoPlaces, Clean, Fetching

LEMMA ItemsEndInv ==
  ASSUME IInv, ItemsEnd
  PROVE  IInv'
<1>1. /\ worker.pc = "items" /\ worker.todo = {} /\ worker.ended = {}
      /\ worker \in WorkerType /\ worker.at = None /\ worker.list \in 0..4
      /\ DiskSound' /\ UNCHANGED <<file, row, pack, alt, send, suspect, setup>>
      /\ worker.expand \cup worker.metas \cup worker.alts \subseteq SticonPacks
  BY ItemsFacts, DiskKept DEF ItemsEnd, IInv, db, WorkerType
<1>2. CASE worker.list = 0
  BY <1>1, <1>2, StopsSound DEF ItemsEnd, IInv
<1>3. CASE worker.list \in 1..3
  <2>1. worker' = [worker EXCEPT !.list = worker.list + 1, !.todo = ListOf(worker.list + 1)]
    BY <1>3 DEF ItemsEnd
  <2>2. worker' = [worker EXCEPT !.pc = "items", !.list = worker.list + 1,
                                 !.todo = ListOf(worker.list + 1)]
    BY <1>1, <2>1 DEF WorkerType
  <2> QED BY <1>1, <1>3, <2>2, ListStep, ItemsFacts
<1>4. CASE worker.list = 4
  <2>1. worker' = [worker EXCEPT !.pc = "finish"]
    BY <1>4 DEF ItemsEnd
  <2>2. /\ worker' \in WorkerType /\ worker'.pc = "finish" /\ worker'.at = None
        /\ worker'.todo = {} /\ worker'.list = 4
        /\ worker'.kind = worker.kind /\ worker'.errors = worker.errors
        /\ worker'.ended = {} /\ worker'.jobs = worker.jobs /\ worker'.sure = worker.sure
        /\ worker'.told = worker.told
        /\ worker'.owned = worker.owned /\ worker'.expand = worker.expand
        /\ worker'.metas = worker.metas /\ worker'.alts = worker.alts
    BY <1>1, <1>4, <2>1 DEF WorkerType, Places
  <2>3. Ahead' = Ahead /\ worker.kind # "live"
    BY <1>1, <1>4, <2>2, ItemsFacts DEF Ahead, Later, Turn
  <2>4. WorkerTypes' /\ Counted' /\ PhotoSound' /\ ItemSound'
    BY <1>1, <2>2, <2>3
       DEF IInv, WorkerSound, WorkerTypes, Counted, PhotoSound, PhotoPlaces, ItemSound
  <2>5. Shape'
    BY <1>1, <2>2, <2>3 DEF Shape, PhotoPlaces, Fetching
  <2>6. Stock'
    BY <1>1, <2>2 DEF IInv, WorkerSound, Stock, Stocked
  <2>7. Clean'
    BY <1>1, <2>2, <2>3
       DEF IInv, WorkerSound, Clean, Due, Fetching, PhotoPlaces, Complete, Whole, Shown
  <2> QED BY <1>1, <2>4, <2>5, <2>6, <2>7 DEF IInv, WorkerSound
<1> QED BY <1>1, <1>2, <1>3, <1>4

LEMMA StoppingInv ==
  ASSUME IInv, Finish \/ QueryFails
  PROVE  IInv'
BY DiskKept, StopsSound DEF Finish, QueryFails, Abort, IInv

\* What a step of the list leaves of a sync's obligations.
LEMMA ItemsClean ==
  ASSUME IInv, worker.pc = "items", worker'.kind = worker.kind, worker'.sure = worker.sure,
         worker'.pc = "items", worker'.told = worker.told, NEW i \in Items,
         UNCHANGED <<pack, send, suspect, setup>>,
         \A a \in Assets \ {i} : row'[a] = row[a] /\ file'[a] = file[a],
         row'[i].in = row[i].in, worker.errors \in Nat, worker'.errors \in Nat,
         worker'.errors >= worker.errors, Ahead \subseteq Ahead' \cup {i},
         worker'.errors = worker.errors => i \in Ahead' \/ (row[i].in => Complete(i)')
  PROVE  Clean' /\ Stock'
<1>1. /\ worker.sure \subseteq Images /\ i \in Assets /\ i \notin Images
      /\ \A m \in worker.sure : m \in Assets \ {i} /\ row[m].in
  BY ItemsFacts, ConstantFacts DEF IInv, WorkerSound, Clean
<1>2. \A a \in Items : row'[a].in = row[a].in
  BY ConstantFacts
<1>3. \A m \in worker'.sure : row'[m].in
  BY <1>1
<1>4. ASSUME worker.kind # "live", worker'.errors = 0, NEW a \in Due', a \notin Ahead'
      PROVE  Complete(a)'
  <2>1. a \in Due /\ a \in Assets
    BY <1>1, <1>2, <1>4, ConstantFacts DEF Due
  <2>2. worker.errors = 0 /\ worker'.errors = worker.errors
    BY <1>4
  <2>3. CASE a = i
    <3>1. row[i].in
      BY <1>1, <2>1, <2>3 DEF Due
    <3> QED BY <1>4, <2>2, <2>3, <3>1
  <2>4. CASE a # i
    <3>1. a \notin Ahead
      BY <1>4, <2>4
    <3>2. Complete(a)
      BY <1>4, <2>1, <2>2, <3>1 DEF IInv, WorkerSound, Clean, Fetching
    <3> QED BY <2>1, <2>4, <3>2 DEF Complete, Whole, Shown
  <2> QED BY <2>3, <2>4
<1>5. Clean'
  BY <1>3, <1>4, ItemsFacts DEF Clean
<1>6. Stock'
  <2>1. \A p \in setup.owned : p \in Packs /\ ItemsOf(p) \subseteq Items
    BY ConstantFacts, PackFacts DEF IInv, DiskSound, DiskTypes
  <2> QED BY <1>2, <2>1 DEF IInv, WorkerSound, Stock, Stocked
<1> QED BY <1>5, <1>6

LEMMA ItemJobInv ==
  ASSUME IInv, NEW i \in Items, ItemJob(i)
  PROVE  IInv'
<1>1. /\ worker.pc = "items" /\ i \in worker.todo /\ UNCHANGED <<db, send, suspect, setup>>
      /\ worker \in WorkerType /\ DiskSound /\ i \notin worker.ended /\ i \in Assets
      /\ i \notin Images /\ ~row[i].set /\ i # None /\ file[i] \in Files
  BY ItemsFacts, ConstantFacts DEF ItemJob, DiskSound, DiskTypes
<1>2. PICK thumb \in Fetched(file[i].thumb) :
      \E image \in IF Valid(thumb) /\ Wanted(i) THEN Fetched(file[i].image) ELSE {file[i].image} :
        LET f == [image |-> image, thumb |-> thumb] IN
        /\ file' = [file EXCEPT ![i] = f]
        /\ worker' = [worker EXCEPT !.todo = @ \ {i}, !.ended = @ \union {i},
                                    !.jobs[i] = Found(i, f)]
  BY DEF ItemJob
<1>3. PICK image \in IF Valid(thumb) /\ Wanted(i) THEN Fetched(file[i].image)
                     ELSE {file[i].image} :
        LET f == [image |-> image, thumb |-> thumb] IN
        /\ file' = [file EXCEPT ![i] = f]
        /\ worker' = [worker EXCEPT !.todo = @ \ {i}, !.ended = @ \union {i},
                                    !.jobs[i] = Found(i, f)]
  BY <1>2
<1> DEFINE f == [image |-> image, thumb |-> thumb]
           job == Found(i, f)
           jobs == [worker.jobs EXCEPT ![i] = job]
<1>4. f \in Files
  BY <1>1, <1>2, <1>3 DEF Fetched, Files, Contents
<1>5. job \in Row /\ (job.set => job.in /\ Valid(job.image) /\ Valid(job.thumb))
  BY <1>4, FoundFacts
<1>6. /\ file' = [file EXCEPT ![i] = f]
      /\ worker' = [worker EXCEPT !.todo = @ \ {i}, !.ended = @ \union {i}, !.jobs[i] = job]
  BY <1>3
<1> HIDE DEF f, job
<1>7. /\ worker' \in WorkerType /\ worker'.pc = "items" /\ worker'.at = worker.at
      /\ worker'.todo = worker.todo \ {i} /\ worker'.ended = worker.ended \cup {i}
      /\ worker'.jobs = jobs /\ worker'.list = worker.list
      /\ worker'.kind = worker.kind /\ worker'.errors = worker.errors
      /\ worker'.sure = worker.sure /\ worker'.told = worker.told
      /\ worker'.owned = worker.owned /\ worker'.expand = worker.expand
      /\ worker'.metas = worker.metas /\ worker'.alts = worker.alts
  <2>1. worker.jobs \in [Items -> Row]
    BY <1>1 DEF WorkerType
  <2>2. jobs \in [Items -> Row]
    BY <1>5, <2>1
  <2>3. worker' = [worker EXCEPT !.todo = @ \ {i}, !.ended = @ \union {i}, !.jobs = jobs]
    BY <1>6
  <2> HIDE DEF jobs
  <2> QED BY <1>1, <2>2, <2>3 DEF WorkerType
<1>8. jobs[i] = job /\ \A j \in Items \ {i} : jobs[j] = worker.jobs[j]
  BY <1>1 DEF WorkerType
<1> HIDE DEF jobs
<1>9. /\ file' \in [Assets -> Files] /\ file'[i] = f
      /\ \A a \in Assets \ {i} : file'[a] = file[a]
  BY <1>1, <1>4, <1>6 DEF DiskSound, DiskTypes
<1>10. DiskSound'
  <2>1. DiskTypes'
    BY <1>1, <1>9 DEF DiskSound, DiskTypes, db
  <2>2. NamedFilesWhole'
    BY <1>1, <1>9 DEF DiskSound, NamedFilesWhole, Whole, Shown, Moves, db
  <2> QED BY <2>1, <2>2 DEF DiskSound
<1>11. Ahead' = Ahead /\ i \in Ahead
  BY <1>1, <1>7 DEF Ahead, Later, Turn, db
<1>12. WorkerTypes' /\ Counted' /\ PhotoSound'
  BY <1>1, <1>5, <1>7, <1>8, <1>11, ItemsFacts
     DEF IInv, WorkerSound, WorkerTypes, Counted, PhotoSound, PhotoPlaces
<1>13. Shape'
  BY <1>1, <1>7, ItemsFacts DEF Shape, PhotoPlaces, Fetching
<1>14. ItemSound'
  <2>1. \A j \in worker'.todo \cup worker'.ended : j \in Items /\ row'[j] = row[j]
    BY <1>1, <1>7, ItemsFacts DEF db
  <2>2. \A j \in worker'.ended : worker'.jobs[j] = Found(j, file'[j])
    <3>1. \A j \in worker.ended : j \in Items \ {i} /\ worker.jobs[j] = Found(j, file[j])
      BY <1>1, ItemsFacts DEF IInv, WorkerSound, ItemSound
    <3> QED BY <1>7, <1>8, <1>9, <3>1, ConstantFacts DEF job
  <2>3. \A j \in Items : Turn(j)' = Turn(j)
    BY <1>1 DEF Turn, db
  <2> QED BY <1>1, <1>7, <2>1, <2>2, <2>3, ItemsFacts DEF ItemSound
<1>15. Clean' /\ Stock'
  <2>1. worker.errors \in Nat
    BY <1>1, ConstantFacts, FS_CardinalityType DEF WorkerType
  <2>2. worker'.errors \in Nat /\ worker'.errors >= worker.errors
    BY <1>7, <2>1
  <2> QED BY <1>1, <1>7, <1>9, <1>11, <2>1, <2>2, ItemsClean DEF db
<1> QED BY <1>10, <1>12, <1>13, <1>14, <1>15 DEF IInv, WorkerSound

LEMMA ItemApplyInv ==
  ASSUME IInv, NEW i \in Items, ItemApply(i)
  PROVE  IInv'
<1> DEFINE job == worker.jobs[i]
           e == IF job.set THEN worker.errors ELSE worker.errors + 1
           jobs == [worker.jobs EXCEPT ![i] = NoRow]
<1>1. /\ worker.pc = "items" /\ i \in worker.ended
      /\ UNCHANGED <<file, pack, alt, send, suspect, setup>>
      /\ worker \in WorkerType /\ DiskSound /\ i \notin worker.todo /\ i \in Assets
      /\ i \notin Images /\ ~row[i].set /\ i # None /\ file[i] \in Files /\ row[i] \in Row
  BY ItemsFacts, ConstantFacts DEF ItemApply, DiskSound, DiskTypes
<1>2. job = Found(i, file[i])
  BY <1>1 DEF IInv, WorkerSound, ItemSound
<1>3. /\ job \in Row
      /\ job.set => /\ job.in /\ Valid(job.image) /\ Valid(job.thumb)
                    /\ Valid(Shown(job, file[i])) /\ Valid(file[i].thumb)
                    /\ Shown(job, file[i]) = job.image /\ file[i].thumb = job.thumb
  BY <1>1, <1>2, FoundFacts
<1>4. CASE job.set /\ Abort /\ UNCHANGED row
  BY <1>1, <1>4, DiskKept, StopsSound DEF Abort, IInv, db
<1>5. CASE /\ row' = IF job.set /\ row[i].in THEN [row EXCEPT ![i] = job] ELSE row
           /\ worker' = [worker EXCEPT !.ended = @ \ {i}, !.jobs[i] = NoRow,
                                       !.errors = IF job.set THEN @ ELSE @ + 1]
  <2>1. /\ row \in [Assets -> Row] /\ row' \in [Assets -> Row]
        /\ \A a \in Assets \ {i} : row'[a] = row[a] /\ file'[a] = file[a]
        /\ job.set /\ row[i].in => row'[i] = job
        /\ ~(job.set /\ row[i].in) => row'[i] = row[i]
    BY <1>1, <1>3, <1>5 DEF DiskSound, DiskTypes
  <2>2. row'[i].set => row[i].in /\ row'[i] = job /\ job.set /\ Whole(i)'
    BY <1>1, <1>3, <2>1 DEF Whole
  <2>3. DiskSound'
    <3>1. DiskTypes'
      BY <1>1, <1>3, <2>1, <2>2 DEF DiskSound, DiskTypes
    <3>2. NamedFilesWhole'
      BY <1>1, <2>1, <2>2 DEF DiskSound, NamedFilesWhole, Whole, Shown, Moves
    <3> QED BY <3>1, <3>2 DEF DiskSound
  <2>4. worker.errors \in Nat /\ e \in Nat /\ e >= worker.errors
        /\ (e = worker.errors => job.set) /\ e <= worker.errors + 1
    <3>1. worker.errors \in Nat
      BY <1>1, ConstantFacts, FS_CardinalityType DEF WorkerType
    <3> QED BY <3>1
  <2>5. worker.kind # "live" => i \notin Later(worker.list)
    <3>1. worker.list \in 0..4
      BY <1>1 DEF WorkerType
    <3>2. worker.kind # "live" => Turn(i) = worker.list
      BY <1>1, ItemsFacts
    <3> QED BY <3>1, <3>2 DEF Later
  <2>6. i \in Ahead
    BY <1>1 DEF Ahead
  <2> DEFINE rest == Ahead \ {i}
  <2>7. e <= Cardinality(Assets \ rest)
    <3>1. Cardinality(Assets \ Ahead) + 1 <= Cardinality(Assets \ rest)
      BY <1>1, <2>6, BehindGrowsBy
    <3>2. worker.errors <= Cardinality(Assets \ Ahead)
      BY DEF IInv, WorkerSound, Counted
    <3>3. Cardinality(Assets \ Ahead) \in Nat
      BY PartsFinite
    <3> HIDE DEF rest
    <3>4. Cardinality(Assets \ rest) \in Nat
      BY PartsFinite
    <3> QED BY <2>4, <3>1, <3>2, <3>3, <3>4
  <2>8. e \in 0..Cardinality(Assets)
    <3> HIDE DEF rest
    <3>1. Cardinality(Assets \ rest) \in 0..Cardinality(Assets)
      BY PartsFinite
    <3>2. Cardinality(Assets) \in Nat
      BY ConstantFacts, FS_CardinalityType
    <3> QED BY <2>4, <2>7, <3>1, <3>2
  <2>9. worker.jobs \in [Items -> Row] /\ jobs \in [Items -> Row]
        /\ jobs[i] = NoRow /\ \A j \in Items \ {i} : jobs[j] = worker.jobs[j]
    BY <1>1, DataFacts DEF WorkerType
  <2>10. worker' = [worker EXCEPT !.ended = @ \ {i}, !.jobs = jobs, !.errors = e]
    BY <1>1, <1>5 DEF WorkerType
  <2> HIDE DEF e, jobs, job
  <2>11. /\ worker' \in WorkerType /\ worker'.pc = "items" /\ worker'.at = worker.at
         /\ worker'.todo = worker.todo /\ worker'.ended = worker.ended \ {i}
         /\ worker'.jobs = jobs /\ worker'.list = worker.list
         /\ worker'.kind = worker.kind /\ worker'.errors = e
         /\ worker'.sure = worker.sure /\ worker'.told = worker.told
         /\ worker'.owned = worker.owned /\ worker'.expand = worker.expand
         /\ worker'.metas = worker.metas /\ worker'.alts = worker.alts
    BY <1>1, <2>8, <2>9, <2>10 DEF WorkerType
  <2>12. Ahead' = Ahead \ {i} /\ \A j \in Items : Turn(j)' = Turn(j)
    BY <1>1, <2>5, <2>11, ItemsFacts DEF Ahead, Later, Turn
  <2>13. WorkerTypes' /\ Counted' /\ PhotoSound'
    BY <1>1, <2>7, <2>9, <2>11, <2>12, ItemsFacts, DataFacts
       DEF WorkerTypes, Counted, PhotoSound, PhotoPlaces
  <2>14. Shape'
    BY <1>1, <2>11, ItemsFacts DEF Shape, PhotoPlaces, Fetching
  <2>15. ItemSound'
    <3>1. \A j \in worker'.todo \cup worker'.ended :
            j \in Items \ {i} /\ j \in worker.todo \cup worker.ended
      BY <1>1, <2>11, ItemsFacts
    <3>2. \A j \in worker.ended : worker.jobs[j] = Found(j, file[j])
      BY DEF IInv, WorkerSound, ItemSound
    <3>3. \A j \in worker'.ended : worker'.jobs[j] = Found(j, file'[j])
      BY <1>1, <2>9, <2>11, <3>1, <3>2
    <3>4. \A j \in worker'.todo \cup worker'.ended : ~row'[j].set
      BY <2>1, <3>1, ItemsFacts, ConstantFacts, <1>1
    <3> QED BY <1>1, <2>11, <2>12, <3>1, <3>3, <3>4, ItemsFacts DEF ItemSound
  <2>16. Clean' /\ Stock'
    <3>1. row'[i].in = row[i].in
      BY <1>1, <1>3, <2>1 DEF Row
    <3>2. e = worker.errors => (row[i].in => Complete(i)')
      BY <1>3, <2>1, <2>2, <2>4 DEF Complete
    <3> QED BY <1>1, <2>1, <2>4, <2>11, <2>12, <3>1, <3>2, ItemsClean
  <2> QED BY <2>3, <2>13, <2>14, <2>15, <2>16 DEF IInv, WorkerSound
<1> QED BY <1>4, <1>5 DEF ItemApply

-----------------------------------------------------------------------------
(* The handler of the stream.                                              *)

\* It begins at "meta" or "resolve", where nothing is asked of the packages.
LEMMA HandlerFits ==
  ASSUME DiskSound', NEW q \in {"meta", "resolve"}, NEW b \in Items \cup {None},
         q = "resolve" => b \in Items,
         \/ worker' = [Idle EXCEPT !.kind = "live", !.pc = q, !.at = b]
         \/ \E p \in SticonPacks :
              worker' = [Idle EXCEPT !.kind = "live", !.pc = q, !.at = b, !.expand = {p}]
  PROVE  IInv'
<1>0. /\ Idle \in WorkerType /\ Idle.expand = {} /\ Idle.metas = {} /\ Idle.alts = {}
      /\ Idle.list = 0 /\ Idle.errors = 0 /\ Idle.ended = {} /\ Idle.sure = {}
      /\ Idle.jobs = [i \in Items |-> NoRow]
  BY IdleFits DEF Idle
<1>1. worker' \in WorkerType
  <2>1. CASE worker' = [Idle EXCEPT !.kind = "live", !.pc = q, !.at = b]
    BY <1>0, <2>1, ConstantFacts DEF WorkerType, Places
  <2>2. ASSUME NEW p \in SticonPacks,
               worker' = [Idle EXCEPT !.kind = "live", !.pc = q, !.at = b, !.expand = {p}]
        PROVE  worker' \in WorkerType
    <3>1. {p} \in SUBSET Packs
      BY PackFacts
    <3> QED BY <1>0, <2>2, <3>1, ConstantFacts DEF WorkerType, Places
  <2> QED BY <2>1, <2>2
<1>2. /\ worker'.kind = "live" /\ worker'.pc = q /\ worker'.at = b
      /\ worker'.expand \subseteq SticonPacks
      /\ worker'.metas = {} /\ worker'.alts = {} /\ worker'.list = 0 /\ worker'.errors = 0
      /\ worker'.ended = {} /\ worker'.sure = {} /\ worker'.jobs = [i \in Items |-> NoRow]
  <2>1. CASE worker' = [Idle EXCEPT !.kind = "live", !.pc = q, !.at = b]
    BY <1>0, <2>1 DEF WorkerType
  <2>2. ASSUME NEW p \in SticonPacks,
               worker' = [Idle EXCEPT !.kind = "live", !.pc = q, !.at = b, !.expand = {p}]
        PROVE  /\ worker'.kind = "live" /\ worker'.pc = q /\ worker'.at = b
               /\ worker'.expand \subseteq SticonPacks
               /\ worker'.metas = {} /\ worker'.alts = {} /\ worker'.list = 0
               /\ worker'.errors = 0 /\ worker'.ended = {} /\ worker'.sure = {}
               /\ worker'.jobs = [i \in Items |-> NoRow]
    BY <1>0, <2>2 DEF WorkerType
  <2> QED BY <2>1, <2>2
<1>3. WorkerTypes' /\ Stock'
  BY <1>1, <1>2, DataFacts DEF WorkerTypes, Stock
<1> QED BY <1>2, <1>3, NotYetSound DEF IInv, Fetching, PhotoPlaces

LEMMA DiscoverMove ==
  ASSUME DiskSound, NEW p \in Packs, DiscoverOnly(p), UNCHANGED <<file, send, suspect, setup>>
  PROVE  DiskSound' /\ Grows
<1>1. pack[p] \in PackRow
  BY DEF DiskSound, DiskTypes
<1>2. Discovered(pack[p]) \in PackRow /\ Discovered(pack[p]).in
  BY <1>1, DataFacts
<1>3. pack' = [pack EXCEPT ![p] = Discovered(pack[p])] /\ UNCHANGED <<row, alt>>
  BY DEF DiscoverOnly
<1> QED BY <1>2, <1>3, PackMove

LEMMA ScannedMove ==
  ASSUME DiskSound, NEW i \in Items, Scanned(i), UNCHANGED <<file, send, suspect, setup>>
  PROVE  DiskSound'
<1>1. CASE Store({i})
  <2>1. {i} \in SUBSET Assets
    BY ConstantFacts
  <2> QED BY <1>1, <2>1, StoreMove
<1>2. CASE DiscoverOnly(PackOf[i])
  BY <1>2, DiscoverMove, ConstantFacts
<1>3. CASE UNCHANGED db
  BY <1>3, DiskKept
<1> QED BY <1>1, <1>2, <1>3 DEF Scanned

LEMMA LivePhotoInv ==
  ASSUME IInv, NEW m \in Images, LivePhoto(m)
  PROVE  IInv'
<1>1. {m} \in SUBSET Assets /\ m # None /\ m \in Assets
  BY ConstantFacts
<1>2. DiskSound'
  BY <1>1, StoreMove DEF LivePhoto, IInv
<1>3. worker' = [Idle EXCEPT !.kind = "live", !.pc = "check", !.at = m]
  BY DEF LivePhoto, Handle
<1>4. worker' \in WorkerType
  BY <1>1, <1>3, IdleFits DEF WorkerType, Places
<1>5. /\ worker'.kind = "live" /\ worker'.pc = "check" /\ worker'.at = m /\ worker'.expand = {}
      /\ worker'.metas = {} /\ worker'.alts = {} /\ worker'.list = 0 /\ worker'.errors = 0
      /\ worker'.ended = {} /\ worker'.sure = {} /\ worker'.jobs = [i \in Items |-> NoRow]
      /\ worker'.todo = {}
  BY <1>3 DEF Idle
<1>6. Counted'
  <2>1. Cardinality(Assets \ Ahead') \in Nat
    BY PartsFinite
  <2> QED BY <1>5, <2>1 DEF Counted
<1>7. WorkerTypes' /\ Shape'
  BY <1>4, <1>5, DataFacts DEF WorkerTypes, Shape, PhotoPlaces, Fetching
<1>8. PhotoSound' /\ ItemSound' /\ Clean' /\ Stock'
  BY <1>5 DEF PhotoSound, Original, ItemSound, Clean, Stock
<1> QED BY <1>2, <1>6, <1>7, <1>8 DEF IInv, WorkerSound

LEMMA LiveStickerInv ==
  ASSUME IInv, NEW i \in Stickers, LiveSticker(i)
  PROVE  IInv'
<1>1. i \in Items
  BY DEF Items
<1>2. DiskSound'
  BY <1>1, ScannedMove DEF LiveSticker, IInv
<1>3. worker' = [Idle EXCEPT !.kind = "live", !.pc = "resolve", !.at = i]
  BY DEF LiveSticker, Handle
<1> QED BY <1>1, <1>2, <1>3, HandlerFits

LEMMA LiveSticonInv ==
  ASSUME IInv, NEW p \in SticonPacks, NEW i \in ItemsOf(p) \cup {None}, LiveSticon(p, i)
  PROVE  IInv'
<1>1. p \in Packs /\ i \in Items \cup {None}
  BY PackFacts
<1>2. DiskSound'
  <2>1. CASE i # None
    BY <1>1, <2>1, ScannedMove DEF LiveSticon, IInv
  <2>2. CASE i = None
    BY <1>1, <2>2, DiscoverMove, DiskKept DEF LiveSticon, IInv
  <2> QED BY <2>1, <2>2
<1>3. worker' = [Idle EXCEPT !.kind = "live", !.pc = "meta", !.at = i, !.expand = {p}]
  BY DEF LiveSticon
<1> QED BY <1>1, <1>2, <1>3, HandlerFits

LEMMA LiveMetaInv ==
  ASSUME IInv, NEW p \in SticonPacks, LiveMeta(p)
  PROVE  IInv'
<1> DEFINE goes == [worker EXCEPT !.pc = "resolve", !.expand = {}]
           next == IF worker.at = None THEN Idle ELSE goes
<1>1. /\ worker.pc = "meta" /\ worker \in WorkerType /\ worker.at \in Items \cup {None}
      /\ worker.list = 0 /\ worker.errors = 0 /\ worker.ended = {}
      /\ worker.expand \cup worker.metas \cup worker.alts \subseteq SticonPacks
      /\ worker.sure \subseteq Images /\ \A m \in worker.sure : row[m].in
      /\ UNCHANGED <<file, send, suspect, setup>> /\ DiskSound
  BY NotYetFacts DEF IInv, LiveMeta, WorkerSound, Shape, Fetching, PhotoPlaces
<1>2. /\ DiskSound' /\ Grows
      /\ worker' = next \/ worker' = [next EXCEPT !.told = FALSE] \/ worker' = Idle
  <2>1. CASE MetaState(p) = "expand"
    <3>1. SyncMeta(p, TRUE, next)
      BY <2>1 DEF LiveMeta
    <3> HIDE DEF next
    <3> QED BY <1>1, <3>1, MetaMove
  <2>2. CASE MetaState(p) = "enrich"
    <3>1. SyncMeta(p, FALSE, next)
      BY <2>2 DEF LiveMeta
    <3> HIDE DEF next
    <3> QED BY <1>1, <3>1, MetaMove
  <2>3. CASE MetaState(p) = "ready"
    <3>1. worker' = next /\ UNCHANGED db
      BY <2>3 DEF LiveMeta
    <3> HIDE DEF next
    <3> QED BY <1>1, <3>1, KeptGrows
  <2>4. MetaState(p) \in {"expand", "enrich", "ready"}
    BY DEF MetaState
  <2> QED BY <2>1, <2>2, <2>3, <2>4
<1>3. [Idle EXCEPT !.told = FALSE] = Idle
  <2>1. Idle.told = FALSE
    BY DEF Idle
  <2> QED BY <2>1, IdleFits DEF WorkerType
<1>4. CASE worker' = Idle
  BY <1>2, <1>4, StopsSound DEF IInv
<1>5. CASE worker' # Idle
  <2>1. worker.at \in Items /\ (worker' = goes \/ worker' = [goes EXCEPT !.told = FALSE])
    BY <1>1, <1>2, <1>3, <1>5
  <2>5. /\ goes \in WorkerType /\ goes.pc = "resolve" /\ goes.kind = worker.kind
        /\ goes.list = worker.list /\ goes.errors = worker.errors
        /\ goes.ended = worker.ended /\ goes.jobs = worker.jobs
        /\ goes.sure = worker.sure /\ goes.at = worker.at /\ goes.expand = {}
        /\ goes.metas = worker.metas /\ goes.alts = worker.alts /\ goes.told = worker.told
    BY <1>1 DEF WorkerType, Places
  <2> HIDE DEF goes
  <2>2. /\ worker' \in WorkerType /\ worker'.pc = "resolve" /\ worker'.kind = worker.kind
        /\ worker'.list = worker.list /\ worker'.errors = worker.errors
        /\ worker'.ended = worker.ended /\ worker'.jobs = worker.jobs
        /\ worker'.sure = worker.sure /\ worker'.at = worker.at
        /\ worker'.expand = {} /\ worker'.metas = worker.metas
        /\ worker'.alts = worker.alts /\ (worker'.told => worker.told)
    <3>1. CASE worker' = goes
      BY <2>5, <3>1
    <3>2. CASE worker' = [goes EXCEPT !.told = FALSE]
      BY <2>5, <3>2 DEF WorkerType
    <3> QED BY <2>1, <3>1, <3>2
  <2>3. WorkerTypes' /\ \A m \in worker'.sure : row'[m].in
    BY <1>1, <1>2, <2>2, ConstantFacts DEF IInv, WorkerSound, WorkerTypes, Grows
  <2>4. Stock'
    BY <1>1, <1>2, <2>2, StockMove DEF IInv, WorkerSound, DiskSound, DiskTypes
  <2>6. worker.kind = "live"
    BY <1>1 DEF IInv, WorkerSound, Shape
  <2>7. WorkerSound'
    BY <1>1, <2>1, <2>2, <2>3, <2>4, <2>6, NotYetSound DEF Fetching, PhotoPlaces
  <2> QED BY <1>2, <2>7 DEF IInv
<1> QED BY <1>4, <1>5

LEMMA LiveResolveInv ==
  ASSUME IInv, LiveResolve
  PROVE  IInv'
<1> DEFINE i == worker.at
<1>1. /\ worker.pc = "resolve" /\ worker \in WorkerType /\ i \in Items /\ i \in Assets
      /\ worker.list = 0 /\ worker.errors = 0 /\ worker.ended = {}
      /\ worker.expand \cup worker.metas \cup worker.alts \subseteq SticonPacks
      /\ worker.sure \subseteq Images /\ \A m \in worker.sure : row[m].in
      /\ UNCHANGED <<file, pack, alt, send, setup>> /\ DiskSound
  BY NotYetFacts, ConstantFacts
     DEF IInv, LiveResolve, WorkerSound, Shape, Fetching, PhotoPlaces
<1>2. CASE worker' = Idle /\ UNCHANGED <<row, suspect>>
  BY <1>1, <1>2, DiskKept, StopsSound DEF IInv, db
<1>3. CASE /\ row' = Cleared({i}) /\ suspect' = suspect \ {i}
           /\ worker' = [worker EXCEPT !.pc = "items", !.at = None, !.todo = {i}]
  <2>1. /\ {i} \in SUBSET Assets /\ suspect' \subseteq suspect
        /\ \A a \in suspect \ suspect' : a \in {i} \/ Whole(a) \/ ~row[a].set
    BY <1>1, <1>3
  <2>2. DiskSound' /\ Grows
    BY <1>1, <1>3, <2>1, ClearMove
  <2>3. ~row'[i].set
    BY <1>1, <1>3, <2>1, ClearedFacts
  <2>4. /\ worker' \in WorkerType /\ worker'.pc = "items" /\ worker'.kind = worker.kind
        /\ worker'.todo = {i}
        /\ worker'.list = 0 /\ worker'.errors = 0
        /\ worker'.ended = {} /\ worker'.jobs = worker.jobs
        /\ worker'.sure = worker.sure /\ worker'.at = None
        /\ worker'.expand = worker.expand /\ worker'.metas = worker.metas
        /\ worker'.alts = worker.alts /\ worker'.told = worker.told
    BY <1>1, <1>3 DEF WorkerType, Places
  <2>5. worker.kind = "live"
    BY <1>1 DEF IInv, WorkerSound, Shape
  <2>6. Counted'
    <3>1. Cardinality(Assets \ Ahead') \in Nat
      BY PartsFinite
    <3> QED BY <2>4, <3>1 DEF Counted
  <2>7. WorkerTypes' /\ Shape'
    BY <1>1, <2>4, <2>5 DEF IInv, WorkerSound, WorkerTypes, Shape, PhotoPlaces, Fetching
  <2>8. PhotoSound' /\ ItemSound'
    BY <2>3, <2>4, <2>5 DEF PhotoSound, PhotoPlaces, ItemSound
  <2>9. Clean' /\ Stock'
    BY <1>1, <2>2, <2>4, <2>5, ConstantFacts DEF Clean, Stock, Grows
  <2> QED BY <2>2, <2>6, <2>7, <2>8, <2>9 DEF IInv, WorkerSound
<1> QED BY <1>1, <1>2, <1>3 DEF LiveResolve, Abort

-----------------------------------------------------------------------------
(* The thread of a send.  Beside the worker, it changes one photo.         *)

\* The worker only forgets that it was sure of the photo.
LEMMA SenderWorker ==
  ASSUME IInv, NEW m \in Images, NEW from, NEW to, Sends(m, from, to)
  PROVE  /\ worker' \in WorkerType /\ (worker = Idle => worker' = Idle)
         /\ worker'.sure = worker.sure \ {m} /\ worker'.kind = worker.kind
         /\ worker'.pc = worker.pc /\ worker'.owned = worker.owned
         /\ worker'.expand = worker.expand /\ worker'.metas = worker.metas
         /\ worker'.alts = worker.alts /\ worker'.told = worker.told
         /\ worker'.list = worker.list /\ worker'.todo = worker.todo
         /\ worker'.at = worker.at /\ worker'.have = worker.have
         /\ worker'.ended = worker.ended /\ worker'.jobs = worker.jobs
         /\ worker'.errors = worker.errors
<1>1. worker \in WorkerType /\ worker' = [worker EXCEPT !.sure = @ \ {m}]
  BY DEF IInv, WorkerSound, WorkerTypes, Sends
<1>2. Idle \in WorkerType /\ Idle.sure = {}
  BY IdleFits DEF Idle
<1>3. [Idle EXCEPT !.sure = {}] = Idle
  BY <1>2 DEF WorkerType
<1>4. worker = Idle => worker' = Idle
  BY <1>1, <1>2, <1>3
<1> QED BY <1>1, <1>4 DEF WorkerType

\* What the worker relies on survives, whatever becomes of the photo.
LEMMA SenderMove ==
  ASSUME IInv, NEW m \in Images, NEW from, NEW to, from # "done", Sends(m, from, to), DiskSound',
         \A a \in Assets \ {m} : /\ file'[a] = file[a] /\ row'[a] = row[a]
                                 /\ a \in suspect' <=> a \in suspect,
         row[m].in => row'[m].in,
         row'[m].set => row[m].set \/ to = "done",
         file'[m].image = "other" => file[m].image = "other",
         \/ Moves(m)' \/ m \in suspect' \/ Whole(m)'
         \/ ~Moves(m) /\ file'[m] = file[m] /\ (m \in suspect => m \in suspect')
  PROVE  IInv'
<1>1. /\ m \in Assets /\ m \notin Items /\ send \in [Images -> SendPlaces]
      /\ send[m] = from /\ send' = [send EXCEPT ![m] = to]
      /\ UNCHANGED <<pack, alt, setup>>
  BY ConstantFacts DEF IInv, DiskSound, DiskTypes, Sends
<1>2. /\ send'[m] = to /\ \A n \in Images \ {m} : send'[n] = send[n]
  BY <1>1
<1>3. \A a \in Assets \ {m} : Whole(a)' = Whole(a) /\ (a \in Images => Moves(a)' = Moves(a))
  BY <1>2 DEF Whole, Shown, Moves
<1>4. \A a \in Assets \ {m} : Complete(a) => Complete(a)'
  BY <1>3 DEF Complete
<1>5. WorkerTypes'
  BY SenderWorker DEF IInv, WorkerSound, WorkerTypes
<1>6. Shape'
  BY <1>1, SenderWorker DEF IInv, WorkerSound, Shape
<1>7. Ahead' = Ahead /\ \A i \in Items : Turn(i)' = Turn(i)
  BY <1>1, SenderWorker DEF Ahead, Later, Turn
<1>8. Counted'
  BY <1>7, SenderWorker DEF IInv, WorkerSound, Counted
<1>9. PhotoSound'
  <2> SUFFICES ASSUME worker.pc \in PhotoPlaces PROVE PhotoSound'
    BY SenderWorker DEF PhotoSound
  <2>1. PICK n \in Images : n = worker.at
    BY DEF IInv, WorkerSound, Shape
  <2>2. Original' = Original /\ n = worker'.at
    BY <2>1, SenderWorker DEF Original
  <2>3. /\ worker.pc \in {"fetch", "verify", "thumb"} /\ row[n].set => send[n] = "done"
        /\ Original => file[n].image # "other"
        /\ worker.pc = "checkThumb" => MediaOk(file[n].image) \/ Moves(n) \/ n \in suspect
        /\ worker.pc = "stamp" => Whole(n) \/ Moves(n) \/ n \in suspect
        /\ n \in worker.sure /\ Original => MediaOk(file[n].image)
        /\ n \in worker.sure /\ worker.pc = "stamp" => Whole(n)
    BY <2>1 DEF IInv, WorkerSound, PhotoSound
  <2>4. /\ worker.pc \in {"fetch", "verify", "thumb"} /\ row'[n].set => send'[n] = "done"
        /\ Original => file'[n].image # "other"
        /\ worker.pc = "checkThumb" => MediaOk(file'[n].image) \/ Moves(n)' \/ n \in suspect'
        /\ worker.pc = "stamp" => Whole(n)' \/ Moves(n)' \/ n \in suspect'
        /\ n \in worker'.sure /\ Original => MediaOk(file'[n].image)
        /\ n \in worker'.sure /\ worker.pc = "stamp" => Whole(n)'
    <3>1. CASE n = m
      <4>1. m \notin worker'.sure
        BY SenderWorker
      <4>2. Whole(m)' => MediaOk(file'[m].image)
        BY DEF Whole
      <4>3. file'[m] = file[m] => Whole(m)' = Whole(m)
        BY DEF Whole
      <4> QED BY <1>1, <1>2, <2>3, <3>1, <4>1, <4>2, <4>3
    <3>2. CASE n # m
      BY <1>2, <1>3, <2>3, <3>2, SenderWorker, ConstantFacts
    <3> QED BY <3>1, <3>2
  <2> HIDE DEF Original, PhotoPlaces
  <2>5. PhotoSound' <=> 
          (worker'.pc \in PhotoPlaces =>
            /\ worker'.pc \in {"fetch", "verify", "thumb"} /\ row'[n].set => send'[n] = "done"
            /\ Original' => file'[n].image # "other"
            /\ worker'.pc = "checkThumb" => MediaOk(file'[n].image) \/ Moves(n)' \/ n \in suspect'
            /\ worker'.pc = "stamp" => Whole(n)' \/ Moves(n)' \/ n \in suspect'
            /\ n \in worker'.sure /\ Original' => MediaOk(file'[n].image)
            /\ n \in worker'.sure /\ worker'.pc = "stamp" => Whole(n)')
    BY <2>2 DEF PhotoSound
  <2> QED BY <2>2, <2>4, <2>5, SenderWorker
<1>10. ItemSound'
  <2>1. \A i \in Items : /\ row'[i] = row[i] /\ file'[i] = file[i]
    BY <1>1, ConstantFacts
  <2>2. worker.ended \subseteq Items
    BY DEF IInv, WorkerSound, WorkerTypes, WorkerType
  <2>3. worker.pc = "items" => worker.todo \subseteq Items
    BY DEF IInv, WorkerSound, Shape
  <2>4. ItemSound
    BY DEF IInv, WorkerSound
  <2> QED BY <1>7, <2>1, <2>2, <2>3, <2>4, SenderWorker DEF ItemSound
<1>11. Clean'
  <2>1. /\ \A n \in worker'.sure : n \in worker.sure /\ n \in Images \ {m} /\ n \in Assets \ {m}
        /\ \A i \in Items : i \in Assets \ {m}
    BY <1>1, SenderWorker, ConstantFacts DEF WorkerType
  <2>2. \A a \in Due' : a \in Due /\ a \in Assets \ {m}
    BY <1>1, <2>1 DEF Due
  <2>3. suspect \cap Items = {} => suspect' \cap Items = {}
    BY <2>1
  <2>4. Clean
    BY DEF IInv, WorkerSound
  <2> QED BY <1>4, <1>7, <2>1, <2>2, <2>3, <2>4, SenderWorker DEF Clean
<1>12. Stock'
  <2>1. \A p \in Packs : Stocked(p) => Stocked(p)'
    <3>1. \A p \in Packs : \A i \in ItemsOf(p) : i \in Assets \ {m}
      BY <1>1, PackFacts, ConstantFacts
    <3> QED BY <1>1, <3>1 DEF Stocked
  <2>2. setup.owned \subseteq Packs
    BY ConstantFacts DEF IInv, DiskSound, DiskTypes
  <2> QED BY <1>1, <2>1, <2>2, SenderWorker DEF IInv, WorkerSound, Stock
<1> QED BY <1>5, <1>6, <1>8, <1>9, <1>10, <1>11, <1>12 DEF IInv, WorkerSound

\* While the files move, nothing is asked of the photo but the types.
LEMMA SenderMoves ==
  ASSUME IInv, NEW m \in Images, NEW from \in SendPlaces \ {"done"},
         NEW to \in SendPlaces \ {"idle", "posted", "image", "done"}, Sends(m, from, to),
         file' \in [Assets -> Files], \A a \in Assets \ {m} : file'[a] = file[a],
         file'[m].image = "other" => file[m].image = "other",
         UNCHANGED <<row, suspect>>
  PROVE  IInv'
<1>1. /\ m \in Assets /\ send \in [Images -> SendPlaces] /\ send' = [send EXCEPT ![m] = to]
      /\ UNCHANGED <<pack, alt, setup>>
  BY ConstantFacts DEF IInv, DiskSound, DiskTypes, Sends
<1>2. Moves(m)'
  BY <1>1 DEF Moves
<1>3. DiskTypes'
  BY <1>1 DEF IInv, DiskSound, DiskTypes
<1>4. NamedFilesWhole'
  <2>1. \A a \in Assets \ {m} : Whole(a)' = Whole(a) /\ (a \in Images => Moves(a)' = Moves(a))
    BY <1>1 DEF Whole, Shown, Moves
  <2> QED BY <1>2, <2>1 DEF IInv, DiskSound, NamedFilesWhole
<1> QED BY <1>2, <1>3, <1>4, SenderMove DEF DiskSound

LEMMA SendPostInv ==
  ASSUME IInv, NEW m \in Images, SendPost(m)
  PROVE  IInv'
<1>1. /\ m \in Assets /\ send \in [Images -> SendPlaces] /\ send[m] = "idle"
      /\ send' = [send EXCEPT ![m] = "posted"] /\ Sends(m, "idle", "posted")
      /\ UNCHANGED <<file, row, pack, alt, suspect, setup>>
  BY ConstantFacts DEF IInv, DiskSound, DiskTypes, SendPost, Sends
<1>2. ~Moves(m) /\ ~Moves(m)' /\ \A n \in Images \ {m} : Moves(n)' = Moves(n)
  BY <1>1 DEF Moves
<1>3. DiskSound'
  BY <1>1, <1>2 DEF IInv, DiskSound, DiskTypes, NamedFilesWhole, Whole, Shown, SendPlaces
<1> QED BY <1>1, <1>2, <1>3, SenderMove

LEMMA SendStoreInv ==
  ASSUME IInv, NEW m \in Images, SendStore(m)
  PROVE  IInv'
<1>1. PICK to \in {"image", "done"} :
        Sends(m, "posted", to) /\ row' = IF to = "image" THEN Inserted({m}) ELSE row
  BY DEF SendStore
<1>2. /\ m \in Assets /\ send \in [Images -> SendPlaces] /\ send[m] = "posted"
      /\ send' = [send EXCEPT ![m] = to]
      /\ UNCHANGED <<file, pack, alt, suspect, setup>> /\ row \in [Assets -> Row]
  BY <1>1, ConstantFacts DEF IInv, DiskSound, DiskTypes, SendStore, Sends
<1>3. ~Moves(m) /\ ~Moves(m)' /\ \A n \in Images \ {m} : Moves(n)' = Moves(n)
  BY <1>2 DEF Moves
<1>4. /\ row' \in [Assets -> Row] /\ \A a \in Assets \ {m} : row'[a] = row[a]
      /\ row'[m] = row[m] \/ ~row'[m].set
      /\ row[m].in => row'[m].in
  <2>1. CASE to = "image"
    <3>1. row' = Inserted({m}) /\ {m} \in SUBSET Assets
      BY <1>1, <1>2, <2>1
    <3>2. \A a \in Assets \ {m} : row'[a] = row[a]
      BY <3>1 DEF Inserted
    <3> QED BY <1>2, <3>1, <3>2, InsertedFacts DEF IInv
  <2>2. CASE to = "done"
    BY <1>1, <1>2, <2>2
  <2> QED BY <2>1, <2>2
<1>5. DiskSound'
  <2>1. DiskTypes'
    BY <1>2, <1>4 DEF IInv, DiskSound, DiskTypes, SendPlaces
  <2>2. NamedFilesWhole'
    BY <1>2, <1>3, <1>4 DEF IInv, DiskSound, NamedFilesWhole, Whole, Shown
  <2> QED BY <2>1, <2>2 DEF DiskSound
<1> QED BY <1>1, <1>2, <1>3, <1>4, <1>5, SenderMove

\* A part of the photo is replaced while its files move.
LEMMA SendPart ==
  ASSUME IInv, NEW m \in Images, NEW from \in SendPlaces \ {"done"},
         NEW to \in SendPlaces \ {"idle", "posted", "image", "done"}, Sends(m, from, to),
         NEW c \in Contents \ {"other"},
         \/ file' = [file EXCEPT ![m].image = c] \/ file' = [file EXCEPT ![m].thumb = c],
         UNCHANGED <<row, suspect>>
  PROVE  IInv'
<1>1. m \in Assets /\ file \in [Assets -> Files] /\ file[m] \in Files
  BY ConstantFacts DEF IInv, DiskSound, DiskTypes
<1>2. PICK f \in Files : f.image \in {file[m].image, c} /\ file' = [file EXCEPT ![m] = f]
  <2>1. [file[m] EXCEPT !.image = c] \in Files /\ [file[m] EXCEPT !.image = c].image = c
    BY <1>1 DEF Files
  <2>2. /\ [file[m] EXCEPT !.thumb = c] \in Files
        /\ [file[m] EXCEPT !.thumb = c].image = file[m].image
    BY <1>1 DEF Files
  <2>3. CASE file' = [file EXCEPT ![m].image = c]
    BY <1>1, <2>1, <2>3
  <2>4. CASE file' = [file EXCEPT ![m].thumb = c]
    BY <1>1, <2>2, <2>4
  <2> QED BY <2>3, <2>4
<1>3. file' \in [Assets -> Files] /\ file'[m] = f /\ \A a \in Assets \ {m} : file'[a] = file[a]
  BY <1>1, <1>2
<1> QED BY <1>2, <1>3, SenderMoves

LEMMA SendKept ==
  ASSUME IInv, NEW m \in Images, NEW from \in SendPlaces \ {"done"},
         NEW to \in SendPlaces \ {"idle", "posted", "image", "done"}, Sends(m, from, to),
         UNCHANGED <<file, row, suspect>>
  PROVE  IInv'
BY SenderMoves DEF IInv, DiskSound, DiskTypes

LEMMA SendFilesInv ==
  ASSUME IInv, NEW m \in Images, SendFiles(m)
  PROVE  IInv'
<1>1. CASE SendRemove(m, "image", "thumb")
  BY <1>1, SendPart, SendKept DEF SendRemove, SendPlaces, Contents
<1>2. CASE SendRemove(m, "thumb", "copy")
  BY <1>2, SendPart, SendKept DEF SendRemove, SendPlaces, Contents
<1>3. CASE SendCopy(m, "image", "copy", "copying", "copyThumb")
  BY <1>3, SendPart, SendKept DEF SendCopy, SendPlaces, Contents
<1>4. CASE SendCopied(m, "image", "copying", "copyThumb")
  BY <1>4, SendPart, SendKept DEF SendCopied, SendPlaces, Contents, Prepared
<1>5. CASE SendCopy(m, "thumb", "copyThumb", "copyingThumb", "stamp")
  BY <1>5, SendPart, SendKept DEF SendCopy, SendPlaces, Contents
<1>6. CASE SendCopied(m, "thumb", "copyingThumb", "stamp")
  BY <1>6, SendPart, SendKept DEF SendCopied, SendPlaces, Contents, Prepared
<1> QED BY <1>1, <1>2, <1>3, <1>4, <1>5, <1>6 DEF SendFiles

\* The row names the files, and answers for them unless they are whole.
LEMMA SendStampInv ==
  ASSUME IInv, NEW m \in Images, SendStamp(m)
  PROVE  IInv'
<1>1. /\ m \in Assets /\ send \in [Images -> SendPlaces] /\ send[m] = "stamp"
      /\ send' = [send EXCEPT ![m] = "done"] /\ Sends(m, "stamp", "done")
      /\ UNCHANGED <<file, pack, alt, setup>> /\ row' \in {row, Stamped(m)}
      /\ suspect' = (IF Whole(m) THEN suspect \ {m} ELSE suspect \cup {m})
      /\ row \in [Assets -> Row] /\ row[m] \in Row
  BY ConstantFacts DEF IInv, DiskSound, DiskTypes, SendStamp, Sends
<1>2. /\ row' \in [Assets -> Row] /\ \A a \in Assets \ {m} : row'[a] = row[a]
      /\ row[m].in => row'[m].in
      /\ row'[m].set /\ row'[m] # row[m] =>
           row'[m].in /\ Valid(row'[m].image) /\ Valid(row'[m].thumb)
  <2> DEFINE r == IF row[m].in THEN Named(FALSE, "good", "good") ELSE row[m]
  <2>1. Named(FALSE, "good", "good") \in Row
    BY DEF Named, Row, Contents
  <2>2. r \in Row /\ (row[m].in => r.in)
        /\ (r.set /\ r # row[m] => r.in /\ Valid(r.image) /\ Valid(r.thumb))
    BY <1>1, <2>1 DEF Named, Valid
  <2>3. row' = row \/ row' = [row EXCEPT ![m] = r]
    BY <1>1 DEF Stamped
  <2> HIDE DEF r
  <2> QED BY <1>1, <2>2, <2>3
<1>3. DiskTypes'
  BY <1>1, <1>2 DEF IInv, DiskSound, DiskTypes, SendPlaces
<1>4. m \in suspect' \/ Whole(m)'
  BY <1>1 DEF Whole
<1>5. \A a \in Assets \ {m} : /\ file'[a] = file[a] /\ row'[a] = row[a]
                              /\ a \in suspect' <=> a \in suspect
                              /\ Whole(a)' = Whole(a) /\ (a \in Images => Moves(a)' = Moves(a))
  BY <1>1, <1>2 DEF Whole, Shown, Moves
<1>6. NamedFilesWhole'
  BY <1>4, <1>5 DEF IInv, DiskSound, NamedFilesWhole
<1> QED BY <1>1, <1>2, <1>3, <1>4, <1>5, <1>6, SenderMove DEF DiskSound

-----------------------------------------------------------------------------
(* The process stops, and a behaviour begins.                              *)

LEMMA CrashInv ==
  ASSUME IInv, Crash
  PROVE  IInv'
<1> DEFINE left(c) == IF c = "partial" THEN "bad" ELSE c
<1>1. /\ worker' = Idle /\ UNCHANGED <<row, pack, alt, setup>>
      /\ send' = [m \in Images |-> IF send[m] = "idle" THEN "idle" ELSE "done"]
      /\ file' = [a \in Assets |-> [image |-> left(file[a].image), thumb |-> left(file[a].thumb)]]
      /\ suspect' = suspect \cup {m \in Images : Moves(m) /\ ~Whole(m)}
      /\ DiskTypes /\ NamedFilesWhole
  BY DEF Crash, IInv, DiskSound, db
<1>2. \A a \in Assets : /\ file[a] \in Files
                        /\ file'[a] = [image |-> left(file[a].image), thumb |-> left(file[a].thumb)]
  BY <1>1 DEF DiskTypes
<1>3. file' \in [Assets -> Files]
  <2>1. \A c \in Contents : left(c) \in Contents
    BY DEF Contents
  <2>2. \A a \in Assets : left(file[a].image) \in Contents /\ left(file[a].thumb) \in Contents
    BY <1>2, <2>1 DEF Files
  <2> HIDE DEF left
  <2> QED BY <1>1, <2>2 DEF Files
<1>4. DiskTypes'
  <2>1. send' \in [Images -> SendPlaces] /\ suspect' \subseteq Assets
    BY <1>1, ConstantFacts DEF DiskTypes, SendPlaces
  <2> QED BY <1>1, <1>3, <2>1 DEF DiskTypes
<1>5. \A a \in Assets : Whole(a) => Whole(a)'
  <2> TAKE a \in Assets
  <2>1. /\ file'[a].image = left(file[a].image) /\ file'[a].thumb = left(file[a].thumb)
        /\ row'[a] = row[a]
    BY <1>1, <1>2
  <2> QED BY <2>1 DEF Whole, Shown, Valid, MediaOk
<1>6. NamedFilesWhole'
  BY <1>1, <1>5 DEF NamedFilesWhole
<1> QED BY <1>1, <1>4, <1>6, StopsSound DEF IInv, DiskSound

LEMMA InitInv == Init => IInv
<1> SUFFICES ASSUME Init PROVE IInv
  OBVIOUS
<1>1. PICK f \in [setup.worn -> WornFile] :
        file = [a \in Assets |-> IF a \in setup.worn THEN f[a] ELSE NoFile]
  BY DEF Init
<1>2. PICK r \in [setup.worn -> {Pending} \cup {Named(s, i, t) : s \in BOOLEAN,
                                   i \in {"other", "good"}, t \in {"other", "good"}}] :
        row = [a \in Assets |-> IF a \in setup.worn THEN r[a] ELSE NoRow]
  BY DEF Init
<1>3. /\ worker = Idle /\ send = [m \in Images |-> "idle"] /\ setup \in Setups
      /\ alt \subseteq Sticons /\ suspect = {a \in Assets : row[a].set /\ ~Whole(a)}
  BY DEF Init
<1>4. file \in [Assets -> Files]
  <2>1. WornFile \subseteq Files /\ NoFile \in Files
    BY DEF WornFile, Files, NoFile, Contents
  <2> QED BY <1>1, <2>1
<1>5. row \in [Assets -> Row] /\ \A a \in Assets : row[a].set =>
        row[a].in /\ Valid(row[a].image) /\ Valid(row[a].thumb)
  <2>1. \A s \in BOOLEAN, i \in {"other", "good"}, t \in {"other", "good"} :
          /\ Named(s, i, t) \in Row /\ Named(s, i, t).in
          /\ Valid(Named(s, i, t).image) /\ Valid(Named(s, i, t).thumb)
    BY DEF Named, Row, Contents, Valid
  <2>2. \A a \in setup.worn : r[a] \in Row /\ (r[a].set =>
          r[a].in /\ Valid(r[a].image) /\ Valid(r[a].thumb))
    <3> TAKE a \in setup.worn
    <3>1. CASE r[a] = Pending
      BY <3>1, DataFacts
    <3>2. CASE r[a] # Pending
      <4>1. PICK s \in BOOLEAN, i \in {"other", "good"}, t \in {"other", "good"} :
              r[a] = Named(s, i, t)
        BY <1>2, <3>2
      <4> QED BY <2>1, <4>1
    <3> QED BY <3>1, <3>2
  <2> QED BY <1>2, <2>2, DataFacts
<1>6. pack \in [Packs -> PackRow]
  BY DEF Init
<1>7. DiskSound
  BY <1>3, <1>4, <1>5, <1>6 DEF DiskSound, DiskTypes, SendPlaces, NamedFilesWhole
<1>8. WorkerSound
  <2>1. /\ worker.pc = "idle" /\ worker.kind = "idle" /\ worker.list = 0 /\ worker.errors = 0
        /\ worker.sure = {} /\ worker.ended = {} /\ worker.jobs = [i \in Items |-> NoRow]
        /\ worker.expand = {} /\ worker.metas = {} /\ worker.alts = {} /\ worker.at = None
    BY <1>3 DEF Idle
  <2>2. WorkerTypes
    BY <1>3, <2>1, IdleFits, DataFacts DEF WorkerTypes
  <2>3. Counted
    <3>1. Cardinality(Assets \ Ahead) \in Nat
      BY PartsFinite
    <3> QED BY <2>1, <3>1 DEF Counted
  <2>4. Shape
    BY <1>3, <2>1 DEF Shape, PhotoPlaces
  <2>5. PhotoSound /\ ItemSound /\ Clean /\ Stock
    BY <2>1 DEF PhotoSound, PhotoPlaces, ItemSound, Clean, Fetching, Stock
  <2> QED BY <2>2, <2>3, <2>4, <2>5 DEF WorkerSound
<1> QED BY <1>7, <1>8 DEF IInv

-----------------------------------------------------------------------------
(* The theorems.                                                           *)

LEMMA StutterInv ==
  ASSUME IInv, UNCHANGED vars
  PROVE  IInv'
<1>1. UNCHANGED <<file, row, pack, alt, worker, send, suspect, setup>>
  BY DEF vars, db
<1>2. DiskSound'
  BY <1>1, DiskKept DEF IInv, db
<1>3. \A a \in Assets : Whole(a)' = Whole(a)
  BY <1>1 DEF Whole, Shown
<1>4. \A m \in Images : Moves(m)' = Moves(m)
  BY <1>1 DEF Moves
<1>5. \A i \in Items : Turn(i)' = Turn(i)
  BY <1>1 DEF Turn
<1>6. Ahead' = Ahead
  BY <1>1, <1>5 DEF Ahead, Later
<1>7. WorkerTypes' /\ Shape' /\ Counted'
  BY <1>1, <1>6 DEF IInv, WorkerSound, WorkerTypes, Shape, Counted
<1>8. PhotoSound' /\ ItemSound'
  <2>1. worker.pc \in PhotoPlaces => worker.at \in Images /\ worker.at \in Assets
    BY ConstantFacts DEF IInv, WorkerSound, Shape
  <2>2. worker.pc = "items" => worker.todo \cup worker.ended \subseteq Items
    BY DEF IInv, WorkerSound, Shape, WorkerTypes, WorkerType
  <2> QED BY <1>1, <1>3, <1>4, <1>5, <2>1, <2>2
          DEF IInv, WorkerSound, PhotoSound, Original, ItemSound
<1>9. Clean' /\ Stock'
  BY <1>1, <1>3, <1>6 DEF IInv, WorkerSound, Clean, Due, Complete, Whole, Shown, Stock, Stocked
<1> QED BY <1>2, <1>7, <1>8, <1>9 DEF IInv, WorkerSound

\* No step leaves the invariant.
LEMMA StepInv ==
  ASSUME IInv, [Next]_vars
  PROVE  IInv'
<1>1. CASE Prepare
  BY <1>1, SyncBeginInv, AttachBeginInv, PrepareRestInv, PrepareDoneInv, ReconcileInv,
     PrepareStickerInv, PrepareSticonInv, ExpandInv, CatchUpInv, EnrichInv DEF Prepare
<1>2. CASE Photos
  BY <1>2, MediaPickInv, MediaCheckInv, MediaCheckThumbInv, MediaClearInv, MediaFetchInv,
     MediaVerifyInv, MediaThumbInv, MediaStampInv DEF Photos
<1>3. CASE Lists
  BY <1>3, ItemsBeginInv, ItemsEndInv, StoppingInv, ItemJobInv, ItemApplyInv DEF Lists
<1>4. CASE Live
  BY <1>4, LivePhotoInv, LiveStickerInv, LiveSticonInv, LiveMetaInv, LiveResolveInv DEF Live
<1>5. CASE Sender
  BY <1>5, SendPostInv, SendStoreInv, SendFilesInv, SendStampInv DEF Sender
<1>6. CASE Crash
  BY <1>6, CrashInv
<1>7. CASE UNCHANGED vars
  BY <1>7, StutterInv
<1> QED BY <1>1, <1>2, <1>3, <1>4, <1>5, <1>6, <1>7 DEF Next

\* What holds after every download, every failing statement and every exit: rows
\* answer for their files, and the worker's place tells what it has verified and
\* whom it has still to serve (sync_phase_downloading, enil_asset_cache_reconcile).
THEOREM Inductive == Spec => []IInv
<1>1. IInv /\ [Next]_vars => IInv'
  BY StepInv
<1> QED BY InitInv, <1>1, PTL DEF Spec

\* The worker's fields, the rows and the files keep their types: the count of
\* unavailable attachments (sync_phase_downloading) never passes the number of
\* pictures there are, and a row that names files has dimensions that were decoded
\* (enil_db_set_media_info, enil_db_set_sticker_asset).
THEOREM TypeCorrect == Spec => []TypeOK
<1>1. IInv => TypeOK
  BY DEF IInv, DiskSound, DiskTypes, WorkerSound, WorkerTypes, TypeOK
<1> QED BY Inductive, <1>1, PTL

\* "A failed transfer or thumbnail must never leave a completed row behind"
\* (download_media_entry): whatever fails between the clearing of a row, the
\* renames of its files and the write that names them, and wherever the process
\* stops, a row that names files names whole ones.
THEOREM RowsNameWholeFiles == Spec => []NamedFilesWhole
<1>1. IInv => NamedFilesWhole
  BY DEF IInv, DiskSound
<1> QED BY Inductive, <1>1, PTL

\* A sync for which report_attachment_completion shows "Done" or "Attachments
\* checked" has left no picture it listed without its row and its files, although
\* the thread of a send and the jobs of a list worked beside it.
THEOREM CleanSyncLeavesNothing == Spec => []CleanSyncComplete
<1>1. ASSUME IInv, worker.pc = "finish", worker.errors = 0
      PROVE  /\ \A m \in worker.sure : Complete(m)
             /\ \A i \in Items : row[i].in /\ pack[PackOf[i]].in => Complete(i)
             /\ worker.kind = "full" /\ worker.told =>
                  \A p \in setup.owned : \A i \in ItemsOf(p) : Complete(i)
  <2>1. /\ worker.kind # "live" /\ worker.todo = {} /\ worker.list = 4 /\ worker.at = None
        /\ worker.ended = {}
    BY <1>1 DEF IInv, WorkerSound, Shape, ItemSound, PhotoPlaces
  <2>2. Ahead = {}
    <3>1. \A i \in Items : ~(4 < Turn(i))
      BY TurnFacts
    <3> QED BY <2>1, <3>1 DEF Ahead, Later
  <2>3. \A a \in Due : Complete(a)
    BY <1>1, <2>1, <2>2 DEF IInv, WorkerSound, Clean, Fetching
  <2>4. worker.kind = "full" /\ worker.told => \A p \in setup.owned : Stocked(p)
    BY <1>1 DEF IInv, WorkerSound, Stock
  <2>5. \A p \in setup.owned : \A i \in ItemsOf(p) :
          i \in Items /\ (Stocked(p) => row[i].in /\ pack[PackOf[i]].in)
    BY DEF Stocked, ItemsOf
  <2> QED BY <2>3, <2>4, <2>5 DEF Due
<1>2. IInv => CleanSyncComplete
  BY <1>1 DEF CleanSyncComplete
<1> QED BY Inductive, <1>2, PTL
=============================================================================
