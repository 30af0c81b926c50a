----------------------------- MODULE ClipHistory -----------------------------
(***************************************************************************)
(* The list of clips of a device and what hangs on it: the bodies kept for *)
(* copying again, the thumbnails, and the files of images in the folder    *)
(* the user has chosen (crates/sb-core/src/history.rs; cache_body and its  *)
(* neighbours in src-tauri/src/core.rs; poll_clipboard of worker.rs; the   *)
(* commands on items in commands.rs; images.rs).                           *)
(*                                                                         *)
(* Each action holds the core lock from its first read to its last write,  *)
(* except get_thumbnail, which draws without it.  The lists are in memory  *)
(* and end with the app; the folder stays.                                 *)
(*                                                                         *)
(* A clip stands for its content and its id.  A file is named after the    *)
(* second in which its item was added; a name already taken by another     *)
(* content gets a suffix, so the name and the content tell files apart.    *)
(***************************************************************************)
EXTENDS Naturals, Sequences, FiniteSets, SequencesExt

CONSTANTS
    None,         \* Option::None
    Clip,         \* what is copied here or comes from others
    Image,        \* the clips that are images
    Size,         \* Size[c]: bytes of c
    Bytes,        \* what 4 * max_content_bytes may be, at least 1
    Maximum,      \* values of memory_max_items
    Folder,       \* folders the user may choose for images
    Limits        \* bounds on what happens, of which a behaviour has one

\* The clips that come, the values memory_max_items and max_content_bytes are set
\* to, whether thumbnails are asked for, the folders chosen, the seconds that pass,
\* and the files the user removes.
Limit ==
    [clips : SUBSET Clip, maxima : SUBSET Maximum, bytes : SUBSET Bytes, thumbs : BOOLEAN,
     folders : SUBSET Folder, seconds : Nat, removals : Nat]

ASSUME HistoryAssumption ==
    /\ None \notin Folder
    /\ Image \subseteq Clip
    /\ Size \in [Clip -> Nat \ {0}]
    /\ Bytes \subseteq Nat \ {0} /\ Maximum \subseteq Nat \ {0}
    /\ Limits \subseteq Limit

VARIABLES
    settings,   \* image_dir, memory_max_items and max_content_bytes of Core.settings
    onDisk,     \* the same in settings.json
    cap,        \* HistoryBuffer.cap
    items,      \* HistoryBuffer.items, the newest first
    cache,      \* body_cache, body_order, body_bytes and thumb_cache of Core
    rendering,  \* thumbnails being drawn off the lock
    images,     \* image_files, whether the hourly clean-up has run, and the
                \* files in the folders, of which some are past their time
    second,     \* the clock
    removed,    \* history: files the user has removed
    crowded,    \* history: a clip was added to a list full of pinned items
    lowered,    \* history: a bound of the cache was lowered since a body last came
    limit,      \* the bounds of this behaviour
    late        \* history: ids of which a thumbnail came after the body had gone

setVars == <<settings, onDisk, cap>>
histVars ==
    <<setVars, items, cache, rendering, images, second, limit, removed, crowded, lowered, late>>

Setting == [dir : Folder \cup {None}, max : Maximum, bytes : Bytes]
Item == [id : Clip, pinned : BOOLEAN, at : Nat]
File == [dir : Folder, at : Nat, clip : Clip]

Listed(its) == {its[i].id : i \in DOMAIN its}
Pinned(its) == {its[i].id : i \in {j \in DOMAIN its : its[j].pinned}}
Place(its, id) == CHOOSE i \in DOMAIN its : its[i].id = id
Less(f, S) == [x \in DOMAIN f \ S |-> f[x]]
With(f, x, v) == [y \in DOMAIN f \cup {x} |-> IF y = x THEN v ELSE f[y]]

HistTypeOK ==
    /\ {settings, onDisk} \subseteq Setting
    /\ cap \in Maximum
    /\ items \in Seq(Item)
    /\ \A i, j \in DOMAIN items : items[i].id = items[j].id => i = j
    /\ DOMAIN cache = {"order", "bodies", "bytes", "thumbs"}
    /\ cache.order \in Seq(Clip) /\ cache.bytes \in Nat
    /\ \A f \in {cache.bodies, cache.thumbs} : f \in [DOMAIN f -> Clip] /\ DOMAIN f \subseteq Clip
    /\ rendering \subseteq [id : Clip, clip : Clip]
    /\ DOMAIN images = {"links", "swept", "files", "old"}
    /\ images.swept \in BOOLEAN
    /\ DOMAIN images.links \subseteq Image /\ images.links \in [DOMAIN images.links -> File]
    /\ images.old \subseteq images.files /\ images.files \subseteq File
    /\ second \in Nat /\ limit \in Limits /\ removed \subseteq File
    /\ {crowded, lowered} \subseteq BOOLEAN /\ late \subseteq Clip

NoBodies == [order |-> <<>>, bodies |-> <<>>, bytes |-> 0, thumbs |-> <<>>]

\* The app is started for the first time: no folder has been chosen.
HistInit ==
    /\ limit \in Limits
    /\ \E n \in limit.maxima, b \in limit.bytes :
          /\ cap = n
          /\ settings = [dir |-> None, max |-> n, bytes |-> b]
    /\ onDisk = settings
    /\ items = <<>>
    /\ cache = NoBodies
    /\ rendering = {}
    /\ images = [links |-> <<>>, swept |-> FALSE, files |-> {}, old |-> {}]
    /\ second = 0
    /\ removed = {}
    /\ crowded = FALSE
    /\ lowered = FALSE
    /\ late = {}

-----------------------------------------------------------------------------
(* HistoryBuffer.                                                          *)

Without(its, id) == RemoveFirstMatch(its, LAMBDA x : x.id = id)

\* A plausible slip: the oldest go, pinned or not.
EvictAny(its) == IF Len(its) <= cap THEN its ELSE SubSeq(its, 1, cap)

\* The items that may go.
Loose(its) == {i \in DOMAIN its : ~its[i].pinned}

\* One turn of evict: the oldest unpinned item goes while there are too many.
EvictOldest(its) ==
    IF Len(its) <= cap \/ Loose(its) = {} THEN its ELSE RemoveAt(its, Max(Loose(its)))

\* evict: turn by turn, as long as there is something to do.
Evict(its) ==
    LET after[n \in 0 .. Len(its)] == IF n = 0 THEN its ELSE EvictOldest(after[n - 1])
    IN  after[Len(its)]

\* A plausible slip: what was under that id stays in the list.
AddTwice(its, id) == Evict(<<[id |-> id, pinned |-> FALSE, at |-> second]>> \o its)

\* add: in front and unpinned, whatever was under that id.
Add(its, id) == Evict(<<[id |-> id, pinned |-> FALSE, at |-> second]>> \o Without(its, id))

-----------------------------------------------------------------------------
(* The cache of bodies.                                                    *)

\* A plausible slip: the place in the order stays.
ForgetKeepsOrder(c, id) ==
    IF id \in DOMAIN c.bodies
    THEN [c EXCEPT !.bodies = Less(@, {id}), !.bytes = @ - Size[c.bodies[id]],
                   !.thumbs = Less(@, {id})]
    ELSE [c EXCEPT !.thumbs = Less(@, {id})]

\* forget_body, but for the link to the file.
Forget(c, id) ==
    IF id \in DOMAIN c.bodies
    THEN [c EXCEPT !.bodies = Less(@, {id}), !.bytes = @ - Size[c.bodies[id]],
                   !.order = RemoveFirst(@, id), !.thumbs = Less(@, {id})]
    ELSE [c EXCEPT !.thumbs = Less(@, {id})]

\* A plausible slip: the thumbnail outlives the body.
PopOldestOnly(c) ==
    LET oldest == Head(c.order)
    IN  IF oldest \in DOMAIN c.bodies
        THEN [c EXCEPT !.order = Tail(@), !.bodies = Less(@, {oldest}),
                       !.bytes = @ - Size[c.bodies[oldest]]]
        ELSE [c EXCEPT !.order = Tail(@)]

PopOldest(c) ==
    LET oldest == Head(c.order)
    IN  IF oldest \in DOMAIN c.bodies
        THEN [order |-> Tail(c.order), bodies |-> Less(c.bodies, {oldest}),
              bytes |-> c.bytes - Size[c.bodies[oldest]], thumbs |-> Less(c.thumbs, {oldest})]
        ELSE [c EXCEPT !.order = Tail(@)]

\* Is the cache within its bounds?
Fits(c) == c.bytes <= settings.bytes /\ Len(c.order) <= 2 * settings.max

\* One turn of the loop of cache_body.
Trim(c) == IF Fits(c) \/ c.order = <<>> THEN c ELSE PopOldest(c)

\* The oldest go until both bounds are kept or nothing is left.
Trimmed(c) ==
    LET after[n \in 0 .. Len(c.order)] == IF n = 0 THEN c ELSE Trim(after[n - 1])
    IN  after[Len(c.order)]

\* A plausible slip: the body is put in place, as the send cache does it.
CacheBodyInPlace(c, id, clip) ==
    IF id \in DOMAIN c.bodies
    THEN Trimmed([c EXCEPT !.bodies[id] = clip, !.bytes = @ - Size[c.bodies[id]] + Size[clip]])
    ELSE Trimmed([c EXCEPT !.bodies = With(@, id, clip), !.bytes = @ + Size[clip],
                           !.order = Append(@, id)])

\* cache_body, but for the file.
CacheBody(c, id, clip) ==
    LET gone == Forget(c, id)
    IN  Trimmed([gone EXCEPT !.bodies = With(@, id, clip), !.bytes = @ + Size[clip],
                             !.order = Append(@, id)])

-----------------------------------------------------------------------------
(* The files of images.                                                    *)

\* images::cleanup: the files that go, those of the folder that are past their
\* time and not to be kept.
Overdue(s, dir, keep) == {x \in s.old : x.dir = dir /\ x \notin keep}

\* A plausible slip: the links to the files deleted are kept.
CleanupKeepsLinks(s, dir, its, force) ==
    LET keep == {s.links[id] : id \in Pinned(its) \cap DOMAIN s.links}
        gone == Overdue(s, dir, keep)
    IN  IF dir = None \/ (s.swept /\ ~force) THEN s
        ELSE [s EXCEPT !.swept = TRUE, !.files = @ \ gone, !.old = @ \ gone]

\* A plausible slip: what is pinned is not asked.
CleanupAll(s, dir, its, force) ==
    LET gone == Overdue(s, dir, {})
        dead == {id \in DOMAIN s.links : s.links[id] \notin s.files \ gone}
    IN  IF dir = None \/ (s.swept /\ ~force) THEN s
        ELSE [s EXCEPT !.swept = TRUE, !.files = @ \ gone, !.old = @ \ gone,
                       !.links = IF gone = {} THEN @ ELSE Less(@, dead)]

\* cleanup_images: once in an hour unless it is forced, the files over their
\* time go, except those linked to a pinned item.
Cleanup(s, dir, its, force) ==
    LET keep == {s.links[id] : id \in Pinned(its) \cap DOMAIN s.links}
        gone == Overdue(s, dir, keep)
        dead == {id \in DOMAIN s.links : s.links[id] \notin s.files \ gone}
    IN  IF dir = None \/ (s.swept /\ ~force) THEN s
        ELSE [s EXCEPT !.swept = TRUE, !.files = @ \ gone, !.old = @ \ gone,
                       !.links = IF gone = {} THEN @ ELSE Less(@, dead)]

\* prune_image_files.
Prune(s, its) ==
    IF Cardinality(DOMAIN s.links) < 2 * settings.max THEN s
    ELSE [s EXCEPT !.links = Less(@, DOMAIN @ \ Listed(its))]

\* write_unique: the file of that name and content, there already or not.
FileFor(dir, at, clip) == [dir |-> dir, at |-> at, clip |-> clip]

\* images::save: a file that is used again counts as new.
Saved(s, x) == [s EXCEPT !.files = @ \cup {x}, !.old = @ \ {x}]

\* The rest of ensure_image_file: the file, its link, and the clean-up if its
\* hour has come.
Save(s, dir, its, id, clip) ==
    LET x == FileFor(dir, its[Place(its, id)].at, clip)
    IN  Cleanup([Saved(Prune(s, its), x) EXCEPT !.links = With(@, id, x)], dir, its, FALSE)

\* ensure_image_file: a link to a file that is there is left alone, another
\* one is dropped.
Ensure(s, dir, its, bodies, id, works) ==
    IF id \in DOMAIN s.links /\ s.links[id] \in s.files THEN s
    ELSE LET bare == [s EXCEPT !.links = Less(@, {id})]
         IN  IF /\ dir # None /\ works
                /\ id \in Listed(its) \cap Image /\ id \in DOMAIN bodies
             THEN Save(bare, dir, its, id, bodies[id])
             ELSE bare

\* Bodies and files together: cache_body and forget_body as they are called.
\* The file is written when the body is in and before the oldest go.
CacheAndSave(its, id, clip, works) ==
    /\ cache' = CacheBody(cache, id, clip)
    /\ lowered' = FALSE
    /\ images' = Ensure([images EXCEPT !.links = Less(@, {id})], settings.dir, its,
                        With(cache.bodies, id, clip), id, works)

-----------------------------------------------------------------------------
(* Clips come.                                                             *)

Crowded(id) == Cardinality(Pinned(Without(items, id))) >= cap

\* A clip copied here and published, or one that came from another device:
\* added to the list, its body kept under its id.
AddClip(id) ==
    /\ id \in limit.clips
    /\ items' = Add(items, id)
    /\ \E works \in BOOLEAN : CacheAndSave(items', id, id, works)
    /\ crowded' = (crowded \/ Crowded(id))
    /\ UNCHANGED <<setVars, rendering, second, limit, removed, late>>

\* A plausible slip: the first item is looked up before the clip is added.
AddUnpublishedUnder(id) ==
    /\ id \in limit.clips
    /\ items' = Add(items, id)
    /\ IF items = <<>> THEN UNCHANGED <<cache, images, lowered>>
       ELSE \E works \in BOOLEAN : CacheAndSave(items', items[1].id, id, works)
    /\ crowded' = (crowded \/ Crowded(id))
    /\ UNCHANGED <<setVars, rendering, second, limit, removed, late>>

\* A clip copied here and not published: sync or its kind is off, it is too
\* large, or it could not be sealed.  Its body is kept under the id of the
\* first item of the list.
AddUnpublished(id) ==
    /\ id \in limit.clips
    /\ items' = Add(items, id)
    /\ IF items' = <<>> THEN UNCHANGED <<cache, images, lowered>>
       ELSE \E works \in BOOLEAN : CacheAndSave(items', items'[1].id, id, works)
    /\ crowded' = (crowded \/ Crowded(id))
    /\ UNCHANGED <<setVars, rendering, second, limit, removed, late>>

-----------------------------------------------------------------------------
(* The commands of the user.                                               *)

\* get_thumbnail, up to where it releases the lock.
AskThumb(id) ==
    /\ limit.thumbs
    /\ id \notin DOMAIN cache.thumbs
    /\ id \in Listed(items) \cap Image /\ id \in DOMAIN cache.bodies
    /\ rendering' = rendering \cup {[id |-> id, clip |-> cache.bodies[id]]}
    /\ UNCHANGED <<setVars, items, cache, images, second, limit, removed, crowded, lowered, late>>

\* prune_thumbs: when there are many, those of clips no longer listed go.
PruneThumbs(thumbs) ==
    IF Cardinality(DOMAIN thumbs) <= 2 * settings.max THEN thumbs
    ELSE Less(thumbs, DOMAIN thumbs \ Listed(items))

\* get_thumbnail goes on: the thumbnail is kept, whatever has happened since.
ThumbDrawn(r) ==
    /\ rendering' = rendering \ {r}
    /\ cache' = [cache EXCEPT !.thumbs = PruneThumbs(With(@, r.id, r.clip))]
    /\ late' = IF r.id \in DOMAIN cache.bodies THEN late ELSE late \cup {r.id}
    /\ UNCHANGED <<setVars, items, images, second, limit, removed, crowded, lowered>>

\* thumb::render finds no image.
ThumbFails(r) ==
    /\ rendering' = rendering \ {r}
    /\ UNCHANGED <<setVars, items, cache, images, second, limit, removed, crowded, lowered, late>>

SetPinned(id, pinned) ==
    /\ id \in Listed(items)
    /\ items' = [items EXCEPT ![Place(items, id)].pinned = pinned]
    /\ UNCHANGED <<setVars, cache, rendering, images, second, limit, removed,
                   crowded, lowered, late>>

\* delete_history_item; the file stays in its folder.
DeleteItem(id) ==
    /\ items' = Without(items, id)
    /\ cache' = Forget(cache, id)
    /\ images' = [images EXCEPT !.links = Less(@, {id})]
    /\ UNCHANGED <<setVars, rendering, second, limit, removed, crowded, lowered, late>>

\* clear_history.
ClearHistory ==
    /\ items' = <<>>
    /\ cache' = NoBodies
    /\ images' = [images EXCEPT !.links = <<>>]
    /\ lowered' = FALSE
    /\ UNCHANGED <<setVars, rendering, second, limit, removed, crowded, late>>

\* get_image_path, reveal_image.
GetImagePath(id) ==
    /\ \E works \in BOOLEAN : images' = Ensure(images, settings.dir, items, cache.bodies, id, works)
    /\ UNCHANGED <<setVars, items, cache, rendering, second, limit, removed,
                   crowded, lowered, late>>

\* The images of which there is a body are written to folder d, the newest first;
\* each may fail.
EnsureAll(s, d, fails) ==
    LET after[n \in 0 .. Len(items)] ==
            IF n = 0 THEN s
            ELSE Ensure(after[n - 1], d, items, cache.bodies, items[n].id, items[n].id \notin fails)
    IN  after[Len(items)]

\* set_image_dir: the links go, and the images of which there is a body are
\* written to the new folder; only the setting changes and the links go when
\* the settings cannot be saved.
SetImageDir(d) ==
    /\ d \in limit.folders \cup {None} /\ limit.folders # {}
    /\ settings' = [settings EXCEPT !.dir = d]
    /\ LET bare == [images EXCEPT !.links = <<>>]
       IN  \/ /\ images' = bare
             /\ UNCHANGED onDisk
          \/ /\ \E fails \in SUBSET (Listed(items) \cap Image) :
                   images' = Cleanup(EnsureAll(bare, d, fails), d, items, TRUE)
             /\ onDisk' = settings'
    /\ UNCHANGED <<cap, items, cache, rendering, second, limit, removed, crowded, lowered, late>>

\* update_settings: the new bounds are those of the cache at once, which keeps
\* what is over them until the next body comes; that of the list changes with a
\* restart; the folder is kept.  A clean-up follows unless the settings cannot be
\* saved.
UpdateSettings(n, b) ==
    /\ n \in limit.maxima /\ b \in limit.bytes
    /\ settings' = [settings EXCEPT !.max = n, !.bytes = b]
    /\ lowered' = (lowered \/ n < settings.max \/ b < settings.bytes)
    /\ \/ UNCHANGED <<onDisk, images>>
       \/ /\ onDisk' = settings'
          /\ images' = Cleanup(images, settings.dir, items, TRUE)
    /\ UNCHANGED <<cap, items, cache, rendering, second, limit, removed, crowded, late>>

-----------------------------------------------------------------------------
(* Time, the user's hands in the folder, and the end of the app.           *)

SecondPasses ==
    /\ second < limit.seconds
    /\ second' = second + 1
    /\ UNCHANGED <<setVars, items, cache, rendering, images, limit, removed,
                   crowded, lowered, late>>

\* A file passes image_retention_days.
FileAges(f) ==
    /\ images' = [images EXCEPT !.old = @ \cup {f}]
    /\ UNCHANGED <<setVars, items, cache, rendering, second, limit, removed,
                   crowded, lowered, late>>

HourPasses ==
    /\ images' = [images EXCEPT !.swept = FALSE]
    /\ UNCHANGED <<setVars, items, cache, rendering, second, limit, removed,
                   crowded, lowered, late>>

UserRemovesFile(f) ==
    /\ Cardinality(removed) < limit.removals
    /\ removed' = removed \cup {f}
    /\ images' = [images EXCEPT !.files = @ \ {f}, !.old = @ \ {f}]
    /\ UNCHANGED <<setVars, items, cache, rendering, second, limit, crowded, lowered, late>>

\* The app ends and is started again, with the settings on disk and a clean-up.
RestartApp ==
    /\ settings' = onDisk
    /\ cap' = onDisk.max
    /\ items' = <<>>
    /\ cache' = NoBodies
    /\ rendering' = {}
    /\ images' = Cleanup([images EXCEPT !.links = <<>>, !.swept = FALSE], onDisk.dir, <<>>, TRUE)
    /\ crowded' = FALSE
    /\ lowered' = FALSE
    /\ late' = {}
    /\ UNCHANGED <<onDisk, second, limit, removed>>

HistNext ==
    \/ \E id \in Clip :
          \/ AddClip(id)
          \/ AddUnpublished(id)
          \/ AskThumb(id)
          \/ \E pinned \in BOOLEAN : SetPinned(id, pinned)
          \/ DeleteItem(id)
          \/ GetImagePath(id)
    \/ \E r \in rendering : ThumbDrawn(r) \/ ThumbFails(r)
    \/ \E d \in Folder \cup {None} : SetImageDir(d)
    \/ \E f \in images.files : FileAges(f) \/ UserRemovesFile(f)
    \/ ClearHistory
    \/ \E n \in Maximum, b \in Bytes : UpdateSettings(n, b)
    \/ SecondPasses
    \/ HourPasses
    \/ RestartApp

HistSpec == HistInit /\ [][HistNext]_histVars

-----------------------------------------------------------------------------

\* get_history: what the list shows of each item.
HistoryView ==
    [i \in DOMAIN items |->
        [has_body |-> items[i].id \in DOMAIN cache.bodies,
         file_path |-> IF items[i].id \in DOMAIN images.links THEN {images.links[items[i].id]}
                       ELSE {}]]

\* The bytes counted are those of the bodies kept, and each of these has one
\* place in the order, whatever is added again, deleted or dropped: neither a
\* body that can no longer leave nor a bound that is reached too early.  And the
\* cache is within both its bounds, unless one of them has been lowered since a
\* body last came.
BodyAccounting ==
    /\ cache.bytes = SumFunction([id \in DOMAIN cache.bodies |-> Size[cache.bodies[id]]])
    /\ IsInjective(cache.order)
    /\ ToSet(cache.order) = DOMAIN cache.bodies
    /\ lowered \/ Fits(cache)

\* What is copied again from the list is the clip that is listed: a body is
\* kept under the id of its clip, also when the clip was not published and its
\* id is taken from the list; unless it came to a list full of pinned items,
\* which does not take it: then the first of these gets its body.
BodiesBelong == ~crowded => \A id \in DOMAIN cache.bodies : cache.bodies[id] = id

\* Of the listed clips the newest can be copied again: when the body of one is
\* kept, those of all above it are, with the same exception.
NewestKeepBodies ==
    ~crowded =>
        \A i, j \in DOMAIN items :
            i < j /\ HistoryView[j].has_body => HistoryView[i].has_body

\* A thumbnail goes with the body it was made of, unless it was still being
\* drawn when the body went.
ThumbsFollowBodies == DOMAIN cache.thumbs \subseteq DOMAIN cache.bodies \cup late

\* A path that is shown or dragged is that of a file: whatever the clean-up
\* deletes, only the user can have taken the file of a link away.
LinksAreFiles ==
    \A i \in DOMAIN items : HistoryView[i].file_path \subseteq images.files \cup removed

\* A pinned item stays in the list until it is deleted, the list is cleared or
\* the app ends, however many clips come.
PinnedStay ==
    [][Pinned(items) \subseteq Listed(items')
        \/ ClearHistory \/ RestartApp \/ \E id \in Clip : DeleteItem(id)]_histVars

\* The app does not delete the file of an item that is pinned before and after,
\* except when the folder is set and the links are made anew, or when a clip has
\* come to a list full of pinned items since the app was started, which may have
\* put its body under one of these.
PinnedFilesStay ==
    [][\A id \in Pinned(items) \cap Pinned(items') \cap DOMAIN images.links :
          \/ images.links[id] \in images.files => images.links[id] \in images'.files
          \/ UserRemovesFile(images.links[id])
          \/ \E d \in Folder \cup {None} : SetImageDir(d)
          \/ crowded']_histVars
=============================================================================
