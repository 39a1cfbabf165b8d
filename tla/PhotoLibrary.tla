----------------------------- MODULE PhotoLibrary -----------------------------
(***************************************************************************)
(* Photos of dishes and categories: the editing sheets of                  *)
(* dashboard/[tenantSlug]/menu with media-gallery.tsx and                  *)
(* use-media-upload.ts, api/uploads, modules/storage,                      *)
(* modules/menu/menu.service.ts and scripts/sweep-uploads.mjs.             *)
(*                                                                         *)
(* A photo is a file in storage, and rows refer to it by its URL. Several  *)
(* sheets are open at once, on the same row or another; saves, uploads,    *)
(* deletions and the sweeper interleave statement by statement. The order  *)
(* of a dish's photos, its clip (which goes the way of its photos, except  *)
(* that a copy has none and the sweeper leaves it) and URLs that are not   *)
(* the restaurant's uploads are left out.                                  *)
(* A definition marked "mutant" is a wrong variant of the next one.        *)
(***************************************************************************)
EXTENDS Naturals, FiniteSets

CONSTANTS
    Photo,
    DishRow, CategoryRow,   \* rows of menu_items and of categories
    NoRow, NoPhoto,
    MaxImages,              \* photos in a gallery, MAX_IMAGES
    MaxSheets,              \* bound: sheets ever opened, numbered as they are
    MaxMediaFailures        \* bound: failures

ASSUME PhotoRows == DishRow # {} /\ Photo # {}
ASSUME NoRowFresh == NoRow \notin DishRow \cup CategoryRow
ASSUME NoPhotoFresh == NoPhoto \notin Photo
ASSUME PhotoBounds == {MaxImages, MaxSheets, MaxMediaFailures} \subseteq Nat

VARIABLES
    row,            \* every row: "none", "live" or "deleted", and its photos
    file,           \* every photo's file: "none", "stored" or "gone"
    sheet,
    sheets,         \* sheets opened so far
    doomed,         \* files a save is deleting
    sweep,          \* what the sweeper is about to delete
    mediaFailures,
    cause           \* for the properties: what may cost a row its photo

mediaVars == <<row, file, sheet, sheets, doomed, sweep, mediaFailures, cause>>

Sheet == 1..MaxSheets
Row == DishRow \cup CategoryRow
Rows(state) == {r \in Row : row[r].state = state}

Shut == [open |-> FALSE, kind |-> "dish", row |-> NoRow, images |-> {}, stale |-> FALSE,
         upload |-> NoPhoto, held |-> {}, save |-> "none", saving |-> {}, previous |-> {}]

\* A menu with one dish, which has a photo.
MediaInit ==
    /\ LET dish == CHOOSE r \in DishRow : TRUE
           photo == CHOOSE p \in Photo : TRUE IN
       /\ file = [p \in Photo |-> IF p = photo THEN "stored" ELSE "none"]
       /\ row = [r \in Row |-> IF r = dish THEN [state |-> "live", photos |-> {photo}]
                               ELSE [state |-> "none", photos |-> {}]]
    /\ sheet = [s \in Sheet |-> Shut]
    /\ sheets = 0
    /\ doomed = {}
    /\ sweep = {}
    /\ mediaFailures = 0
    /\ cause = {}

StorageUnchanged == UNCHANGED <<file, doomed, sweep>>

Fails == mediaFailures < MaxMediaFailures /\ mediaFailures' = mediaFailures + 1

-----------------------------------------------------------------------------
(* The sheet                                                                *)

\* A sheet starts with its row's photos, and that of a new row with none.
SheetOn(kind, r) ==
    [Shut EXCEPT !.open = TRUE, !.kind = kind, !.row = r,
                 !.images = IF r = NoRow THEN {} ELSE row[r].photos]

Opens(s, new) ==
    /\ s = sheets + 1
    /\ sheets' = s
    /\ sheet' = [sheet EXCEPT ![s] = new]
    /\ StorageUnchanged /\ UNCHANGED <<row, mediaFailures, cause>>

\* MenuSection: the menu page has an editor for every dish that is live, and a
\* tile for a new one.
DishesShown == Rows("live") \cap DishRow
OpenDish(s) == \E r \in DishesShown \cup {NoRow} : Opens(s, SheetOn("dish", r))

\* EditCategoryButton, and AddCategoryButton.
EditCategory(s) == \E r \in Rows("live") \cap CategoryRow : Opens(s, SheetOn("category", r))
AddCategory(s) == Opens(s, SheetOn("category", NoRow))

\* The sheet is closed, which aborts its upload but not its save.
Unmounted(s) == IF sheet[s].save = "none" THEN Shut
                ELSE [sheet[s] EXCEPT !.open = FALSE, !.images = {}, !.upload = NoPhoto, !.held = {}]

CloseEditor(s) ==
    /\ sheet[s].open
    /\ sheet' = [sheet EXCEPT ![s] = Unmounted(s)]
    /\ StorageUnchanged /\ UNCHANGED <<row, sheets, mediaFailures, cause>>

\* CategoryImagePicker has one picture, which the next one replaces.
PicksOne(s) == sheet[s].kind = "category"

\* The photos that have a button to remove them: every tile of the gallery; a
\* category's picture while no other is being uploaded.
Removable(s) == IF PicksOne(s) /\ sheet[s].upload # NoPhoto THEN {} ELSE sheet[s].images

RemovePhoto(s) ==
    /\ sheet[s].open
    /\ \E p \in Removable(s) : sheet' = [sheet EXCEPT ![s].images = @ \ {p}]
    /\ StorageUnchanged /\ UNCHANGED <<row, sheets, mediaFailures, cause>>

-----------------------------------------------------------------------------
(* Uploading                                                                *)

\* The gallery's last tile, or the picker's button.
CanAddMore(s) == PicksOne(s) \/ Cardinality(sheet[s].images) < MaxImages

\* The listener of the request keeps the callback of the render that started
\* it, and with it the gallery as it was.
StartUpload(s) ==
    /\ sheet[s].open /\ sheet[s].upload = NoPhoto /\ CanAddMore(s)
    /\ \E p \in Photo :
         /\ file[p] = "none" /\ \A t \in Sheet : sheet[t].upload # p
         /\ sheet' = [sheet EXCEPT ![s].upload = p, ![s].held = sheet[s].images]
    /\ StorageUnchanged /\ UNCHANGED <<row, sheets, mediaFailures, cause>>

\* The driver's put: the file is written aside and renamed, so it is there whole.
Put(p) == [file EXCEPT ![p] = "stored"]

\* buildKey: a key of its own for every file, so that nothing is overwritten.
NewKey(p) == p # NoPhoto /\ file[p] = "none"

\* uploadImage, for a file that the sniffing and the caps let through.
StoreUpload(s) ==
    /\ NewKey(sheet[s].upload)
    /\ file' = Put(sheet[s].upload)
    /\ UNCHANGED <<row, sheet, sheets, doomed, sweep, mediaFailures, cause>>

NoUpload(s) == [sheet EXCEPT ![s].upload = NoPhoto, ![s].held = {}]

\* POST /api/uploads turns the upload away: another origin, no owner of the
\* restaurant, too many uploads, too large, no image or video. Nothing is stored.
UploadRefused(s) ==
    /\ NewKey(sheet[s].upload)
    /\ sheet' = NoUpload(s)
    /\ StorageUnchanged /\ UNCHANGED <<row, sheets, mediaFailures, cause>>

\* The answer is lost: the file stays, for the sweeper to find.
UploadUnheard(s) ==
    /\ sheet[s].upload # NoPhoto /\ ~NewKey(sheet[s].upload)
    /\ sheet' = NoUpload(s)
    /\ StorageUnchanged /\ UNCHANGED <<row, sheets, mediaFailures, cause>>

\* onUploaded: beside the gallery's photos, in place of a category's.
WithUpload(s) ==
    IF PicksOne(s) THEN {sheet[s].upload} ELSE sheet[s].held \cup {sheet[s].upload}

UploadDone(s) ==
    /\ sheet[s].upload # NoPhoto /\ ~NewKey(sheet[s].upload)
    /\ sheet' = [NoUpload(s) EXCEPT ![s].images = WithUpload(s)]
    /\ cause' = IF WithUpload(s) \subseteq sheet[s].images \cup {sheet[s].upload} THEN cause
                ELSE cause \cup {"revived"}
    /\ StorageUnchanged /\ UNCHANGED <<row, sheets, mediaFailures>>

-----------------------------------------------------------------------------
(* Saving                                                                   *)

\* The first thing updateMenuItem and updateCategory do is to read the photos
\* that are there.
Previous(s) == IF sheet[s].row = NoRow THEN {} ELSE row[sheet[s].row].photos

\* submit: the sheet stays open, and may change, until the action answers.
Save(s) ==
    /\ sheet[s].open /\ sheet[s].save = "none"
    /\ sheet' = [sheet EXCEPT ![s].save = "write", ![s].saving = sheet[s].images,
                              ![s].previous = Previous(s)]
    /\ StorageUnchanged /\ UNCHANGED <<row, sheets, mediaFailures, cause>>

\* The action answers: the sheet closes on success, and on an error stays as
\* it is. The answer may also be lost after the row was written, or the
\* translations that are saved next may fail.
Answered(s, failed) ==
    IF sheet[s].open /\ failed
    THEN [sheet[s] EXCEPT !.save = "none", !.saving = {}, !.previous = {}]
    ELSE Shut

\* discardRemovedImages.
DiscardPrevious(before, after) == before                \* mutant
Discarded(before, after) == before \ after

\* A sheet that is open on a row which another sheet's save changes is stale.
Overtaken(s) ==
    [t \in Sheet |->
        IF sheet[t].row = sheet[s].row /\ row[sheet[s].row].photos # sheet[s].saving
        THEN [sheet[t] EXCEPT !.stale = TRUE] ELSE sheet[t]]

UpdateRow(s) ==
    LET r == sheet[s].row IN
    /\ sheet[s].save = "write" /\ r # NoRow
    /\ row' = [row EXCEPT ![r].photos = sheet[s].saving]
    /\ doomed' = doomed \cup Discarded(sheet[s].previous, sheet[s].saving)
    /\ \/ sheet' = [Overtaken(s) EXCEPT ![s] = Answered(s, FALSE)] /\ UNCHANGED mediaFailures
       \/ sheet' = [Overtaken(s) EXCEPT ![s] = Answered(s, TRUE)] /\ Fails
    /\ cause' = IF sheet[s].stale THEN cause \cup {"overtaken"} ELSE cause
    /\ UNCHANGED <<file, sheets, sweep>>

\* The rows of a menu there is room for.
KindRow(kind) == IF kind = "dish" THEN DishRow ELSE CategoryRow

\* createMenuItem, createCategory. A sheet whose answer was lost can be saved
\* again, as another row with the same photos.
InsertRow(s) ==
    /\ sheet[s].save = "write" /\ sheet[s].row = NoRow
    /\ \E r \in Rows("none") \cap KindRow(sheet[s].kind) :
         row' = [row EXCEPT ![r] = [state |-> "live", photos |-> sheet[s].saving]]
    /\ \/ sheet' = [sheet EXCEPT ![s] = Answered(s, FALSE)] /\ UNCHANGED <<mediaFailures, cause>>
       \/ /\ sheet' = [sheet EXCEPT ![s] = Answered(s, TRUE)] /\ Fails
          /\ cause' = IF sheet[s].open THEN cause \cup {"createdTwice"} ELSE cause
    /\ StorageUnchanged /\ UNCHANGED sheets

\* A statement throws, or the server dies, before the row is written.
SaveFails(s) ==
    /\ sheet[s].save # "none" /\ Fails
    /\ sheet' = [sheet EXCEPT ![s] = IF sheet[s].open
                 THEN [@ EXCEPT !.save = "none", !.saving = {}, !.previous = {}] ELSE Shut]
    /\ StorageUnchanged /\ UNCHANGED <<row, sheets, cause>>

Deleted(p) == [file EXCEPT ![p] = "gone"]

\* deleteImageByUrl, which nobody waits for and whose failure is only logged.
Discard(p) ==
    /\ p \in doomed
    /\ doomed' = doomed \ {p}
    /\ \/ file' = Deleted(p) /\ UNCHANGED mediaFailures
       \/ Fails /\ UNCHANGED file
    /\ UNCHANGED <<row, sheet, sheets, sweep, cause>>

-----------------------------------------------------------------------------
(* The menu's other actions, and the sweeper                                *)

\* A row that is deleted keeps its photos.
SoftDeleted(r) ==
    /\ row' = [row EXCEPT ![r].state = "deleted"]
    /\ StorageUnchanged /\ UNCHANGED <<sheets, mediaFailures, cause>>

DeleteDish(r) == r \in DishesShown /\ SoftDeleted(r) /\ UNCHANGED sheet

\* The button of a category's sheet, which then closes. Its dishes stay as they are.
DeleteCategory(s) ==
    LET r == sheet[s].row IN
    /\ sheet[s].open /\ sheet[s].save = "none" /\ r \in CategoryRow
    /\ SoftDeleted(r)
    /\ sheet' = [sheet EXCEPT ![s] = Shut]

\* duplicateMenuItem: the copy refers to the original's files.
DuplicateDish(r) ==
    /\ r \in DishesShown
    /\ \E copy \in Rows("none") \cap DishRow : row' = [row EXCEPT ![copy] = row[r]]
    /\ cause' = IF row[r].photos = {} THEN cause ELSE cause \cup {"copied"}
    /\ StorageUnchanged /\ UNCHANGED <<sheet, sheets, mediaFailures>>

\* Photos of every row, the deleted ones too: a dish that is restored is not
\* to be blank.
References == UNION {row[r].photos : r \in Row}

\* GET /api/uploads: a file, or a 404.
Served(p) == file[p] = "stored"

\* An open sheet, or a save under way, holds photos that no row refers to yet.
Held == UNION {sheet[s].images \cup {sheet[s].upload} \cup sheet[s].held \cup sheet[s].saving
               : s \in Sheet}

\* The files that a walk through the storage finds.
Found == {p \in Photo : file[p] = "stored"}

\* main of sweep-uploads.mjs: the references, which a role held to row level
\* security sees none of, and the files not among them that are 24 hours old,
\* as any file may be.
SweepLooks ==
    /\ sweep = {}
    /\ \E sees \in BOOLEAN, old \in SUBSET Found :
         /\ sweep' = {p \in old : sees => p \notin References}
         /\ cause' = cause \cup (IF sees THEN {} ELSE {"blind"})
                           \cup (IF sweep' \cap Held = {} THEN {} ELSE {"dayOldSheet"})
    /\ UNCHANGED <<row, file, sheet, sheets, doomed, mediaFailures>>

SweepDeletes(p) ==
    /\ p \in sweep
    /\ sweep' = sweep \ {p}
    /\ file' = Deleted(p)
    /\ UNCHANGED <<row, sheet, sheets, doomed, mediaFailures, cause>>

SheetStep(s) ==
    \/ OpenDish(s) \/ EditCategory(s) \/ AddCategory(s) \/ CloseEditor(s) \/ RemovePhoto(s)
    \/ StartUpload(s) \/ StoreUpload(s) \/ UploadRefused(s) \/ UploadUnheard(s) \/ UploadDone(s)
    \/ DeleteCategory(s) \/ Save(s) \/ UpdateRow(s) \/ InsertRow(s) \/ SaveFails(s)

\* No property speaks of what follows a cause, so nothing follows one.
MediaNext ==
    /\ cause = {}
    /\ \/ \E s \in Sheet : SheetStep(s)
       \/ \E p \in Photo : Discard(p) \/ SweepDeletes(p)
       \/ \E r \in Row : DeleteDish(r) \/ DuplicateDish(r)
       \/ SweepLooks

-----------------------------------------------------------------------------
MediaTypeOK ==
    /\ row \in [Row -> [state : {"none", "live", "deleted"}, photos : SUBSET Photo]]
    /\ file \in [Photo -> {"none", "stored", "gone"}]
    /\ \A s \in Sheet : /\ sheet[s].row \in Row \cup {NoRow}
                        /\ sheet[s].images \subseteq Photo /\ sheet[s].upload \in Photo \cup {NoPhoto}
    /\ doomed \subseteq Photo /\ sweep \subseteq Photo

\* A row that refers to a photo, deleted or not, has its file ("a soft-deleted
\* dish must keep its photo so a restore is not blank", sweep-uploads.mjs; "remove
\* files that a save has orphaned", menu.service.ts): neither a save that replaced
\* photos nor the sweeper takes it, however saves, uploads and failures interleave.
\* The code does lose one when a dish is copied, a sheet is saved over another's
\* save, an upload ends after the gallery was changed, a new row is saved twice,
\* a sheet is open for a day, or the sweeper may not read the rows.
PhotosExist ==
    cause = {} => \A r \in Row : \A p \in row[r].photos : Served(p)
=============================================================================
