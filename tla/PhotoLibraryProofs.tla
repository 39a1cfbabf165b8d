--------------------------- MODULE PhotoLibraryProofs ---------------------------
(***************************************************************************)
(* No photo of a row is lost, for any photos, rows, sheets and failures.   *)
(***************************************************************************)
EXTENDS PhotoLibrary, TLAPS

SheetState ==
    [open : BOOLEAN, kind : {"dish", "category"}, row : Row \cup {NoRow}, images : SUBSET Photo,
     stale : BOOLEAN, upload : Photo \cup {NoPhoto}, held : SUBSET Photo,
     save : {"none", "write"}, saving : SUBSET Photo, previous : SUBSET Photo]

RowState == [state : {"none", "live", "deleted"}, photos : SUBSET Photo]

MediaTyped ==
    /\ row \in [Row -> RowState]
    /\ file \in [Photo -> {"none", "stored", "gone"}]
    /\ sheet \in [Sheet -> SheetState]
    /\ doomed \subseteq Photo /\ sweep \subseteq Photo

-------------------------------------------------------------------------------
(* The invariant                                                              *)

\* The photos a sheet may still put on a row.
Hold(s) == sheet[s].images \cup sheet[s].saving

\* Stored, and nobody is about to delete it.
Safe(p) == file[p] = "stored" /\ p \notin doomed /\ p \notin sweep

RowsHaveFiles == \A r \in Row : \A p \in row[r].photos : Safe(p)
RowsApart == \A q, r \in Row : q # r => row[q].photos \cap row[r].photos = {}

\* What a sheet holds is safe, on no other row, and on no other sheet unless it is
\* on the sheet's row.
HoldOK(s) ==
    \A p \in Hold(s) :
        /\ Safe(p)
        /\ \A r \in Row \ {sheet[s].row} : p \notin row[r].photos
        /\ p \notin Previous(s) => \A t \in Sheet \ {s} : p \notin Hold(t)

\* A save discards what its row had, less what it writes, and the sheet holds
\* nothing of that.
SaveOK(s) ==
    sheet[s].save = "write" =>
        /\ sheet[s].previous = Previous(s)
        /\ sheet[s].images \cap Previous(s) \subseteq sheet[s].saving

\* A photo being uploaded is nobody else's.
UploadOK(s) ==
    sheet[s].upload # NoPhoto =>
        /\ file[sheet[s].upload] # "gone"
        /\ sheet[s].upload \notin doomed /\ sheet[s].upload \notin sweep
        /\ \A r \in Row : sheet[s].upload \notin row[r].photos
        /\ \A t \in Sheet : sheet[s].upload \notin Hold(t)
        /\ \A t \in Sheet \ {s} : sheet[s].upload # sheet[t].upload

SheetOK(s) ==
    /\ UploadOK(s)
    /\ ~sheet[s].stale => HoldOK(s) /\ SaveOK(s)
    /\ sheet[s].row = NoRow => ~sheet[s].stale
    /\ sheet[s].row # NoRow => row[sheet[s].row].state # "none"
    /\ \A p \in Hold(s) : file[p] # "none"

PhotosKept ==
    /\ RowsHaveFiles /\ RowsApart
    /\ \A s \in Sheet : SheetOK(s)
    /\ \A p \in doomed \cup sweep : file[p] # "none"

MediaInv == cause = {} => MediaTyped /\ PhotosKept

LEMMA ShutType == Shut \in SheetState
BY DEF Shut, SheetState

LEMMA MediaInitInv == MediaInit => MediaInv
<1> SUFFICES ASSUME MediaInit PROVE MediaInv
  OBVIOUS
<1>1. PICK dish \in DishRow, photo \in Photo :
          /\ file = [p \in Photo |-> IF p = photo THEN "stored" ELSE "none"]
          /\ row = [r \in Row |-> IF r = dish THEN [state |-> "live", photos |-> {photo}]
                                  ELSE [state |-> "none", photos |-> {}]]
  BY PhotoRows DEF MediaInit
<1>2. sheet = [s \in Sheet |-> Shut] /\ doomed = {} /\ sweep = {}
  BY DEF MediaInit
<1>3. MediaTyped
  BY <1>1, <1>2, ShutType DEF MediaTyped, RowState
<1>4. \A s \in Sheet : SheetOK(s)
  BY <1>2, ShutType DEF SheetOK, UploadOK, HoldOK, SaveOK, Hold, Shut
<1>5. RowsHaveFiles /\ RowsApart
  BY <1>1, <1>2 DEF RowsHaveFiles, RowsApart, Safe
<1>6. QED
  BY <1>2, <1>3, <1>4, <1>5 DEF MediaInv, PhotosKept

-------------------------------------------------------------------------------
(* Steps of one sheet                                                         *)

\* A sheet that keeps at most what it held, on the row it was on.
LEMMA SheetKeeps ==
    ASSUME MediaTyped, PhotosKept, NEW s \in Sheet, NEW new \in SheetState,
           sheet' = [sheet EXCEPT ![s] = new], UNCHANGED <<row, file, doomed, sweep>>,
           new.images \cup new.saving \subseteq Hold(s),
           new.upload \in {NoPhoto, sheet[s].upload},
           \/ new.row = NoRow /\ ~new.stale /\ new.images \cup new.saving = {} /\ new.save = "none"
           \/ /\ new.row = sheet[s].row /\ new.stale = sheet[s].stale
              /\ new.save = "write" /\ ~new.stale =>
                     new.previous = Previous(s) /\ new.images \cap Previous(s) \subseteq new.saving
    PROVE  MediaTyped' /\ PhotosKept'
<1>1. MediaTyped'
  BY DEF MediaTyped
<1>2. sheet'[s] = new /\ \A t \in Sheet \ {s} : sheet'[t] = sheet[t]
  BY DEF MediaTyped
<1>3. \A t \in Sheet : Hold(t)' \subseteq Hold(t)
  BY <1>2 DEF Hold
<1>4. \A t \in Sheet \ {s} : Previous(t)' = Previous(t) /\ Hold(t)' = Hold(t)
  BY <1>2 DEF Previous, Hold
<1>5. new.row = sheet[s].row => Previous(s)' = Previous(s)
  BY <1>2 DEF Previous
<1>6. \A t \in Sheet : SheetOK(t)
  BY DEF PhotosKept
<1>7. \A p : Safe(p)' <=> Safe(p)
  BY DEF Safe
<1>8. \A t \in Sheet : sheet'[t].upload \in {NoPhoto, sheet[t].upload}
  BY <1>2
<1>9. ASSUME NEW t \in Sheet PROVE UploadOK(t)'
  <2>1. UploadOK(t)
    BY <1>6 DEF SheetOK
  <2>2. QED
    BY <1>3, <1>8, <2>1 DEF UploadOK
<1>10. ASSUME NEW t \in Sheet \ {s} PROVE SheetOK(t)'
  <2>1. ~sheet[t].stale => HoldOK(t)'
    <3>1. ~sheet[t].stale => HoldOK(t)
      BY <1>6 DEF SheetOK
    <3>2. QED
      BY <1>2, <1>3, <1>4, <1>7, <3>1 DEF HoldOK
  <2>2. ~sheet[t].stale => SaveOK(t)'
    BY <1>2, <1>4, <1>6 DEF SheetOK, SaveOK
  <2>3. QED
    BY <1>2, <1>4, <1>6, <1>9, <2>1, <2>2 DEF SheetOK
<1>11. SheetOK(s)'
  <2>1. ~new.stale => HoldOK(s)'
    <3>1. CASE new.row = NoRow /\ new.images \cup new.saving = {}
      BY <1>2, <3>1 DEF HoldOK, Hold
    <3>2. CASE new.row = sheet[s].row /\ new.stale = sheet[s].stale
      <4>1. ~new.stale => HoldOK(s)
        BY <1>6, <3>2 DEF SheetOK
      <4>2. QED
        BY <1>2, <1>3, <1>4, <1>5, <1>7, <3>2, <4>1 DEF HoldOK
    <3>3. QED
      BY <3>1, <3>2
  <2>2. ~new.stale => SaveOK(s)'
    BY <1>2, <1>5 DEF SaveOK
  <2>3. QED
    BY <1>2, <1>3, <1>6, <1>9, <2>1, <2>2 DEF SheetOK
<1>12. QED
  BY <1>1, <1>7, <1>10, <1>11 DEF PhotosKept, RowsHaveFiles, RowsApart

LEMMA SheetFields ==
    ASSUME MediaTyped, NEW s \in Sheet
    PROVE  /\ sheet[s] \in SheetState
           /\ sheet[s].images \subseteq Photo /\ sheet[s].saving \subseteq Photo
           /\ sheet[s].held \subseteq Photo /\ sheet[s].upload \in Photo \cup {NoPhoto}
           /\ sheet[s].row \in Row \cup {NoRow} /\ sheet[s].previous \subseteq Photo
           /\ Previous(s) \subseteq Photo
           /\ sheet[s].kind \in {"dish", "category"}
BY DEF MediaTyped, SheetState, Previous, RowState

\* What a sheet holds is stored, what it uploads is not held by anybody.
LEMMA StartUploadKeeps ==
    ASSUME MediaTyped, PhotosKept, NEW s \in Sheet, StartUpload(s)
    PROVE  MediaTyped' /\ PhotosKept'
<1>1. PICK p \in Photo :
          /\ file[p] = "none" /\ \A t \in Sheet : sheet[t].upload # p
          /\ sheet' = [sheet EXCEPT ![s].upload = p, ![s].held = sheet[s].images]
  BY DEF StartUpload
<1>2. UNCHANGED <<row, file, doomed, sweep>>
  BY DEF StartUpload, StorageUnchanged
<1> DEFINE new == [sheet[s] EXCEPT !.upload = p, !.held = sheet[s].images]
<1>3. sheet[s] \in SheetState
  BY SheetFields
<1>4. /\ new \in SheetState /\ new.upload = p
      /\ new.row = sheet[s].row /\ new.stale = sheet[s].stale /\ new.images = sheet[s].images
      /\ new.save = sheet[s].save /\ new.saving = sheet[s].saving
      /\ new.previous = sheet[s].previous
  BY <1>3 DEF SheetState
<1>5. sheet'[s] = new /\ \A t \in Sheet \ {s} : sheet'[t] = sheet[t]
  BY <1>1 DEF MediaTyped
<1>6. MediaTyped'
  BY <1>1, <1>2, <1>4 DEF MediaTyped
<1>7. \A t \in Sheet : Hold(t)' = Hold(t) /\ Previous(t)' = Previous(t)
  BY <1>2, <1>4, <1>5 DEF Hold, Previous
<1>8. \A t \in Sheet : SheetOK(t)
  BY DEF PhotosKept
<1>9. \A q : Safe(q)' <=> Safe(q)
  BY <1>2 DEF Safe
<1>10. /\ p \notin doomed /\ p \notin sweep
       /\ \A r \in Row : p \notin row[r].photos
       /\ \A t \in Sheet : p \notin Hold(t)
  BY <1>1, <1>8 DEF PhotosKept, RowsHaveFiles, Safe, SheetOK
<1>a. sheet'[s].upload = p /\ \A t \in Sheet \ {s} : sheet'[t].upload = sheet[t].upload
  BY <1>4, <1>5
<1>11. UploadOK(s)'
  <2>1. \A t \in Sheet : p \notin Hold(t)'
    BY <1>7, <1>10
  <2>2. \A t \in Sheet \ {s} : p # sheet'[t].upload
    BY <1>1, <1>a
  <2>3. file'[p] # "gone" /\ p \notin doomed' /\ p \notin sweep' /\ \A r \in Row : p \notin row'[r].photos
    BY <1>1, <1>2, <1>10
  <2>4. QED
    BY <1>a, <2>1, <2>2, <2>3 DEF UploadOK
<1>12. ASSUME NEW t \in Sheet \ {s} PROVE UploadOK(t)'
  <2>1. UploadOK(t) /\ sheet[t].upload # p
    BY <1>1, <1>8 DEF SheetOK
  <2>2. \A u \in Sheet \ {t} : sheet[t].upload # NoPhoto => sheet[t].upload # sheet'[u].upload
    BY <1>a, <2>1 DEF UploadOK
  <2>3. QED
    BY <1>2, <1>7, <1>a, <2>1, <2>2 DEF UploadOK
<1>13. ASSUME NEW t \in Sheet PROVE SheetOK(t)'
  <2>1. /\ sheet'[t].stale = sheet[t].stale /\ sheet'[t].row = sheet[t].row
        /\ sheet'[t].save = sheet[t].save /\ sheet'[t].previous = sheet[t].previous
        /\ sheet'[t].images = sheet[t].images /\ sheet'[t].saving = sheet[t].saving
    BY <1>4, <1>5
  <2>2. HoldOK(t) => HoldOK(t)'
    BY <1>2, <1>7, <1>9, <2>1 DEF HoldOK
  <2>3. SaveOK(t) => SaveOK(t)'
    BY <1>7, <2>1 DEF SaveOK
  <2>4. QED
    BY <1>2, <1>7, <1>8, <1>11, <1>12, <2>1, <2>2, <2>3 DEF SheetOK
<1>14. QED
  BY <1>2, <1>6, <1>9, <1>13 DEF PhotosKept, RowsHaveFiles, RowsApart

\* The uploaded photo joins what the sheet holds.
LEMMA UploadDoneKeeps ==
    ASSUME MediaTyped, PhotosKept, NEW s \in Sheet, UploadDone(s), cause' = {}
    PROVE  MediaTyped' /\ PhotosKept'
<1> DEFINE p == sheet[s].upload
           new == [sheet[s] EXCEPT !.upload = NoPhoto, !.held = {}, !.images = WithUpload(s)]
<1>1. p # NoPhoto /\ file[p] # "none" /\ p \in Photo
  BY SheetFields DEF UploadDone, NewKey
<1>2. UNCHANGED <<row, file, doomed, sweep>> /\ WithUpload(s) \subseteq sheet[s].images \cup {p}
  BY DEF UploadDone, StorageUnchanged
<1>3. sheet[s] \in SheetState /\ WithUpload(s) \subseteq Photo
  BY <1>1, SheetFields DEF WithUpload
<1>4. /\ new \in SheetState /\ new.upload = NoPhoto
      /\ new.row = sheet[s].row /\ new.stale = sheet[s].stale /\ new.images = WithUpload(s)
      /\ new.save = sheet[s].save /\ new.saving = sheet[s].saving
      /\ new.previous = sheet[s].previous
  BY <1>3 DEF SheetState
<1>5. sheet' = [sheet EXCEPT ![s] = new]
  BY <1>3 DEF UploadDone, NoUpload, MediaTyped
<1>6. sheet'[s] = new /\ \A t \in Sheet \ {s} : sheet'[t] = sheet[t]
  BY <1>5 DEF MediaTyped
<1>7. MediaTyped'
  BY <1>2, <1>4, <1>5 DEF MediaTyped
<1>8. /\ \A t \in Sheet \ {s} : Hold(t)' = Hold(t)
      /\ Hold(s)' \subseteq Hold(s) \cup {p}
      /\ \A t \in Sheet : Previous(t)' = Previous(t)
  BY <1>2, <1>4, <1>6 DEF Hold, Previous
<1>9. \A t \in Sheet : SheetOK(t)
  BY DEF PhotosKept
<1>10. \A q : Safe(q)' <=> Safe(q)
  BY <1>2 DEF Safe
<1>11. /\ Safe(p)
       /\ \A r \in Row : p \notin row[r].photos
       /\ \A t \in Sheet : p \notin Hold(t)
       /\ \A t \in Sheet \ {s} : p # sheet[t].upload
  <2>1. UploadOK(s)
    BY <1>9 DEF SheetOK
  <2>2. QED
    BY <1>1, <2>1 DEF UploadOK, Safe, MediaTyped
<1>12. ASSUME NEW t \in Sheet PROVE UploadOK(t)'
  <2>1. UploadOK(t)
    BY <1>9 DEF SheetOK
  <2>2. CASE t = s
    BY <1>4, <1>6, <2>2 DEF UploadOK
  <2>3. CASE t # s
    <3>1. sheet'[t].upload = sheet[t].upload /\ sheet[t].upload # p
      BY <1>6, <1>11, <2>3
    <3>2. \A u \in Sheet : sheet'[u].upload \in {NoPhoto, sheet[u].upload}
      BY <1>4, <1>6
    <3>3. \A u \in Sheet \ {t} : sheet[t].upload # NoPhoto => sheet[t].upload # sheet'[u].upload
      BY <2>1, <3>2 DEF UploadOK
    <3>4. sheet[t].upload # NoPhoto => \A u \in Sheet : sheet[t].upload \notin Hold(u)'
      BY <1>8, <2>1, <3>1 DEF UploadOK
    <3>5. QED
      BY <1>2, <2>1, <3>1, <3>3, <3>4 DEF UploadOK
  <2>4. QED
    BY <2>2, <2>3
<1>13. ASSUME NEW t \in Sheet \ {s} PROVE SheetOK(t)'
  <2>1. HoldOK(t) => HoldOK(t)'
    BY <1>2, <1>6, <1>8, <1>10, <1>11 DEF HoldOK
  <2>2. SaveOK(t) => SaveOK(t)'
    BY <1>6, <1>8 DEF SaveOK
  <2>3. QED
    BY <1>2, <1>6, <1>8, <1>9, <1>12, <2>1, <2>2 DEF SheetOK
<1>14. SheetOK(s)'
  <2>1. HoldOK(s) => HoldOK(s)'
    BY <1>2, <1>4, <1>6, <1>8, <1>10, <1>11 DEF HoldOK
  <2>2. p \notin Previous(s)
    BY <1>11 DEF Previous, SheetFields, MediaTyped, SheetState
  <2>3. SaveOK(s) => SaveOK(s)'
    BY <1>2, <1>4, <1>6, <1>8, <2>2 DEF SaveOK
  <2>4. QED
    BY <1>1, <1>2, <1>4, <1>6, <1>8, <1>9, <1>12, <2>1, <2>3 DEF SheetOK
<1>15. QED
  BY <1>2, <1>7, <1>10, <1>13, <1>14 DEF PhotosKept, RowsHaveFiles, RowsApart

\* A sheet that opens holds what its row has.
LEMMA OpensKeeps ==
    ASSUME MediaTyped, PhotosKept, NEW s \in Sheet, NEW kind \in {"dish", "category"},
           NEW r \in Rows("live") \cup {NoRow}, Opens(s, SheetOn(kind, r))
    PROVE  MediaTyped' /\ PhotosKept'
<1> DEFINE new == SheetOn(kind, r)
           photos == IF r = NoRow THEN {} ELSE row[r].photos
<1>1. r \in Row \cup {NoRow} /\ (r # NoRow => r \in Row /\ row[r].state = "live")
  BY DEF Rows
<1>2. UNCHANGED <<row, file, doomed, sweep>> /\ sheet' = [sheet EXCEPT ![s] = new]
  BY DEF Opens, StorageUnchanged
<1>3. /\ new \in SheetState /\ new.upload = NoPhoto /\ new.row = r /\ ~new.stale
      /\ new.images = photos /\ new.save = "none" /\ new.saving = {}
  BY <1>1 DEF SheetOn, Shut, SheetState, MediaTyped, RowState
<1>4. sheet'[s] = new /\ \A t \in Sheet \ {s} : sheet'[t] = sheet[t]
  BY <1>2 DEF MediaTyped
<1>5. MediaTyped'
  BY <1>2, <1>3 DEF MediaTyped
<1>6. /\ \A t \in Sheet \ {s} : Hold(t)' = Hold(t) /\ Previous(t)' = Previous(t)
      /\ Hold(s)' = photos /\ Previous(s)' = photos
  BY <1>2, <1>3, <1>4 DEF Hold, Previous
<1>7. \A t \in Sheet : SheetOK(t)
  BY DEF PhotosKept
<1>8. \A q : Safe(q)' <=> Safe(q)
  BY <1>2 DEF Safe
<1>9. ASSUME NEW t \in Sheet PROVE UploadOK(t)'
  <2>1. UploadOK(t)
    BY <1>7 DEF SheetOK
  <2>2. CASE t = s
    BY <1>3, <1>4, <2>2 DEF UploadOK
  <2>3. CASE t # s
    <3>1. \A q \in photos : q # sheet[t].upload \/ sheet[t].upload = NoPhoto
      BY <1>1, <2>1 DEF UploadOK
    <3>2. QED
      BY <1>2, <1>3, <1>4, <1>6, <2>1, <2>3, <3>1 DEF UploadOK
  <2>4. QED
    BY <2>2, <2>3
<1>10. ASSUME NEW t \in Sheet \ {s} PROVE SheetOK(t)'
  <2>1. ASSUME HoldOK(t) PROVE HoldOK(t)'
    <3>1. ASSUME NEW q \in Hold(t), q \notin Previous(t) PROVE q \notin photos
      <4>1. \A u \in Row : q \notin row[u].photos
        <5>1. \A u \in Row \ {sheet[t].row} : q \notin row[u].photos
          BY <2>1, <3>1 DEF HoldOK
        <5>2. sheet[t].row # NoRow => q \notin row[sheet[t].row].photos
          BY <3>1 DEF Previous
        <5>3. QED
          BY <5>1, <5>2, NoRowFresh DEF Row
      <4>2. QED
        BY <1>1, <4>1
    <3>2. QED
      BY <1>2, <1>4, <1>6, <1>8, <2>1, <3>1 DEF HoldOK
  <2>2. SaveOK(t) => SaveOK(t)'
    BY <1>4, <1>6 DEF SaveOK
  <2>3. QED
    BY <1>2, <1>4, <1>6, <1>7, <1>9, <2>1, <2>2 DEF SheetOK
<1>11. SheetOK(s)'
  <2>1. \A q \in photos : Safe(q) /\ \A u \in Row \ {r} : q \notin row[u].photos
    BY <1>1 DEF PhotosKept, RowsHaveFiles, RowsApart
  <2>2. HoldOK(s)'
    BY <1>2, <1>3, <1>4, <1>6, <1>8, <2>1 DEF HoldOK
  <2>3. SaveOK(s)'
    BY <1>3, <1>4 DEF SaveOK
  <2>4. QED
    BY <1>1, <1>2, <1>3, <1>4, <1>6, <1>9, <2>1, <2>2, <2>3 DEF SheetOK, Safe
<1>12. QED
  BY <1>2, <1>5, <1>8, <1>10, <1>11 DEF PhotosKept, RowsHaveFiles, RowsApart

-------------------------------------------------------------------------------
(* Steps of the storage                                                       *)

\* Files come from uploads and go when they were doomed, or swept.
LEMMA FilesKeep ==
    ASSUME MediaTyped, PhotosKept, UNCHANGED <<row, sheet>>,
           file' \in [Photo -> {"none", "stored", "gone"}],
           doomed' \subseteq Photo, sweep' \subseteq Photo,
           \A p \in Photo : \/ file'[p] = file[p]
                            \/ file[p] = "none" /\ file'[p] = "stored"
                            \/ file'[p] = "gone" /\ p \in doomed \cup sweep,
           doomed' \subseteq doomed,
           \A p \in sweep' \ sweep : /\ file[p] = "stored" /\ p \notin References
                                     /\ p \notin Held
    PROVE  MediaTyped' /\ PhotosKept'
<1>1. MediaTyped'
  BY DEF MediaTyped
<1>2. \A p \in Photo : file[p] # "none" => file'[p] # "none"
  BY DEF MediaTyped
<1>3. \A t \in Sheet : Hold(t)' = Hold(t) /\ Previous(t)' = Previous(t)
  BY DEF Hold, Previous
<1>4. \A t \in Sheet : SheetOK(t)
  BY DEF PhotosKept
<1>5. ASSUME NEW p \in Photo, Safe(p), p \notin sweep' PROVE Safe(p)'
  BY <1>5 DEF Safe
<1>6. \A p \in sweep' \ sweep : \A r \in Row : p \notin row[r].photos
  BY DEF References
<1>7. \A p \in sweep' \ sweep : \A s \in Sheet : p \notin Hold(s) /\ p # sheet[s].upload
  BY DEF Held, Hold
<1>8. \A r \in Row : row[r].photos \subseteq Photo
  BY DEF MediaTyped, RowState
<1>9. \A s \in Sheet : Hold(s) \subseteq Photo
  BY SheetFields DEF Hold
<1>10. RowsHaveFiles' /\ RowsApart'
  <2>1. ASSUME NEW r \in Row, NEW p \in row[r].photos PROVE Safe(p)'
    <3>1. Safe(p) /\ p \in Photo
      BY <1>8 DEF PhotosKept, RowsHaveFiles
    <3>2. p \notin sweep'
      BY <1>6, <3>1 DEF Safe
    <3>3. QED
      BY <1>5, <3>1, <3>2
  <2>2. QED
    BY <2>1 DEF PhotosKept, RowsHaveFiles, RowsApart
<1>11. ASSUME NEW s \in Sheet PROVE SheetOK(s)'
  <2>1. UploadOK(s)'
    <3>1. UploadOK(s) /\ sheet[s].upload \in Photo \cup {NoPhoto}
      BY <1>4, SheetFields DEF SheetOK
    <3>2. sheet[s].upload # NoPhoto =>
              sheet[s].upload \notin sweep' /\ sheet[s].upload \notin doomed'
      BY <1>7, <3>1 DEF UploadOK
    <3>3. sheet[s].upload # NoPhoto => file'[sheet[s].upload] # "gone"
      BY <3>1 DEF UploadOK
    <3>4. QED
      BY <1>3, <3>1, <3>2, <3>3 DEF UploadOK
  <2>2. HoldOK(s) => HoldOK(s)'
    <3>1. ASSUME HoldOK(s), NEW p \in Hold(s) PROVE Safe(p)'
      <4>1. Safe(p) /\ p \in Photo
        BY <1>9, <3>1 DEF HoldOK
      <4>2. p \notin sweep'
        BY <1>7, <4>1 DEF Safe
      <4>3. QED
        BY <1>5, <4>1, <4>2
    <3>2. QED
      BY <1>3, <3>1 DEF HoldOK
  <2>3. SaveOK(s) => SaveOK(s)'
    BY <1>3 DEF SaveOK
  <2>4. QED
    BY <1>2, <1>3, <1>4, <1>9, <2>1, <2>2, <2>3 DEF SheetOK
<1>12. \A p \in doomed' \cup sweep' : file'[p] # "none"
  <2>1. \A p \in doomed' \cup sweep' : p \in Photo /\ file[p] # "none"
    BY DEF PhotosKept
  <2>2. QED
    BY <1>2, <2>1
<1>13. QED
  BY <1>1, <1>10, <1>11, <1>12 DEF PhotosKept

LEMMA StorageKeeps ==
    ASSUME MediaTyped, PhotosKept, cause' = {},
           \/ \E s \in Sheet : StoreUpload(s)
           \/ \E p \in Photo : Discard(p) \/ SweepDeletes(p)
           \/ SweepLooks
    PROVE  MediaTyped' /\ PhotosKept'
<1>1. CASE \E s \in Sheet : StoreUpload(s)
  <2>1. PICK s \in Sheet : StoreUpload(s)
    BY <1>1
  <2>2. sheet[s].upload \in Photo /\ file[sheet[s].upload] = "none"
    BY <2>1, SheetFields DEF StoreUpload, NewKey
  <2>3. file' = [file EXCEPT ![sheet[s].upload] = "stored"]
    BY <2>1 DEF StoreUpload, Put
  <2>4. UNCHANGED <<row, sheet, doomed, sweep>>
    BY <2>1 DEF StoreUpload
  <2>5. \A p \in Photo : \/ file'[p] = file[p]
                         \/ file[p] = "none" /\ file'[p] = "stored"
    BY <2>2, <2>3 DEF MediaTyped
  <2>6. file' \in [Photo -> {"none", "stored", "gone"}]
    BY <2>2, <2>3 DEF MediaTyped
  <2>7. QED
    BY <2>4, <2>5, <2>6, FilesKeep DEF MediaTyped
<1>2. CASE \E p \in Photo : Discard(p)
  <2>1. PICK p \in Photo : Discard(p)
    BY <1>2
  <2>2. /\ p \in doomed /\ doomed' = doomed \ {p}
        /\ file' = [file EXCEPT ![p] = "gone"] \/ file' = file
        /\ UNCHANGED <<row, sheet, sweep>>
    BY <2>1 DEF Discard, Deleted
  <2>3. /\ \A q \in Photo : file'[q] = file[q] \/ (file'[q] = "gone" /\ q \in doomed \cup sweep)
        /\ file' \in [Photo -> {"none", "stored", "gone"}]
    BY <2>2 DEF MediaTyped
  <2>4. QED
    BY <2>2, <2>3, FilesKeep DEF MediaTyped
<1>3. CASE \E p \in Photo : SweepDeletes(p)
  <2>1. PICK p \in Photo : SweepDeletes(p)
    BY <1>3
  <2>2. /\ p \in sweep /\ sweep' = sweep \ {p}
        /\ file' = [file EXCEPT ![p] = "gone"]
        /\ UNCHANGED <<row, sheet, doomed>>
    BY <2>1 DEF SweepDeletes, Deleted
  <2>3. /\ \A q \in Photo : file'[q] = file[q] \/ (file'[q] = "gone" /\ q \in doomed \cup sweep)
        /\ file' \in [Photo -> {"none", "stored", "gone"}]
    BY <2>2 DEF MediaTyped
  <2>4. QED
    BY <2>2, <2>3, FilesKeep DEF MediaTyped
<1>4. CASE SweepLooks
  <2>1. PICK sees \in BOOLEAN, old \in SUBSET Found :
            /\ sweep' = {p \in old : sees => p \notin References}
            /\ cause' = cause \cup (IF sees THEN {} ELSE {"blind"})
                              \cup (IF sweep' \cap Held = {} THEN {} ELSE {"dayOldSheet"})
    BY <1>4 DEF SweepLooks
  <2>2. sees /\ sweep' \cap Held = {}
    BY <2>1
  <2>3. UNCHANGED <<row, sheet, file, doomed>>
    BY <1>4 DEF SweepLooks
  <2>4. sweep' \subseteq Photo /\ \A p \in sweep' : /\ file[p] = "stored" /\ p \notin References
                                                    /\ p \notin Held
    BY <2>1, <2>2 DEF Found
  <2>5. QED
    BY <2>3, <2>4, FilesKeep DEF MediaTyped
<1>5. QED
  BY <1>1, <1>2, <1>3, <1>4

-------------------------------------------------------------------------------
(* The steps of a sheet that only lets go, and of a save that begins          *)

LEMMA SheetLetsGo ==
    ASSUME MediaTyped, PhotosKept, NEW s \in Sheet,
           \/ CloseEditor(s) \/ RemovePhoto(s) \/ UploadRefused(s) \/ UploadUnheard(s)
           \/ Save(s) \/ SaveFails(s)
    PROVE  MediaTyped' /\ PhotosKept'
<1>1. sheet[s] \in SheetState /\ Previous(s) \subseteq Photo
  BY SheetFields
<1>2. sheet[s].save = "write" /\ ~sheet[s].stale =>
          /\ sheet[s].previous = Previous(s)
          /\ sheet[s].images \cap Previous(s) \subseteq sheet[s].saving
  BY DEF PhotosKept, SheetOK, SaveOK
<1>3. CASE CloseEditor(s)
  <2>1. sheet' = [sheet EXCEPT ![s] = Unmounted(s)] /\ UNCHANGED <<row, file, doomed, sweep>>
    BY <1>3 DEF CloseEditor, StorageUnchanged
  <2>2. CASE sheet[s].save = "none"
    <3>1. Unmounted(s) = Shut
      BY <2>2 DEF Unmounted
    <3>2. /\ Shut.images = {} /\ Shut.saving = {} /\ Shut.upload = NoPhoto
          /\ Shut.row = NoRow /\ ~Shut.stale /\ Shut.save = "none"
      BY DEF Shut
    <3>3. QED
      BY <2>1, <3>1, <3>2, ShutType, SheetKeeps
  <2>3. CASE sheet[s].save # "none"
    <3> DEFINE new == [sheet[s] EXCEPT !.open = FALSE, !.images = {}, !.upload = NoPhoto, !.held = {}]
    <3>1. /\ new \in SheetState /\ new.images = {} /\ new.saving = sheet[s].saving
          /\ new.upload = NoPhoto /\ new.row = sheet[s].row /\ new.stale = sheet[s].stale
          /\ new.save = sheet[s].save /\ new.previous = sheet[s].previous
      BY <1>1 DEF SheetState
    <3>2. sheet' = [sheet EXCEPT ![s] = new]
      BY <2>1, <2>3 DEF Unmounted
    <3> HIDE DEF new
    <3>3. new.images \cup new.saving \subseteq Hold(s)
      BY <3>1 DEF Hold
    <3>4. new.save = "write" /\ ~new.stale =>
              new.previous = Previous(s) /\ new.images \cap Previous(s) \subseteq new.saving
      BY <1>2, <3>1
    <3>5. QED
      BY <2>1, <3>1, <3>2, <3>3, <3>4, SheetKeeps
  <2>4. QED
    BY <2>2, <2>3
<1>4. CASE RemovePhoto(s)
  <2>1. PICK p : sheet' = [sheet EXCEPT ![s].images = @ \ {p}]
    BY <1>4 DEF RemovePhoto
  <2> DEFINE new == [sheet[s] EXCEPT !.images = @ \ {p}]
  <2>2. /\ new \in SheetState /\ new.images = sheet[s].images \ {p}
        /\ new.saving = sheet[s].saving /\ new.upload = sheet[s].upload
        /\ new.row = sheet[s].row /\ new.stale = sheet[s].stale
        /\ new.save = sheet[s].save /\ new.previous = sheet[s].previous
    BY <1>1 DEF SheetState
  <2>3. sheet' = [sheet EXCEPT ![s] = new] /\ UNCHANGED <<row, file, doomed, sweep>>
    BY <1>4, <2>1 DEF RemovePhoto, StorageUnchanged
  <2> HIDE DEF new
  <2>4. new.images \cup new.saving \subseteq Hold(s)
    BY <2>2 DEF Hold
  <2>5. new.save = "write" /\ ~new.stale =>
            new.previous = Previous(s) /\ new.images \cap Previous(s) \subseteq new.saving
    BY <1>2, <2>2
  <2>6. QED
    BY <2>2, <2>3, <2>4, <2>5, SheetKeeps
<1>5. CASE UploadRefused(s) \/ UploadUnheard(s)
  <2> DEFINE new == [sheet[s] EXCEPT !.upload = NoPhoto, !.held = {}]
  <2>1. /\ new \in SheetState /\ new.images = sheet[s].images
        /\ new.saving = sheet[s].saving /\ new.upload = NoPhoto
        /\ new.row = sheet[s].row /\ new.stale = sheet[s].stale
        /\ new.save = sheet[s].save /\ new.previous = sheet[s].previous
    BY <1>1 DEF SheetState
  <2>2. sheet' = [sheet EXCEPT ![s] = new] /\ UNCHANGED <<row, file, doomed, sweep>>
    BY <1>5 DEF UploadRefused, UploadUnheard, NoUpload, StorageUnchanged
  <2> HIDE DEF new
  <2>3. new.images \cup new.saving \subseteq Hold(s)
    BY <2>1 DEF Hold
  <2>4. new.save = "write" /\ ~new.stale =>
            new.previous = Previous(s) /\ new.images \cap Previous(s) \subseteq new.saving
    BY <1>2, <2>1
  <2>5. QED
    BY <2>1, <2>2, <2>3, <2>4, SheetKeeps
<1>6. CASE Save(s)
  <2> DEFINE new == [sheet[s] EXCEPT !.save = "write", !.saving = sheet[s].images,
                                     !.previous = Previous(s)]
  <2>1. /\ new \in SheetState /\ new.images = sheet[s].images
        /\ new.saving = sheet[s].images /\ new.upload = sheet[s].upload
        /\ new.row = sheet[s].row /\ new.stale = sheet[s].stale
        /\ new.save = "write" /\ new.previous = Previous(s)
    BY <1>1 DEF SheetState
  <2>2. sheet' = [sheet EXCEPT ![s] = new] /\ UNCHANGED <<row, file, doomed, sweep>>
    BY <1>6 DEF Save, StorageUnchanged
  <2> HIDE DEF new
  <2>3. new.images \cup new.saving \subseteq Hold(s)
    BY <2>1 DEF Hold
  <2>4. QED
    BY <2>1, <2>2, <2>3, SheetKeeps
<1>7. CASE SaveFails(s)
  <2> DEFINE reset == [sheet[s] EXCEPT !.save = "none", !.saving = {}, !.previous = {}]
             new == IF sheet[s].open THEN reset ELSE Shut
  <2>1. /\ reset \in SheetState /\ reset.images = sheet[s].images
        /\ reset.saving = {} /\ reset.upload = sheet[s].upload
        /\ reset.row = sheet[s].row /\ reset.stale = sheet[s].stale /\ reset.save = "none"
    BY <1>1 DEF SheetState
  <2>2. /\ Shut.images = {} /\ Shut.saving = {} /\ Shut.upload = NoPhoto
        /\ Shut.row = NoRow /\ ~Shut.stale /\ Shut.save = "none"
    BY DEF Shut
  <2>3. sheet' = [sheet EXCEPT ![s] = new] /\ UNCHANGED <<row, file, doomed, sweep>>
    BY <1>7 DEF SaveFails, StorageUnchanged, MediaTyped
  <2>4. /\ new \in SheetState /\ new.images \cup new.saving \subseteq Hold(s)
        /\ new.upload \in {NoPhoto, sheet[s].upload} /\ new.save = "none"
        /\ \/ new.row = NoRow /\ ~new.stale /\ new.images \cup new.saving = {}
           \/ new.row = sheet[s].row /\ new.stale = sheet[s].stale
    BY <2>1, <2>2, ShutType DEF Hold
  <2> HIDE DEF new
  <2>5. QED
    BY <2>3, <2>4, SheetKeeps
<1>8. QED
  BY <1>3, <1>4, <1>5, <1>6, <1>7

LEMMA SheetOpens ==
    ASSUME MediaTyped, PhotosKept, NEW s \in Sheet,
           OpenDish(s) \/ EditCategory(s) \/ AddCategory(s)
    PROVE  MediaTyped' /\ PhotosKept'
<1>1. PICK kind \in {"dish", "category"}, r \in Rows("live") \cup {NoRow} : Opens(s, SheetOn(kind, r))
  BY DEF OpenDish, EditCategory, AddCategory, DishesShown
<1>2. QED
  BY <1>1, OpensKeeps

-------------------------------------------------------------------------------
(* The menu's other actions                                                   *)

\* Rows that lose photos or keep them, while sheets stay as they are or are shut.
LEMMA RowsLetGo ==
    ASSUME MediaTyped, PhotosKept, UNCHANGED <<file, doomed, sweep>>,
           row' \in [Row -> RowState], sheet' \in [Sheet -> SheetState],
           \A r \in Row : row[r].state # "none" =>
               row'[r].photos = row[r].photos /\ row'[r].state # "none",
           \A r \in Row : row'[r].photos \subseteq row[r].photos,
           \A s \in Sheet : sheet'[s] = sheet[s] \/ sheet'[s] = Shut
    PROVE  MediaTyped' /\ PhotosKept'
<1>1. MediaTyped'
  BY DEF MediaTyped
<1>2. \A p : Safe(p)' <=> Safe(p)
  BY DEF Safe
<1>3. \A t \in Sheet : SheetOK(t)
  BY DEF PhotosKept
<1>4. /\ Shut.images = {} /\ Shut.saving = {} /\ Shut.upload = NoPhoto
      /\ Shut.row = NoRow /\ ~Shut.stale /\ Shut.save = "none"
  BY DEF Shut
<1>5. \A t \in Sheet : Hold(t)' \subseteq Hold(t)
  BY <1>4 DEF Hold
<1>6. \A t \in Sheet : sheet'[t].upload \in {NoPhoto, sheet[t].upload}
  BY <1>4
<1>7. ASSUME NEW t \in Sheet PROVE SheetOK(t)'
  <2>1. UploadOK(t)'
    <3>1. UploadOK(t)
      BY <1>3 DEF SheetOK
    <3>2. QED
      BY <1>5, <1>6, <3>1 DEF UploadOK
  <2>2. CASE sheet'[t] = Shut
    BY <1>4, <2>1, <2>2 DEF SheetOK, HoldOK, SaveOK, Hold
  <2>3. CASE sheet'[t] = sheet[t]
    <3>1. sheet[t].row \in Row \cup {NoRow} /\ (sheet[t].row # NoRow => row[sheet[t].row].state # "none")
      BY <1>3, SheetFields DEF SheetOK
    <3>2. Previous(t)' = Previous(t) /\ Hold(t)' = Hold(t)
      BY <2>3, <3>1 DEF Previous, Hold
    <3>3. HoldOK(t) => HoldOK(t)'
      BY <1>2, <1>5, <2>3, <3>2 DEF HoldOK
    <3>4. SaveOK(t) => SaveOK(t)'
      BY <2>3, <3>2 DEF SaveOK
    <3>5. QED
      BY <1>3, <2>1, <2>3, <3>1, <3>2, <3>3, <3>4 DEF SheetOK
  <2>4. QED
    BY <2>2, <2>3
<1>8. QED
  BY <1>1, <1>2, <1>7 DEF PhotosKept, RowsHaveFiles, RowsApart

LEMMA MenuKeeps ==
    ASSUME MediaTyped, PhotosKept, cause' = {},
           \/ \E r \in Row : DeleteDish(r) \/ DuplicateDish(r)
           \/ \E s \in Sheet : DeleteCategory(s)
    PROVE  MediaTyped' /\ PhotosKept'
<1>1. ASSUME NEW r \in Row, row' = [row EXCEPT ![r].state = "deleted"]
      PROVE  /\ row' \in [Row -> RowState]
             /\ \A q \in Row : /\ row'[q].photos = row[q].photos
                              /\ row[q].state # "none" => row'[q].state # "none"
  BY <1>1 DEF MediaTyped, RowState
<1>2. CASE \E r \in Row : DeleteDish(r)
  <2>1. PICK r \in Row : DeleteDish(r)
    BY <1>2
  <2>2. row' = [row EXCEPT ![r].state = "deleted"] /\ UNCHANGED <<sheet, file, doomed, sweep>>
    BY <2>1 DEF DeleteDish, SoftDeleted, StorageUnchanged
  <2>3. /\ row' \in [Row -> RowState]
        /\ \A q \in Row : /\ row'[q].photos = row[q].photos
                         /\ row[q].state # "none" => row'[q].state # "none"
    BY <1>1, <2>2
  <2>4. sheet' \in [Sheet -> SheetState] /\ \A t \in Sheet : sheet'[t] = sheet[t]
    BY <2>2 DEF MediaTyped
  <2>5. QED
    BY <2>2, <2>3, <2>4, RowsLetGo
<1>3. CASE \E s \in Sheet : DeleteCategory(s)
  <2>1. PICK s \in Sheet : DeleteCategory(s)
    BY <1>3
  <2> DEFINE r == sheet[s].row
  <2>2. /\ row' = [row EXCEPT ![r].state = "deleted"] /\ UNCHANGED <<file, doomed, sweep>>
        /\ r \in Row /\ sheet' = [sheet EXCEPT ![s] = Shut]
    BY <2>1 DEF DeleteCategory, SoftDeleted, StorageUnchanged, Row
  <2>3. sheet' \in [Sheet -> SheetState] /\ \A t \in Sheet : sheet'[t] = sheet[t] \/ sheet'[t] = Shut
    BY <2>2, ShutType DEF MediaTyped
  <2>4. /\ row' \in [Row -> RowState]
        /\ \A q \in Row : /\ row'[q].photos = row[q].photos
                         /\ row[q].state # "none" => row'[q].state # "none"
    BY <1>1, <2>2
  <2>5. QED
    BY <2>2, <2>3, <2>4, RowsLetGo
<1>4. CASE \E r \in Row : DuplicateDish(r)
  <2>1. PICK r \in Row : DuplicateDish(r)
    BY <1>4
  <2>2. PICK copy \in Rows("none") \cap DishRow : row' = [row EXCEPT ![copy] = row[r]]
    BY <2>1 DEF DuplicateDish
  <2>3. row[r].photos = {} /\ UNCHANGED <<sheet, file, doomed, sweep>>
    BY <2>1 DEF DuplicateDish, StorageUnchanged
  <2>4. copy \in Row /\ row[copy].state = "none"
    BY DEF Rows
  <2>5. row' \in [Row -> RowState]
    BY <2>2, <2>4 DEF MediaTyped
  <2>6. row'[copy] = row[r] /\ \A q \in Row \ {copy} : row'[q] = row[q]
    BY <2>2, <2>4 DEF MediaTyped
  <2>7. \A q \in Row : row'[q].photos \subseteq row[q].photos
    BY <2>3, <2>6
  <2>8. \A q \in Row : row[q].state # "none" =>
            row'[q].photos = row[q].photos /\ row'[q].state # "none"
    BY <2>4, <2>6
  <2>9. QED
    BY <2>3, <2>5, <2>7, <2>8, RowsLetGo DEF MediaTyped
<1>5. QED
  BY <1>2, <1>3, <1>4

-------------------------------------------------------------------------------
(* The saves that write a row                                                 *)

\* A new row takes over what the sheet holds, and the sheet is gone.
LEMMA InsertKeeps ==
    ASSUME MediaTyped, PhotosKept, cause' = {}, NEW s \in Sheet, InsertRow(s)
    PROVE  MediaTyped' /\ PhotosKept'
<1>1. PICK r \in Rows("none") :
          r \in Row /\ row' = [row EXCEPT ![r] = [state |-> "live", photos |-> sheet[s].saving]]
  BY DEF InsertRow, Rows
<1>2. sheet[s].row = NoRow /\ row[r].state = "none" /\ UNCHANGED <<file, doomed, sweep>>
  BY <1>1 DEF InsertRow, Rows, StorageUnchanged
<1>3. sheet' = [sheet EXCEPT ![s] = Shut]
  BY DEF InsertRow, Answered
<1>4. /\ Shut.images = {} /\ Shut.saving = {} /\ Shut.upload = NoPhoto
      /\ Shut.row = NoRow /\ ~Shut.stale /\ Shut.save = "none"
  BY DEF Shut
<1>5. sheet'[s] = Shut /\ \A t \in Sheet \ {s} : sheet'[t] = sheet[t]
  BY <1>3 DEF MediaTyped
<1>6. /\ row'[r].photos = sheet[s].saving /\ row'[r].state = "live"
      /\ \A q \in Row \ {r} : row'[q] = row[q]
  BY <1>1 DEF MediaTyped
<1>7. MediaTyped'
  <2>1. [state |-> "live", photos |-> sheet[s].saving] \in RowState
    BY SheetFields DEF RowState
  <2>2. QED
    BY <1>1, <1>2, <1>3, <2>1, ShutType DEF MediaTyped
<1>8. \A t \in Sheet : SheetOK(t)
  BY DEF PhotosKept
<1>9. HoldOK(s) /\ Previous(s) = {} /\ sheet[s].saving \subseteq Hold(s)
  BY <1>2, <1>8 DEF SheetOK, Previous, Hold
<1>10. \A p \in sheet[s].saving :
           /\ Safe(p)
           /\ \A q \in Row : p \notin row[q].photos
           /\ \A t \in Sheet \ {s} : p \notin Hold(t)
  BY <1>2, <1>9, NoRowFresh DEF HoldOK, Row
<1>11. \A p : Safe(p)' <=> Safe(p)
  BY <1>2 DEF Safe
<1>12. RowsHaveFiles' /\ RowsApart'
  BY <1>6, <1>10, <1>11 DEF PhotosKept, RowsHaveFiles, RowsApart
<1>13. \A t \in Sheet \ {s} : sheet[t].row # r /\ Previous(t)' = Previous(t) /\ Hold(t)' = Hold(t)
  <2>1. ASSUME NEW t \in Sheet \ {s} PROVE sheet[t].row # r
    BY <1>1, <1>2, <1>8, NoRowFresh DEF SheetOK, Row
  <2>2. \A t \in Sheet : sheet[t].row \in Row \cup {NoRow}
    BY SheetFields
  <2>3. QED
    BY <1>5, <1>6, <2>1, <2>2 DEF Previous, Hold
<1>14. Hold(s)' = {}
  BY <1>4, <1>5 DEF Hold
<1>15. ASSUME NEW t \in Sheet \ {s} PROVE UploadOK(t)'
  <2>1. UploadOK(t) /\ sheet[t].upload # NoPhoto => sheet[t].upload \notin sheet[s].saving
    BY <1>8, <1>9 DEF SheetOK, UploadOK
  <2>2. UploadOK(t)
    BY <1>8 DEF SheetOK
  <2>3. \A q \in Row : sheet[t].upload # NoPhoto => sheet[t].upload \notin row'[q].photos
    BY <1>6, <2>1, <2>2 DEF UploadOK
  <2>4. QED
    BY <1>2, <1>4, <1>5, <1>13, <1>14, <2>2, <2>3 DEF UploadOK
<1>16. ASSUME NEW t \in Sheet \ {s} PROVE SheetOK(t)'
  <2>1. HoldOK(t) => HoldOK(t)'
    <3>1. ASSUME HoldOK(t), NEW p \in Hold(t) PROVE \A q \in Row \ {sheet[t].row} : p \notin row'[q].photos
      BY <1>6, <1>10, <3>1 DEF HoldOK
    <3>2. QED
      BY <1>5, <1>11, <1>13, <1>14, <3>1 DEF HoldOK
  <2>2. SaveOK(t) => SaveOK(t)'
    BY <1>5, <1>13 DEF SaveOK
  <2>3. sheet[t].row # NoRow => row'[sheet[t].row].state # "none"
    BY <1>6, <1>8, <1>13, SheetFields DEF SheetOK
  <2>4. QED
    BY <1>2, <1>5, <1>8, <1>13, <1>15, <2>1, <2>2, <2>3 DEF SheetOK
<1>17. SheetOK(s)'
  BY <1>4, <1>5, <1>14 DEF SheetOK, UploadOK, HoldOK, SaveOK
<1>18. QED
  BY <1>2, <1>7, <1>12, <1>16, <1>17 DEF PhotosKept

\* A row gets the sheet's photos, and loses what is discarded.
LEMMA UpdateKeeps ==
    ASSUME MediaTyped, PhotosKept, cause' = {}, NEW s \in Sheet, UpdateRow(s)
    PROVE  MediaTyped' /\ PhotosKept'
<1> DEFINE r == sheet[s].row
           old == row[r].photos
           new == sheet[s].saving
           reset == [sheet[s] EXCEPT !.save = "none", !.saving = {}, !.previous = {}]
<1>1. /\ r \in Row /\ r # NoRow /\ sheet[s].save = "write" /\ ~sheet[s].stale
      /\ row' = [row EXCEPT ![r].photos = new]
      /\ UNCHANGED <<file, sweep>>
  BY SheetFields DEF UpdateRow
<1>2. \A t \in Sheet : SheetOK(t)
  BY DEF PhotosKept
<1>3. HoldOK(s) /\ Previous(s) = old /\ sheet[s].previous = old /\ sheet[s].images \cap old \subseteq new
  BY <1>1, <1>2 DEF SheetOK, SaveOK, Previous
<1>4. doomed' = doomed \cup (old \ new)
  BY <1>3 DEF UpdateRow, Discarded
<1>5. new \subseteq Hold(s) /\ new \subseteq Photo /\ old \subseteq Photo
  BY <1>3, SheetFields DEF Hold
<1>6. /\ row'[r].photos = new /\ row'[r].state = row[r].state
      /\ \A q \in Row \ {r} : row'[q] = row[q]
      /\ row' \in [Row -> RowState]
  BY <1>1, <1>5 DEF MediaTyped, RowState
<1>7. /\ Shut.images = {} /\ Shut.saving = {} /\ Shut.upload = NoPhoto
      /\ Shut.row = NoRow /\ ~Shut.stale /\ Shut.save = "none"
  BY DEF Shut
<1>8. /\ reset \in SheetState /\ reset.images = sheet[s].images
      /\ reset.saving = {} /\ reset.upload = sheet[s].upload
      /\ reset.row = r /\ reset.stale = sheet[s].stale /\ reset.save = "none"
  BY SheetFields DEF SheetState
<1>9. sheet' = [Overtaken(s) EXCEPT ![s] = Shut] \/ sheet' = [Overtaken(s) EXCEPT ![s] = reset]
  BY DEF UpdateRow, Answered
<1>10. sheet'[s] = Shut \/ sheet'[s] = reset
  BY <1>9 DEF Overtaken
<1>11. \A t \in Sheet \ {s} :
           sheet'[t] = IF sheet[t].row = r /\ old # new THEN [sheet[t] EXCEPT !.stale = TRUE] ELSE sheet[t]
  BY <1>9 DEF Overtaken
<1>12. \A t \in Sheet : [sheet[t] EXCEPT !.stale = TRUE] \in SheetState
  BY DEF MediaTyped, SheetState
<1>13. sheet' \in [Sheet -> SheetState]
  <2>1. \A t \in Sheet : sheet'[t] \in SheetState
    BY <1>8, <1>10, <1>11, <1>12, ShutType DEF MediaTyped
  <2>2. DOMAIN sheet' = Sheet /\ sheet' = [t \in Sheet |-> sheet'[t]]
    BY <1>9 DEF Overtaken
  <2>3. QED
    BY <2>1, <2>2
<1>14. MediaTyped'
  BY <1>1, <1>4, <1>5, <1>6, <1>13 DEF MediaTyped
<1>15. ASSUME NEW t \in Sheet \ {s}
       PROVE  /\ sheet'[t].images = sheet[t].images /\ sheet'[t].saving = sheet[t].saving
              /\ sheet'[t].upload = sheet[t].upload /\ sheet'[t].row = sheet[t].row
              /\ sheet'[t].save = sheet[t].save /\ sheet'[t].previous = sheet[t].previous
              /\ ~sheet'[t].stale => ~sheet[t].stale /\ (sheet[t].row = r => old = new)
              /\ sheet[t].row # r => sheet'[t].stale = sheet[t].stale
  <2>1. sheet[t] \in SheetState
    BY SheetFields
  <2>2. CASE sheet[t].row = r /\ old # new
    BY <1>11, <2>1, <2>2 DEF SheetState
  <2>3. CASE ~(sheet[t].row = r /\ old # new)
    BY <1>11, <2>3
  <2>4. QED
    BY <2>2, <2>3
<1>16. /\ \A t \in Sheet : Hold(t)' \subseteq Hold(t)
       /\ \A t \in Sheet \ {s} : Hold(t)' = Hold(t)
       /\ \A t \in Sheet : sheet'[t].upload \in {NoPhoto, sheet[t].upload}
  BY <1>7, <1>8, <1>10, <1>15 DEF Hold
<1>17. \A p \in old : /\ Safe(p) /\ \A q \in Row \ {r} : p \notin row[q].photos
                      /\ \A t \in Sheet : p # sheet[t].upload \/ sheet[t].upload = NoPhoto
  BY <1>1, <1>2 DEF PhotosKept, RowsHaveFiles, RowsApart, SheetOK, UploadOK
<1>18. \A p \in new : /\ Safe(p) /\ \A q \in Row \ {r} : p \notin row[q].photos
                      /\ p \notin old => \A t \in Sheet \ {s} : p \notin Hold(t)
                      /\ \A t \in Sheet : p # sheet[t].upload \/ sheet[t].upload = NoPhoto
  BY <1>2, <1>3, <1>5 DEF HoldOK, SheetOK, UploadOK
<1>19. \A p : Safe(p) /\ p \notin old \ new => Safe(p)'
  BY <1>1, <1>4 DEF Safe
<1>20. RowsHaveFiles' /\ RowsApart'
  <2>1. ASSUME NEW q \in Row, NEW p \in row'[q].photos PROVE Safe(p)'
    <3>1. CASE q = r
      BY <1>6, <1>18, <1>19, <2>1, <3>1
    <3>2. CASE q # r
      <4>1. p \in row[q].photos /\ Safe(p) /\ p \notin old
        BY <1>1, <1>6, <2>1, <3>2 DEF PhotosKept, RowsHaveFiles, RowsApart
      <4>2. QED
        BY <1>19, <4>1
    <3>3. QED
      BY <3>1, <3>2
  <2>2. RowsApart'
    BY <1>6, <1>18 DEF PhotosKept, RowsApart
  <2>3. QED
    BY <2>1, <2>2 DEF RowsHaveFiles
<1>21. ASSUME NEW t \in Sheet PROVE UploadOK(t)'
  <2>1. UploadOK(t)
    BY <1>2 DEF SheetOK
  <2>2. sheet[t].upload # NoPhoto =>
            /\ sheet[t].upload \notin doomed'
            /\ \A q \in Row : sheet[t].upload \notin row'[q].photos
    BY <1>4, <1>6, <1>17, <1>18, <2>1 DEF UploadOK
  <2>3. QED
    BY <1>1, <1>16, <2>1, <2>2 DEF UploadOK
<1>22. \A p \in doomed' \cup sweep' : file'[p] # "none"
  BY <1>1, <1>4, <1>17 DEF PhotosKept, Safe
<1>23. ASSUME NEW t \in Sheet
       PROVE  /\ sheet'[t].row = NoRow => ~sheet'[t].stale
              /\ sheet'[t].row # NoRow => row'[sheet'[t].row].state # "none"
              /\ \A p \in Hold(t)' : file'[p] # "none"
  <2>1. SheetOK(t) /\ sheet[t].row \in Row \cup {NoRow}
    BY <1>2, SheetFields
  <2>2. \A p \in Hold(t)' : file'[p] # "none"
    BY <1>1, <1>16, <2>1 DEF SheetOK
  <2>3. CASE t = s
    BY <1>1, <1>6, <1>7, <1>8, <1>10, <2>1, <2>2, <2>3 DEF SheetOK
  <2>4. CASE t # s
    BY <1>1, <1>6, <1>15, <2>1, <2>2, <2>4 DEF SheetOK
  <2>5. QED
    BY <2>3, <2>4
<1>24. HoldOK(s)' /\ SaveOK(s)'
  <2>1. SaveOK(s)'
    BY <1>7, <1>8, <1>10 DEF SaveOK
  <2>2. CASE sheet'[s] = Shut
    BY <1>7, <2>1, <2>2 DEF HoldOK, Hold
  <2>3. CASE sheet'[s] = reset
    <3>1. Hold(s)' = sheet[s].images /\ sheet[s].images \subseteq Hold(s)
      BY <1>8, <2>3 DEF Hold
    <3>2. Previous(s)' = new /\ sheet'[s].row = r
      BY <1>1, <1>6, <1>8, <2>3 DEF Previous
    <3>3. ASSUME NEW p \in sheet[s].images
          PROVE  /\ Safe(p)'
                 /\ \A q \in Row \ {r} : p \notin row'[q].photos
                 /\ p \notin new => \A t \in Sheet \ {s} : p \notin Hold(t)'
      <4>1. Safe(p) /\ p \notin old \ new
        BY <1>3, <3>1, <3>3 DEF HoldOK
      <4>2. p \notin new => p \notin Previous(s)
        BY <1>3, <4>1
      <4>3. QED
        BY <1>3, <1>6, <1>16, <1>19, <3>1, <3>3, <4>1, <4>2 DEF HoldOK
    <3>4. QED
      BY <2>1, <3>1, <3>2, <3>3 DEF HoldOK
  <2>4. QED
    BY <1>10, <2>2, <2>3
<1>25. ASSUME NEW t \in Sheet \ {s}, ~sheet'[t].stale PROVE HoldOK(t)' /\ SaveOK(t)'
  <2>1. HoldOK(t) /\ SaveOK(t) /\ (sheet[t].row = r => old = new)
    BY <1>2, <1>15, <1>25 DEF SheetOK
  <2>2. Previous(t)' = Previous(t)
    BY <1>1, <1>3, <1>6, <1>15, <2>1, SheetFields DEF Previous
  <2>3. ASSUME NEW p \in Hold(t)
        PROVE  Safe(p)' /\ \A q \in Row \ {sheet[t].row} : p \notin row'[q].photos
    <3>1. Safe(p) /\ \A q \in Row \ {sheet[t].row} : p \notin row[q].photos
      BY <2>1, <2>3 DEF HoldOK
    <3>2. CASE old = new
      BY <1>1, <1>6, <1>19, <3>1, <3>2
    <3>3. CASE old # new
      <4>1. sheet[t].row # r /\ p \notin old
        BY <1>1, <2>1, <3>1, <3>3
      <4>2. p \notin new
        BY <1>18, <2>3, <4>1
      <4>3. QED
        BY <1>6, <1>19, <3>1, <4>1, <4>2
    <3>4. QED
      BY <3>2, <3>3
  <2>4. HoldOK(t)'
    BY <1>15, <1>16, <2>1, <2>2, <2>3 DEF HoldOK
  <2>5. SaveOK(t)'
    BY <1>15, <2>1, <2>2 DEF SaveOK
  <2>6. QED
    BY <2>4, <2>5
<1>26. \A t \in Sheet : SheetOK(t)'
  BY <1>21, <1>23, <1>24, <1>25 DEF SheetOK
<1>27. QED
  BY <1>14, <1>20, <1>22, <1>26 DEF PhotosKept

-------------------------------------------------------------------------------
(* Every step                                                                 *)

LEMMA MediaStep == MediaInv /\ [MediaNext]_mediaVars => MediaInv'
<1> SUFFICES ASSUME MediaInv, [MediaNext]_mediaVars, cause' = {} PROVE MediaTyped' /\ PhotosKept'
  BY DEF MediaInv
<1>1. CASE UNCHANGED mediaVars
  BY <1>1 DEF MediaInv, mediaVars, MediaTyped, PhotosKept, RowsHaveFiles, RowsApart, SheetOK,
              UploadOK, HoldOK, SaveOK, Hold, Safe, Previous
<1>2. CASE MediaNext
  <2>1. MediaTyped /\ PhotosKept
    BY <1>2 DEF MediaInv, MediaNext
  <2>2. CASE \E s \in Sheet : SheetStep(s)
    <3>1. PICK s \in Sheet : SheetStep(s)
      BY <2>2
    <3>2. CASE OpenDish(s) \/ EditCategory(s) \/ AddCategory(s)
      BY <2>1, <3>2, SheetOpens
    <3>3. CASE \/ CloseEditor(s) \/ RemovePhoto(s) \/ UploadRefused(s) \/ UploadUnheard(s)
               \/ Save(s) \/ SaveFails(s)
      BY <2>1, <3>3, SheetLetsGo
    <3>4. CASE StartUpload(s)
      BY <2>1, <3>4, StartUploadKeeps
    <3>5. CASE StoreUpload(s)
      BY <2>1, <3>5, StorageKeeps
    <3>6. CASE UploadDone(s)
      BY <2>1, <3>6, UploadDoneKeeps
    <3>7. CASE DeleteCategory(s)
      BY <2>1, <3>7, MenuKeeps
    <3>8. CASE UpdateRow(s)
      BY <2>1, <3>8, UpdateKeeps
    <3>9. CASE InsertRow(s)
      BY <2>1, <3>9, InsertKeeps
    <3>10. QED
      BY <3>1, <3>2, <3>3, <3>4, <3>5, <3>6, <3>7, <3>8, <3>9 DEF SheetStep
  <2>3. CASE (\E p \in Photo : Discard(p) \/ SweepDeletes(p)) \/ SweepLooks
    BY <2>1, <2>3, StorageKeeps
  <2>4. CASE \E r \in Row : DeleteDish(r) \/ DuplicateDish(r)
    BY <2>1, <2>4, MenuKeeps
  <2>5. QED
    BY <1>2, <2>2, <2>3, <2>4 DEF MediaNext
<1>3. QED
  BY <1>1, <1>2

LEMMA MediaInvKeepsPhotos == MediaInv => PhotosExist
BY DEF MediaInv, PhotosKept, RowsHaveFiles, Safe, PhotosExist, Served

\* Types, of which nothing is lost with a photo's file.
LEMMA MediaTypes ==
    /\ MediaInit => MediaTyped
    /\ MediaTyped /\ [MediaNext]_mediaVars => MediaTyped'
    /\ MediaTyped => MediaTypeOK
<1>1. MediaInit => MediaTyped
  <2> SUFFICES ASSUME MediaInit PROVE MediaTyped
    OBVIOUS
  <2>1. PICK dish \in DishRow, photo \in Photo :
            /\ file = [p \in Photo |-> IF p = photo THEN "stored" ELSE "none"]
            /\ row = [r \in Row |-> IF r = dish THEN [state |-> "live", photos |-> {photo}]
                                    ELSE [state |-> "none", photos |-> {}]]
    BY PhotoRows DEF MediaInit
  <2>2. QED
    BY <2>1, ShutType DEF MediaInit, MediaTyped, RowState
<1>2. ASSUME MediaTyped, [MediaNext]_mediaVars PROVE MediaTyped'
  <2> USE <1>2 DEF MediaTyped, StorageUnchanged
  <2>1. ASSUME NEW s \in Sheet, SheetStep(s) PROVE MediaTyped'
    <3>1. sheet[s] \in SheetState
      OBVIOUS
    <3>2. ASSUME NEW kind \in {"dish", "category"}, NEW r \in Row \cup {NoRow}, Opens(s, SheetOn(kind, r))
          PROVE  MediaTyped'
      <4>1. SheetOn(kind, r) \in SheetState
        BY ShutType DEF SheetOn, SheetState, RowState
      <4>2. QED
        BY <3>2, <4>1 DEF Opens
    <3>3. CASE OpenDish(s) \/ EditCategory(s) \/ AddCategory(s)
      <4>1. DishesShown \subseteq Row /\ Rows("live") \subseteq Row
        BY DEF DishesShown, Rows
      <4>2. QED
        BY <3>2, <3>3, <4>1 DEF OpenDish, EditCategory, AddCategory
    <3>4. ASSUME NEW new \in SheetState, sheet' = [sheet EXCEPT ![s] = new],
                 UNCHANGED <<row, file, doomed, sweep>>
          PROVE  MediaTyped'
      BY <3>4
    <3>5. CASE CloseEditor(s)
      <4>1. Unmounted(s) \in SheetState
        BY <3>1, ShutType DEF Unmounted, SheetState
      <4>2. QED
        BY <3>4, <3>5, <4>1 DEF CloseEditor
    <3>6. CASE RemovePhoto(s)
      <4>1. PICK p : sheet' = [sheet EXCEPT ![s] = [sheet[s] EXCEPT !.images = @ \ {p}]]
        BY <3>6 DEF RemovePhoto
      <4>2. [sheet[s] EXCEPT !.images = @ \ {p}] \in SheetState
        BY <3>1 DEF SheetState
      <4>3. QED
        BY <3>4, <3>6, <4>1, <4>2 DEF RemovePhoto
    <3>7. CASE StartUpload(s)
      <4>1. PICK p \in Photo : sheet' = [sheet EXCEPT ![s] = [@ EXCEPT !.upload = p, !.held = sheet[s].images]]
        BY <3>7 DEF StartUpload
      <4>2. [sheet[s] EXCEPT !.upload = p, !.held = sheet[s].images] \in SheetState
        BY <3>1 DEF SheetState
      <4>3. QED
        BY <3>4, <3>7, <4>1, <4>2 DEF StartUpload
    <3>8. [sheet[s] EXCEPT !.upload = NoPhoto, !.held = {}] \in SheetState
      BY <3>1 DEF SheetState
    <3>9. NoUpload(s) = [sheet EXCEPT ![s] = [sheet[s] EXCEPT !.upload = NoPhoto, !.held = {}]]
      BY DEF NoUpload
    <3>10. CASE UploadRefused(s) \/ UploadUnheard(s)
      BY <3>4, <3>8, <3>9, <3>10 DEF UploadRefused, UploadUnheard
    <3>11. CASE UploadDone(s)
      <4>1. sheet' = [sheet EXCEPT ![s] = [[sheet[s] EXCEPT !.upload = NoPhoto, !.held = {}]
                                           EXCEPT !.images = WithUpload(s)]]
        BY <3>9, <3>11 DEF UploadDone
      <4>2. WithUpload(s) \subseteq Photo
        BY <3>1, <3>11 DEF WithUpload, UploadDone, SheetState
      <4>3. [[sheet[s] EXCEPT !.upload = NoPhoto, !.held = {}] EXCEPT !.images = WithUpload(s)] \in SheetState
        BY <3>8, <4>2 DEF SheetState
      <4>4. QED
        BY <3>4, <3>11, <4>1, <4>3 DEF UploadDone
    <3>12. CASE StoreUpload(s)
      BY <3>1, <3>12 DEF StoreUpload, Put
    <3>13. CASE Save(s)
      <4>1. Previous(s) \subseteq Photo
        BY <3>1 DEF Previous, SheetState, RowState
      <4>2. [sheet[s] EXCEPT !.save = "write", !.saving = sheet[s].images, !.previous = Previous(s)] \in SheetState
        BY <3>1, <4>1 DEF SheetState
      <4>3. sheet' = [sheet EXCEPT ![s] = [@ EXCEPT !.save = "write", !.saving = sheet[s].images,
                                                    !.previous = Previous(s)]]
        BY <3>13 DEF Save
      <4>4. QED
        BY <3>4, <3>13, <4>2, <4>3 DEF Save
    <3>14. \A failed \in BOOLEAN : Answered(s, failed) \in SheetState
      BY <3>1, ShutType DEF Answered, SheetState
    <3>15. CASE UpdateRow(s)
      <4>1. \A t \in Sheet : [sheet[t] EXCEPT !.stale = TRUE] \in SheetState
        BY DEF SheetState
      <4>2. Overtaken(s) \in [Sheet -> SheetState]
        BY <4>1 DEF Overtaken
      <4>3. sheet' \in [Sheet -> SheetState]
        BY <3>14, <3>15, <4>2 DEF UpdateRow
      <4>4. sheet[s].row \in Row /\ sheet[s].saving \subseteq Photo /\ sheet[s].previous \subseteq Photo
        BY <3>1, <3>15 DEF UpdateRow, SheetState
      <4>5. [row[sheet[s].row] EXCEPT !.photos = sheet[s].saving] \in RowState
        BY <4>4 DEF RowState
      <4>6. row' = [row EXCEPT ![sheet[s].row] = [@ EXCEPT !.photos = sheet[s].saving]]
        BY <3>15 DEF UpdateRow
      <4>7. doomed' \subseteq Photo /\ UNCHANGED <<file, sweep>>
        BY <3>15, <4>4 DEF UpdateRow, Discarded
      <4>8. QED
        BY <4>3, <4>5, <4>6, <4>7
    <3>16. CASE InsertRow(s)
      <4>1. PICK r \in Row : row' = [row EXCEPT ![r] = [state |-> "live", photos |-> sheet[s].saving]]
        BY <3>16 DEF InsertRow, Rows
      <4>2. [state |-> "live", photos |-> sheet[s].saving] \in RowState
        BY <3>1 DEF RowState, SheetState
      <4>3. row' \in [Row -> RowState]
        BY <4>1, <4>2
      <4>4. sheet' \in [Sheet -> SheetState] /\ UNCHANGED <<file, doomed, sweep>>
        BY <3>14, <3>16 DEF InsertRow
      <4>5. QED
        BY <4>3, <4>4
    <3>17. CASE SaveFails(s)
      <4>1. [sheet[s] EXCEPT !.save = "none", !.saving = {}, !.previous = {}] \in SheetState
        BY <3>1 DEF SheetState
      <4>2. QED
        BY <3>4, <3>17, <4>1, ShutType DEF SaveFails
    <3>18. CASE DeleteCategory(s)
      <4>1. [row[sheet[s].row] EXCEPT !.state = "deleted"] \in RowState
        BY <3>18 DEF DeleteCategory, RowState, Row
      <4>2. row' \in [Row -> RowState]
        BY <3>18, <4>1 DEF DeleteCategory, SoftDeleted
      <4>3. sheet' \in [Sheet -> SheetState] /\ UNCHANGED <<file, doomed, sweep>>
        BY <3>18, ShutType DEF DeleteCategory, SoftDeleted
      <4>4. QED
        BY <4>2, <4>3
    <3>19. QED
      BY <2>1, <3>3, <3>5, <3>6, <3>7, <3>10, <3>11, <3>12, <3>13, <3>15, <3>16, <3>17, <3>18 DEF SheetStep
  <2>2. ASSUME NEW p \in Photo, Discard(p) \/ SweepDeletes(p) PROVE MediaTyped'
    BY <2>2 DEF Discard, SweepDeletes, Deleted
  <2>3. ASSUME NEW r \in Row, DeleteDish(r) \/ DuplicateDish(r) PROVE MediaTyped'
    BY <2>3 DEF DeleteDish, DuplicateDish, SoftDeleted, Rows, RowState
  <2>4. CASE SweepLooks
    BY <2>4 DEF SweepLooks, Found
  <2>5. CASE UNCHANGED mediaVars
    BY <2>5 DEF mediaVars
  <2>6. QED
    BY <1>2, <2>1, <2>2, <2>3, <2>4, <2>5 DEF MediaNext
<1>3. MediaTyped => MediaTypeOK
  BY DEF MediaTyped, MediaTypeOK, SheetState, RowState
<1>4. QED
  BY <1>1, <1>2, <1>3
===============================================================================
