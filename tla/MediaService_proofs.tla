------------------------ MODULE MediaService_proofs ------------------------
(***************************************************************************)
(* No clean-up destroys a file that a row shows, for any number of files,   *)
(* products and calls: the rows that still may be written against a destroy *)
(* under way are the ones in caught.                                        *)
(***************************************************************************)
EXTENDS MediaService, TLAPS

PCs == {"idle", "verify", "saveImage", "saveAsset", "savePhoto", "claim", "attach",
        "deleteRows", "setImages", "duplicate", "remove", "bulk", "lookUp", "destroy"}

TaskState == [pc : PCs, f : Files \cup {"no file"}, ps : SUBSET Listings,
              files : SUBSET Files, left : SUBSET Tables]

RowsTyped ==
  /\ asset \in [Files -> {"none", "library", "author"}]
  /\ images \in [Listings -> SUBSET Files]
  /\ photos \in [Listings -> SUBSET Files]

MediaTypes ==
  /\ cloud \in [Files -> {"new", "held", "gone"}]
  /\ listing \in [Listings -> {"new", "live", "dead"}]
  /\ RowsTyped
  /\ task \in [MediaCalls -> TaskState]
  /\ caught \subseteq Files

(* A file that a row may show: uploaded, and of a fitting format.            *)
Fit(f) == cloud[f] # "new" /\ f \notin Unfit

(* What a suspended call holds: saveMedia has verified its file; a claimed   *)
(* photo has its row; images to be written were shown by a row once.         *)
Holds(k) ==
  /\ k.pc \in {"saveImage", "saveAsset", "savePhoto", "attach"} => k.f \in Files /\ Fit(k.f)
  /\ k.pc = "claim" => k.f \in Files /\ asset[k.f] # "none"
  /\ k.pc \in {"verify", "deleteRows"} => k.f \in Files
  /\ k.pc \in {"setImages", "duplicate"} => \A f \in k.files : Fit(f)

TasksInv == \A m \in MediaCalls : Holds(task[m])

(* A row shows a fitting file, and no call has doomed that file, unless it   *)
(* was caught.                                                              *)
Safe(f, t) == Fit(f) /\ (f \in caught \/ ~TooLate(f, t))

RowsInv ==
  \A f \in Files :
    /\ asset[f] # "none" => Safe(f, "assets")
    /\ (\E p \in Listings : f \in images[p]) => Safe(f, "images")
    /\ (\E p \in Listings : f \in photos[p]) => Safe(f, "photos")

MediaInv == MediaTypes /\ TasksInv /\ RowsInv

LEMMA NoTaskTyped == NoTask \in TaskState
BY DEF NoTask, TaskState, PCs, Tables

-----------------------------------------------------------------------------
(* No row and no file changes: call m goes on, and dooms a file only where   *)
(* it did before or where no row of the table shows it.                     *)
LEMMA TaskStep ==
  ASSUME MediaInv, NEW m \in MediaCalls, NEW k \in TaskState, Holds(k),
         task' = [task EXCEPT ![m] = k],
         UNCHANGED <<cloud, asset, listing, images, photos, caught>>,
         \A f \in Files :
           /\ Dooms(k, f, "assets") => Dooms(task[m], f, "assets") \/ asset[f] = "none"
           /\ Dooms(k, f, "images") =>
                Dooms(task[m], f, "images") \/ ~\E p \in Listings : f \in images[p]
           /\ Dooms(k, f, "photos") =>
                Dooms(task[m], f, "photos") \/ ~\E p \in Listings : f \in photos[p]
  PROVE  MediaInv'
<1>1. MediaTypes'
  BY DEF MediaInv, MediaTypes, RowsTyped
<1>2. TasksInv'
  <2> SUFFICES ASSUME NEW n \in MediaCalls PROVE Holds(task[n])'
    BY DEF TasksInv
  <2>1. Holds(task[n])
    BY DEF MediaInv, TasksInv
  <2>2. task'[n] = IF n = m THEN k ELSE task[n]
    BY DEF MediaInv, MediaTypes
  <2> QED BY <2>1, <2>2 DEF Holds, Fit
<1>3. RowsInv'
  <2> SUFFICES ASSUME NEW f \in Files
               PROVE  /\ asset[f] # "none" => Safe(f, "assets")'
                      /\ (\E p \in Listings : f \in images[p]) => Safe(f, "images")'
                      /\ (\E p \in Listings : f \in photos[p]) => Safe(f, "photos")'
    BY DEF RowsInv
  <2>1. \A n \in MediaCalls : task'[n] = IF n = m THEN k ELSE task[n]
    BY DEF MediaInv, MediaTypes
  <2>2. ASSUME NEW t, Safe(f, t), Dooms(k, f, t) => Dooms(task[m], f, t)
        PROVE  Safe(f, t)'
    BY <2>1, <2>2 DEF Safe, TooLate, Dooms, Fit
  <2> QED BY <2>2 DEF MediaInv, RowsInv
<1> QED BY <1>1, <1>2, <1>3 DEF MediaInv

(* Rows change: what is new in a table is fit, and caught when it was doomed; *)
(* no call dooms more than it did.                                          *)
LEMMA RowStep ==
  ASSUME MediaInv, MediaTypes', TasksInv',
         UNCHANGED cloud, caught \subseteq caught',
         \A n \in MediaCalls : task'[n] = task[n] \/ task'[n].pc \notin {"lookUp", "destroy"}
                               \/ \A f \in Files, t \in Tables : ~Dooms(task'[n], f, t),
         \A f \in Files :
           /\ asset'[f] # "none" => asset[f] # "none" \/ (Fit(f) /\ (TooLate(f, "assets") => f \in caught'))
           /\ (\E p \in Listings : f \in images'[p]) =>
                (\E p \in Listings : f \in images[p]) \/ (Fit(f) /\ (TooLate(f, "images") => f \in caught'))
           /\ (\E p \in Listings : f \in photos'[p]) =>
                (\E p \in Listings : f \in photos[p]) \/ (Fit(f) /\ (TooLate(f, "photos") => f \in caught'))
  PROVE  MediaInv'
<1> SUFFICES RowsInv'
  BY DEF MediaInv
<1> SUFFICES ASSUME NEW f \in Files
             PROVE  /\ asset'[f] # "none" => Safe(f, "assets")'
                    /\ (\E p \in Listings : f \in images'[p]) => Safe(f, "images")'
                    /\ (\E p \in Listings : f \in photos'[p]) => Safe(f, "photos")'
  BY DEF RowsInv
<1>1. ASSUME NEW t \in Tables, TooLate(f, t)' PROVE TooLate(f, t)
  BY <1>1 DEF TooLate, Dooms
<1>2. ASSUME NEW t \in Tables, Safe(f, t) \/ (Fit(f) /\ (TooLate(f, t) => f \in caught'))
      PROVE  Safe(f, t)'
  BY <1>1, <1>2 DEF Safe, Fit
<1>3. {"assets", "images", "photos"} \subseteq Tables
  BY DEF Tables
<1> QED BY <1>2, <1>3 DEF MediaInv, RowsInv

(* Calls hold what they held while files stay and library rows are kept.     *)
LEMMA HoldsKept ==
  ASSUME MediaInv, UNCHANGED cloud, \A f \in Files : asset[f] # "none" => asset'[f] # "none",
         \A n \in MediaCalls : task'[n] = task[n] \/ Holds(task[n])'
  PROVE  TasksInv'
<1> SUFFICES ASSUME NEW n \in MediaCalls, task'[n] = task[n] PROVE Holds(task[n])'
  BY DEF TasksInv
<1> QED BY DEF MediaInv, TasksInv, Holds, Fit

LEMMA IdleHolds == NoTask.pc = "idle" /\ Holds(NoTask) /\ \A f, t : ~Dooms(NoTask, f, t)
BY DEF Holds, NoTask, Dooms

-----------------------------------------------------------------------------
(* The actions that only move a call.                                       *)
LEMMA VerifiedTask ==
  ASSUME MediaInv, NEW f \in Files, NEW ps \in SUBSET Listings,
         NEW pc \in {"saveImage", "saveAsset", "savePhoto"}, cloud[f] = "held"
  PROVE  /\ Verified(f, ps, pc) \in TaskState /\ Holds(Verified(f, ps, pc))
         /\ \A g \in Files : \A t : Dooms(Verified(f, ps, pc), g, t) => g \in Unfit
<1>1. CASE f \in Unfit
  <2>1. Verified(f, ps, pc) = [NoTask EXCEPT !.pc = "destroy", !.files = {f}]
    BY <1>1 DEF Verified
  <2> QED BY <1>1, <2>1 DEF NoTask, TaskState, PCs, Tables, Holds, Dooms
<1>2. CASE f \notin Unfit
  <2>1. Verified(f, ps, pc) = [NoTask EXCEPT !.pc = pc, !.f = f, !.ps = ps]
    BY <1>2 DEF Verified
  <2> QED BY <1>2, <2>1 DEF NoTask, TaskState, PCs, Tables, Holds, Dooms, Fit
<1> QED BY <1>1, <1>2

LEMMA UnfitIsShownNowhere ==
  ASSUME MediaInv, NEW f \in Files, f \in Unfit
  PROVE  /\ asset[f] = "none"
         /\ ~\E p \in Listings : f \in images[p]
         /\ ~\E p \in Listings : f \in photos[p]
BY DEF MediaInv, RowsInv, Safe, Fit

LEMMA StartsSaveMedia ==
  ASSUME MediaInv, NEW m \in MediaCalls, NEW f \in Files, NEW ps \in SUBSET Listings,
         SaveMedia(m, f, ps)
  PROVE  MediaInv'
<1> DEFINE k == Verified(f, ps, IF ps = {} THEN "saveAsset" ELSE "saveImage")
<1>1. k \in TaskState /\ Holds(k) /\ \A g \in Files : \A t : Dooms(k, g, t) => g \in Unfit
  BY VerifiedTask DEF SaveMedia
<1>2. task' = [task EXCEPT ![m] = k] /\ UNCHANGED <<cloud, asset, listing, images, photos, caught>>
  BY DEF SaveMedia, StartTask
<1> HIDE DEF k
<1> QED BY <1>1, <1>2, TaskStep, UnfitIsShownNowhere

LEMMA StartsSaveReviewMedia ==
  ASSUME MediaInv, NEW m \in MediaCalls, NEW f \in Files, SaveReviewMedia(m, f)
  PROVE  MediaInv'
<1> DEFINE k == [NoTask EXCEPT !.pc = "verify", !.f = f]
<1>1. k \in TaskState /\ Holds(k) /\ \A g, t : ~Dooms(k, g, t)
  BY DEF NoTask, TaskState, PCs, Tables, Holds, Dooms
<1>2. task' = [task EXCEPT ![m] = k] /\ UNCHANGED <<cloud, asset, listing, images, photos, caught>>
  BY DEF SaveReviewMedia, StartTask
<1> HIDE DEF k
<1> QED BY <1>1, <1>2, TaskStep

LEMMA VerifiesPhoto ==
  ASSUME MediaInv, NEW m \in MediaCalls, VerifyPhoto(m)
  PROVE  MediaInv'
<1> DEFINE f == task[m].f
           k == IF cloud[f] = "held" THEN Verified(f, {}, "savePhoto") ELSE NoTask
<1>1. f \in Files
  BY DEF VerifyPhoto, MediaInv, TasksInv, Holds
<1>2. k \in TaskState /\ Holds(k) /\ \A g \in Files : \A t : Dooms(k, g, t) => g \in Unfit
  BY <1>1, VerifiedTask, NoTaskTyped, IdleHolds
<1>3. task' = [task EXCEPT ![m] = k] /\ UNCHANGED <<cloud, asset, listing, images, photos, caught>>
  BY DEF VerifyPhoto
<1> HIDE DEF k, f
<1> QED BY <1>2, <1>3, TaskStep, UnfitIsShownNowhere

LEMMA StartsAttach ==
  ASSUME MediaInv, NEW m \in MediaCalls, NEW p \in Listings, NEW f \in Files,
         ResolveReviewImages(m, p, f)
  PROVE  MediaInv'
<1> DEFINE k == [NoTask EXCEPT !.pc = "attach", !.f = f, !.ps = {p}]
<1>1. Fit(f)
  BY DEF ResolveReviewImages, MediaInv, RowsInv, Safe
<1>2. k \in TaskState /\ Holds(k) /\ \A g, t : ~Dooms(k, g, t)
  BY <1>1 DEF NoTask, TaskState, PCs, Tables, Holds, Dooms
<1>3. task' = [task EXCEPT ![m] = k] /\ UNCHANGED <<cloud, asset, listing, images, photos, caught>>
  BY DEF ResolveReviewImages, StartTask
<1> HIDE DEF k
<1> QED BY <1>2, <1>3, TaskStep

LEMMA StartsDeleteMedia ==
  ASSUME MediaInv, NEW m \in MediaCalls, NEW f \in Files, DeleteMedia(m, f)
  PROVE  MediaInv'
<1> DEFINE k == [NoTask EXCEPT !.pc = "deleteRows", !.f = f]
<1>1. k \in TaskState /\ Holds(k) /\ \A g, t : ~Dooms(k, g, t)
  BY DEF NoTask, TaskState, PCs, Tables, Holds, Dooms
<1>2. task' = [task EXCEPT ![m] = k] /\ UNCHANGED <<cloud, asset, listing, images, photos, caught>>
  BY DEF DeleteMedia, StartTask
<1> HIDE DEF k
<1> QED BY <1>1, <1>2, TaskStep

LEMMA ReferencedIsFit ==
  ASSUME MediaInv, NEW f \in Files, Referenced(f)
  PROVE  Fit(f)
BY DEF MediaInv, RowsInv, Safe, Referenced, InTable, Tables

LEMMA StartsSetImages ==
  ASSUME MediaInv, NEW m \in MediaCalls, NEW p \in Listings,
         NEW files \in SUBSET {f \in Files : Referenced(f)}, SetImages(m, p, files)
  PROVE  MediaInv'
<1> DEFINE k == [NoTask EXCEPT !.pc = "setImages", !.ps = {p}, !.files = files]
<1>1. \A f \in files : Fit(f)
  BY ReferencedIsFit
<1>2. k \in TaskState /\ Holds(k) /\ \A g, t : ~Dooms(k, g, t)
  BY <1>1 DEF NoTask, TaskState, PCs, Tables, Holds, Dooms
<1>3. task' = [task EXCEPT ![m] = k] /\ UNCHANGED <<cloud, asset, listing, images, photos, caught>>
  BY DEF SetImages, StartTask
<1> HIDE DEF k
<1> QED BY <1>2, <1>3, TaskStep

LEMMA StartsDuplicate ==
  ASSUME MediaInv, NEW m \in MediaCalls, NEW p \in Listings, Duplicate(m, p)
  PROVE  MediaInv'
<1> DEFINE k == [NoTask EXCEPT !.pc = "duplicate", !.files = images[p]]
<1>1. images[p] \subseteq Files /\ \A f \in images[p] : Fit(f)
  BY DEF MediaInv, MediaTypes, RowsTyped, RowsInv, Safe
<1>2. k \in TaskState /\ Holds(k) /\ \A g, t : ~Dooms(k, g, t)
  BY <1>1 DEF NoTask, TaskState, PCs, Tables, Holds, Dooms
<1>3. task' = [task EXCEPT ![m] = k] /\ UNCHANGED <<cloud, asset, listing, images, photos, caught>>
  BY DEF Duplicate, StartTask
<1> HIDE DEF k
<1> QED BY <1>2, <1>3, TaskStep

LEMMA StartsRemoval ==
  ASSUME MediaInv, NEW m \in MediaCalls, NEW ps \in SUBSET Listings,
         NEW pc \in {"remove", "bulk"}, RemoveProducts(m, ps, pc)
  PROVE  MediaInv'
<1> DEFINE files == UNION {images[p] : p \in ps}
           k == [NoTask EXCEPT !.pc = pc, !.ps = ps, !.files = files]
<1>1. files \subseteq Files
  BY DEF MediaInv, MediaTypes, RowsTyped
<1>3. task' = [task EXCEPT ![m] = k] /\ UNCHANGED <<cloud, asset, listing, images, photos, caught>>
  BY DEF RemoveProducts, StartTask
<1> HIDE DEF files
<1>2. k \in TaskState /\ Holds(k) /\ \A g, t : ~Dooms(k, g, t)
  BY <1>1 DEF NoTask, TaskState, PCs, Tables, Holds, Dooms
<1> HIDE DEF k
<1> QED BY <1>2, <1>3, TaskStep

LEMMA LooksUp ==
  ASSUME MediaInv, NEW m \in MediaCalls, NEW t \in Tables, LookUp(m, t)
  PROVE  MediaInv'
<1> DEFINE unused == {f \in task[m].files : ~InTable(f, t)}
           pc == IF task[m].left = {t} THEN "destroy" ELSE "lookUp"
           on == [task[m] EXCEPT !.files = unused, !.left = task[m].left \ {t}, !.pc = pc]
           k == IF unused = {} THEN NoTask ELSE on
<1>1. task[m] \in TaskState /\ task[m].pc = "lookUp" /\ t \in task[m].left
  BY DEF LookUp, MediaInv, MediaTypes
<1>2. on \in TaskState /\ Holds(on)
  BY <1>1 DEF TaskState, PCs, Holds
<1>3. ASSUME NEW f \in Files, NEW u \in Tables, Dooms(on, f, u)
      PROVE  Dooms(task[m], f, u) \/ (u = t /\ ~InTable(f, t))
  BY <1>1, <1>3 DEF Dooms, TaskState
<1>4. k \in TaskState /\ Holds(k)
  BY <1>2, NoTaskTyped, IdleHolds
<1>5. \A f \in Files, u \in Tables :
        Dooms(k, f, u) => Dooms(task[m], f, u) \/ (u = t /\ ~InTable(f, t))
  BY <1>3, IdleHolds
<1>6. task' = [task EXCEPT ![m] = k] /\ UNCHANGED <<cloud, asset, listing, images, photos, caught>>
  BY DEF LookUp
<1> HIDE DEF k, on
<1>7. \A f \in Files :
        /\ Dooms(k, f, "assets") => Dooms(task[m], f, "assets") \/ asset[f] = "none"
        /\ Dooms(k, f, "images") =>
             Dooms(task[m], f, "images") \/ ~\E p \in Listings : f \in images[p]
        /\ Dooms(k, f, "photos") =>
             Dooms(task[m], f, "photos") \/ ~\E p \in Listings : f \in photos[p]
  BY <1>5 DEF Tables, InTable
<1> QED BY <1>4, <1>6, <1>7, TaskStep

LEMMA DropsTask ==
  ASSUME MediaInv, NEW m \in MediaCalls, DropTask(m)
  PROVE  MediaInv'
<1>1. task' = [task EXCEPT ![m] = NoTask] /\ UNCHANGED <<cloud, asset, listing, images, photos, caught>>
  BY DEF DropTask, EndTask
<1> QED BY <1>1, NoTaskTyped, IdleHolds, TaskStep

-----------------------------------------------------------------------------
(* The actions that write rows, one call's at a time.                       *)
LEMMA Writes ==
  ASSUME MediaInv, NEW m \in MediaCalls, NEW k \in TaskState, task' = [task EXCEPT ![m] = k],
         Holds(task[m])', \A f \in Files, t \in Tables : ~Dooms(k, f, t),
         UNCHANGED cloud, listing' \in [Listings -> {"new", "live", "dead"}], RowsTyped',
         caught \subseteq caught', caught' \subseteq Files,
         \A f \in Files :
           /\ asset[f] # "none" => asset'[f] # "none"
           /\ asset'[f] # "none" => asset[f] # "none" \/ (Fit(f) /\ (TooLate(f, "assets") => f \in caught'))
           /\ (\E p \in Listings : f \in images'[p]) =>
                (\E p \in Listings : f \in images[p]) \/ (Fit(f) /\ (TooLate(f, "images") => f \in caught'))
           /\ (\E p \in Listings : f \in photos'[p]) =>
                (\E p \in Listings : f \in photos[p]) \/ (Fit(f) /\ (TooLate(f, "photos") => f \in caught'))
  PROVE  MediaInv'
<1>1. \A n \in MediaCalls : task'[n] = IF n = m THEN k ELSE task[n]
  BY DEF MediaInv, MediaTypes
<1>2. MediaTypes'
  BY DEF MediaInv, MediaTypes
<1>3. TasksInv'
  BY <1>1, HoldsKept
<1>4. \A n \in MediaCalls : task'[n] = task[n] \/ task'[n].pc \notin {"lookUp", "destroy"}
                            \/ \A f \in Files, t \in Tables : ~Dooms(task'[n], f, t)
  BY <1>1
<1> QED BY <1>2, <1>3, <1>4, RowStep

LEMMA CaughtWhenLate ==
  ASSUME MediaInv, NEW files \in SUBSET Files, NEW t
  PROVE  /\ caught \subseteq Caught(files, t) /\ Caught(files, t) \subseteq Files
         /\ \A f \in files : TooLate(f, t) => f \in Caught(files, t)
BY DEF Caught, MediaInv, MediaTypes

LEMMA EndsIdle ==
  ASSUME MediaInv, NEW m \in MediaCalls, EndTask(m)
  PROVE  task' = [task EXCEPT ![m] = NoTask] /\ Holds(task[m])'
<1>1. task' = [task EXCEPT ![m] = NoTask] /\ task'[m] = NoTask
  BY DEF EndTask, MediaInv, MediaTypes
<1>2. task'[m].pc = "idle"
  BY <1>1, IdleHolds
<1> QED BY <1>1, <1>2 DEF Holds

LEMMA SavesImage ==
  ASSUME MediaInv, NEW m \in MediaCalls, SaveImage(m)
  PROVE  MediaInv'
<1> DEFINE f == task[m].f
<1>1. f \in Files /\ Fit(f) /\ task[m].ps \subseteq Listings
  BY DEF SaveImage, MediaInv, MediaTypes, TaskState, TasksInv, Holds
<1>2. /\ task' = [task EXCEPT ![m] = NoTask] /\ Holds(task[m])'
      /\ UNCHANGED <<cloud, asset, listing, photos>>
  BY EndsIdle DEF SaveImage
<1>3. PICK p \in task[m].ps :
        \/ images' = [images EXCEPT ![p] = @ \cup {f}] /\ caught' = Caught({f}, "images")
        \/ UNCHANGED <<images, caught>>
  BY DEF SaveImage, Shows
<1>4. CASE UNCHANGED <<images, caught>>
  BY <1>2, <1>4, NoTaskTyped, IdleHolds, Writes DEF MediaInv, MediaTypes, RowsTyped
<1>5. CASE images' = [images EXCEPT ![p] = @ \cup {f}] /\ caught' = Caught({f}, "images")
  <2>1. images' \in [Listings -> SUBSET Files]
        /\ \A q \in Listings : images'[q] = IF q = p THEN images[q] \cup {f} ELSE images[q]
    BY <1>1, <1>3, <1>5 DEF MediaInv, MediaTypes, RowsTyped
  <2>2. caught \subseteq caught' /\ caught' \subseteq Files
        /\ (TooLate(f, "images") => f \in caught')
    BY <1>1, <1>5, CaughtWhenLate
  <2>3. RowsTyped' /\ listing' \in [Listings -> {"new", "live", "dead"}]
    BY <1>2, <2>1 DEF MediaInv, MediaTypes, RowsTyped
  <2> HIDE DEF f
  <2>4. \A g \in Files : (\E q \in Listings : g \in images'[q]) =>
          (\E q \in Listings : g \in images[q]) \/ (Fit(g) /\ (TooLate(g, "images") => g \in caught'))
    BY <1>1, <2>1, <2>2
  <2> QED BY <1>2, <2>2, <2>3, <2>4, NoTaskTyped, IdleHolds, Writes
<1> QED BY <1>3, <1>4, <1>5

LEMMA AttachesPhoto ==
  ASSUME MediaInv, NEW m \in MediaCalls, AttachPhoto(m)
  PROVE  MediaInv'
<1> DEFINE f == task[m].f
<1>1. f \in Files /\ Fit(f) /\ task[m].ps \subseteq Listings
  BY DEF AttachPhoto, MediaInv, MediaTypes, TaskState, TasksInv, Holds
<1>2. /\ task' = [task EXCEPT ![m] = NoTask] /\ Holds(task[m])'
      /\ UNCHANGED <<cloud, asset, listing, images>>
  BY EndsIdle DEF AttachPhoto
<1>3. PICK p \in task[m].ps :
        \/ photos' = [photos EXCEPT ![p] = @ \cup {f}] /\ caught' = Caught({f}, "photos")
        \/ UNCHANGED <<photos, caught>>
  BY DEF AttachPhoto
<1>4. CASE UNCHANGED <<photos, caught>>
  BY <1>2, <1>4, NoTaskTyped, IdleHolds, Writes DEF MediaInv, MediaTypes, RowsTyped
<1>5. CASE photos' = [photos EXCEPT ![p] = @ \cup {f}] /\ caught' = Caught({f}, "photos")
  <2>1. photos' \in [Listings -> SUBSET Files]
        /\ \A q \in Listings : photos'[q] = IF q = p THEN photos[q] \cup {f} ELSE photos[q]
    BY <1>1, <1>3, <1>5 DEF MediaInv, MediaTypes, RowsTyped
  <2>2. caught \subseteq caught' /\ caught' \subseteq Files
        /\ (TooLate(f, "photos") => f \in caught')
    BY <1>1, <1>5, CaughtWhenLate
  <2>3. RowsTyped' /\ listing' \in [Listings -> {"new", "live", "dead"}]
    BY <1>2, <2>1 DEF MediaInv, MediaTypes, RowsTyped
  <2> HIDE DEF f
  <2>4. \A g \in Files : (\E q \in Listings : g \in photos'[q]) =>
          (\E q \in Listings : g \in photos[q]) \/ (Fit(g) /\ (TooLate(g, "photos") => g \in caught'))
    BY <1>1, <2>1, <2>2
  <2> QED BY <1>2, <2>2, <2>3, <2>4, NoTaskTyped, IdleHolds, Writes
<1> QED BY <1>3, <1>4, <1>5

LEMMA SavesAsset ==
  ASSUME MediaInv, NEW m \in MediaCalls, SaveAsset(m)
  PROVE  MediaInv'
<1> DEFINE f == task[m].f
           k == IF task[m].pc = "saveAsset" THEN NoTask ELSE [task[m] EXCEPT !.pc = "claim"]
<1>1. f \in Files /\ Fit(f) /\ task[m] \in TaskState
  BY DEF SaveAsset, MediaInv, MediaTypes, TasksInv, Holds
<1>2. task' = [task EXCEPT ![m] = k] /\ UNCHANGED <<cloud, listing, images, photos>>
  BY DEF SaveAsset, EndTask
<1>3. asset' = [asset EXCEPT ![f] = IF @ = "none" THEN "library" ELSE @]
      /\ caught' = Caught({f}, "assets")
  BY DEF SaveAsset, Shows
<1>4. /\ asset' \in [Files -> {"none", "library", "author"}]
      /\ asset'[f] # "none" /\ \A g \in Files : g # f => asset'[g] = asset[g]
  BY <1>1, <1>3 DEF MediaInv, MediaTypes, RowsTyped
<1>5. k \in TaskState /\ \A g, t : ~Dooms(k, g, t)
  BY <1>1, NoTaskTyped, IdleHolds DEF TaskState, PCs, Dooms
<1>6. task'[m] = k
  BY <1>2 DEF MediaInv, MediaTypes
<1>7. Holds(task[m])'
  <2>1. CASE task[m].pc = "saveAsset"
    <3>1. task'[m].pc = "idle"
      BY <1>6, <2>1, IdleHolds
    <3> QED BY <3>1 DEF Holds
  <2>2. CASE task[m].pc # "saveAsset"
    <3>1. task'[m].pc = "claim" /\ task'[m].f = f
      BY <1>1, <1>6, <2>2 DEF TaskState
    <3> HIDE DEF f, k
    <3> QED BY <1>1, <1>4, <3>1 DEF Holds
  <2> QED BY <2>1, <2>2
<1>8. caught \subseteq caught' /\ caught' \subseteq Files /\ (TooLate(f, "assets") => f \in caught')
  BY <1>1, <1>3, CaughtWhenLate
<1>9. RowsTyped' /\ listing' \in [Listings -> {"new", "live", "dead"}]
  BY <1>2, <1>4 DEF MediaInv, MediaTypes, RowsTyped
<1> HIDE DEF f, k
<1>10. \A g \in Files :
         /\ asset[g] # "none" => asset'[g] # "none"
         /\ asset'[g] # "none" =>
              asset[g] # "none" \/ (Fit(g) /\ (TooLate(g, "assets") => g \in caught'))
  BY <1>1, <1>4, <1>8
<1> QED BY <1>2, <1>5, <1>7, <1>8, <1>9, <1>10, Writes

LEMMA ClaimsPhoto ==
  ASSUME MediaInv, NEW m \in MediaCalls, ClaimPhoto(m)
  PROVE  MediaInv'
<1> DEFINE f == task[m].f
<1>1. f \in Files /\ asset[f] # "none"
  BY DEF ClaimPhoto, MediaInv, TasksInv, Holds
<1>2. /\ task' = [task EXCEPT ![m] = NoTask] /\ Holds(task[m])'
      /\ UNCHANGED <<cloud, listing, images, photos, caught>>
  BY EndsIdle DEF ClaimPhoto
<1>3. RowsTyped' /\ \A g \in Files : asset[g] # "none" <=> asset'[g] # "none"
  BY <1>1, <1>2 DEF ClaimPhoto, MediaInv, MediaTypes, RowsTyped
<1>4. /\ caught \subseteq caught' /\ caught' \subseteq Files
      /\ listing' \in [Listings -> {"new", "live", "dead"}]
  BY <1>2 DEF MediaInv, MediaTypes
<1> HIDE DEF f
<1> QED BY <1>2, <1>3, <1>4, NoTaskTyped, IdleHolds, Writes

LEMMA ReplacesImages ==
  ASSUME MediaInv, NEW m \in MediaCalls, WriteImages(m)
  PROVE  MediaInv'
<1> DEFINE files == task[m].files
<1>1. files \in SUBSET Files /\ (\A f \in files : Fit(f)) /\ task[m].ps \subseteq Listings
  BY DEF WriteImages, MediaInv, MediaTypes, TaskState, TasksInv, Holds
<1>2. /\ task' = [task EXCEPT ![m] = NoTask] /\ Holds(task[m])'
      /\ UNCHANGED <<cloud, asset, listing, photos>>
  BY EndsIdle DEF WriteImages
<1>3. PICK p \in task[m].ps :
        \/ images' = [images EXCEPT ![p] = files] /\ caught' = Caught(files, "images")
        \/ UNCHANGED <<images, caught>>
  BY DEF WriteImages
<1>4. CASE UNCHANGED <<images, caught>>
  BY <1>2, <1>4, NoTaskTyped, IdleHolds, Writes DEF MediaInv, MediaTypes, RowsTyped
<1>5. CASE images' = [images EXCEPT ![p] = files] /\ caught' = Caught(files, "images")
  <2>1. images' \in [Listings -> SUBSET Files]
        /\ \A q \in Listings : images'[q] = IF q = p THEN files ELSE images[q]
    BY <1>1, <1>3, <1>5 DEF MediaInv, MediaTypes, RowsTyped
  <2>2. caught \subseteq caught' /\ caught' \subseteq Files
        /\ \A f \in files : TooLate(f, "images") => f \in caught'
    BY <1>1, <1>5, CaughtWhenLate
  <2>3. RowsTyped' /\ listing' \in [Listings -> {"new", "live", "dead"}]
    BY <1>2, <2>1 DEF MediaInv, MediaTypes, RowsTyped
  <2> HIDE DEF files
  <2>4. \A g \in Files : (\E q \in Listings : g \in images'[q]) =>
          (\E q \in Listings : g \in images[q]) \/ (Fit(g) /\ (TooLate(g, "images") => g \in caught'))
    BY <1>1, <2>1, <2>2
  <2> QED BY <1>2, <2>2, <2>3, <2>4, NoTaskTyped, IdleHolds, Writes
<1> QED BY <1>3, <1>4, <1>5

LEMMA CopiesProduct ==
  ASSUME MediaInv, NEW m \in MediaCalls, NEW copy \in Listings, CreateCopy(m, copy)
  PROVE  MediaInv'
<1> DEFINE files == task[m].files
<1>1. files \in SUBSET Files /\ (\A f \in files : Fit(f))
  BY DEF CreateCopy, MediaInv, MediaTypes, TaskState, TasksInv, Holds
<1>2. /\ task' = [task EXCEPT ![m] = NoTask] /\ Holds(task[m])'
      /\ UNCHANGED <<cloud, asset, photos>>
  BY EndsIdle DEF CreateCopy
<1>3. images' = [images EXCEPT ![copy] = files] /\ caught' = Caught(files, "images")
      /\ listing' \in [Listings -> {"new", "live", "dead"}]
  BY DEF CreateCopy, Shows, MediaInv, MediaTypes
<1>4. images' \in [Listings -> SUBSET Files]
      /\ \A q \in Listings : images'[q] = IF q = copy THEN files ELSE images[q]
  BY <1>1, <1>3 DEF MediaInv, MediaTypes, RowsTyped
<1>5. caught \subseteq caught' /\ caught' \subseteq Files
      /\ \A f \in files : TooLate(f, "images") => f \in caught'
  BY <1>1, <1>3, CaughtWhenLate
<1>6. RowsTyped'
  BY <1>2, <1>4 DEF MediaInv, MediaTypes, RowsTyped
<1> HIDE DEF files
<1>7. \A g \in Files : (\E q \in Listings : g \in images'[q]) =>
        (\E q \in Listings : g \in images[q]) \/ (Fit(g) /\ (TooLate(g, "images") => g \in caught'))
  BY <1>1, <1>4, <1>5
<1> QED BY <1>2, <1>3, <1>5, <1>6, <1>7, NoTaskTyped, IdleHolds, Writes

LEMMA DeletesProducts ==
  ASSUME MediaInv, NEW m \in MediaCalls, DeleteProducts(m)
  PROVE  MediaInv'
<1> DEFINE gone == task[m].ps
           on == [NoTask EXCEPT !.pc = "lookUp", !.files = task[m].files, !.left = Tables]
<1>1. task[m] \in TaskState /\ on \in TaskState
  BY DEF MediaInv, MediaTypes, NoTask, TaskState, PCs
<1>2. \A f \in Files, t \in Tables : ~Dooms(on, f, t)
  BY DEF Dooms, NoTask
<1>3. PICK k \in {NoTask, on} : task' = [task EXCEPT ![m] = k]
  BY DEF DeleteProducts, EndTask
<1>4. k \in TaskState /\ \A f \in Files, t \in Tables : ~Dooms(k, f, t)
  BY <1>1, <1>2, <1>3, NoTaskTyped, IdleHolds
<1>5. task'[m] = k /\ k.pc \in {"idle", "lookUp"}
  <2>1. task'[m] = k
    BY <1>3 DEF MediaInv, MediaTypes
  <2>2. NoTask.pc = "idle" /\ on.pc = "lookUp"
    BY DEF NoTask
  <2> HIDE DEF on
  <2> QED BY <1>3, <2>1, <2>2
<1>6. Holds(task[m])'
  BY <1>5 DEF Holds
<1>7. /\ listing' \in [Listings -> {"new", "live", "dead"}]
      /\ images' \in [Listings -> SUBSET Files] /\ photos' \in [Listings -> SUBSET Files]
      /\ \A p \in Listings : images'[p] \subseteq images[p] /\ photos'[p] \subseteq photos[p]
  BY DEF DeleteProducts, MediaInv, MediaTypes, RowsTyped
<1>8. UNCHANGED <<cloud, asset, caught>>
  BY DEF DeleteProducts
<1>9. RowsTyped' /\ caught \subseteq caught' /\ caught' \subseteq Files
  BY <1>7, <1>8 DEF MediaInv, MediaTypes, RowsTyped
<1>10. \A f \in Files :
         /\ (\E p \in Listings : f \in images'[p]) => \E p \in Listings : f \in images[p]
         /\ (\E p \in Listings : f \in photos'[p]) => \E p \in Listings : f \in photos[p]
  BY <1>7
<1> HIDE DEF on
<1> QED BY <1>3, <1>4, <1>6, <1>7, <1>8, <1>9, <1>10, Writes

LEMMA CreatesProduct ==
  ASSUME MediaInv, NEW p \in Listings, CreateProduct(p)
  PROVE  MediaInv'
<1>1. UNCHANGED <<cloud, asset, images, photos, task, caught>>
  BY DEF CreateProduct
<1>2. listing' \in [Listings -> {"new", "live", "dead"}]
  BY DEF CreateProduct, MediaInv, MediaTypes
<1> QED BY <1>1, <1>2 DEF MediaInv, MediaTypes, RowsTyped, TasksInv, Holds, Fit,
             RowsInv, Safe, TooLate, Dooms

-----------------------------------------------------------------------------
(* The actions that decide a destroy on the spot, or do one.                 *)
LEMMA DeletesRows ==
  ASSUME MediaInv, NEW m \in MediaCalls, DeleteRows(m)
  PROVE  MediaInv'
<1> DEFINE f == task[m].f
           k == [NoTask EXCEPT !.pc = "destroy", !.files = {f}]
<1>1. f \in Files
  BY DEF DeleteRows, MediaInv, TasksInv, Holds
<1>2. k \in TaskState /\ \A g, t : Dooms(k, g, t) => g = f
  BY <1>1 DEF NoTask, TaskState, PCs, Tables, Dooms
<1>3. k.pc = "destroy"
  BY DEF NoTask
<1>4. UNCHANGED <<cloud, listing, photos>>
  BY DEF DeleteRows
<1>5. asset' = [asset EXCEPT ![f] = "none"] /\ images' = [p \in Listings |-> images[p] \ {f}]
  BY DEF DeleteRows
<1>6. caught' \in {caught, caught \cup {f}} /\ (InTable(f, "photos") => f \in caught')
  BY DEF DeleteRows
<1>7. task' = [n \in MediaCalls |->
                 IF n = m THEN k
                 ELSE IF task[n].pc = "claim" /\ task[n].f = f THEN NoTask ELSE task[n]]
  BY DEF DeleteRows
<1> HIDE DEF k, f
<1>8. MediaTypes'
  BY <1>1, <1>2, <1>4, <1>5, <1>6, <1>7, NoTaskTyped DEF MediaInv, MediaTypes, RowsTyped
<1>9. TasksInv'
  <2> SUFFICES ASSUME NEW n \in MediaCalls PROVE Holds(task[n])'
    BY DEF TasksInv
  <2>1. CASE task'[n].pc \in {"idle", "destroy"}
    BY <2>1 DEF Holds
  <2>2. CASE task'[n] = task[n] /\ ~(task[n].pc = "claim" /\ task[n].f = f)
    <3>1. Holds(task[n])
      BY DEF MediaInv, TasksInv
    <3>2. \A g \in Files : g # f => asset'[g] = asset[g]
      BY <1>1, <1>5 DEF MediaInv, MediaTypes, RowsTyped
    <3> QED BY <2>2, <3>1, <3>2, <1>4 DEF Holds, Fit
  <2>3. NoTask.pc = "idle"
    BY DEF NoTask
  <2> QED BY <2>1, <2>2, <2>3, <1>3, <1>7
<1>10. RowsInv'
  <2> SUFFICES ASSUME NEW g \in Files
               PROVE  /\ asset'[g] # "none" => Safe(g, "assets")'
                      /\ (\E p \in Listings : g \in images'[p]) => Safe(g, "images")'
                      /\ (\E p \in Listings : g \in photos'[p]) => Safe(g, "photos")'
    BY DEF RowsInv
  <2>1. /\ g = f => asset'[g] = "none" /\ \A p \in Listings : g \notin images'[p]
        /\ g # f => asset'[g] = asset[g]
        /\ \A p \in Listings : g \in images'[p] => g \in images[p]
    BY <1>1, <1>5 DEF MediaInv, MediaTypes, RowsTyped
  <2>2. ASSUME NEW t, g # f, TooLate(g, t)' PROVE TooLate(g, t)
    <3>1. \A n \in MediaCalls : Dooms(task'[n], g, t) => Dooms(task[n], g, t)
      BY <1>2, <1>7, <2>2, IdleHolds
    <3> QED BY <1>4, <2>2, <3>1 DEF TooLate, Dooms
  <2>3. ASSUME NEW t, Safe(g, t), g # f \/ f \in caught' PROVE Safe(g, t)'
    BY <1>4, <1>6, <2>2, <2>3 DEF Safe, Fit
  <2>4. (\E p \in Listings : f \in photos[p]) => f \in caught'
    BY <1>6 DEF InTable
  <2> QED BY <1>4, <2>1, <2>3, <2>4 DEF MediaInv, RowsInv
<1> QED BY <1>8, <1>9, <1>10 DEF MediaInv

LEMMA Destroys ==
  ASSUME MediaInv, NEW m \in MediaCalls, NEW f \in Files, NEW fails \in BOOLEAN, Destroy(m, f, fails)
  PROVE  MediaInv'
<1> DEFINE rest == task[m].files \ {f}
           k == IF rest = {} THEN NoTask ELSE [task[m] EXCEPT !.files = rest]
<1>1. task[m] \in TaskState /\ task[m].pc = "destroy" /\ f \in task[m].files
  BY DEF Destroy, MediaInv, MediaTypes
<1>2. k \in TaskState /\ Holds(k) /\ \A g, t : Dooms(k, g, t) => Dooms(task[m], g, t)
  BY <1>1, NoTaskTyped, IdleHolds DEF TaskState, Holds, Dooms
<1>3. task' = [task EXCEPT ![m] = k] /\ UNCHANGED <<asset, listing, images, photos, caught>>
  BY DEF Destroy
<1>4. /\ cloud' \in [Files -> {"new", "held", "gone"}]
      /\ \A g \in Files : cloud'[g] = cloud[g] \/ (g = f /\ cloud'[g] = "gone")
  BY DEF Destroy, MediaInv, MediaTypes
<1> HIDE DEF k
<1>5. \A n \in MediaCalls : task'[n] = IF n = m THEN k ELSE task[n]
  BY <1>3 DEF MediaInv, MediaTypes
<1>6. MediaTypes'
  BY <1>2, <1>3, <1>4 DEF MediaInv, MediaTypes, RowsTyped
<1>7. \A g \in Files : Fit(g) => Fit(g)'
  BY <1>4 DEF Fit
<1>8. TasksInv'
  <2> SUFFICES ASSUME NEW n \in MediaCalls PROVE Holds(task[n])'
    BY DEF TasksInv
  <2>1. Holds(task'[n])
    BY <1>2, <1>5 DEF MediaInv, TasksInv
  <2>2. task'[n].files \subseteq Files
    BY <1>6 DEF MediaTypes, TaskState
  <2> QED BY <1>3, <1>7, <2>1, <2>2 DEF Holds
<1>9. RowsInv'
  <2> SUFFICES ASSUME NEW g \in Files, NEW t, Safe(g, t) PROVE Safe(g, t)'
    BY <1>3 DEF MediaInv, RowsInv
  <2>1. TooLate(f, t)
    BY <1>1 DEF TooLate, Dooms
  <2>2. ASSUME TooLate(g, t)' PROVE TooLate(g, t)
    <3>1. \A n \in MediaCalls : Dooms(task'[n], g, t) => Dooms(task[n], g, t)
      BY <1>2, <1>5
    <3> QED BY <1>4, <2>1, <2>2, <3>1 DEF TooLate, Dooms
  <2> QED BY <1>3, <1>7, <2>2 DEF Safe
<1> QED BY <1>6, <1>8, <1>9 DEF MediaInv

LEMMA Uploads ==
  ASSUME MediaInv, NEW f \in Files, Upload(f)
  PROVE  MediaInv'
<1>1. UNCHANGED <<asset, listing, images, photos, task, caught>>
  BY DEF Upload
<1>2. /\ cloud' \in [Files -> {"new", "held", "gone"}]
      /\ \A g \in Files : cloud'[g] = cloud[g] \/ (cloud[g] = "new" /\ cloud'[g] = "held")
  BY DEF Upload, MediaInv, MediaTypes
<1>3. MediaTypes'
  BY <1>1, <1>2 DEF MediaInv, MediaTypes, RowsTyped
<1>4. \A g \in Files : Fit(g) => Fit(g)'
  BY <1>2 DEF Fit
<1>5. TasksInv'
  <2> SUFFICES ASSUME NEW n \in MediaCalls PROVE Holds(task[n])'
    BY DEF TasksInv
  <2>1. Holds(task[n]) /\ task[n].files \subseteq Files
    BY DEF MediaInv, MediaTypes, TasksInv, TaskState
  <2> QED BY <1>1, <1>4, <2>1 DEF Holds
<1>6. RowsInv'
  <2> SUFFICES ASSUME NEW g \in Files, NEW t, Safe(g, t) PROVE Safe(g, t)'
    BY <1>1 DEF MediaInv, RowsInv
  <2> QED BY <1>1, <1>2, <1>4 DEF Safe, TooLate, Dooms
<1> QED BY <1>3, <1>5, <1>6 DEF MediaInv

-----------------------------------------------------------------------------
LEMMA MediaInvInit ==
  ASSUME MediaInit
  PROVE  MediaInv
<1>1. MediaTypes
  BY NoTaskTyped DEF MediaInit, MediaTypes, RowsTyped
<1>2. TasksInv
  BY IdleHolds DEF MediaInit, TasksInv
<1>3. RowsInv
  BY DEF MediaInit, RowsInv
<1> QED BY <1>1, <1>2, <1>3 DEF MediaInv

LEMMA MediaInvBegin ==
  ASSUME MediaInv, NEW m \in MediaCalls, BeginMedia(m)
  PROVE  MediaInv'
<1>1. CASE \E f \in Files : SaveReviewMedia(m, f) \/ SaveMedia(m, f, {}) \/ DeleteMedia(m, f)
  BY <1>1, StartsSaveReviewMedia, StartsSaveMedia, StartsDeleteMedia
<1>2. CASE \E p \in Listings, f \in Files : SaveMedia(m, f, {p}) \/ ResolveReviewImages(m, p, f)
  BY <1>2, StartsSaveMedia, StartsAttach
<1>3. CASE \E p \in Listings, files \in SUBSET {f \in Files : Referenced(f)} : SetImages(m, p, files)
  BY <1>3, StartsSetImages
<1>4. CASE \E p \in Listings : Duplicate(m, p) \/ RemoveProducts(m, {p}, "remove")
  BY <1>4, StartsDuplicate, StartsRemoval
<1>5. CASE \E ps \in SUBSET Listings : RemoveProducts(m, ps, "bulk")
  BY <1>5, StartsRemoval
<1> QED BY <1>1, <1>2, <1>3, <1>4, <1>5 DEF BeginMedia

LEMMA MediaInvStep ==
  ASSUME MediaInv, NEW m \in MediaCalls, StepMedia(m)
  PROVE  MediaInv'
<1>1. CASE VerifyPhoto(m) \/ SaveImage(m) \/ SaveAsset(m) \/ ClaimPhoto(m) \/ AttachPhoto(m)
  BY <1>1, VerifiesPhoto, SavesImage, SavesAsset, ClaimsPhoto, AttachesPhoto
<1>2. CASE DeleteRows(m) \/ WriteImages(m) \/ DeleteProducts(m) \/ DropTask(m)
  BY <1>2, DeletesRows, ReplacesImages, DeletesProducts, DropsTask
<1>3. CASE \E p \in Listings : CreateCopy(m, p)
  BY <1>3, CopiesProduct
<1>4. CASE \E t \in Tables : LookUp(m, t)
  BY <1>4, LooksUp
<1>5. CASE \E f \in Files, fails \in BOOLEAN : Destroy(m, f, fails)
  BY <1>5, Destroys
<1> QED BY <1>1, <1>2, <1>3, <1>4, <1>5 DEF StepMedia

LEMMA MediaInvNext ==
  ASSUME MediaInv, [MediaNext]_mediaVars
  PROVE  MediaInv'
<1>1. CASE \E m \in MediaCalls : BeginMedia(m) \/ StepMedia(m)
  BY <1>1, MediaInvBegin, MediaInvStep
<1>2. CASE \E f \in Files : Upload(f)
  BY <1>2, Uploads
<1>3. CASE \E p \in Listings : CreateProduct(p)
  BY <1>3, CreatesProduct
<1>4. CASE UNCHANGED mediaVars
  <2>1. UNCHANGED <<cloud, asset, listing, images, photos, task, caught>>
    BY <1>4 DEF mediaVars
  <2> QED BY <2>1 DEF MediaInv, MediaTypes, RowsTyped, TasksInv, Holds, Fit,
               RowsInv, Safe, TooLate, Dooms
<1> QED BY <1>1, <1>2, <1>3, <1>4 DEF MediaNext

(* A file that a row shows is not new, and not gone either unless caught.    *)
LEMMA MediaInvShows ==
  ASSUME MediaInv
  PROVE  ShownFilesExist
<1> SUFFICES ASSUME NEW f \in Files, Referenced(f), f \notin caught PROVE cloud[f] = "held"
  BY DEF ShownFilesExist
<1>1. PICK t \in Tables : Safe(f, t)
  BY DEF Referenced, InTable, Tables, MediaInv, RowsInv
<1>2. cloud[f] # "new" /\ cloud[f] # "gone"
  BY <1>1 DEF Safe, Fit, TooLate
<1> QED BY <1>2 DEF MediaInv, MediaTypes

(* What a row shows exists at Cloudinary, unless the row was written against *)
(* a destroy decided before, or deleteMedia left a review's photo behind:    *)
(* whatever the numbers of files, products and calls, and wherever a call of *)
(* cleanupImages stands between its three queries and its destroys.          *)
THEOREM CleanupSparesShownFiles == MediaSpec => []ShownFilesExist
<1>1. MediaInit => MediaInv
  BY MediaInvInit
<1>2. MediaInv /\ [MediaNext]_mediaVars => MediaInv'
  BY MediaInvNext
<1>3. MediaInv => ShownFilesExist
  BY MediaInvShows
<1> QED BY <1>1, <1>2, <1>3, PTL DEF MediaSpec

-----------------------------------------------------------------------------
(* Nothing that is held is forgotten: a file belongs to the library or to a  *)
(* product, or to a call that will look after it, or it is loose.            *)
Owned(f) == asset[f] # "none" \/ \E p \in Listings : f \in images[p]

Cleans(k, f) == k.pc \in {"lookUp", "destroy"} /\ f \in k.files

HeldInv ==
  \A f \in Files :
    cloud[f] = "held" => Owned(f) \/ f \in loose \/ \E m \in MediaCalls : Cleans(task[m], f)

LEMMA HeldStep ==
  ASSUME HeldInv,
         \A f \in Files :
           /\ cloud'[f] = "held" => cloud[f] = "held" \/ f \in loose'
           /\ Owned(f) => Owned(f)' \/ f \in loose' \/ \E m \in MediaCalls : Cleans(task'[m], f)
           /\ f \in loose => f \in loose' \/ Owned(f)'
           /\ \A m \in MediaCalls : Cleans(task[m], f) =>
                \/ Cleans(task'[m], f) \/ f \in loose'
                \/ Owned(f)' \/ cloud'[f] # "held"
  PROVE  HeldInv'
<1> SUFFICES ASSUME NEW f \in Files, cloud'[f] = "held"
             PROVE  Owned(f)' \/ f \in loose' \/ \E m \in MediaCalls : Cleans(task'[m], f)
  BY DEF HeldInv, Cleans
<1>1. cloud[f] = "held" => Owned(f) \/ f \in loose \/ \E m \in MediaCalls : Cleans(task[m], f)
  BY DEF HeldInv
<1> QED BY <1>1

(* A call that was not cleaning up goes on; what it gave to a row is no      *)
(* longer loose.                                                            *)
LEMMA HeldOn ==
  ASSUME MediaInv, HeldInv, NEW m \in MediaCalls, task[m].pc \notin {"lookUp", "destroy"},
         \A n \in MediaCalls : n # m => task'[n] = task[n], UNCHANGED cloud,
         \A f \in Files :
           /\ f \in loose => f \in loose' \/ Owned(f)'
           /\ Owned(f) => Owned(f)' \/ f \in loose' \/ Cleans(task'[m], f)
  PROVE  HeldInv'
<1>1. \A f \in Files, n \in MediaCalls : Cleans(task[n], f) => Cleans(task'[n], f)
  BY DEF Cleans
<1> QED BY <1>1, HeldStep

LEMMA OthersStay ==
  ASSUME MediaInv, NEW m \in MediaCalls, NEW k, task' = [task EXCEPT ![m] = k]
  PROVE  task'[m] = k /\ \A n \in MediaCalls : n # m => task'[n] = task[n]
BY DEF MediaInv, MediaTypes

LEMMA HeldMoves ==
  ASSUME MediaInv, HeldInv, NEW m \in MediaCalls, task[m].pc \notin {"lookUp", "destroy"},
         NEW k, task' = [task EXCEPT ![m] = k], UNCHANGED <<cloud, asset, images, loose>>
  PROVE  HeldInv'
BY OthersStay, HeldOn DEF Owned

LEMMA HeldBegin ==
  ASSUME MediaInv, HeldInv, NEW m \in MediaCalls, BeginMedia(m)
  PROVE  HeldInv'
<1>1. task[m].pc = "idle" /\ UNCHANGED <<cloud, asset, images, loose>>
  BY DEF BeginMedia, SaveReviewMedia, SaveMedia, DeleteMedia, ResolveReviewImages, SetImages,
         Duplicate, RemoveProducts, StartTask
<1>2. \E k : task' = [task EXCEPT ![m] = k]
  BY DEF BeginMedia, SaveReviewMedia, SaveMedia, DeleteMedia, ResolveReviewImages, SetImages,
         Duplicate, RemoveProducts, StartTask
<1> QED BY <1>1, <1>2, HeldMoves

LEMMA HeldSaveImage ==
  ASSUME MediaInv, HeldInv, NEW m \in MediaCalls, SaveImage(m)
  PROVE  HeldInv'
<1> DEFINE f == task[m].f
<1>1. /\ task[m].pc = "saveImage" /\ task[m].ps \subseteq Listings
      /\ task' = [task EXCEPT ![m] = NoTask] /\ UNCHANGED <<cloud, asset>>
  BY EndsIdle DEF SaveImage, MediaInv, MediaTypes, TaskState
<1>2. PICK p \in task[m].ps :
        \/ images' = [images EXCEPT ![p] = @ \cup {f}] /\ loose' = loose \ {f}
        \/ UNCHANGED <<images, loose>>
  BY DEF SaveImage, Shows
<1>3. CASE UNCHANGED <<images, loose>>
  BY <1>1, <1>3, HeldMoves
<1>4. CASE images' = [images EXCEPT ![p] = @ \cup {f}] /\ loose' = loose \ {f}
  <2> HIDE DEF f
  <2>1. p \in Listings /\ \A q \in Listings :
          images'[q] = IF q = p THEN images[q] \cup {f} ELSE images[q]
    BY <1>1, <1>2, <1>4 DEF MediaInv, MediaTypes, RowsTyped
  <2>2. \A g \in Files : (Owned(g) => Owned(g)') /\ (g \in loose => g \in loose' \/ Owned(g)')
    BY <1>1, <1>4, <2>1 DEF Owned
  <2> QED BY <1>1, <2>2, OthersStay, HeldOn
<1> QED BY <1>2, <1>3, <1>4

LEMMA HeldSaveAsset ==
  ASSUME MediaInv, HeldInv, NEW m \in MediaCalls, SaveAsset(m)
  PROVE  HeldInv'
<1> DEFINE f == task[m].f
<1>1. task[m].pc \in {"saveAsset", "savePhoto"} /\ f \in Files
  BY DEF SaveAsset, MediaInv, TasksInv, Holds
<1>2. /\ \E k : task' = [task EXCEPT ![m] = k]
      /\ asset' = [asset EXCEPT ![f] = IF @ = "none" THEN "library" ELSE @]
      /\ loose' = loose \ {f} /\ UNCHANGED <<cloud, images>>
  BY DEF SaveAsset, EndTask, Shows
<1> HIDE DEF f
<1>3. \A g \in Files : (Owned(g) => Owned(g)') /\ (g \in loose => g \in loose' \/ Owned(g)')
  BY <1>1, <1>2 DEF Owned, MediaInv, MediaTypes, RowsTyped
<1> QED BY <1>1, <1>2, <1>3, OthersStay, HeldOn

LEMMA HeldClaimPhoto ==
  ASSUME MediaInv, HeldInv, NEW m \in MediaCalls, ClaimPhoto(m)
  PROVE  HeldInv'
<1> DEFINE f == task[m].f
<1>1. task[m].pc = "claim"
  BY DEF ClaimPhoto
<1>2. /\ task' = [task EXCEPT ![m] = NoTask]
      /\ asset' = [asset EXCEPT ![f] = "author"] /\ UNCHANGED <<cloud, images, loose>>
  BY DEF ClaimPhoto, EndTask
<1> HIDE DEF f
<1>3. \A g \in Files : Owned(g) => Owned(g)'
  BY <1>2 DEF Owned, MediaInv, MediaTypes, RowsTyped
<1> QED BY <1>1, <1>2, <1>3, OthersStay, HeldOn

(* setImages: what it takes from a product is another's, or loose.           *)
LEMMA HeldWriteImages ==
  ASSUME MediaInv, HeldInv, NEW m \in MediaCalls, WriteImages(m)
  PROVE  HeldInv'
<1> DEFINE files == task[m].files
<1>1. /\ task[m].pc = "setImages" /\ task[m].ps \subseteq Listings
      /\ task' = [task EXCEPT ![m] = NoTask] /\ UNCHANGED <<cloud, asset>>
  BY EndsIdle DEF WriteImages, MediaInv, MediaTypes, TaskState
<1>2. PICK p \in task[m].ps :
        \/ /\ images' = [images EXCEPT ![p] = files]
           /\ loose' = (loose \ files) \cup {f \in images[p] \ files : Unowned(f, Listings \ {p})}
        \/ UNCHANGED <<images, loose>>
  BY DEF WriteImages
<1>3. CASE UNCHANGED <<images, loose>>
  BY <1>1, <1>3, HeldMoves
<1>4. CASE /\ images' = [images EXCEPT ![p] = files]
           /\ loose' = (loose \ files) \cup {f \in images[p] \ files : Unowned(f, Listings \ {p})}
  <2> HIDE DEF files
  <2>1. p \in Listings /\ \A q \in Listings : images'[q] = IF q = p THEN files ELSE images[q]
    BY <1>1, <1>2, <1>4 DEF MediaInv, MediaTypes, RowsTyped
  <2>2. ASSUME NEW g \in Files
        PROVE  /\ g \in loose => g \in loose' \/ Owned(g)'
               /\ Owned(g) => Owned(g)' \/ g \in loose'
    <3>1. CASE g \in files
      BY <2>1, <3>1 DEF Owned
    <3>2. CASE g \notin files
      <4>1. g \in loose => g \in loose'
        BY <1>4, <3>2
      <4>2. ASSUME Owned(g), ~Unowned(g, Listings \ {p}) PROVE Owned(g)'
        BY <1>1, <2>1, <4>2 DEF Owned, Unowned
      <4>3. ASSUME Owned(g), Unowned(g, Listings \ {p}) PROVE g \in loose'
        BY <1>4, <2>1, <3>2, <4>3 DEF Owned, Unowned
      <4> QED BY <4>1, <4>2, <4>3
    <3> QED BY <3>1, <3>2
  <2> QED BY <1>1, <2>2, OthersStay, HeldOn
<1> QED BY <1>2, <1>3, <1>4

LEMMA HeldCreateCopy ==
  ASSUME MediaInv, HeldInv, NEW m \in MediaCalls, NEW copy \in Listings, CreateCopy(m, copy),
         images[copy] = {}
  PROVE  HeldInv'
<1> DEFINE files == task[m].files
<1>1. /\ task[m].pc = "duplicate" /\ task' = [task EXCEPT ![m] = NoTask]
      /\ UNCHANGED <<cloud, asset>> /\ loose' = loose \ files
      /\ images' = [images EXCEPT ![copy] = files]
  BY EndsIdle DEF CreateCopy, Shows
<1> HIDE DEF files
<1>2. \A q \in Listings : images'[q] = IF q = copy THEN files ELSE images[q]
  BY <1>1 DEF MediaInv, MediaTypes, RowsTyped
<1>3. \A g \in Files : (Owned(g) => Owned(g)') /\ (g \in loose => g \in loose' \/ Owned(g)')
  BY <1>1, <1>2 DEF Owned
<1> QED BY <1>1, <1>3, OthersStay, HeldOn

(* deleteMedia takes the file on itself.                                    *)
LEMMA HeldDeleteRows ==
  ASSUME MediaInv, HeldInv, NEW m \in MediaCalls, DeleteRows(m)
  PROVE  HeldInv'
<1> DEFINE f == task[m].f
           k == [NoTask EXCEPT !.pc = "destroy", !.files = {f}]
<1>1. task[m].pc = "deleteRows" /\ UNCHANGED <<cloud, loose>>
      /\ asset' = [asset EXCEPT ![f] = "none"] /\ images' = [p \in Listings |-> images[p] \ {f}]
  BY DEF DeleteRows
<1>2. \A n \in MediaCalls :
        task'[n] = IF n = m THEN k
                   ELSE IF task[n].pc = "claim" /\ task[n].f = f THEN NoTask ELSE task[n]
  BY DEF DeleteRows
<1>3. Cleans(k, f)
  BY DEF Cleans, NoTask
<1> HIDE DEF f, k
<1>4. \A g \in Files : Owned(g) => Owned(g)' \/ Cleans(task'[m], g)
  BY <1>1, <1>2, <1>3 DEF Owned, MediaInv, MediaTypes, RowsTyped
<1>5. \A g \in Files, n \in MediaCalls : Cleans(task[n], g) => Cleans(task'[n], g)
  BY <1>1, <1>2 DEF Cleans
<1> QED BY <1>1, <1>4, <1>5, HeldStep

(* remove and bulk take over what they read of the products' images.        *)
LEMMA HeldDeleteProducts ==
  ASSUME MediaInv, HeldInv, NEW m \in MediaCalls, DeleteProducts(m)
  PROVE  HeldInv'
<1> DEFINE gone == task[m].ps  files == task[m].files
           k == IF files = {} THEN NoTask
                ELSE [NoTask EXCEPT !.pc = "lookUp", !.files = files, !.left = Tables]
<1>1. task[m].pc \in {"bulk", "remove"} /\ UNCHANGED <<cloud, asset>> /\ gone \subseteq Listings
  BY DEF DeleteProducts, MediaInv, MediaTypes, TaskState
<1>2. CASE EndTask(m) /\ UNCHANGED <<images, loose>>
  BY <1>1, <1>2, HeldMoves DEF EndTask
<1>3. CASE /\ images' = [p \in Listings |-> IF p \in gone THEN {} ELSE images[p]]
           /\ loose' = loose \cup {f \in (UNION {images[p] : p \in gone}) \ files :
                                     Unowned(f, Listings \ gone)}
           /\ task' = [task EXCEPT ![m] = k]
  <2>1. \A g \in files : Cleans(k, g)
    BY DEF Cleans, NoTask
  <2> HIDE DEF k, gone, files
  <2>2. task'[m] = k /\ \A n \in MediaCalls : n # m => task'[n] = task[n]
    BY <1>3, OthersStay
  <2>3. ASSUME NEW g \in Files, Owned(g) PROVE Owned(g)' \/ g \in loose' \/ Cleans(task'[m], g)
    <3>1. CASE Unowned(g, Listings \ gone)
      <4>1. g \in UNION {images[p] : p \in gone}
        BY <2>3, <3>1 DEF Owned, Unowned
      <4>2. CASE g \in files
        BY <2>1, <2>2, <4>2
      <4>3. CASE g \notin files
        BY <1>3, <3>1, <4>1, <4>3
      <4> QED BY <4>2, <4>3
    <3>2. CASE ~Unowned(g, Listings \ gone)
      BY <1>1, <1>3, <3>2 DEF Owned, Unowned
    <3> QED BY <3>1, <3>2
  <2> QED BY <1>1, <1>3, <2>2, <2>3, HeldOn
<1> QED BY <1>2, <1>3 DEF DeleteProducts

(* cleanupImages drops a file from its list that is another row's, or loose.  *)
LEMMA HeldLookUp ==
  ASSUME MediaInv, HeldInv, NEW m \in MediaCalls, NEW t \in Tables, LookUp(m, t)
  PROVE  HeldInv'
<1> DEFINE files == task[m].files
           unused == {f \in files : ~InTable(f, t)}
           on == [task[m] EXCEPT !.files = unused, !.left = task[m].left \ {t},
                                 !.pc = IF task[m].left = {t} THEN "destroy" ELSE "lookUp"]
           k == IF unused = {} THEN NoTask ELSE on
<1>1. /\ UNCHANGED <<cloud, asset, images>> /\ task' = [task EXCEPT ![m] = k]
      /\ loose' = loose \cup {f \in files \ unused : Unowned(f, Listings)}
  BY DEF LookUp
<1>2. \A g \in unused : Cleans(k, g)
  <2>1. on.files = unused /\ on.pc \in {"lookUp", "destroy"}
    BY DEF MediaInv, MediaTypes, TaskState
  <2> HIDE DEF on, unused
  <2> QED BY <2>1 DEF Cleans
<1> HIDE DEF k, on, unused
<1>3. task'[m] = k /\ \A n \in MediaCalls : n # m => task'[n] = task[n]
  BY <1>1, OthersStay
<1>4. \A g \in Files : (Owned(g) <=> Owned(g)') /\ (Owned(g) \/ Unowned(g, Listings))
  BY <1>1 DEF Owned, Unowned
<1>5. ASSUME NEW g \in Files, NEW n \in MediaCalls, Cleans(task[n], g)
      PROVE  Cleans(task'[n], g) \/ g \in loose' \/ Owned(g)'
  <2>1. CASE n = m
    BY <1>1, <1>2, <1>3, <1>4, <1>5, <2>1 DEF Cleans
  <2> QED BY <1>3, <1>5, <2>1
<1> QED BY <1>1, <1>4, <1>5, HeldStep

LEMMA HeldDestroy ==
  ASSUME MediaInv, HeldInv, NEW m \in MediaCalls, NEW f \in Files, NEW fails \in BOOLEAN,
         Destroy(m, f, fails)
  PROVE  HeldInv'
<1> DEFINE rest == task[m].files \ {f}
           on == [task[m] EXCEPT !.files = rest]
           k == IF rest = {} THEN NoTask ELSE on
<1>1. /\ UNCHANGED <<asset, images>> /\ task' = [task EXCEPT ![m] = k]
      /\ \/ loose' = loose \cup {f} /\ UNCHANGED cloud
         \/ cloud' = [cloud EXCEPT ![f] = "gone"] /\ UNCHANGED loose
  BY DEF Destroy
<1>2. \A g \in rest : Cleans(k, g)
  <2>. task[m] \in TaskState /\ task[m].pc = "destroy"
    BY DEF Destroy, MediaInv, MediaTypes
  <2>1. on.files = rest /\ on.pc = "destroy"
    BY DEF TaskState
  <2> HIDE DEF on, rest
  <2> QED BY <2>1 DEF Cleans
<1> HIDE DEF k, on
<1>3. task'[m] = k /\ \A n \in MediaCalls : n # m => task'[n] = task[n]
  BY <1>1, OthersStay
<1>4. \A g \in Files : Owned(g) <=> Owned(g)'
  BY <1>1 DEF Owned
<1>5. /\ f \in loose' \/ cloud'[f] # "held"
      /\ \A g \in Files : cloud'[g] = "held" => cloud[g] = "held"
  BY <1>1 DEF MediaInv, MediaTypes
<1>6. ASSUME NEW g \in Files, NEW n \in MediaCalls, Cleans(task[n], g)
      PROVE  Cleans(task'[n], g) \/ g \in loose' \/ cloud'[g] # "held"
  <2>1. CASE n = m
    BY <1>2, <1>3, <1>5, <1>6, <2>1 DEF Cleans
  <2> QED BY <1>3, <1>6, <2>1
<1> QED BY <1>1, <1>4, <1>5, <1>6, HeldStep

LEMMA HeldDropTask ==
  ASSUME MediaInv, HeldInv, NEW m \in MediaCalls, DropTask(m)
  PROVE  HeldInv'
<1>1. /\ UNCHANGED <<cloud, asset, images>> /\ task' = [task EXCEPT ![m] = NoTask]
      /\ loose' = IF task[m].pc \in {"lookUp", "destroy"} THEN loose \cup task[m].files ELSE loose
  BY DEF DropTask, EndTask
<1>2. \A g \in Files : Owned(g) <=> Owned(g)'
  BY <1>1 DEF Owned
<1>3. \A g \in Files, n \in MediaCalls : Cleans(task[n], g) => Cleans(task'[n], g) \/ g \in loose'
  BY <1>1, OthersStay DEF Cleans
<1> QED BY <1>1, <1>2, <1>3, HeldStep

-----------------------------------------------------------------------------
(* A product that is new has no images yet.                                 *)
NewIsBare == \A p \in Listings : listing[p] = "new" => images[p] = {}

LEMMA BareStep ==
  ASSUME NewIsBare, \A p \in Listings :
                      listing'[p] = "new" => listing[p] = "new" /\ images'[p] \subseteq images[p]
  PROVE  NewIsBare'
BY DEF NewIsBare

LEMMA BareKept ==
  ASSUME MediaInv, NewIsBare, NEW m \in MediaCalls, StepMedia(m)
  PROVE  NewIsBare'
<1>1. CASE UNCHANGED <<listing, images>>
  BY <1>1, BareStep
<1>2. CASE SaveImage(m) \/ WriteImages(m)
  <2>1. listing' = listing
    BY <1>2 DEF SaveImage, WriteImages
  <2>2. \/ UNCHANGED images
        \/ \E p \in task[m].ps : \E rows : Alive(p) /\ images' = [images EXCEPT ![p] = rows]
    BY <1>2 DEF SaveImage, WriteImages
  <2>3. \A p \in Listings : listing[p] = "new" => images'[p] = images[p]
    BY <2>2 DEF Alive, MediaInv, MediaTypes, RowsTyped
  <2> QED BY <2>1, <2>3, BareStep
<1>3. CASE DeleteRows(m) \/ DeleteProducts(m)
  <2>1. \A p \in Listings :
          listing'[p] = "new" => listing[p] = "new" /\ images'[p] \subseteq images[p]
    BY <1>3 DEF DeleteRows, DeleteProducts
  <2> QED BY <2>1, BareStep
<1>4. CASE \E copy \in Listings : CreateCopy(m, copy)
  <2> PICK copy \in Listings : CreateCopy(m, copy)
    BY <1>4
  <2>1. \A p \in Listings :
          listing'[p] = "new" => listing[p] = "new" /\ images'[p] = images[p]
    BY DEF CreateCopy, MediaInv, MediaTypes, RowsTyped
  <2> QED BY <2>1, BareStep
<1>5. UNCHANGED <<listing, images>> \/ SaveImage(m) \/ WriteImages(m)
      \/ DeleteRows(m) \/ DeleteProducts(m) \/ \E p \in Listings : CreateCopy(m, p)
  BY DEF StepMedia, VerifyPhoto, SaveAsset, ClaimPhoto, AttachPhoto, DropTask, LookUp, Destroy
<1> QED BY <1>1, <1>2, <1>3, <1>4, <1>5

HeldMediaInv == MediaInv /\ HeldInv /\ NewIsBare

LEMMA HeldSteps ==
  ASSUME HeldMediaInv, NEW m \in MediaCalls, StepMedia(m)
  PROVE  HeldInv'
<1> USE DEF HeldMediaInv
<1>1. CASE VerifyPhoto(m)
  BY <1>1, HeldMoves DEF VerifyPhoto
<1>2. CASE AttachPhoto(m)
  BY <1>2, HeldMoves DEF AttachPhoto, EndTask
<1>3. CASE SaveImage(m) \/ SaveAsset(m) \/ ClaimPhoto(m) \/ DeleteRows(m) \/ WriteImages(m)
           \/ DeleteProducts(m) \/ DropTask(m)
  BY <1>3, HeldSaveImage, HeldSaveAsset, HeldClaimPhoto, HeldDeleteRows, HeldWriteImages,
     HeldDeleteProducts, HeldDropTask
<1>4. CASE \E p \in Listings : CreateCopy(m, p)
  <2> PICK p \in Listings : CreateCopy(m, p)
    BY <1>4
  <2>1. images[p] = {}
    BY DEF CreateCopy, NewIsBare
  <2> QED BY <2>1, HeldCreateCopy
<1>5. CASE \E t \in Tables : LookUp(m, t)
  BY <1>5, HeldLookUp
<1>6. CASE \E f \in Files, fails \in BOOLEAN : Destroy(m, f, fails)
  BY <1>6, HeldDestroy
<1> QED BY <1>1, <1>2, <1>3, <1>4, <1>5, <1>6 DEF StepMedia

LEMMA HeldNext == HeldMediaInv /\ [MediaNext]_mediaVars => HeldMediaInv'
<1> SUFFICES ASSUME HeldMediaInv, [MediaNext]_mediaVars PROVE HeldInv' /\ NewIsBare'
  BY MediaInvNext DEF HeldMediaInv
<1> USE DEF HeldMediaInv
<1>1. CASE \E m \in MediaCalls : BeginMedia(m) \/ StepMedia(m)
  <2> PICK m \in MediaCalls : BeginMedia(m) \/ StepMedia(m)
    BY <1>1
  <2>1. CASE BeginMedia(m)
    <3>1. UNCHANGED <<listing, images>>
      BY <2>1 DEF BeginMedia, SaveReviewMedia, SaveMedia, DeleteMedia, ResolveReviewImages,
                  SetImages, Duplicate, RemoveProducts
    <3> QED BY <2>1, <3>1, HeldBegin, BareStep
  <2>2. CASE StepMedia(m)
    BY <2>2, HeldSteps, BareKept
  <2> QED BY <2>1, <2>2
<1>2. CASE \E f \in Files : Upload(f)
  <2> PICK f \in Files : Upload(f)
    BY <1>2
  <2>1. UNCHANGED <<asset, listing, images, task>> /\ loose' = loose \cup {f}
    BY DEF Upload
  <2>2. \A g \in Files : cloud'[g] = "held" => cloud[g] = "held" \/ g = f
    BY DEF Upload, MediaInv, MediaTypes
  <2>3. \A g \in Files : Owned(g) <=> Owned(g)'
    BY <2>1 DEF Owned
  <2>4. HeldInv'
    BY <2>1, <2>2, <2>3, HeldStep
  <2> QED BY <2>1, <2>4, BareStep
<1>3. CASE \E p \in Listings : CreateProduct(p)
  <2>1. UNCHANGED <<cloud, asset, images, task, loose>>
    BY <1>3 DEF CreateProduct
  <2>2. \A p \in Listings : listing'[p] = "new" => listing[p] = "new"
    BY <1>3 DEF CreateProduct, MediaInv, MediaTypes
  <2>3. HeldInv'
    BY <2>1 DEF HeldInv, Owned, Cleans
  <2> QED BY <2>1, <2>2, <2>3, BareStep
<1>4. CASE UNCHANGED mediaVars
  BY <1>4 DEF mediaVars, HeldInv, Owned, Cleans, NewIsBare
<1> QED BY <1>1, <1>2, <1>3, <1>4 DEF MediaNext

(* Between calls a file that Cloudinary holds is shown by a row, or one of    *)
(* the ways to lose it has happened to it, for any number of files, products *)
(* and calls: whoever deletes last cleans up.                               *)
THEOREM LastDeleteCleansUp == MediaSpec => []HeldFilesAreShown
<1>1. MediaInit => HeldMediaInv
  BY MediaInvInit DEF MediaInit, HeldMediaInv, HeldInv, NewIsBare
<1>2. HeldMediaInv => HeldFilesAreShown
  BY DEF HeldMediaInv, HeldInv, HeldFilesAreShown, Owned, Cleans, Referenced, InTable, Tables
<1> QED BY <1>1, <1>2, HeldNext, PTL DEF MediaSpec
=============================================================================
