---------------------------- MODULE MediaService ----------------------------
(***************************************************************************)
(* Images: files at Cloudinary, and the rows that show them (media.service, *)
(* and what product.service and review.service do to images).  No            *)
(* transaction spans the two stores, so that files are verified before, and  *)
(* destroyed after, the rows change, with anything in between.  A file is    *)
(* named by its public id.                                                  *)
(***************************************************************************)
EXTENDS FiniteSets

CONSTANTS
  Files,      (* the public ids that are ever uploaded, each once            *)
  Photos,     (* those a customer uploads, into the reviews folder           *)
  Unfit,      (* those whose format or size saveMedia refuses                *)
  Listings,   (* the product ids that may ever exist                         *)
  MediaCalls  (* the API calls in progress                                   *)

ASSUME MediaAssumption == Photos \subseteq Files /\ Unfit \subseteq Files

VARIABLES
  cloud,    (* what Cloudinary has of each file                             *)
  asset,    (* the MediaAsset row of a file: none, library, or its author's *)
  listing,  (* the Product rows: new before, dead after                      *)
  images,   (* the ProductImage rows of a product                            *)
  photos,   (* the ReviewImage rows under a product                          *)
  task,     (* task[m]: where call m is, and what it holds                   *)
  caught,   (* history: files that a row was given, or kept, against a      *)
            (* destroy under way or done                                    *)
  loose     (* history: files that no row shows, and nothing cleans up       *)

mediaVars == <<cloud, asset, listing, images, photos, task, caught, loose>>

Tables == {"images", "assets", "photos"}

(* f, ps: the file and the products it works on; files: those it will write, *)
(* or destroy; left: the tables that cleanupImages has yet to look into.     *)
NoTask == [pc |-> "idle", f |-> "no file", ps |-> {}, files |-> {}, left |-> {}]

InTable(f, t) ==
  CASE t = "assets" -> asset[f] # "none"
    [] t = "images" -> \E p \in Listings : f \in images[p]
    [] t = "photos" -> \E p \in Listings : f \in photos[p]

Referenced(f) == \E t \in Tables : InTable(f, t)

Alive(p) == listing[p] = "live"

(* A call will destroy file f, whatever is written to table t by now.        *)
Dooms(k, f, t) ==
  f \in k.files /\ (k.pc = "destroy" \/ (k.pc = "lookUp" /\ t \notin k.left))

TooLate(f, t) == cloud[f] = "gone" \/ \E m \in MediaCalls : Dooms(task[m], f, t)

StartTask(m, k) == task[m].pc = "idle" /\ task' = [task EXCEPT ![m] = k]
EndTask(m) == task' = [task EXCEPT ![m] = NoTask]

(* Rows of table t are written for these files; one whose deletion looks      *)
(* after the file again, unless it is a review's.                           *)
Caught(files, t) == caught \cup {f \in files : TooLate(f, t)}
Shows(files, t) == caught' = Caught(files, t) /\ loose' = loose \ files

(* Without a row in the library or under a product of ps.                    *)
Unowned(f, ps) == asset[f] = "none" /\ \A p \in ps : f \notin images[p]

-----------------------------------------------------------------------------
(* The client posts a file straight to Cloudinary.                          *)
Upload(f) ==
  /\ cloud[f] = "new"
  /\ cloud' = [cloud EXCEPT ![f] = "held"]
  /\ loose' = loose \cup {f}
  /\ UNCHANGED <<asset, listing, images, photos, task, caught>>

(* saveMedia asks Cloudinary for the file; ps is the product it names, or    *)
(* none.  A file that does not fit is destroyed.                            *)
Verified(f, ps, pc) ==
  IF f \in Unfit
  THEN [NoTask EXCEPT !.pc = "destroy", !.files = {f}]
  ELSE [NoTask EXCEPT !.pc = pc, !.f = f, !.ps = ps]

SaveMedia(m, f, ps) ==
  /\ cloud[f] = "held"
  /\ StartTask(m, Verified(f, ps, IF ps = {} THEN "saveAsset" ELSE "saveImage"))
  /\ UNCHANGED <<cloud, asset, listing, images, photos, caught, loose>>

(* saveReviewMedia: the row is looked at, then Cloudinary is asked.          *)
SaveReviewMedia(m, f) ==
  /\ f \in Photos /\ asset[f] \in {"none", "author"}
  /\ StartTask(m, [NoTask EXCEPT !.pc = "verify", !.f = f])
  /\ UNCHANGED <<cloud, asset, listing, images, photos, caught, loose>>

VerifyPhoto(m) ==
  LET f == task[m].f IN
  /\ task[m].pc = "verify"
  /\ task' = [task EXCEPT ![m] =
                IF cloud[f] = "held" THEN Verified(f, {}, "savePhoto") ELSE NoTask]
  /\ UNCHANGED <<cloud, asset, listing, images, photos, caught, loose>>

(* The product's image; a product that is gone fails it.                    *)
SaveImage(m) ==
  LET f == task[m].f IN
  /\ task[m].pc = "saveImage"
  /\ \E p \in task[m].ps :
       \/ /\ Alive(p)
          /\ images' = [images EXCEPT ![p] = @ \cup {f}]
          /\ Shows({f}, "images")
       \/ ~Alive(p) /\ UNCHANGED <<images, caught, loose>>
  /\ EndTask(m)
  /\ UNCHANGED <<cloud, asset, listing, photos>>

(* The upsert of the library row, which a customer's photo then claims.      *)
SaveAsset(m) ==
  LET f == task[m].f IN
  /\ task[m].pc \in {"saveAsset", "savePhoto"}
  /\ asset' = [asset EXCEPT ![f] = IF @ = "none" THEN "library" ELSE @]
  /\ Shows({f}, "assets")
  /\ IF task[m].pc = "saveAsset" THEN EndTask(m)
     ELSE task' = [task EXCEPT ![m].pc = "claim"]
  /\ UNCHANGED <<cloud, listing, images, photos>>

ClaimPhoto(m) ==
  /\ task[m].pc = "claim"
  /\ asset' = [asset EXCEPT ![task[m].f] = "author"]
  /\ EndTask(m)
  /\ UNCHANGED <<cloud, listing, images, photos, caught, loose>>

(* create of a review resolves the author's photo, then writes it.          *)
ResolveReviewImages(m, p, f) ==
  /\ Alive(p) /\ asset[f] = "author"
  /\ StartTask(m, [NoTask EXCEPT !.pc = "attach", !.f = f, !.ps = {p}])
  /\ UNCHANGED <<cloud, asset, listing, images, photos, caught, loose>>

AttachPhoto(m) ==
  LET f == task[m].f IN
  /\ task[m].pc = "attach"
  /\ \E p \in task[m].ps :
       \/ /\ Alive(p)
          /\ photos' = [photos EXCEPT ![p] = @ \cup {f}]
          /\ caught' = Caught({f}, "photos")
       \/ ~Alive(p) /\ UNCHANGED <<photos, caught>>
  /\ EndTask(m)
  /\ UNCHANGED <<cloud, asset, listing, images, loose>>

-----------------------------------------------------------------------------
(* deleteMedia finds a library row or images.                               *)
DeleteMedia(m, f) ==
  /\ InTable(f, "assets") \/ InTable(f, "images")
  /\ StartTask(m, [NoTask EXCEPT !.pc = "deleteRows", !.f = f])
  /\ UNCHANGED <<cloud, asset, listing, images, photos, caught, loose>>

(* Mutant: only files of the library are destroyed.                         *)
DeleteRows_mutant(m) ==
  LET f == task[m].f IN
  /\ task[m].pc = "deleteRows"
  /\ asset' = [asset EXCEPT ![f] = "none"]
  /\ images' = [p \in Listings |-> images[p] \ {f}]
  /\ caught' = IF InTable(f, "photos") THEN caught \cup {f} ELSE caught
  /\ task' = [n \in MediaCalls |->
                IF n = m
                THEN IF asset[f] = "none" THEN NoTask
                     ELSE [NoTask EXCEPT !.pc = "destroy", !.files = {f}]
                ELSE IF task[n].pc = "claim" /\ task[n].f = f THEN NoTask ELSE task[n]]
  /\ UNCHANGED <<cloud, listing, photos, loose>>

(* It deletes both, and then the file; a review that shows it keeps its row. *)
(* A photo being claimed is found gone.                                     *)
DeleteRows(m) ==
  LET f == task[m].f IN
  /\ task[m].pc = "deleteRows"
  /\ asset' = [asset EXCEPT ![f] = "none"]
  /\ images' = [p \in Listings |-> images[p] \ {f}]
  /\ caught' = IF InTable(f, "photos") THEN caught \cup {f} ELSE caught
  /\ task' = [n \in MediaCalls |->
                IF n = m THEN [NoTask EXCEPT !.pc = "destroy", !.files = {f}]
                ELSE IF task[n].pc = "claim" /\ task[n].f = f THEN NoTask ELSE task[n]]
  /\ UNCHANGED <<cloud, listing, photos, loose>>

(* setImages, with files that a row showed when the form was filled in.     *)
SetImages(m, p, files) ==
  /\ Alive(p)
  /\ StartTask(m, [NoTask EXCEPT !.pc = "setImages", !.ps = {p}, !.files = files])
  /\ UNCHANGED <<cloud, asset, listing, images, photos, caught, loose>>

(* The set is replaced; a file that drops out is not cleaned up.            *)
WriteImages(m) ==
  LET files == task[m].files
      dropped(p) == {f \in images[p] \ files : Unowned(f, Listings \ {p})}
  IN
  /\ task[m].pc = "setImages"
  /\ \E p \in task[m].ps :
       \/ /\ Alive(p)
          /\ images' = [images EXCEPT ![p] = files]
          /\ caught' = Caught(files, "images")
          /\ loose' = (loose \ files) \cup dropped(p)
       \/ ~Alive(p) /\ UNCHANGED <<images, caught, loose>>
  /\ EndTask(m)
  /\ UNCHANGED <<cloud, asset, listing, photos>>

-----------------------------------------------------------------------------
(* create, with images set later.                                           *)
CreateProduct(p) ==
  /\ listing[p] = "new"
  /\ listing' = [listing EXCEPT ![p] = "live"]
  /\ UNCHANGED <<cloud, asset, images, photos, task, caught, loose>>

(* duplicate copies the images it read.                                     *)
Duplicate(m, p) ==
  /\ Alive(p)
  /\ StartTask(m, [NoTask EXCEPT !.pc = "duplicate", !.files = images[p]])
  /\ UNCHANGED <<cloud, asset, listing, images, photos, caught, loose>>

CreateCopy(m, copy) ==
  /\ task[m].pc = "duplicate" /\ listing[copy] = "new"
  /\ listing' = [listing EXCEPT ![copy] = "live"]
  /\ images' = [images EXCEPT ![copy] = task[m].files]
  /\ Shows(task[m].files, "images")
  /\ EndTask(m)
  /\ UNCHANGED <<cloud, asset, photos>>

(* remove of one product, or bulk with DELETE: the images are read.          *)
RemoveProducts(m, ps, pc) ==
  /\ ps # {} /\ \A p \in ps : Alive(p)
  /\ StartTask(m, [NoTask EXCEPT !.pc = pc, !.ps = ps, !.files = UNION {images[p] : p \in ps}])
  /\ UNCHANGED <<cloud, asset, listing, images, photos, caught, loose>>

(* The rows go, with their images and reviews; remove fails on a product    *)
(* that is gone.  An image added since it was read is not cleaned up.        *)
DeleteProducts(m) ==
  LET k == task[m]
      cascade(rows) == [p \in Listings |-> IF p \in k.ps THEN {} ELSE rows[p]]
      unread == (UNION {images[p] : p \in k.ps}) \ k.files
  IN
  /\ \/ /\ k.pc = "bulk" \/ (k.pc = "remove" /\ \A p \in k.ps : Alive(p))
        /\ listing' = [p \in Listings |-> IF p \in k.ps THEN "dead" ELSE listing[p]]
        /\ images' = cascade(images) /\ photos' = cascade(photos)
        /\ loose' = loose \cup {f \in unread : Unowned(f, Listings \ k.ps)}
        /\ task' = [task EXCEPT ![m] =
                      IF k.files = {} THEN NoTask
                      ELSE [NoTask EXCEPT !.pc = "lookUp", !.files = k.files, !.left = Tables]]
     \/ /\ k.pc = "remove" /\ \E p \in k.ps : ~Alive(p)
        /\ EndTask(m)
        /\ UNCHANGED <<listing, images, photos, loose>>
  /\ UNCHANGED <<cloud, asset, caught>>

(* Mutant: the library is not looked into.                                  *)
LookUp_mutant(m, t) ==
  LET k == task[m]
      unused == {f \in k.files : t = "assets" \/ ~InTable(f, t)}
  IN
  /\ k.pc = "lookUp" /\ t \in k.left
  /\ task' = [task EXCEPT ![m] =
                IF unused = {} THEN NoTask
                ELSE [k EXCEPT !.files = unused, !.left = k.left \ {t},
                               !.pc = IF k.left = {t} THEN "destroy" ELSE "lookUp"]]
  /\ loose' = loose \cup {f \in k.files \ unused : Unowned(f, Listings)}
  /\ UNCHANGED <<cloud, asset, listing, images, photos, caught>>

(* cleanupImages spares what another row shows: three queries side by side.  *)
(* What only a review shows is spared for good, for reviews clean up nothing. *)
LookUp(m, t) ==
  LET k == task[m]
      unused == {f \in k.files : ~InTable(f, t)}
  IN
  /\ k.pc = "lookUp" /\ t \in k.left
  /\ task' = [task EXCEPT ![m] =
                IF unused = {} THEN NoTask
                ELSE [k EXCEPT !.files = unused, !.left = k.left \ {t},
                               !.pc = IF k.left = {t} THEN "destroy" ELSE "lookUp"]]
  /\ loose' = loose \cup {f \in k.files \ unused : Unowned(f, Listings)}
  /\ UNCHANGED <<cloud, asset, listing, images, photos, caught>>

(* destroyQuietly: it may fail, which is logged.                            *)
Destroy(m, f, fails) ==
  LET rest == task[m].files \ {f} IN
  /\ task[m].pc = "destroy" /\ f \in task[m].files
  /\ task' = [task EXCEPT ![m] = IF rest = {} THEN NoTask ELSE [@ EXCEPT !.files = rest]]
  /\ IF fails THEN loose' = loose \cup {f} /\ UNCHANGED cloud
     ELSE cloud' = [cloud EXCEPT ![f] = "gone"] /\ UNCHANGED loose
  /\ UNCHANGED <<asset, listing, images, photos, caught>>

(* A restart, or a failing statement.                                       *)
DropTask(m) ==
  /\ task[m].pc # "idle"
  /\ EndTask(m)
  /\ loose' = IF task[m].pc \in {"lookUp", "destroy"} THEN loose \cup task[m].files ELSE loose
  /\ UNCHANGED <<cloud, asset, listing, images, photos, caught>>

-----------------------------------------------------------------------------
MediaInit ==
  /\ cloud = [f \in Files |-> "new"]
  /\ asset = [f \in Files |-> "none"]
  /\ listing = [p \in Listings |-> "new"]
  /\ images = [p \in Listings |-> {}]
  /\ photos = [p \in Listings |-> {}]
  /\ task = [m \in MediaCalls |-> NoTask]
  /\ caught = {} /\ loose = {}

BeginMedia(m) ==
  \/ \E f \in Files : SaveReviewMedia(m, f) \/ SaveMedia(m, f, {}) \/ DeleteMedia(m, f)
  \/ \E p \in Listings :
       \/ \E f \in Files : SaveMedia(m, f, {p}) \/ ResolveReviewImages(m, p, f)
       \/ \E files \in SUBSET {f \in Files : Referenced(f)} : SetImages(m, p, files)
       \/ Duplicate(m, p) \/ RemoveProducts(m, {p}, "remove")
  \/ \E ps \in SUBSET Listings : RemoveProducts(m, ps, "bulk")

StepMedia(m) ==
  \/ VerifyPhoto(m) \/ SaveImage(m) \/ SaveAsset(m) \/ ClaimPhoto(m) \/ AttachPhoto(m)
  \/ DeleteRows(m) \/ WriteImages(m) \/ DeleteProducts(m) \/ DropTask(m)
  \/ \E p \in Listings : CreateCopy(m, p)
  \/ \E t \in Tables : LookUp(m, t)
  \/ \E f \in Files, fails \in BOOLEAN : Destroy(m, f, fails)

MediaNext ==
  \/ \E m \in MediaCalls : BeginMedia(m) \/ StepMedia(m)
  \/ \E f \in Files : Upload(f)
  \/ \E p \in Listings : CreateProduct(p)

MediaSpec == MediaInit /\ [][MediaNext]_mediaVars

-----------------------------------------------------------------------------
(* cleanupImages is to "destroy only assets nothing else still points at"    *)
(* (#28), across the rows of three tables that other calls add and delete:   *)
(* what a row shows exists, unless the row was written against a destroy     *)
(* decided before, or deleteMedia left a review's photo behind.             *)
ShownFilesExist == \A f \in Files : Referenced(f) => cloud[f] = "held" \/ f \in caught

(* And the other way round, whoever deletes last: between calls, a file that *)
(* Cloudinary holds is shown by a row, unless its upload was never saved,    *)
(* setImages dropped it, it was added while its product was being deleted,   *)
(* its destroy failed or was cut off, or a clean-up spared it for the sake   *)
(* of a review alone, which takes a failed destroy before it: reviews clean  *)
(* up nothing when they go.                                                 *)
HeldFilesAreShown ==
  (\A m \in MediaCalls : task[m].pc = "idle") =>
    \A f \in Files : cloud[f] = "held" => Referenced(f) \/ f \in loose
=============================================================================
