--------------------------- MODULE CategoryService ---------------------------
(***************************************************************************)
(* The category tree (modules/category).  Every admin call loads what it    *)
(* needs, checks its change against that, and writes it some awaits later;  *)
(* calls of several admins interleave in between.                           *)
(***************************************************************************)
EXTENDS Naturals, FiniteSets, FiniteSetsExt

CONSTANTS
  Categories,   (* the ids that rows may ever have                          *)
  Goods,        (* the products, each filed under a category                *)
  Editors,      (* the admin calls in progress                              *)
  MaxDepth,     (* MAX_CATEGORY_DEPTH                                       *)
  MaxMoves,     (* bound: the entries of one reorder                        *)
  NoCategory    (* no parent, no category                                   *)

ASSUME CategoryAssumption ==
  NoCategory \notin Categories /\ IsFiniteSet(Categories) /\ MaxDepth \in Nat \ {0}

VARIABLES
  parentId,   (* the Category rows: their ids, each with its parent         *)
  categoryId, (* categoryId[p]: the category the product is filed under     *)
  edit,       (* edit[e]: where the admin call e is, and what it will write  *)
  crossed,    (* history: a write hit a tree that changed since its check   *)
  reassigned  (* history: a removal handed children over to another category *)

history == <<crossed, reassigned>>
treeVars == <<parentId, categoryId, edit, history>>

NoEdit == [pc |-> "idle", id |-> NoCategory, to |-> NoCategory, moves |-> <<>>, stale |-> FALSE]

Rows == DOMAIN parentId

Children(c) == {d \in Rows : parentId[d] = c}
Filed(c) == {p \in Goods : categoryId[p] = c}

-----------------------------------------------------------------------------
(* The graph helpers, on a loaded graph g.  Walk is the walk to the root    *)
(* that all of them share; it stops where it meets a cycle.                 *)
Up(c, g) ==
  LET up[n \in 0..Cardinality(Categories)] ==
        IF n = 0 THEN c
        ELSE LET below == up[n - 1] IN IF below \in DOMAIN g THEN g[below] ELSE NoCategory
  IN up

Walk(c, g) ==
  LET up == Up(c, g) IN {up[n] : n \in DOMAIN up} \ {NoCategory}

DepthOf(c, g) == Cardinality(Walk(c, g))

(* How far d is below c, if it is.                                          *)
Below(d, c, g) == LET up == Up(d, g) IN {n \in DOMAIN up : up[n] = c}

HeightBelow(c, g) == 1 + Max({Min(Below(d, c, g)) : d \in {d \in DOMAIN g : c \in Walk(d, g)}})

IsDescendant(d, c, g) == Below(d, c, g) \ {0} # {}

(* assertNoCycle and the depth check of update.                             *)
MoveAllowed(c, to, g) ==
  \/ to = NoCategory /\ HeightBelow(c, g) <= MaxDepth
  \/ /\ to \in DOMAIN g /\ to # c /\ ~IsDescendant(to, c, g)
     /\ DepthOf(to, g) + HeightBelow(c, g) <= MaxDepth

(* Mutant: no check for cycles.                                             *)
GraphValid_mutant(g) == \A c \in DOMAIN g : DepthOf(c, g) <= MaxDepth

(* assertGraphValid: every walk ends at a root, none is too long.           *)
GraphValid(g) ==
  \A c \in DOMAIN g : ~IsDescendant(c, c, g) /\ DepthOf(c, g) <= MaxDepth

(* What getTree shows: it descends from the roots, MaxDepth levels.         *)
Shown(g) ==
  {c \in DOMAIN g : Min(Below(c, NoCategory, g)) <= MaxDepth}

-----------------------------------------------------------------------------
(* A commit that changes the tree makes what the other calls loaded stale.  *)
Commit(e) ==
  /\ edit' = [f \in Editors |->
                IF f = e THEN NoEdit
                ELSE [edit[f] EXCEPT !.stale = edit[f].pc # "idle"]]
  /\ crossed' = (crossed \/ edit[e].stale)

(* The write fails on a row or a parent that is gone.                       *)
Fail(e) ==
  /\ edit' = [edit EXCEPT ![e] = NoEdit]
  /\ UNCHANGED <<parentId, categoryId, history>>

StartEdit(e, x) ==
  /\ edit[e].pc = "idle"
  /\ edit' = [edit EXCEPT ![e] = x]
  /\ UNCHANGED <<parentId, categoryId, history>>

(* Mutant: the parent may be one level deeper than it may.                  *)
CreateCategory_mutant(e, c, to) ==
  /\ to \in Rows => DepthOf(to, parentId) <= MaxDepth
  /\ StartEdit(e, [NoEdit EXCEPT !.pc = "create", !.id = c, !.to = to])

(* create: the depth of the parent is checked, then the slug is looked up.  *)
CreateCategory(e, c, to) ==
  /\ to \in Rows => DepthOf(to, parentId) + 1 <= MaxDepth
  /\ StartEdit(e, [NoEdit EXCEPT !.pc = "create", !.id = c, !.to = to])

InsertCategory(e) ==
  LET x == edit[e] IN
  /\ x.pc = "create"
  /\ \/ /\ x.id \notin Rows /\ x.to \in Rows \cup {NoCategory}
        /\ parentId' = [c \in Rows \cup {x.id} |-> IF c = x.id THEN x.to ELSE parentId[c]]
        /\ Commit(e)
        /\ UNCHANGED <<categoryId, reassigned>>
     \/ /\ x.id \in Rows \/ x.to \notin Rows \cup {NoCategory}
        /\ Fail(e)

(* update finds the row; only a parent other than the one it has by then is *)
(* checked, against the graph loaded next.                                  *)
UpdateCategory(e, c, to) ==
  StartEdit(e, [NoEdit EXCEPT !.pc = IF parentId[c] = to THEN "update" ELSE "check",
                              !.id = c, !.to = to])

CheckMove(e) ==
  LET x == edit[e] IN
  /\ x.pc = "check"
  /\ edit' = [edit EXCEPT ![e] =
                IF x.id \in Rows /\ MoveAllowed(x.id, x.to, parentId)
                THEN [x EXCEPT !.pc = "update", !.stale = FALSE] ELSE NoEdit]
  /\ UNCHANGED <<parentId, categoryId, history>>

WriteParent(e) ==
  LET x == edit[e] IN
  /\ x.pc = "update"
  /\ \/ /\ x.id \in Rows /\ x.to \in Rows \cup {NoCategory}
        /\ parentId' = [parentId EXCEPT ![x.id] = x.to]
        /\ Commit(e)
        /\ UNCHANGED <<categoryId, reassigned>>
     \/ /\ x.id \notin Rows \/ x.to \notin Rows \cup {NoCategory}
        /\ Fail(e)

-----------------------------------------------------------------------------
(* Mutant: only the child categories are counted.                           *)
RemoveCategory_mutant(e, c, to) ==
  /\ to # c /\ (to = NoCategory => Children(c) = {})
  /\ StartEdit(e, [NoEdit EXCEPT !.pc = IF to = NoCategory THEN "remove" ELSE "remove:check",
                                 !.id = c, !.to = to])

(* remove counts what depends on the category: it goes ahead when nothing   *)
(* does, or when another category is named to take it over.                 *)
RemoveCategory(e, c, to) ==
  /\ to # c /\ (to = NoCategory => Children(c) \cup Filed(c) = {})
  /\ StartEdit(e, [NoEdit EXCEPT !.pc = IF to = NoCategory THEN "remove" ELSE "remove:check",
                                 !.id = c, !.to = to])

(* That one has to exist outside the subtree; its depth is not looked at.   *)
CheckTakeover(e) ==
  LET x == edit[e] IN
  /\ x.pc = "remove:check"
  /\ edit' = [edit EXCEPT ![e] =
                IF x.to \in Rows /\ ~IsDescendant(x.to, x.id, parentId)
                THEN [x EXCEPT !.pc = "remove", !.stale = FALSE] ELSE NoEdit]
  /\ UNCHANGED <<parentId, categoryId, history>>

(* The transaction; what arrived below the category since goes to to, or,   *)
(* without one, loses its parent or category (ON DELETE SET NULL).          *)
DeleteCategory(e) ==
  LET x == edit[e] IN
  /\ x.pc = "remove"
  /\ \/ /\ x.id \in Rows /\ x.to \in Rows \cup {NoCategory}
        /\ parentId' = [c \in Rows \ {x.id} |-> IF parentId[c] = x.id THEN x.to ELSE parentId[c]]
        /\ categoryId' = [p \in Goods |-> IF categoryId[p] = x.id THEN x.to ELSE categoryId[p]]
        /\ reassigned' = (reassigned \/ (x.to # NoCategory /\ Children(x.id) # {}))
        /\ Commit(e)
     \/ /\ x.id \notin Rows \/ x.to \notin Rows \cup {NoCategory}
        /\ Fail(e)

-----------------------------------------------------------------------------
Moved(g, moves) == [c \in DOMAIN g |-> IF c \in DOMAIN moves THEN moves[c] ELSE g[c]]

(* reorder: the tree with all moves applied is checked, then written.       *)
Reorder(e, moves) ==
  /\ StartEdit(e, [NoEdit EXCEPT !.pc = "reorder", !.moves = moves])
  /\ GraphValid(Moved(parentId, moves))

WriteOrder(e) ==
  LET x == edit[e] IN
  /\ x.pc = "reorder"
  /\ \/ /\ DOMAIN x.moves \subseteq Rows
        /\ \A c \in DOMAIN x.moves : x.moves[c] \in Rows \cup {NoCategory}
        /\ parentId' = Moved(parentId, x.moves)
        /\ Commit(e)
        /\ UNCHANGED <<categoryId, reassigned>>
     \/ /\ \E c \in DOMAIN x.moves : ~({c, x.moves[c]} \subseteq Rows \cup {NoCategory})
        /\ Fail(e)

(* The product editor files a product elsewhere, or nowhere.                *)
FileProduct(p, c) ==
  /\ categoryId[p] # c
  /\ categoryId' = [categoryId EXCEPT ![p] = c]
  /\ edit' = [f \in Editors |-> [edit[f] EXCEPT !.stale = edit[f].pc # "idle"]]
  /\ UNCHANGED <<parentId, history>>

-----------------------------------------------------------------------------
TreeInit ==
  /\ parentId = [c \in {} |-> NoCategory]
  /\ categoryId = [p \in Goods |-> NoCategory]
  /\ edit = [e \in Editors |-> NoEdit]
  /\ crossed = FALSE /\ reassigned = FALSE

EditTree(e) ==
  \/ \E c \in Categories \ Rows, to \in Rows \cup {NoCategory} : CreateCategory(e, c, to)
  \/ \E c \in Rows, to \in Rows \cup {NoCategory} :
       UpdateCategory(e, c, to) \/ RemoveCategory(e, c, to)
  \/ \E ids \in SUBSET Rows :
       /\ Cardinality(ids) \in 1..MaxMoves
       /\ \E moves \in [ids -> Rows \cup {NoCategory}] : Reorder(e, moves)

WriteTree(e) ==
  \/ InsertCategory(e) \/ CheckMove(e) \/ WriteParent(e)
  \/ CheckTakeover(e) \/ DeleteCategory(e) \/ WriteOrder(e)

TreeNext ==
  \/ \E e \in Editors : EditTree(e) \/ WriteTree(e)
  \/ \E p \in Goods, c \in Rows \cup {NoCategory} : FileProduct(p, c)

TreeSpec == TreeInit /\ [][TreeNext]_treeVars

-----------------------------------------------------------------------------
(* The checks of update, remove and reorder suffice as long as no write     *)
(* crosses another: every walk to the root ends, so that no category is its *)
(* own ancestor and hidden from every menu.                                 *)
CyclesNeedCrossing ==
  crossed \/ \A c \in Rows : ~IsDescendant(c, c, parentId)

(* remove is "blocked if it has children or products" and no category takes  *)
(* them over: a removal unfiles a product only when something changed after  *)
(* its check.                                                               *)
GoodsStayFiled ==
  [][\A e \in Editors :
       DeleteCategory(e) /\ ~edit[e].stale =>
         \A p \in Goods : categoryId[p] # NoCategory => categoryId'[p] # NoCategory]_treeVars

(* getTree promises the nested tree of at most three levels; a category     *)
(* below that would be in no menu and no picker, with all its products.     *)
ShownUnlessReassigned == crossed \/ reassigned \/ Shown(parentId) = Rows
=============================================================================
