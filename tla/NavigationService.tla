-------------------------- MODULE NavigationService --------------------------
(***************************************************************************)
(* The header and footer menus (storefront/navigation.service.ts).  A menu  *)
(* has two levels: what stands deeper, or under an entry of the other menu, *)
(* is shown nowhere.  As in the category tree, calls check what they read    *)
(* and write some awaits later.                                            *)
(***************************************************************************)
EXTENDS Naturals, FiniteSets, Functions

CONSTANTS
  Items,      (* the ids that menu entries may ever have                    *)
  Locations,  (* HEADER, FOOTER                                             *)
  Managers,   (* the admin calls in progress                                *)
  MaxMenu,    (* bound: the entries of one reorder                          *)
  Top,        (* no parent                                                  *)
  Keep        (* a field the request leaves out                             *)

ASSUME NavigationAssumption ==
  Top \notin Items /\ Keep \notin Items \cup Locations /\ IsFiniteSet(Items)

VARIABLES
  item,       (* the NavItem rows; seeded: as the seed made it, not edited    *)
  job,        (* job[m]: where call m is, and what it will write             *)
  navCrossed, (* history: a write hit a menu that changed since its check    *)
  stranded    (* history: the entries that a call left, or put, where no menu
                 need list them, see WriteItem and WriteItems               *)

navVars == <<item, job, navCrossed, stranded>>

NoJob == [pc |-> "idle", id |-> Top, to |-> Keep, location |-> Keep, moves |-> <<>>, stale |-> FALSE]

Entries == DOMAIN item
SubEntries(i) == {j \in Entries : item[j].parent = i}

(* nest: the entries of a location at the top, and those right below them    *)
(* in the same location.                                                    *)
Listed(i) ==
  \/ item[i].parent = Top
  \/ /\ item[i].parent \in Entries
     /\ LET over == item[item[i].parent]
        IN over.parent = Top /\ over.location = item[i].location

(* assertParentValid, for a call that names a parent.                       *)
ParentValid(to, location, self) ==
  \/ to = Top
  \/ to # self /\ to \in Entries /\ item[to].location = location /\ item[to].parent = Top

-----------------------------------------------------------------------------
CommitNav(m) ==
  /\ job' = [n \in Managers |->
               IF n = m THEN NoJob ELSE [job[n] EXCEPT !.stale = job[n].pc # "idle"]]
  /\ navCrossed' = (navCrossed \/ job[m].stale)

FailNav(m) ==
  /\ job' = [job EXCEPT ![m] = NoJob]
  /\ UNCHANGED <<item, navCrossed, stranded>>

StartNav(m, j) ==
  /\ job[m].pc = "idle"
  /\ job' = [job EXCEPT ![m] = j]
  /\ UNCHANGED <<item, navCrossed, stranded>>

(* create                                                                   *)
CreateItem(m, i, location, to) ==
  /\ ParentValid(to, location, Top)
  /\ StartNav(m, [NoJob EXCEPT !.pc = "create", !.id = i, !.to = to, !.location = location])

InsertItem(m) ==
  LET j == job[m] IN
  /\ j.pc = "create"
  /\ \/ /\ j.id \notin Entries /\ j.to \in Entries \cup {Top}
        /\ item' = [i \in Entries \cup {j.id} |->
                      IF i = j.id
                      THEN [parent |-> j.to, location |-> j.location, seeded |-> FALSE]
                      ELSE item[i]]
        /\ CommitNav(m)
        /\ UNCHANGED stranded
     \/ /\ j.id \in Entries \/ j.to \notin Entries \cup {Top}
        /\ FailNav(m)

(* update checks a parent only when the request names one, and never looks  *)
(* at the entry's own sub-entries.                                          *)
UpdateItem(m, i, location, to) ==
  /\ to = Keep \/ ParentValid(to, IF location = Keep THEN item[i].location ELSE location, i)
  /\ StartNav(m, [NoJob EXCEPT !.pc = "update", !.id = i, !.to = to, !.location = location])

(* It writes the named fields; a parent that is gone fails the write.  The   *)
(* sub-entries of an entry that moves stay where they were, and a sub-entry  *)
(* may be sent to the other menu without its parent.                        *)
WriteItem(m) ==
  LET j == job[m]
      row == [parent |-> IF j.to = Keep THEN item[j.id].parent ELSE j.to,
              location |-> IF j.location = Keep THEN item[j.id].location ELSE j.location,
              seeded |-> FALSE]
      moved == row.parent # item[j.id].parent \/ row.location # item[j.id].location
  IN
  /\ j.pc = "update"
  /\ \/ /\ j.id \in Entries /\ j.to \in Entries \cup {Top, Keep}
        /\ item' = [item EXCEPT ![j.id] = row]
        /\ stranded' = {i \in Entries :
                          \/ i \in stranded /\ (i = j.id => j.to = Keep)
                          \/ moved /\ i \in SubEntries(j.id)
                          \/ moved /\ i = j.id /\ j.to = Keep /\ row.parent # Top}
        /\ CommitNav(m)
     \/ /\ j.id \notin Entries \/ j.to \notin Entries \cup {Top, Keep}
        /\ FailNav(m)

(* What ON DELETE CASCADE takes along: everything whose way up meets dead.   *)
WithSubEntries(dead) ==
  LET down[n \in 0..Cardinality(Items)] ==
        IF n = 0 THEN dead
        ELSE down[n - 1] \cup {j \in Entries : item[j].parent \in down[n - 1]}
  IN down[Cardinality(Items)]

(* remove: found, then deleted with its sub-entries.                        *)
RemoveItem(m, i) ==
  /\ job[m].pc = "idle"
  /\ item' = [j \in Entries \ WithSubEntries({i}) |-> item[j]]
  /\ stranded' = stranded \ WithSubEntries({i})
  /\ CommitNav(m)

-----------------------------------------------------------------------------
(* Mutant: a parent that is moved as well is looked up where it was.        *)
ReorderItems_mutant(m, moves) ==
  /\ \A i \in DOMAIN moves :
       moves[i] # Top => moves[i] # i /\ item[moves[i]].parent = Top
  /\ StartNav(m, [NoJob EXCEPT !.pc = "reorder", !.moves = moves])

(* reorder checks the final arrangement of the entries it is sent: each      *)
(* parent ends up, or already is, at the top.                               *)
ReorderItems(m, moves) ==
  /\ \A i \in DOMAIN moves :
       moves[i] # Top =>
         /\ moves[i] # i
         /\ Top = IF moves[i] \in DOMAIN moves THEN moves[moves[i]] ELSE item[moves[i]].parent
  /\ StartNav(m, [NoJob EXCEPT !.pc = "reorder", !.moves = moves])

(* Nothing keeps an entry and its new parent in one menu, and the sub-entries *)
(* that the call was not sent stay below an entry that it nests.             *)
WriteItems(m) ==
  LET moves == job[m].moves IN
  /\ job[m].pc = "reorder"
  /\ \/ /\ \A i \in DOMAIN moves : i \in Entries /\ moves[i] \in Entries \cup {Top}
        /\ item' = [i \in Entries |->
                      IF i \in DOMAIN moves
                      THEN [item[i] EXCEPT !.parent = moves[i], !.seeded = FALSE] ELSE item[i]]
        /\ stranded' = {i \in Entries :
                          IF i \in DOMAIN moves
                          THEN moves[i] # Top /\ item[moves[i]].location # item[i].location
                          ELSE \/ i \in stranded
                               \/ \E p \in DOMAIN moves : moves[p] # Top /\ i \in SubEntries(p)}
        /\ CommitNav(m)
     \/ /\ \E i \in DOMAIN moves : i \notin Entries \/ moves[i] \notin Entries \cup {Top}
        /\ FailNav(m)

(* seedFromCategories works on the location it names, or on both.            *)
Seeded(location) == IF location = Keep THEN Locations ELSE {location}

(* It goes on where nothing is yet, or to replace what is.                   *)
SeedMenu(m, location, replace) ==
  /\ replace \/ \A i \in Entries : item[i].location \notin Seeded(location)
  /\ StartNav(m, [NoJob EXCEPT !.pc = IF replace THEN "reset" ELSE "seed", !.location = location])

(* The columns a seed creates, here one in each location, and an entry below *)
(* one of them.                                                             *)
SeedRows(column, entry, over) ==
  [i \in DOMAIN column \cup {entry} |->
     IF i = entry THEN [parent |-> over, location |-> column[over], seeded |-> TRUE]
     ELSE [parent |-> Top, location |-> column[i], seeded |-> TRUE]]

(* Mutant: replace adds the entries and clears nothing.                     *)
WriteSeed_mutant(m, column, entry, over) ==
  LET new == SeedRows(column, entry, over) IN
  /\ job[m].pc \in {"seed", "reset"} /\ DOMAIN new \cap Entries = {}
  /\ item' = [i \in Entries \cup DOMAIN new |-> IF i \in DOMAIN new THEN new[i] ELSE item[i]]
  /\ CommitNav(m)
  /\ UNCHANGED stranded

(* Its transaction clears the locations on replace, then creates the columns *)
(* and their entries.                                                       *)
WriteSeed(m, column, entry, over) ==
  LET new == SeedRows(column, entry, over)
      cleared == {i \in Entries : item[i].location \in Seeded(job[m].location)}
      kept == IF job[m].pc = "seed" THEN Entries ELSE Entries \ WithSubEntries(cleared)
  IN
  /\ job[m].pc \in {"seed", "reset"} /\ DOMAIN new \cap kept = {}
  /\ item' = [i \in kept \cup DOMAIN new |-> IF i \in DOMAIN new THEN new[i] ELSE item[i]]
  /\ stranded' = stranded \cap kept
  /\ CommitNav(m)

(* A restart ends a call between its check and its write.                   *)
AbandonNav(m) == job[m].pc # "idle" /\ FailNav(m)

-----------------------------------------------------------------------------
NavInit ==
  /\ item = [i \in {} |-> Top]
  /\ job = [m \in Managers |-> NoJob]
  /\ navCrossed = FALSE /\ stranded = {}

EditMenu(m) ==
  \/ \E i \in Items \ Entries, l \in Locations, to \in Entries \cup {Top} : CreateItem(m, i, l, to)
  \/ \E i \in Entries :
       \/ \E l \in Locations \cup {Keep}, to \in Entries \cup {Top, Keep} : UpdateItem(m, i, l, to)
       \/ RemoveItem(m, i)
  \/ \E ids \in SUBSET Entries :
       /\ Cardinality(ids) \in 1..MaxMenu
       /\ \E moves \in [ids -> Entries \cup {Top}] : ReorderItems(m, moves)
  \/ \E l \in Locations \cup {Keep}, replace \in BOOLEAN : SeedMenu(m, l, replace)

WriteMenu(m) ==
  \/ InsertItem(m) \/ WriteItem(m) \/ WriteItems(m) \/ AbandonNav(m)
  \/ \E columns \in SUBSET Items : \E column \in Bijection(columns, Seeded(job[m].location)) :
       \E entry \in Items \ columns, over \in columns : WriteSeed(m, column, entry, over)

NavNext == \E m \in Managers : EditMenu(m) \/ WriteMenu(m)

NavSpec == NavInit /\ [][NavNext]_navVars

-----------------------------------------------------------------------------
(* "Depth is capped at two": every entry is listed in its menu, however the  *)
(* checks of create, update and reorder and their writes interleave.  The    *)
(* exceptions, besides a write that hit a menu changed since its check: the  *)
(* sub-entries of an entry that update moved below another or to the other   *)
(* menu, or that reorder nested without them; a sub-entry that update sent   *)
(* to the other menu alone; and an entry that reorder nested under a parent  *)
(* in the other menu, although the comment on its check says "an item may    *)
(* only be a child of a top-level item in the same menu".  Each is excepted  *)
(* until a call gives it a parent again.                                    *)
EveryEntryListed == navCrossed \/ \A i \in Entries \ stranded : Listed(i)

(* replace "clears first, so pressing it twice cannot double the menu":      *)
(* only two presses at the same time can.                                   *)
SeededOnce ==
  navCrossed \/ \A i, j \in Entries :
    /\ item[i].seeded /\ item[j].seeded /\ {item[i].parent, item[j].parent} = {Top}
    /\ item[i].location = item[j].location
    => i = j
=============================================================================
