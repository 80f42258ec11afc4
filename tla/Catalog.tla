-------------------------------- MODULE Catalog --------------------------------
(***************************************************************************)
(* The shop window (service/admin.go, service/catalog.go): categories in   *)
(* categories and products on them.  No foreign key ties them: each edit   *)
(* reads what it depends on, row by row, and then writes.                  *)
(***************************************************************************)
EXTENDS Integers

CONSTANTS
    Shelves,        \* ids of categories
    Wares,          \* ids of products
    Clerks,         \* administrators' requests under way
    CategoryDepth   \* maxCategoryDepth

Front == "front"            \* no parent: Tree starts here
Unused == "unused"          \* no such row yet; ids are not used twice
Removed == "removed"
New == "new"                \* a category that has no id yet
Nothing == "nothing"

ASSUME CatalogAssumption ==
    /\ CategoryDepth \in Nat \ {0}
    /\ {Front, Unused, Removed, New} \cap Shelves = {} /\ Nothing \notin Wares

VARIABLES
    above,          \* a category's parent
    ware,           \* a product's category
    job,            \* what each request is about to do
    overlapped      \* history: two requests were under way at once

catalogVars == <<above, ware, job, overlapped>>

There == {s \in Shelves : above[s] \notin {Unused, Removed}}

NoJob == [at |-> "idle", self |-> New, to |-> Front, cursor |-> Front, depth |-> 0,
          ware |-> Nothing]

CatalogTypeOK ==
    /\ above \in [Shelves -> Shelves \cup {Front, Unused, Removed}]
    /\ ware \in [Wares -> Shelves \cup {Unused, Removed}]
    /\ job \in [Clerks -> [at : {"idle", "walk", "place", "children", "wares", "drop", "shelf", "put"},
                           self : Shelves \cup {New}, to : Shelves \cup {Front},
                           cursor : Shelves \cup {Front}, depth : 0..CategoryDepth,
                           ware : Wares \cup {Nothing}]]
    /\ overlapped \in BOOLEAN

CatalogInit ==
    /\ above = [s \in Shelves |-> Unused]
    /\ ware = [w \in Wares |-> Unused]
    /\ job = [c \in Clerks |-> NoJob] /\ overlapped = FALSE

BeginsEdit(c, what) ==
    /\ job[c] = NoJob /\ job' = [job EXCEPT ![c] = what]
    /\ overlapped' = (overlapped \/ \E other \in Clerks : job[other] # NoJob)
    /\ UNCHANGED <<above, ware>>

\* A request moves on, or ends there.
GoesTo(c, allowed, to) ==
    /\ job' = [job EXCEPT ![c] = IF allowed THEN [@ EXCEPT !.at = to] ELSE NoJob]
    /\ UNCHANGED <<above, ware, overlapped>>

Finishes(c) == job' = [job EXCEPT ![c] = NoJob] /\ UNCHANGED overlapped

\* Tree attaches children to their parents from the front on: a category is shown where
\* no set around it is cut off from there, by a cycle or by a parent that is gone.
Shown == {s \in There : \A around \in SUBSET There : s \in around =>
             \E r \in around : above[r] = Front \/ above[r] \in There \ around}

\* CreateCategory and UpdateCategory up to validateParent, which lets the front pass.
PlaceCategory(c, self, to) ==
    /\ self \in There \cup {New} /\ self # to
    /\ BeginsEdit(c, [NoJob EXCEPT !.at = IF to = Front THEN "place" ELSE "walk",
                              !.self = self, !.to = to, !.cursor = to])

\* Mutant: only the new parent itself is compared.
NotUnder(c, node) == TRUE

\* The walk must not meet the category that moves.
NotBelow(c, node) == node # job[c].self

\* validateParent, one row at a time up the chain.
WalkUp(c) ==
    LET old == job[c]
        node == old.cursor
    IN
    /\ old.at = "walk"
    /\ job' = [job EXCEPT ![c] =
           IF node \notin There \/ old.depth = CategoryDepth \/ ~NotBelow(c, node) THEN NoJob
           ELSE IF above[node] = Front THEN [old EXCEPT !.at = "place", !.cursor = Front, !.depth = 0]
           ELSE [old EXCEPT !.cursor = above[node], !.depth = old.depth + 1]]
    /\ UNCHANGED <<above, ware, overlapped>>

NextShelf == CHOOSE s \in Shelves : above[s] = Unused

\* The insertion, or the update of the row if it is still there.
WritePlace(c) ==
    LET self == job[c].self IN
    /\ job[c].at = "place" /\ Finishes(c)
    /\ IF self = New
       THEN \E s \in Shelves : above[s] = Unused /\ above' = [above EXCEPT ![NextShelf] = job[c].to]
       ELSE above' = [above EXCEPT ![self] = IF @ = Removed THEN @ ELSE job[c].to]
    /\ UNCHANGED ware

\* DeleteCategory: two counts and the deletion.
DropCategory(c, s) == s \in There /\ BeginsEdit(c, [NoJob EXCEPT !.at = "children", !.self = s])

CountChildren(c) ==
    job[c].at = "children" /\ GoesTo(c, \A s \in Shelves : above[s] # job[c].self, "wares")

CountWares(c) ==
    job[c].at = "wares" /\ GoesTo(c, \A w \in Wares : ware[w] # job[c].self, "drop")

DeleteCategory(c) ==
    /\ job[c].at = "drop" /\ Finishes(c)
    /\ above' = [above EXCEPT ![job[c].self] = Removed]
    /\ UNCHANGED ware

\* CreateProduct and UpdateProduct: validateProduct reads the category.
PutProduct(c, w, to) ==
    /\ ware[w] # Removed
    /\ BeginsEdit(c, [NoJob EXCEPT !.at = "shelf", !.to = to, !.ware = w])

CheckShelf(c) == job[c].at = "shelf" /\ GoesTo(c, job[c].to \in There, "put")

\* A product deleted in between stays deleted.
WriteProduct(c) ==
    /\ job[c].at = "put" /\ Finishes(c)
    /\ ware' = [ware EXCEPT ![job[c].ware] = IF @ = Removed THEN @ ELSE job[c].to]
    /\ UNCHANGED above

\* DeleteProduct, of a product no service has; singly or in a batch.
DeleteWare(w) ==
    /\ ware[w] \in Shelves
    /\ ware' = [ware EXCEPT ![w] = Removed]
    /\ UNCHANGED <<above, job, overlapped>>

CatalogNext ==
    \/ \E c \in Clerks :
          \/ \E self \in Shelves \cup {New}, to \in Shelves \cup {Front} : PlaceCategory(c, self, to)
          \/ \E s \in Shelves : DropCategory(c, s)
          \/ \E w \in Wares, to \in Shelves : PutProduct(c, w, to)
          \/ WalkUp(c) \/ WritePlace(c) \/ CountChildren(c) \/ CountWares(c) \/ DeleteCategory(c)
          \/ CheckShelf(c) \/ WriteProduct(c)
    \/ \E w \in Wares : DeleteWare(w)

CatalogSpec == CatalogInit /\ [][CatalogNext]_catalogVars

-----------------------------------------------------------------------------
\* Where no two requests overlapped, whatever the order of edits, the whole shop is
\* shown: every category is reached from the front, and every product's category is
\* there.  Overlapping or not, none is its own parent.
ShopComplete ==
    /\ \A s \in Shelves : above[s] # s
    /\ ~overlapped => Shown = There /\ \A w \in Wares : ware[w] \in There \cup {Unused, Removed}
=============================================================================
