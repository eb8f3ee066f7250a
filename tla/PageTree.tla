------------------------------ MODULE PageTree ------------------------------
(***************************************************************************)
(* The Page hierarchy and the front page.  Pages form a tree by parent_id; *)
(* the routing settings may name one Page as the front page.  Studio       *)
(* requests inspect the tree, answer early when they are refused, and then *)
(* write one batch that repeats the checks.  The WXR importer checks in    *)
(* the same way and writes without repeating them, beside other requests.  *)
(***************************************************************************)
EXTENDS Integers, FiniteSets

CONSTANTS
  Pages,         \* row ids of Pages
  Requests,      \* requests that can be under way together
  MaxWrites      \* bound: writes to the tree and to the front page, with
                 \* those of the requests under way

None == "none"
FrontPage == "front_page"

ASSUME ConstantAssumption ==
  /\ None \notin Pages
  /\ FrontPage \notin Pages
  /\ MaxWrites \in Nat

VARIABLES
  pages,    \* the Pages: status, parent_id, revision
  front,    \* the routing settings: front page and revision
  request,  \* requests between their inspection and their write
  outdated, \* history: the Pages, and FrontPage for the setting, an import
            \* stored when what it had checked was no longer true, and no
            \* request of Studio has written since
  writes    \* how many writes happened

treeVars == <<pages, front, request, outdated, writes>>

NoPage == [status |-> "none", parent |-> None, revision |-> 0]
NoRequest == [kind |-> "none", page |-> None, parent |-> None, status |-> "none", revision |-> 0]

Live == {"draft", "published"}
Statuses == Live \cup {"trash"}
Stored(p) == pages[p] # NoPage
Published(p) == pages[p].status = "published"
IsFront(p) == front.page = p

\* A row id is used once; the model reuses one that no request refers to.
FreePages == {p \in Pages : /\ ~Stored(p) /\ ~IsFront(p)
                          /\ \A r \in Requests : p \notin {request[r].page, request[r].parent}}

\* Some published Pages without parents, and the posts on the front page.
TreeInit ==
  /\ \E P \in SUBSET Pages :
       pages = [p \in Pages |->
         IF p \in P THEN [status |-> "published", parent |-> None, revision |-> 1] ELSE NoPage]
  /\ front = [page |-> None, revision |-> 1]
  /\ request = [r \in Requests |-> NoRequest]
  /\ outdated = {}
  /\ writes = 0

\* Faulty variant: a Page can be put below any stored Page.
LiveParentStored(q) == q # None => Stored(q)

LiveParent(q) == q # None => pages[q].status \in Live

HasChildren(p) == \E c \in Pages : pages[c].parent = p

\* The Page and everything above it: what lies in every set that contains q
\* and is closed under parents.
Ancestors(q) ==
  {p \in Pages : \A S \in SUBSET Pages :
     q \in S /\ (\A c \in S : pages[c].parent \in S \cup {None}) => p \in S}

-----------------------------------------------------------------------------
(* Requests.                                                               *)

UnderWay == {r \in Requests : request[r] # NoRequest}

Begin(r, kind, p, q, status, revision) ==
  /\ request[r] = NoRequest
  /\ writes + Cardinality(UnderWay) < MaxWrites
  /\ request' = [request EXCEPT ![r] =
       [kind |-> kind, page |-> p, parent |-> q, status |-> status, revision |-> revision]]
  /\ UNCHANGED <<pages, front, outdated, writes>>

End(r) == request' = [request EXCEPT ![r] = NoRequest]

Wrote == writes' = writes + 1

StorePage(p, page) ==
  /\ pages' = [pages EXCEPT ![p] = page]
  /\ Wrote
  /\ UNCHANGED front

StoreFront(p) ==
  /\ front' = [page |-> p, revision |-> front.revision + 1]
  /\ Wrote
  /\ UNCHANGED pages

\* Studio writes what it checks in the same batch.
WritePage(p, page) == StorePage(p, page) /\ outdated' = outdated \ {p}

WriteFront(p) == StoreFront(p) /\ outdated' = outdated \ {FrontPage}

Refused == UNCHANGED <<pages, front, outdated, writes>>

-----------------------------------------------------------------------------
(* Pages in Studio.  What the inspection refuses changes nothing, so only  *)
(* requests that pass it are kept.                                         *)

InspectCreate(r, q, status) ==
  /\ LiveParent(q)
  /\ \E p \in FreePages : Begin(r, "create", p, q, status, 0)

\* The insert is guarded by the parent.
WriteCreate(r) ==
  LET k == request[r] IN
  /\ k.kind = "create"
  /\ End(r)
  /\ \/ /\ LiveParent(k.parent)
        /\ WritePage(k.page, [status |-> k.status, parent |-> k.parent, revision |-> 1])
     \/ ~LiveParent(k.parent) /\ Refused

\* The guards of the update.
MayUpdate(k) ==
  /\ pages[k.page].revision = k.revision
  /\ k.status = "trash" => ~HasChildren(k.page)
  /\ k.status # "published" => ~IsFront(k.page)
  /\ k.parent # None => LiveParent(k.parent) /\ k.page \notin Ancestors(k.parent)

InspectUpdate(r, p, q, status) ==
  LET revision == pages[p].revision IN
  /\ Stored(p)
  /\ MayUpdate([page |-> p, parent |-> q, status |-> status, revision |-> revision])
  /\ Begin(r, "update", p, q, status, revision)

\* One item of a bulk request: another status in the same place.  The items
\* are updates of their own, one after the other.
InspectBulkItem(r, p, status) ==
  /\ pages[p].status # status
  /\ InspectUpdate(r, p, pages[p].parent, status)

\* Faulty variant: the revision is all that guards the update.
WriteUpdateByRevision(r) ==
  LET k == request[r] IN
  /\ k.kind = "update"
  /\ End(r)
  /\ pages[k.page].revision = k.revision
  /\ WritePage(k.page, [status |-> k.status, parent |-> k.parent, revision |-> k.revision + 1])

WriteUpdate(r) ==
  LET k == request[r] IN
  /\ k.kind = "update"
  /\ End(r)
  /\ \/ /\ MayUpdate(k)
        /\ WritePage(k.page, [status |-> k.status, parent |-> k.parent, revision |-> k.revision + 1])
     \/ ~MayUpdate(k) /\ Refused

InspectDelete(r, p) ==
  /\ Stored(p)
  /\ ~IsFront(p)
  /\ Begin(r, "delete", p, None, "none", pages[p].revision)

MayDelete(k) ==
  /\ pages[k.page].revision = k.revision
  /\ pages[k.page].status = "trash"
  /\ ~HasChildren(k.page)
  /\ ~IsFront(k.page)

DeletedPage(p) == NoPage

WriteDelete(r) ==
  LET k == request[r] IN
  /\ k.kind = "delete"
  /\ End(r)
  /\ \/ MayDelete(k) /\ WritePage(k.page, DeletedPage(k.page))
     \/ ~MayDelete(k) /\ Refused

-----------------------------------------------------------------------------
(* The front page.                                                         *)

InspectRouting(r, p) ==
  /\ p # None => Published(p)
  /\ Begin(r, "routing", p, None, "none", front.revision)

\* Faulty variant: the write relies on the inspection.
MayRouteUnchecked(k) == front.revision = k.revision

MayRoute(k) == front.revision = k.revision /\ (k.page # None => Published(k.page))

WriteRouting(r) ==
  LET k == request[r] IN
  /\ k.kind = "routing"
  /\ End(r)
  /\ \/ MayRoute(k) /\ WriteFront(k.page)
     \/ ~MayRoute(k) /\ Refused

\* Clear content deletes every Page and takes back a selected front page.
ClearContent ==
  /\ \E p \in Pages : Stored(p)
  /\ writes < MaxWrites
  /\ pages' = [p \in Pages |-> NoPage]
  /\ front' = IF front.page = None THEN front
              ELSE [page |-> None, revision |-> front.revision + 1]
  /\ outdated' = {}
  /\ Wrote
  /\ UNCHANGED request

-----------------------------------------------------------------------------
(* The WXR importer.                                                       *)

\* What the importer looks up for a row.
ImportAllowed(p, q, status) ==
  /\ LiveParent(q)
  /\ Stored(p) =>
       /\ q # None => p \notin Ancestors(q)
       /\ Published(p) /\ status # "published" => ~IsFront(p)

\* A row of a Page that is stored, or of a new one.
CheckImport(r, p, q, status) ==
  /\ p \in FreePages \/ Stored(p)
  /\ ImportAllowed(p, q, status)
  /\ Begin(r, "import", p, q, status, pages[p].revision)

\* Of a parent that was deleted meanwhile, the foreign key is left.
MayImport(k) ==
  /\ pages[k.page].revision = k.revision
  /\ k.parent # None => Stored(k.parent)

WriteImport(r) ==
  LET k == request[r] IN
  /\ k.kind = "import"
  /\ End(r)
  /\ \/ /\ MayImport(k)
        /\ StorePage(k.page, [status |-> k.status, parent |-> k.parent, revision |-> k.revision + 1])
        /\ outdated' = IF ImportAllowed(k.page, k.parent, k.status) THEN outdated
                       ELSE outdated \cup {k.page}
     \/ ~MayImport(k) /\ Refused

\* The settings that end an import: the Page is looked up, the revision is
\* all that guards the write.
CheckFinalize(r, p) ==
  /\ p # None => Published(p)
  /\ p # front.page
  /\ Begin(r, "finalize", p, None, "none", front.revision)

WriteFinalize(r) ==
  LET k == request[r] IN
  /\ k.kind = "finalize"
  /\ End(r)
  /\ \/ /\ front.revision = k.revision
        /\ StoreFront(k.page)
        /\ outdated' = IF k.page # None => Published(k.page) THEN outdated \ {FrontPage}
                       ELSE outdated \cup {FrontPage}
     \/ front.revision # k.revision /\ Refused

\* The batch of any of these requests fails as a whole.
FailWrite(r) ==
  /\ request[r] # NoRequest
  /\ End(r)
  /\ Refused

-----------------------------------------------------------------------------
Studio(r) ==
  \/ \E q \in Pages \cup {None}, status \in Statuses : InspectCreate(r, q, status)
  \/ \E p \in Pages, q \in Pages \cup {None}, status \in Statuses : InspectUpdate(r, p, q, status)
  \/ \E p \in Pages, status \in Statuses : InspectBulkItem(r, p, status)
  \/ \E p \in Pages : InspectDelete(r, p)
  \/ \E p \in Pages \cup {None} : InspectRouting(r, p)
  \/ WriteCreate(r) \/ WriteUpdate(r) \/ WriteDelete(r) \/ WriteRouting(r) \/ FailWrite(r)

Importer(r) ==
  \/ \E p \in Pages, q \in Pages \cup {None}, status \in Live : CheckImport(r, p, q, status)
  \/ \E p \in Pages \cup {None} : CheckFinalize(r, p)
  \/ WriteImport(r) \/ WriteFinalize(r)

TreeNext == ClearContent \/ \E r \in Requests : Studio(r) \/ Importer(r)

TreeSpec == TreeInit /\ [][TreeNext]_treeVars

-----------------------------------------------------------------------------
(* Properties.                                                             *)

\* The types; a Page without a status is a Page that is not stored.
TreeTypeOK ==
  /\ pages \in [Pages -> [status : Statuses \cup {"none"}, parent : Pages \cup {None},
                          revision : Nat]]
  /\ \A p \in Pages : pages[p].status = "none" => pages[p] = NoPage
  /\ front \in [page : Pages \cup {None}, revision : Nat]
  /\ request \in [Requests ->
       [kind : {"none", "create", "update", "delete", "routing", "import", "finalize"},
        page : Pages \cup {None}, parent : Pages \cup {None},
        status : Statuses \cup {"none"}, revision : Nat]]
  /\ outdated \subseteq Pages \cup {FrontPage}
  /\ writes \in Nat

\* No Page is among its own ancestors, however many moves run together, unless
\* an import stored one of them on outdated checks: in every group of other
\* Pages there is one whose parent lies outside of it.
NoCycle ==
  \A S \in SUBSET (Pages \ outdated) : S # {} => \E p \in S : pages[p].parent \notin S

\* A Page with children, even trashed ones, is neither in the trash nor gone:
\* bulk status changes rely on it and treat anything else as unexpected.  Only
\* a child an import stored on outdated checks can be below such a Page.
ParentsAreLive ==
  \A p \in Pages \ outdated :
    pages[p].parent # None => pages[pages[p].parent].status \in Live

\* The front page is a published Page, whoever changes the Page or the
\* routing settings meanwhile, unless an import stored the Page or the setting
\* on outdated checks.
FrontPageIsPublished ==
  front.page # None /\ {front.page, FrontPage} \cap outdated = {}
    => Published(front.page)
=============================================================================
