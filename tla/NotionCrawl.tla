---------------------------- MODULE NotionCrawl ----------------------------
(***************************************************************************)
(* How pages of Notion reach the knowledge base (internal/notion): a walk   *)
(* down from the configured root pages, depth first, through the pages and   *)
(* databases each page holds, no deeper than maxRecursionDepth, and into no  *)
(* page twice.  A page that cannot be read is left out with all below it;    *)
(* of a page that can, nested blocks may be missing, and nobody is told.     *)
(* The walk is the recursion of syncPageRecursive written as a stack, whose  *)
(* frames hold what is left to visit below one page.  Without root pages the *)
(* sync indexes what the search returns; that walk is left out.              *)
(***************************************************************************)
EXTENDS Naturals, FiniteSets, Sequences, SequencesExt

CONSTANTS
    NotionPage,
    RootPage,        \* rootPages
    MaxDepth,        \* maxRecursionDepth (10)
    Tree,            \* [NotionPage -> SUBSET NotionPage]: the child pages
    Database,        \* [NotionPage -> SUBSET NotionPage]: pages of its databases
    Buried,          \* [NotionPage -> SUBSET NotionPage]: those of them it holds
                     \*   in blocks nested more than five deep
    MaxCrawls,
    MaxNotionFaults

ASSUME CrawlAssumption ==
    /\ RootPage \subseteq NotionPage /\ "roots" \notin NotionPage
    /\ Tree \in [NotionPage -> SUBSET NotionPage] /\ Database \in [NotionPage -> SUBSET NotionPage]
    /\ Buried \in [NotionPage -> SUBSET NotionPage]
    /\ MaxDepth \in Nat /\ MaxNotionFaults \in Nat

VARIABLES
    crawl,      \* "idle", "walking" or "saving"
    crawls,     \* syncs begun
    visited,    \* this sync's set of pages begun
    stack,      \* the frames: what is left below a page, and how deep that is
    inBase,     \* pages in the knowledge base
    notionFaults,
    depthOf,    \* ghost: page -> how deep this sync found it
    unread,     \* ghost: pages that it, or blocks or databases of which, it could
                \*   not read
    fetches     \* ghost: page -> how often this sync fetched it

notionVars == <<crawl, crawls, visited, stack, inBase, notionFaults, depthOf, unread, fetches>>

Frame == [pages : SUBSET NotionPage, rows : SUBSET NotionPage, below : NotionPage \cup {"roots"},
          depth : Nat]

NotionTypeOK ==
    /\ crawl \in {"idle", "walking", "saving"}
    /\ visited \cup inBase \subseteq NotionPage
    /\ stack \in Seq(Frame)
    /\ fetches \in [NotionPage -> Nat]
    /\ notionFaults \in 0..MaxNotionFaults

NotionInit ==
    /\ crawl = "idle" /\ crawls = 0
    /\ visited = {} /\ inBase = {}
    /\ stack = <<>>
    /\ notionFaults = 0
    /\ depthOf = [p \in NotionPage |-> 0]
    /\ unread = {}
    /\ fetches = [p \in NotionPage |-> 0]

NotionFault == notionFaults < MaxNotionFaults /\ notionFaults' = notionFaults + 1

SyncNotion ==
    /\ crawl = "idle" /\ crawls < MaxCrawls
    /\ crawl' = "walking"
    /\ crawls' = crawls + 1
    /\ visited' = {} /\ unread' = {}
    /\ stack' = <<[pages |-> RootPage, rows |-> {}, below |-> "roots", depth |-> 0]>>
    /\ depthOf' = [p \in NotionPage |-> 0]
    /\ fetches' = [p \in NotionPage |-> 0]
    /\ UNCHANGED <<inBase, notionFaults>>

(* The next page below: the child pages first, then those of the databases,
   which are two levels down. *)
TopFrame == stack[Len(stack)]
NextBelow(p) ==
    \/ p \in TopFrame.pages
    \/ TopFrame.pages = {} /\ p \in TopFrame.rows
DepthNow == IF TopFrame.pages # {} THEN TopFrame.depth ELSE TopFrame.depth + 1
Shorter(p) ==
    Append(Front(stack), [TopFrame EXCEPT !.pages = @ \ {p},
                                          !.rows = IF TopFrame.pages = {} THEN @ \ {p} ELSE @])

SkipMarked(p) ==
    /\ crawl = "walking" /\ stack # <<>> /\ NextBelow(p)
    /\ DepthNow > MaxDepth \/ p \in visited
    /\ stack' = Shorter(p)
    /\ visited' = visited \cup {p}
    /\ UNCHANGED <<crawl, crawls, inBase, notionFaults, depthOf, unread, fetches>>

(* Too deep, or begun already; a page too deep is not marked. *)
Skip(p) ==
    /\ crawl = "walking" /\ stack # <<>> /\ NextBelow(p)
    /\ DepthNow > MaxDepth \/ p \in visited
    /\ stack' = Shorter(p)
    /\ UNCHANGED <<crawl, crawls, visited, inBase, notionFaults, depthOf, unread, fetches>>

(* getBlockChildren stops at the fifth level of nested blocks. *)
ChildPages(p) == Tree[p] \ Buried[p]
ChildRows(p) == Database[p] \ Buried[p]

FrameBelow(p, found) ==
    [pages |-> ChildPages(p) \cap found, rows |-> ChildRows(p) \cap found,
     below |-> p, depth |-> DepthNow + 1]

(* The page is marked and fetched. *)
BeginPage(p) ==
    /\ crawl = "walking" /\ stack # <<>> /\ NextBelow(p)
    /\ DepthNow <= MaxDepth /\ p \notin visited
    /\ visited' = visited \cup {p}
    /\ fetches' = [fetches EXCEPT ![p] = @ + 1]
    /\ UNCHANGED <<crawl, crawls>>

Stored(p) == inBase' = inBase \cup {p}

(* It is stored, and what it holds comes next.  When nested blocks cannot be
   read, it is stored and walked without them, and what they hold is not found. *)
Visit(p) ==
    /\ BeginPage(p)
    /\ \E found \in SUBSET (ChildPages(p) \cup ChildRows(p)) :
          /\ stack' = Append(Shorter(p), FrameBelow(p, found))
          /\ IF found = ChildPages(p) \cup ChildRows(p)
             THEN /\ UNCHANGED unread
                  /\ \/ Stored(p) /\ UNCHANGED notionFaults
                     \/ NotionFault /\ (Stored(p) \/ UNCHANGED inBase)
             ELSE /\ unread' = unread \cup {p}
                  /\ NotionFault /\ (Stored(p) \/ UNCHANGED inBase)
    /\ depthOf' = [depthOf EXCEPT ![p] = DepthNow]

(* The page, or its first blocks, cannot be read. *)
VisitFails(p) ==
    /\ BeginPage(p)
    /\ NotionFault
    /\ stack' = Shorter(p)
    /\ unread' = unread \cup {p}
    /\ UNCHANGED <<depthOf, inBase>>

(* A database that cannot be queried, at first or for its next page of rows. *)
QueryFails ==
    /\ crawl = "walking" /\ stack # <<>>
    /\ TopFrame.pages = {} /\ TopFrame.rows # {}
    /\ NotionFault
    /\ \E rest \in SUBSET TopFrame.rows :
          stack' = Append(Front(stack), [TopFrame EXCEPT !.rows = rest])
    /\ unread' = unread \cup {TopFrame.below}
    /\ UNCHANGED <<crawl, crawls, visited, inBase, depthOf, fetches>>

Return ==
    /\ crawl = "walking" /\ stack # <<>>
    /\ TopFrame.pages = {} /\ TopFrame.rows = {}
    /\ stack' = Front(stack)
    /\ crawl' = IF Len(stack) = 1 THEN "saving" ELSE crawl
    /\ UNCHANGED <<crawls, visited, inBase, notionFaults, depthOf, unread, fetches>>

SaveNotionState ==
    /\ crawl = "saving"
    /\ crawl' = "idle"
    /\ UNCHANGED <<crawls, visited, stack, inBase, notionFaults, depthOf, unread, fetches>>

NotionNext ==
    \/ SyncNotion \/ QueryFails \/ Return \/ SaveNotionState
    \/ \E p \in NotionPage : Skip(p) \/ Visit(p) \/ VisitFails(p)

NotionSpec == NotionInit /\ [][NotionNext]_notionVars

-----------------------------------------------------------------------------
(* A sync that has walked its trees fetched no page twice, though pages may
   hold each other, and left out no page that one it read holds within the
   depth it found that one at: a page refused as too deep on one path is taken on
   a shorter one later, whatever could not be read elsewhere.  Known to be missing
   is what a page holds in blocks that could not be read, of itself or of its
   databases, what it holds too deep in nested blocks, and what is below a page
   that was met at the limit first: it counts as begun when a shorter path, from
   another root page perhaps, reaches it. *)
WalkIsComplete ==
    LET begun == {p \in NotionPage : fetches[p] > 0} IN
    /\ \A p \in NotionPage : fetches[p] <= 1
    /\ crawl = "saving" =>
          /\ RootPage \subseteq begun
          /\ \A p \in begun \ unread :
                /\ depthOf[p] < MaxDepth => ChildPages(p) \subseteq begun
                /\ depthOf[p] + 1 < MaxDepth => ChildRows(p) \subseteq begun
=============================================================================
