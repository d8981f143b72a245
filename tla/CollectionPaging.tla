--------------------------- MODULE CollectionPaging ---------------------------
(***************************************************************************)
(* RedfishClient._get_collection (redfish_sdk/client.py): a collection is  *)
(* read page by page, and every member it links to is fetched.  The BMC    *)
(* decides what a page holds when it is asked for it; its links may repeat *)
(* members, form a loop, or lead to another host.  A link stands for the   *)
(* path _collection_path resolves it to.                                   *)
(***************************************************************************)
EXTENDS Naturals, Sequences, SequencesExt

CONSTANTS
    Pages,      \* the paths a continuation link may lead to
    First,      \* the collection itself
    Members,    \* the paths of members
    Foreign,    \* a link to another origin, which _collection_path refuses
    None,       \* no continuation link
    MaxLinks    \* bound: links on one page

ASSUME PagingAssumption ==
    /\ First \in Pages
    /\ Foreign \notin Pages \cup Members
    /\ None \notin Pages \cup {Foreign}
    /\ MaxLinks \in Nat

VARIABLES
    strict,     \* strict_collection_errors
    pc,         \* "page", "members", "returned" or "raised"
    page,       \* page_path
    seenPages,  \* visited_pages
    todo,       \* the links of the page that are still to be followed
    next,       \* next_link
    seen,       \* visited_members
    expanded,   \* expanded_members
    failures,   \* failures: <<stage, resource>>
    listed      \* history: every member a page linked to

vars == <<strict, pc, page, seenPages, todo, next, seen, expanded, failures, listed>>

Links == Members \cup {Foreign}

PageLinks == UNION {[1..n -> Links] : n \in 0..MaxLinks}

Continuations == Pages \cup {Foreign, None}

Init ==
    /\ strict \in BOOLEAN
    /\ pc = "page"
    /\ page = First
    /\ seenPages = {}
    /\ todo = <<>>
    /\ next = None
    /\ seen = {}
    /\ expanded = <<>>
    /\ failures = <<>>
    /\ listed = {}

HandleFailure_Lenient(stage, resource, goon) ==
    /\ pc' = goon
    /\ failures' = Append(failures, <<stage, resource>>)

HandleFailure_MembersOnly(stage, resource, goon) ==
    IF strict
      THEN pc' = "raised" /\ UNCHANGED failures
      ELSE /\ pc' = goon
           /\ failures' = IF stage = "page" THEN failures
                          ELSE Append(failures, <<stage, resource>>)

(* handle_failure raises in strict mode, and takes a note otherwise.       *)
HandleFailure(stage, resource, goon) ==
    IF strict
      THEN pc' = "raised" /\ UNCHANGED failures
      ELSE pc' = goon /\ failures' = Append(failures, <<stage, resource>>)
-----------------------------------------------------------------------------
SeenPage_Never == FALSE

SeenPage == page \in seenPages

Loop ==
    /\ pc = "page" /\ SeenPage
    /\ HandleFailure("page", page, "returned")
    /\ UNCHANGED <<strict, page, seenPages, todo, next, seen, expanded, listed>>

Visit == pc = "page" /\ ~SeenPage /\ seenPages' = seenPages \cup {page}

FetchPage ==
    /\ Visit
    /\ pc' = "members"
    /\ \E links \in PageLinks :
          /\ todo' = links
          /\ listed' = listed \cup (ToSet(links) \ {Foreign})
    /\ next' \in Continuations
    /\ UNCHANGED <<strict, page, seen, expanded, failures>>

(* The first page raises in either mode.                                   *)
PageFails ==
    /\ Visit
    /\ IF seenPages = {}
         THEN pc' = "raised" /\ UNCHANGED failures
         ELSE HandleFailure("page", page, "returned")
    /\ UNCHANGED <<strict, page, todo, next, seen, expanded, listed>>

(* A page without Members, or with a member that has no @odata.id: the     *)
(* adapter raises outside the try block.                                   *)
PageMalformed ==
    /\ Visit
    /\ pc' = "raised"
    /\ UNCHANGED <<strict, page, todo, next, seen, expanded, failures, listed>>
-----------------------------------------------------------------------------
Link == Head(todo)

Follow == pc = "members" /\ todo # <<>> /\ todo' = Tail(todo)

RefuseMember ==
    /\ Follow /\ Link = Foreign
    /\ HandleFailure("member", Foreign, "members")
    /\ UNCHANGED <<strict, page, seenPages, next, seen, expanded, listed>>

Seen_Never == FALSE

Seen == Link \in seen

SkipMember ==
    /\ Follow /\ Link # Foreign /\ Seen
    /\ UNCHANGED <<strict, pc, page, seenPages, next, seen, expanded, failures, listed>>

Unseen == Follow /\ Link # Foreign /\ ~Seen /\ seen' = seen \cup {Link}

FetchMember ==
    /\ Unseen
    /\ expanded' = Append(expanded, Link)
    /\ UNCHANGED <<strict, pc, page, seenPages, next, failures, listed>>

MemberFails_Unseen ==
    /\ Follow /\ Link # Foreign /\ ~Seen
    /\ HandleFailure("member", Link, "members")
    /\ UNCHANGED <<strict, page, seenPages, next, seen, expanded, listed>>

(* The GET fails, or its answer cannot be parsed or identified.            *)
MemberFails ==
    /\ Unseen
    /\ HandleFailure("member", Link, "members")
    /\ UNCHANGED <<strict, page, seenPages, next, expanded, listed>>
-----------------------------------------------------------------------------
PageDone == pc = "members" /\ todo = <<>>

Return ==
    /\ PageDone /\ next = None
    /\ pc' = "returned"
    /\ UNCHANGED <<strict, page, seenPages, todo, next, seen, expanded, failures, listed>>

Continue_PastTheLast ==
    /\ PageDone /\ next # Foreign
    /\ pc' = "page" /\ page' = next
    /\ UNCHANGED <<strict, seenPages, todo, next, seen, expanded, failures, listed>>

Continue ==
    /\ PageDone /\ next \in Pages
    /\ pc' = "page" /\ page' = next
    /\ UNCHANGED <<strict, seenPages, todo, next, seen, expanded, failures, listed>>

RefusePage ==
    /\ PageDone /\ next = Foreign
    /\ HandleFailure("page", Foreign, "returned")
    /\ UNCHANGED <<strict, page, seenPages, todo, next, seen, expanded, listed>>

Finished == pc \in {"returned", "raised"}

Step ==
    \/ Loop \/ FetchPage \/ PageFails \/ PageMalformed
    \/ RefuseMember \/ SkipMember \/ FetchMember \/ MemberFails
    \/ Return \/ Continue \/ RefusePage

Next == Step \/ (Finished /\ UNCHANGED vars)

(* The caller's thread runs on, and every request times out.               *)
Spec == Init /\ [][Next]_vars /\ WF_vars(Step)
-----------------------------------------------------------------------------
FailedMembers == {f[2] : f \in {g \in ToSet(failures) : g[1] = "member"}}

TypeOK ==
    /\ strict \in BOOLEAN
    /\ pc \in {"page", "members", "returned", "raised"}
    /\ page \in Pages /\ seenPages \subseteq Pages
    /\ todo \in Seq(Links)
    /\ next \in Continuations
    /\ seen \subseteq Members /\ listed \subseteq Members
    /\ expanded \in Seq(Members)
    /\ failures \in Seq({"page", "member"} \X (Pages \cup Links))

(* No member is in the result twice, however often pages repeat its link.  *)
ExpandedOnce == \A i, j \in DOMAIN expanded : expanded[i] = expanded[j] => i = j

(* A result that is not partial is complete: it holds every member that    *)
(* any page linked to, and the last page had no further link               *)
(* (CollectionResult.is_partial).                                          *)
CompleteUnlessPartial ==
    pc = "returned" /\ failures = <<>> => ToSet(expanded) = listed /\ next = None

(* What is in the result is not reported as failed as well.                *)
FailedIsNotExpanded == FailedMembers \cap ToSet(expanded) = {}

(* In strict mode a failure reaches the caller as an exception.            *)
StrictIsComplete ==
    strict /\ pc = "returned" => ToSet(expanded) = listed /\ next = None

(* Reading a collection ends, although its pages may form a loop.          *)
Terminates == <>Finished

(* In best-effort mode a failure after the first page is attached to the   *)
(* result.                                                                 *)
BestEffortKeepsMembers == ~strict /\ expanded # <<>> => pc # "raised"
=============================================================================
