----------------------- MODULE CollectionPaging_proofs -----------------------
(***************************************************************************)
(* Proofs about CollectionPaging, for collections of any size: what is in  *)
(* the result is in it once, and a result without failures is complete.    *)
(***************************************************************************)
EXTENDS CollectionPaging, TLAPS

LEMMA EmptySet == ASSUME NEW s, s = <<>> PROVE ToSet(s) = {}
  BY DEF ToSet

LEMMA AppendSet ==
    ASSUME NEW S, NEW s \in Seq(S), NEW x \in S
    PROVE  ToSet(Append(s, x)) = ToSet(s) \cup {x}
<1>1. /\ DOMAIN Append(s, x) = 1..(Len(s) + 1)
      /\ \A i \in 1..Len(s) : Append(s, x)[i] = s[i]
      /\ Append(s, x)[Len(s) + 1] = x
  OBVIOUS
<1>2. DOMAIN s = 1..Len(s) /\ Len(s) \in Nat
  OBVIOUS
<1>3. 1..(Len(s) + 1) = 1..Len(s) \cup {Len(s) + 1}
  BY <1>2
<1> QED
  BY <1>1, <1>2, <1>3 DEF ToSet

LEMMA HeadTailSet ==
    ASSUME NEW S, NEW s \in Seq(S), s # <<>>
    PROVE  Head(s) \in S /\ Tail(s) \in Seq(S)
           /\ ToSet(s) = {Head(s)} \cup ToSet(Tail(s))
<1>1. /\ Len(s) \in Nat \ {0} /\ DOMAIN s = 1..Len(s)
      /\ Head(s) = s[1] /\ DOMAIN Tail(s) = 1..(Len(s) - 1)
      /\ \A i \in 1..(Len(s) - 1) : Tail(s)[i] = s[i + 1]
  OBVIOUS
<1>2. \A y \in ToSet(s) : y = Head(s) \/ y \in ToSet(Tail(s))
  <2> SUFFICES ASSUME NEW j \in 1..Len(s), j # 1
               PROVE  s[j] \in ToSet(Tail(s))
    BY <1>1 DEF ToSet
  <2>1. j - 1 \in DOMAIN Tail(s) /\ s[j] = Tail(s)[j - 1]
    BY <1>1
  <2> QED
    BY <2>1 DEF ToSet
<1>3. Head(s) \in ToSet(s)
  BY <1>1 DEF ToSet
<1>4. \A y \in ToSet(Tail(s)) : y \in ToSet(s)
  <2> SUFFICES ASSUME NEW i \in DOMAIN Tail(s) PROVE Tail(s)[i] \in ToSet(s)
    BY DEF ToSet
  <2>1. i + 1 \in DOMAIN s /\ Tail(s)[i] = s[i + 1]
    BY <1>1
  <2> QED
    BY <2>1 DEF ToSet
<1>5. ToSet(s) = {Head(s)} \cup ToSet(Tail(s))
  BY <1>2, <1>3, <1>4
<1> QED
  BY <1>1, <1>5

LEMMA LinksType ==
    ASSUME NEW links \in PageLinks
    PROVE  links \in Seq(Links) /\ ToSet(links) \subseteq Links
<1>1. PICK n \in 0..MaxLinks : links \in [1..n -> Links]
  BY DEF PageLinks
<1>2. links \in Seq(Links)
  BY <1>1, PagingAssumption
<1> QED
  BY <1>1, <1>2 DEF ToSet
-----------------------------------------------------------------------------
(* What is expanded or has failed has been visited; a run without failures *)
(* so far has expanded everything it has visited, and has still to follow  *)
(* only what is left of the page.                                          *)
VisitInv ==
    /\ ToSet(expanded) \subseteq seen
    /\ FailedMembers \subseteq seen \cup {Foreign}
    /\ strict => failures = <<>>
    /\ pc = "page" => todo = <<>>

ProgressInv ==
    failures = <<>> /\ pc # "raised" =>
        /\ seen = ToSet(expanded)
        /\ listed = seen \cup (ToSet(todo) \ {Foreign})
        /\ pc = "returned" => todo = <<>> /\ next = None

PagingInv ==
    TypeOK /\ VisitInv /\ ProgressInv /\ ExpandedOnce /\ FailedIsNotExpanded

LEMMA InitPaging == Init => PagingInv
<1> SUFFICES ASSUME Init PROVE PagingInv
  OBVIOUS
<1>1. TypeOK
  BY PagingAssumption DEF Init, TypeOK, Continuations
<1>2. /\ ToSet(expanded) = {} /\ ToSet(todo) = {} /\ FailedMembers = {}
  BY EmptySet DEF Init, FailedMembers
<1> QED
  BY <1>1, <1>2 DEF Init, PagingInv, VisitInv, ProgressInv, ExpandedOnce,
                    FailedIsNotExpanded

(* Noting a failure.                                                       *)
LEMMA Handled ==
    ASSUME TypeOK, NEW stage \in {"page", "member"},
           NEW resource \in Pages \cup Links, NEW goon,
           HandleFailure(stage, resource, goon)
    PROVE  /\ failures' \in Seq({"page", "member"} \X (Pages \cup Links))
           /\ \/ strict /\ pc' = "raised" /\ failures' = failures
              \/ ~strict /\ pc' = goon /\ failures' # <<>>
           /\ FailedMembers' \subseteq FailedMembers
                \cup (IF stage = "member" THEN {resource} ELSE {})
<1> DEFINE F == {"page", "member"} \X (Pages \cup Links)
<1>1. CASE strict
  <2>1. failures' = failures /\ pc' = "raised"
    BY <1>1 DEF HandleFailure
  <2> QED
    BY <1>1, <2>1 DEF TypeOK, FailedMembers
<1>2. CASE ~strict
  <2>1. failures' = Append(failures, <<stage, resource>>) /\ pc' = goon
    BY <1>2 DEF HandleFailure
  <2>2. failures \in Seq(F) /\ <<stage, resource>> \in F
    BY DEF TypeOK
  <2>3. ToSet(failures') = ToSet(failures) \cup {<<stage, resource>>}
    BY <2>1, <2>2, AppendSet
  <2>4. failures' \in Seq(F) /\ failures' # <<>>
    BY <2>1, <2>2
  <2>5. FailedMembers' \subseteq FailedMembers
          \cup (IF stage = "member" THEN {resource} ELSE {})
    BY <2>3 DEF FailedMembers
  <2> QED
    BY <1>2, <2>1, <2>4, <2>5
<1> QED
  BY <1>1, <1>2

LEMMA LoopStep == ASSUME PagingInv, Loop PROVE PagingInv'
<1>1. page \in Pages \cup Links
  BY DEF PagingInv, TypeOK
<1>2. /\ failures' \in Seq({"page", "member"} \X (Pages \cup Links))
      /\ \/ strict /\ pc' = "raised" /\ failures' = failures
         \/ ~strict /\ pc' = "returned" /\ failures' # <<>>
      /\ FailedMembers' \subseteq FailedMembers
  BY <1>1, Handled DEF Loop, PagingInv
<1> QED
  BY <1>2 DEF Loop, PagingInv, TypeOK, VisitInv, ProgressInv, ExpandedOnce,
              FailedIsNotExpanded

LEMMA FetchPageStep == ASSUME PagingInv, FetchPage PROVE PagingInv'
<1>1. PICK links \in PageLinks :
          todo' = links /\ listed' = listed \cup (ToSet(links) \ {Foreign})
  BY DEF FetchPage
<1>2. /\ links \in Seq(Links) /\ ToSet(links) \subseteq Links
      /\ FailedMembers' = FailedMembers /\ ToSet(todo) = {}
  BY LinksType, EmptySet
  DEF FetchPage, Visit, FailedMembers, PagingInv, VisitInv
<1>3. TypeOK'
  BY <1>1, <1>2 DEF FetchPage, Visit, PagingInv, TypeOK, Links
<1> QED
  BY <1>1, <1>2, <1>3 DEF FetchPage, Visit, PagingInv, VisitInv, ProgressInv,
                          ExpandedOnce, FailedIsNotExpanded

LEMMA PageFailsStep == ASSUME PagingInv, PageFails PROVE PagingInv'
<1>1. page \in Pages /\ seenPages' \subseteq Pages
  BY DEF PageFails, Visit, PagingInv, TypeOK
<1>2. /\ failures' \in Seq({"page", "member"} \X (Pages \cup Links))
      /\ \/ pc' = "raised" /\ failures' = failures
         \/ ~strict /\ pc' = "returned" /\ failures' # <<>>
      /\ FailedMembers' \subseteq FailedMembers
  <2>1. CASE seenPages = {}
    BY <2>1 DEF PageFails, PagingInv, TypeOK, FailedMembers
  <2>2. CASE seenPages # {}
    BY <1>1, <2>2, Handled DEF PageFails, PagingInv
  <2> QED
    BY <2>1, <2>2
<1> QED
  BY <1>1, <1>2 DEF PageFails, Visit, PagingInv, TypeOK, VisitInv,
                    ProgressInv, ExpandedOnce, FailedIsNotExpanded

LEMMA PageMalformedStep == ASSUME PagingInv, PageMalformed PROVE PagingInv'
  BY DEF PageMalformed, Visit, PagingInv, TypeOK, VisitInv, ProgressInv,
         ExpandedOnce, FailedIsNotExpanded, FailedMembers

(* Following a link takes it off what is left of the page.                 *)
LEMMA Followed ==
    ASSUME TypeOK, Follow
    PROVE  /\ Link \in Links /\ todo' \in Seq(Links)
           /\ ToSet(todo) = {Link} \cup ToSet(todo')
  BY HeadTailSet DEF TypeOK, Follow, Link

LEMMA RefuseMemberStep == ASSUME PagingInv, RefuseMember PROVE PagingInv'
<1>1. /\ Link = Foreign /\ todo' \in Seq(Links)
      /\ ToSet(todo) = {Foreign} \cup ToSet(todo')
  BY Followed DEF RefuseMember, PagingInv
<1>2. /\ failures' \in Seq({"page", "member"} \X (Pages \cup Links))
      /\ \/ strict /\ pc' = "raised" /\ failures' = failures
         \/ ~strict /\ pc' = "members" /\ failures' # <<>>
      /\ FailedMembers' \subseteq FailedMembers \cup {Foreign}
  BY Handled DEF RefuseMember, PagingInv, Links
<1>3. ToSet(expanded) \subseteq Members
  BY DEF PagingInv, VisitInv, TypeOK
<1> QED
  BY <1>1, <1>2, <1>3, PagingAssumption
  DEF RefuseMember, Follow, PagingInv, TypeOK, VisitInv, ProgressInv,
      ExpandedOnce, FailedIsNotExpanded

LEMMA SkipMemberStep == ASSUME PagingInv, SkipMember PROVE PagingInv'
<1>1. /\ todo' \in Seq(Links) /\ Link \in seen
      /\ ToSet(todo) = {Link} \cup ToSet(todo')
  BY Followed DEF SkipMember, Seen, PagingInv
<1> QED
  BY <1>1 DEF SkipMember, Follow, PagingInv, TypeOK, VisitInv, ProgressInv,
              ExpandedOnce, FailedIsNotExpanded, FailedMembers

LEMMA FetchMemberStep == ASSUME PagingInv, FetchMember PROVE PagingInv'
<1>1. /\ Link \in Members \ seen /\ todo' \in Seq(Links)
      /\ ToSet(todo) = {Link} \cup ToSet(todo')
      /\ seen' = seen \cup {Link} /\ expanded' = Append(expanded, Link)
      /\ FailedMembers' = FailedMembers
  BY Followed DEF FetchMember, Unseen, Seen, PagingInv, Links, FailedMembers
<1>2. expanded \in Seq(Members) /\ ToSet(expanded) \subseteq seen
  BY DEF PagingInv, TypeOK, VisitInv
<1>3. /\ expanded' \in Seq(Members)
      /\ ToSet(expanded') = ToSet(expanded) \cup {Link}
  BY <1>1, <1>2, AppendSet
<1>4. ExpandedOnce'
  <2>1. /\ Len(expanded') = Len(expanded) + 1 /\ Len(expanded) \in Nat
        /\ DOMAIN expanded' = 1..(Len(expanded) + 1)
        /\ DOMAIN expanded = 1..Len(expanded)
        /\ expanded'[Len(expanded) + 1] = Link
        /\ \A i \in 1..Len(expanded) : expanded'[i] = expanded[i]
    BY <1>1, <1>2
  <2>2. \A i \in 1..Len(expanded) : expanded[i] # Link
    BY <1>1, <1>2, <2>1 DEF ToSet
  <2> QED
    BY <2>1, <2>2 DEF PagingInv, ExpandedOnce
<1>5. Link # Foreign
  BY DEF FetchMember, Unseen
<1>6. FailedIsNotExpanded'
  BY <1>1, <1>3, <1>5 DEF PagingInv, VisitInv, FailedIsNotExpanded
<1>7. VisitInv' /\ ProgressInv'
  BY <1>1, <1>3, <1>5
  DEF FetchMember, Unseen, Follow, PagingInv, VisitInv, ProgressInv
<1>8. TypeOK'
  BY <1>1, <1>3 DEF FetchMember, Unseen, Follow, PagingInv, TypeOK
<1> QED
  BY <1>4, <1>6, <1>7, <1>8 DEF PagingInv

LEMMA MemberFailsStep == ASSUME PagingInv, MemberFails PROVE PagingInv'
<1>1. /\ Link \in Members \ seen /\ todo' \in Seq(Links)
      /\ seen' = seen \cup {Link} /\ expanded' = expanded
  BY Followed DEF MemberFails, Unseen, Seen, PagingInv, Links
<1>2. /\ failures' \in Seq({"page", "member"} \X (Pages \cup Links))
      /\ \/ strict /\ pc' = "raised" /\ failures' = failures
         \/ ~strict /\ pc' = "members" /\ failures' # <<>>
      /\ FailedMembers' \subseteq FailedMembers \cup {Link}
  BY <1>1, Handled DEF MemberFails, PagingInv, Links
<1>3. Link \notin ToSet(expanded)
  BY <1>1 DEF PagingInv, VisitInv
<1> QED
  BY <1>1, <1>2, <1>3 DEF MemberFails, Unseen, Follow, PagingInv, TypeOK,
        VisitInv, ProgressInv, ExpandedOnce, FailedIsNotExpanded

LEMMA EndStep ==
    ASSUME PagingInv, Return \/ Continue PROVE PagingInv'
  BY EmptySet
  DEF Return, Continue, PageDone, PagingInv, TypeOK, VisitInv, ProgressInv,
      ExpandedOnce, FailedIsNotExpanded, FailedMembers

LEMMA RefusePageStep == ASSUME PagingInv, RefusePage PROVE PagingInv'
<1>1. /\ failures' \in Seq({"page", "member"} \X (Pages \cup Links))
      /\ \/ strict /\ pc' = "raised" /\ failures' = failures
         \/ ~strict /\ pc' = "returned" /\ failures' # <<>>
      /\ FailedMembers' \subseteq FailedMembers
  BY Handled DEF RefusePage, PagingInv, Links
<1> QED
  BY <1>1 DEF RefusePage, PageDone, PagingInv, TypeOK, VisitInv, ProgressInv,
              ExpandedOnce, FailedIsNotExpanded

LEMMA StepPaging == PagingInv /\ [Next]_vars => PagingInv'
<1> SUFFICES ASSUME PagingInv, [Next]_vars PROVE PagingInv'
  OBVIOUS
<1>1. CASE Step
  BY <1>1, LoopStep, FetchPageStep, PageFailsStep, PageMalformedStep,
     RefuseMemberStep, SkipMemberStep, FetchMemberStep, MemberFailsStep,
     EndStep, RefusePageStep DEF Step
<1>2. CASE UNCHANGED vars
  BY <1>2 DEF vars, PagingInv, TypeOK, VisitInv, ProgressInv, ExpandedOnce,
              FailedIsNotExpanded, FailedMembers
<1> QED
  BY <1>1, <1>2 DEF Next

(* The inductive invariant holds in every reachable state.                 *)
THEOREM PagingInvariant == Spec => []PagingInv
  BY InitPaging, StepPaging, PTL DEF Spec

(* The types of the reader's variables, for collections of any size.       *)
THEOREM PagingTypes == Spec => []TypeOK
<1>1. PagingInv => TypeOK
  BY DEF PagingInv
<1> QED
  BY <1>1, PagingInvariant, PTL

(* No member is in the result of _get_collection twice.                    *)
THEOREM MembersAreUnique == Spec => []ExpandedOnce
<1>1. PagingInv => ExpandedOnce
  BY DEF PagingInv
<1> QED
  BY <1>1, PagingInvariant, PTL

(* A result of _get_collection that is not partial is complete.            *)
THEOREM ResultsAreComplete == Spec => []CompleteUnlessPartial
<1>1. PagingInv => CompleteUnlessPartial
  BY EmptySet DEF PagingInv, ProgressInv, CompleteUnlessPartial
<1> QED
  BY <1>1, PagingInvariant, PTL

(* What a result holds is not reported as failed.                          *)
THEOREM FailuresAreNotMembers == Spec => []FailedIsNotExpanded
<1>1. PagingInv => FailedIsNotExpanded
  BY DEF PagingInv
<1> QED
  BY <1>1, PagingInvariant, PTL

(* What _get_collection returns in strict mode is complete.                *)
THEOREM StrictResultsAreComplete == Spec => []StrictIsComplete
<1>1. PagingInv => StrictIsComplete
  BY EmptySet DEF PagingInv, VisitInv, ProgressInv, StrictIsComplete
<1> QED
  BY <1>1, PagingInvariant, PTL
=============================================================================
