---------------------------- MODULE Managers_proofs ----------------------------
(***************************************************************************)
(* What holds of the operations of the managers, for every value of the    *)
(* constants.                                                              *)
(*                                                                         *)
(* ResourceOps: of every recipe that satisfies its assumptions, over       *)
(* listings of any length: the types, that a write is executed at most     *)
(* once and reaches the member meant, and that the answer of a candid      *)
(* recipe tells of every failure.                                          *)
(*                                                                         *)
(* RegistryResolve: of any number of threads, registries and references:   *)
(* the types, the bound of the cache of documents, and that a message      *)
(* resolved is the one the reference stands for.                           *)
(*                                                                         *)
(* FirmwareUpdate: of any number of operations and clients: the types,     *)
(* that a request keeps to what the service advertises, and, as long as no *)
(* identity is given twice, that it speaks the vendor's dialect.           *)
(***************************************************************************)
EXTENDS ResourceOps, RegistryResolve, FirmwareUpdate,
        FiniteSetTheorems, SequenceTheorems, TLAPS

(* Where a call has written: only an executed request leads to a second    *)
(* read of the member, or to the answer of an operation that writes.       *)
EffectInv ==
    /\ effects \in {0, 1}
    /\ effects = 1 => recipe.write # <<>> /\ pc \in {"reread", "done"}
    /\ pc = "reread" => effects = 1
    /\ pc = "done" /\ outcome = "answer" /\ recipe.write # <<>> => effects = 1
    /\ pc \in {"check", "info", "send", "resend", "reread"} => recipe.write # <<>>
    /\ recipe.write # <<>> => ~some

(* An operation that writes reads lists that name what they lack.          *)
ListInv ==
    /\ pc = "read" /\ recipe.write # <<>> =>
          /\ ~marked => got \cup unread = listed
          /\ Here.form = "resource" => unread = {}
    /\ recipe.write # <<>> /\ astray => blind

OpsInv == TypeOK /\ EffectInv /\ ListInv

-----------------------------------------------------------------------------
(* Recipes.                                                                 *)

LEMMA LevelType ==
    ASSUME NEW o \in DOMAIN Recipes, NEW i \in 1 .. Len(Recipes[o].levels)
    PROVE  /\ Recipes[o].levels[i] \in Levels
           /\ 1 \in 1 .. Len(Recipes[o].levels[i].routes)
<1> DEFINE lvl == Recipes[o].levels[i]
<1>1. lvl \in Levels /\ lvl.routes # <<>>
  BY RecipesAssumption
<1>2. lvl.routes \in Seq(Routes)
  BY <1>1 DEF Levels
<1> QED
  BY <1>1, <1>2

LEMMA HereType == ASSUME TypeOK PROVE Level \in Levels /\ Here \in Routes
<1>1. Level \in Levels
  BY LevelType DEF TypeOK, Level
<1>2. Level.routes \in Seq(Routes)
  BY <1>1 DEF Levels
<1> QED
  BY <1>1, <1>2 DEF TypeOK, Here

LEMMA WriteLevel ==
    ASSUME TypeOK, recipe.write # <<>>
    PROVE  /\ Level.pick \in {"first", "sole", "key"}
           /\ Level.otherwise = "raise"
           /\ Here.form \in {"resource", "collection"}
BY WriteAssumption DEF TypeOK, Level, Here

LEMMA Moving ==
    ASSUME TypeOK
    PROVE  /\ 1 \in 1 .. Len(Level.routes)
           /\ route # Len(Level.routes) => route + 1 \in 1 .. Len(Level.routes)
           /\ level < Len(recipe.levels) =>
                 /\ level + 1 \in 1 .. Len(recipe.levels)
                 /\ 1 \in 1 .. Len(recipe.levels[level + 1].routes)
           /\ Level.pick = "each" => level < Len(recipe.levels)
<1>1. recipe.levels \in Seq(Levels)
  BY RecipesAssumption DEF TypeOK
<1>2. Level.routes \in Seq(Routes)
  BY HereType DEF Levels
<1>3. 1 \in 1 .. Len(Level.routes)
  BY LevelType DEF TypeOK, Level
<1>4. route # Len(Level.routes) => route + 1 \in 1 .. Len(Level.routes)
  BY <1>2 DEF TypeOK
<1>5. level < Len(recipe.levels) => level + 1 \in 1 .. Len(recipe.levels)
  BY <1>1 DEF TypeOK
<1>6. level < Len(recipe.levels) => 1 \in 1 .. Len(recipe.levels[level + 1].routes)
  BY <1>5, LevelType DEF TypeOK
<1>7. Level.pick = "each" => level < Len(recipe.levels)
  BY RecipesAssumption DEF TypeOK, Level
<1> QED
  BY <1>3, <1>4, <1>5, <1>6, <1>7
-----------------------------------------------------------------------------
(* Members.                                                                 *)

(* The least of a set of places is its only least element.                  *)
LEMMA Least ==
    ASSUME NEW S \in SUBSET Members, S # {}
    PROVE  First(S) \in S /\ {m \in S : \A n \in S : m <= n} = {First(S)}
<1>1. \E m \in S : \A n \in S : m <= n
  BY MembersAssumption
<1>2. First(S) \in S /\ \A n \in S : First(S) <= n
  BY <1>1 DEF First
<1>3. S \subseteq Nat
  BY MembersAssumption
<1>4. ASSUME NEW m \in S, \A n \in S : m <= n PROVE m = First(S)
  <2>1. First(S) \in Nat /\ m \in Nat
    BY <1>2, <1>3
  <2>2. First(S) <= m /\ m <= First(S)
    BY <1>2, <1>4
  <2> HIDE DEF First
  <2> QED
    BY <2>1, <2>2
<1> QED
  BY <1>2, <1>4

(* A complete list gives what is meant.                                     *)
LEMMA CompleteIsMeant ==
    ASSUME TypeOK, Level.pick \in {"first", "sole", "key"}, got = listed, got # {}
    PROVE  Designated = Select(Level.pick, got)
<1>1. CASE Level.pick = "first"
  <2>1. {m \in listed : \A n \in listed : m <= n} = {First(got)}
    BY Least DEF TypeOK
  <2> QED
    BY <1>1, <2>1 DEF Designated, Select
<1>2. CASE Level.pick = "sole" \/ named = None
  BY <1>2, <1>1 DEF Designated, Select
<1>3. CASE Level.pick = "key" /\ named # None
  BY <1>3 DEF Designated, Select
<1> QED
  BY <1>1, <1>2, <1>3
-----------------------------------------------------------------------------
(* How a call moves on.                                                     *)

LEMMA RaiseKeeps ==
    ASSUME OpsInv, Raise, hidden' \in BOOLEAN, broken' \in BOOLEAN
    PROVE  OpsInv'
<1>1. TypeOK'
  BY DEF OpsInv, TypeOK, Raise, Finish, call, place, list, visit, Level
<1>2. EffectInv'
  BY DEF OpsInv, EffectInv, Raise, Finish, call, visit
<1>3. ListInv'
  BY DEF OpsInv, ListInv, Raise, Finish, call
<1> QED
  BY <1>1, <1>2, <1>3 DEF OpsInv

LEMMA ExhaustedKeeps ==
    ASSUME OpsInv, pc \in {"ask", "read"}, Exhausted,
           hidden' \in BOOLEAN, broken' \in BOOLEAN
    PROVE  OpsInv'
<1>1. CASE parents = {}
  <2>1. TypeOK'
    BY <1>1 DEF OpsInv, TypeOK, Exhausted, NoList, Finish, call, place, visit, Level
  <2>2. EffectInv'
    BY <1>1, WriteLevel DEF OpsInv, EffectInv, Exhausted, Finish, call, visit
  <2>3. ListInv'
    BY <1>1 DEF OpsInv, ListInv, Exhausted, Finish, call
  <2> QED
    BY <2>1, <2>2, <2>3 DEF OpsInv
<1>2. CASE parents # {}
  <2>1. TypeOK'
    BY <1>2, Moving DEF OpsInv, TypeOK, Exhausted, NoList, call, place, visit, Level
  <2>2. EffectInv'
    BY <1>2 DEF OpsInv, EffectInv, Exhausted, call, visit
  <2>3. ListInv'
    BY <1>2 DEF OpsInv, ListInv, Exhausted, call
  <2> QED
    BY <2>1, <2>2, <2>3 DEF OpsInv
<1> QED
  BY <1>1, <1>2

LEMMA NextRouteKeeps ==
    ASSUME OpsInv, pc \in {"ask", "read"}, NextRoute,
           hidden' \in BOOLEAN, broken' \in BOOLEAN
    PROVE  OpsInv'
<1>1. CASE route = Len(Level.routes)
  BY <1>1, ExhaustedKeeps DEF NextRoute
<1>2. CASE route # Len(Level.routes)
  <2>1. TypeOK'
    BY <1>2, Moving DEF OpsInv, TypeOK, NextRoute, NoList, call, visit, Level
  <2>2. EffectInv'
    BY <1>2 DEF OpsInv, EffectInv, NextRoute, call, visit
  <2>3. ListInv'
    BY <1>2 DEF OpsInv, ListInv, NextRoute, call
  <2> QED
    BY <2>1, <2>2, <2>3 DEF OpsInv
<1> QED
  BY <1>1, <1>2

LEMMA ReactKeeps ==
    ASSUME OpsInv, pc \in {"ask", "read"}, NEW reaction, NEW forgets \in BOOLEAN,
           React(reaction, forgets), broken' \in BOOLEAN
    PROVE  OpsInv'
<1>1. CASE reaction = "raise" /\ Raise
  BY <1>1, RaiseKeeps DEF OpsInv, TypeOK, Raise
<1>2. hidden' = (hidden \/ forgets) => hidden' \in BOOLEAN
  OBVIOUS
<1>3. CASE hidden' = (hidden \/ forgets) /\ NextRoute
  BY <1>2, <1>3, NextRouteKeeps
<1>4. CASE hidden' = (hidden \/ forgets) /\ Exhausted
  BY <1>2, <1>4, ExhaustedKeeps
<1> QED
  BY <1>1, <1>3, <1>4 DEF React
-----------------------------------------------------------------------------
(* The actions of a walk.                                                   *)

LEMMA InitOps == ASSUME Init PROVE OpsInv
<1>1. 1 \in 1 .. Len(recipe.levels)
  <2>1. recipe.levels \in Seq(Levels) /\ recipe.levels # <<>>
    BY RecipesAssumption DEF Init
  <2> QED
    BY <2>1
<1>2. 1 \in 1 .. Len(Level.routes)
  BY <1>1, LevelType DEF Init, Level
<1>3. TypeOK
  BY <1>1, <1>2 DEF Init, TypeOK
<1>4. EffectInv /\ ListInv
  BY DEF Init, EffectInv, ListInv
<1> QED
  BY <1>3, <1>4 DEF OpsInv

LEMMA LookKeeps == ASSUME OpsInv, Look PROVE OpsInv'
<1> USE DEF OpsInv
<1>0. broken \in BOOLEAN /\ marked \in BOOLEAN
  BY DEF TypeOK
<1>1. CASE NoLink
  BY <1>0, <1>1, ReactKeeps DEF NoLink
<1>2. CASE Gone
  BY <1>0, <1>2, ReactKeeps DEF Gone
<1>3. CASE Failed
  BY <1>0, <1>3, ReactKeeps DEF Failed
<1>4. ASSUME NEW members \in SUBSET Members, Answered(members) PROVE OpsInv'
  <2>1. TypeOK'
    BY <1>4 DEF TypeOK, Answered, call, place, visit, history, Level
  <2>2. EffectInv'
    BY <1>4 DEF EffectInv, Answered, call, visit, history
  <2>3. ListInv'
    BY <1>4 DEF ListInv, Answered, call, place, history, Level, Here
  <2> QED
    BY <2>1, <2>2, <2>3
<1>5. CASE ReadMember
  <2>1. First(unread) \in unread
    BY <1>5, Least DEF ReadMember, TypeOK
  <2>2. TypeOK'
    BY <1>5, <2>1 DEF TypeOK, ReadMember, call, place, visit, history, Level
  <2>3. EffectInv'
    BY <1>5 DEF EffectInv, ReadMember, call, visit, history
  <2>4. ListInv'
    BY <1>5, <2>1 DEF ListInv, ReadMember, call, place, history, Level, Here
  <2> QED
    BY <2>2, <2>3, <2>4
<1>6. ASSUME NEW why \in {"gone", "failed"}, MemberFails(why) PROVE OpsInv'
  <2>1. CASE DropMember /\ pc = "read" /\ unread # {} /\ broken' = TRUE
    <3>1. TypeOK'
      BY <2>1 DEF TypeOK, DropMember, call, place, visit, Level
    <3>2. EffectInv'
      BY <2>1 DEF EffectInv, DropMember, call, visit
    <3>3. ListInv'
      BY <2>1, WriteLevel DEF ListInv, DropMember, call, place, Level, Here
    <3> QED
      BY <3>1, <3>2, <3>3
  <2>2. CASE /\ pc = "read" /\ broken' = TRUE
             /\ React(IF why = "gone" THEN Here.gone ELSE Here.failed, TRUE)
    BY <2>2, ReactKeeps
  <2> QED
    BY <1>6, <2>1, <2>2 DEF MemberFails
<1> QED
  BY <1>1, <1>2, <1>3, <1>4, <1>5, <1>6 DEF Look

LEMMA PickKeeps ==
    ASSUME OpsInv, NEW says \in Adverts, Pick(says)
    PROVE  OpsInv'
<1> USE DEF OpsInv
<1>1. TypeOK'
  <2>1. CASE level < Len(recipe.levels)
    BY <2>1, Moving DEF TypeOK, Pick, Descend, NoList, call, visit, Level, TakesList, ListEnds
  <2>2. CASE ~(level < Len(recipe.levels))
    BY <2>2 DEF TypeOK, Pick, Finish, call, place, list, visit, Level
  <2> QED
    BY <2>1, <2>2
<1>2. EffectInv'
  BY DEF EffectInv, Pick, Descend, Finish, TakesList, ListEnds, call, visit
<1>3. ListInv'
  <2>0. got # {}
    <3>1. got = {} => Select(Level.pick, got) = {}
      BY DEF Select
    <3>2. Cardinality({}) = 0
      BY FS_EmptySet
    <3>3. Cardinality(Select(Level.pick, got)) = 1
      BY DEF Pick
    <3> QED
      BY <3>1, <3>2, <3>3
  <2>1. recipe.write # <<>> /\ ~marked => got = listed
    BY DEF ListInv, Pick, TakesList, ListEnds
  <2>2. recipe.write # <<>> /\ ~marked => Designated = Select(Level.pick, got)
    BY <2>0, <2>1, CompleteIsMeant, WriteLevel
  <2>3. recipe.write # <<>> /\ astray' => blind'
    BY <2>2 DEF ListInv, Pick
  <2>4. pc' # "read" /\ recipe' = recipe
    BY DEF Pick, Descend, Finish, TakesList, ListEnds, call
  <2> QED
    BY <2>3, <2>4 DEF ListInv
<1> QED
  BY <1>1, <1>2, <1>3

LEMMA ChooseKeeps == ASSUME OpsInv, Choose PROVE OpsInv'
<1> USE DEF OpsInv
<1>0. broken \in BOOLEAN /\ marked \in BOOLEAN /\ hidden \in BOOLEAN
  BY DEF TypeOK
<1>1. CASE NothingThere
  BY <1>0, <1>1, ReactKeeps DEF NothingThere, ListEnds
<1>2. CASE TakeAll
  <2>1. TypeOK'
    BY <1>2 DEF TypeOK, TakeAll, Finish, call, place, list, visit, Level
  <2>2. recipe.write = <<>>
    BY <1>2, WriteLevel DEF TakeAll
  <2>3. EffectInv' /\ ListInv'
    BY <1>2, <2>2 DEF EffectInv, ListInv, TakeAll, Finish, TakesList, ListEnds, call, visit
  <2> QED
    BY <2>1, <2>3
<1>3. CASE NextParent
  <2>1. TypeOK'
    BY <1>3, Moving DEF TypeOK, NextParent, NoList, call, Level
  <2>2. recipe.write = <<>>
    BY <1>3, WriteLevel DEF NextParent
  <2>3. EffectInv' /\ ListInv'
    BY <1>3, <2>2 DEF EffectInv, ListInv, NextParent, TakesList, ListEnds, call
  <2> QED
    BY <2>1, <2>3
<1>4. CASE ForEach
  <2>1. CASE got = {}
    BY <1>0, <1>4, <2>1, RaiseKeeps DEF ForEach, Raise
  <2>2. CASE got # {}
    <3>1. TypeOK'
      BY <1>4, <2>2, Moving DEF TypeOK, ForEach, Descend, NoList, call, Level
    <3>2. recipe.write = <<>>
      BY <1>4, WriteLevel DEF ForEach
    <3>3. EffectInv' /\ ListInv'
      BY <1>4, <2>2, <3>2 DEF EffectInv, ListInv, ForEach, Descend, TakesList, ListEnds, call
    <3> QED
      BY <3>1, <3>3
  <2> QED
    BY <2>1, <2>2
<1>5. CASE Ambiguous
  BY <1>0, <1>5, RaiseKeeps DEF Ambiguous, Raise
<1>6. ASSUME NEW says \in Adverts, Pick(says) PROVE OpsInv'
  BY <1>6, PickKeeps
<1> QED
  BY <1>1, <1>2, <1>3, <1>4, <1>5, <1>6 DEF Choose

LEMMA ActKeeps == ASSUME OpsInv, Act PROVE OpsInv'
<1> USE DEF OpsInv
<1>1. CASE Check
  <2>1. TypeOK'
    BY <1>1 DEF TypeOK, Check, Finish, call, place, list, visit, Level
  <2>2. EffectInv' /\ ListInv'
    BY <1>1 DEF EffectInv, ListInv, Check, Finish, call, visit
  <2> QED
    BY <2>1, <2>2
<1>2. ASSUME NEW says \in Said \cup {"failed"}, AskInfo(says) PROVE OpsInv'
  <2>1. TypeOK'
    BY <1>2 DEF TypeOK, AskInfo, Finish, call, place, list, visit, Level
  <2>2. EffectInv' /\ ListInv'
    BY <1>2 DEF EffectInv, ListInv, AskInfo, Finish, call, visit
  <2> QED
    BY <2>1, <2>2
<1>3. CASE Executed
  <2>1. TypeOK'
    BY <1>3 DEF TypeOK, Executed, Sent, Finish, call, place, list, visit, Level
  <2>2. EffectInv' /\ ListInv'
    BY <1>3 DEF EffectInv, ListInv, Executed, Sent, Finish, call, visit
  <2> QED
    BY <2>1, <2>2
<1>4. CASE AnswerLost
  <2>1. TypeOK'
    BY <1>4 DEF TypeOK, AnswerLost, Finish, call, place, list, visit, Level
  <2>2. EffectInv' /\ ListInv'
    BY <1>4 DEF EffectInv, ListInv, AnswerLost, Finish, call, visit
  <2> QED
    BY <2>1, <2>2
<1>5. ASSUME NEW status \in {400, 500}, Refuses(status) PROVE OpsInv'
  <2>1. TypeOK'
    BY <1>5 DEF TypeOK, Refuses, Finish, call, place, list, visit, history, Level
  <2>2. EffectInv' /\ ListInv'
    BY <1>5 DEF EffectInv, ListInv, Refuses, Finish, call, visit, history
  <2> QED
    BY <2>1, <2>2
<1>6. ASSUME NEW ok \in BOOLEAN, Reread(ok) PROVE OpsInv'
  <2>1. TypeOK'
    BY <1>6 DEF TypeOK, Reread, Finish, call, place, list, visit, history, Level
  <2>2. EffectInv' /\ ListInv'
    BY <1>6 DEF EffectInv, ListInv, Reread, Finish, call, visit, history
  <2> QED
    BY <2>1, <2>2
<1> QED
  BY <1>1, <1>2, <1>3, <1>4, <1>5, <1>6 DEF Act

LEMMA UnchangedKeeps == ASSUME OpsInv, UNCHANGED vars PROVE OpsInv'
<1> USE DEF vars, call, place, list, visit, history
<1>1. TypeOK'
  BY DEF OpsInv, TypeOK, Level
<1>2. EffectInv' /\ ListInv'
  BY DEF OpsInv, EffectInv, ListInv, Level, Here
<1> QED
  BY <1>1, <1>2 DEF OpsInv
-----------------------------------------------------------------------------
(* What a candid recipe keeps: nothing is forgotten so far, no other parent *)
(* is to be read, and only a list that can carry the mark has one.          *)
ToldInv ==
    Candid(recipe) =>
        /\ ~hidden /\ parents = {}
        /\ pc = "read" /\ marked => Here.form = "collection"
        /\ pc = "read" /\ Here.form \in {"resource", "embedded"} => unread = {}

LEMMA CandidHere ==
    ASSUME TypeOK, Candid(recipe)
    PROVE  Tells(Here) /\ Level.pick # "each" /\ ~Aggregates
<1>1. level \in 1 .. Len(recipe.levels) /\ route \in 1 .. Len(recipe.levels[level].routes)
  BY DEF TypeOK, Level
<1>2. Tells(Here) /\ Level.pick # "each"
  BY <1>1 DEF Candid, Here, Level
<1>3. recipe.levels \in Seq(Levels)
  BY RecipesAssumption DEF TypeOK
<1>4. \A i \in 1 .. level - 1 : i \in 1 .. Len(recipe.levels)
  BY <1>1, <1>3
<1>5. ~Aggregates
  BY <1>4 DEF Candid, Aggregates
<1> QED
  BY <1>2, <1>5

(* Raising, and going on without leaving a failure behind.                  *)
LEMMA ReactTells ==
    ASSUME TypeOK, ToldInv, NEW reaction, NEW forgets \in BOOLEAN,
           React(reaction, forgets),
           Candid(recipe) => reaction = "raise" \/ ~forgets
    PROVE  ToldInv'
<1>1. SUFFICES ASSUME Candid(recipe) PROVE ~hidden' /\ parents' = {} /\ pc' # "read"
  <2>1. recipe' = recipe
    BY DEF React, Raise, NextRoute, Exhausted, call
  <2> QED
    BY <1>1, <2>1 DEF ToldInv, Candid, Tells
<1>2. ~hidden /\ parents = {}
  BY <1>1 DEF ToldInv
<1>3. CASE Raise
  BY <1>2, <1>3 DEF Raise, Finish, visit
<1>4. CASE hidden' = (hidden \/ forgets) /\ ~forgets /\ (NextRoute \/ Exhausted)
  BY <1>2, <1>4 DEF NextRoute, Exhausted, Finish, visit
<1>5. CASE reaction = "raise"
  BY <1>3, <1>5 DEF React
<1>6. CASE reaction # "raise"
  BY <1>1, <1>4, <1>6 DEF React
<1> QED
  BY <1>5, <1>6

LEMMA LookTells == ASSUME OpsInv, ToldInv, Look PROVE ToldInv'
<1>0. TypeOK
  BY DEF OpsInv
<1>1. CASE NoLink
  BY <1>0, <1>1, ReactTells DEF NoLink
<1>2. CASE Gone
  BY <1>0, <1>2, ReactTells DEF Gone
<1>3. CASE Failed
  <2>1. Candid(recipe) => Here.failed = "raise"
    BY <1>0, CandidHere DEF Tells
  <2> QED
    BY <1>0, <1>3, <2>1, ReactTells DEF Failed
<1>4. ASSUME NEW members \in SUBSET Members, Answered(members) PROVE ToldInv'
  BY <1>4 DEF ToldInv, Answered, Candid, Tells, call, place, visit, history, Level, Here
<1>5. CASE ReadMember
  BY <1>5 DEF ToldInv, ReadMember, Candid, Tells, call, place, visit, history, Level, Here
<1>6. ASSUME NEW why \in {"gone", "failed"}, MemberFails(why) PROVE ToldInv'
  <2>1. CASE Here.form = "raising" \/ (strict /\ Here.form = "collection")
    <3> DEFINE reaction == IF why = "gone" THEN Here.gone ELSE Here.failed
    <3>1. Candid(recipe) => reaction = "raise"
      BY <1>0, <2>1, CandidHere DEF Tells
    <3>2. React(reaction, TRUE)
      BY <1>6, <2>1 DEF MemberFails
    <3> HIDE DEF reaction
    <3> QED
      BY <1>0, <3>1, <3>2, ReactTells
  <2>2. CASE ~(Here.form = "raising" \/ (strict /\ Here.form = "collection"))
    <3>1. DropMember /\ pc = "read" /\ unread # {}
      BY <1>6, <2>2 DEF MemberFails
    <3>2. Candid(recipe) => Here.form = "collection"
      BY <1>0, <2>2, <3>1, CandidHere, HereType DEF Tells, Routes, Forms, ToldInv
    <3>3. /\ recipe' = recipe /\ parents' = parents /\ pc' = pc /\ Here' = Here
          /\ hidden' = (hidden \/ Here.form # "collection")
      BY <3>1 DEF DropMember, call, place, visit, Here, Level
    <3>4. Candid(recipe') <=> Candid(recipe)
      BY <3>3 DEF Candid, Tells
    <3> QED
      BY <3>2, <3>3, <3>4 DEF ToldInv
  <2> QED
    BY <2>1, <2>2
<1> QED
  BY <1>1, <1>2, <1>3, <1>4, <1>5, <1>6 DEF Look

LEMMA ChooseTells == ASSUME OpsInv, ToldInv, Choose PROVE ToldInv'
<1>0. TypeOK
  BY DEF OpsInv
<1>1. CASE NothingThere
  <2>1. marked \in BOOLEAN
    BY <1>0 DEF TypeOK
  <2>2. Candid(recipe) => Here.empty = "raise" \/ ~marked
    BY <1>1, <1>0, CandidHere DEF Tells, ToldInv, NothingThere, ListEnds
  <2> QED
    BY <1>0, <1>1, <2>1, <2>2, ReactTells DEF NothingThere
<1>2. SUFFICES ASSUME Candid(recipe), TakeAll \/ NextParent \/ ForEach \/ Ambiguous
                                        \/ \E says \in Adverts : Pick(says)
               PROVE  ~hidden' /\ parents' = {} /\ pc' # "read"
  <2>1. CASE TakeAll \/ NextParent \/ ForEach \/ Ambiguous \/ \E says \in Adverts : Pick(says)
    <3>1. recipe' = recipe
      BY <2>1 DEF TakeAll, NextParent, ForEach, Ambiguous, Pick, Raise, call
    <3> QED
      BY <1>2, <2>1, <3>1 DEF ToldInv, Candid, Tells
  <2> QED
    BY <1>1, <2>1 DEF Choose
<1>3. ~hidden /\ parents = {} /\ Level.pick # "each" /\ ~Aggregates
  BY <1>0, <1>2, CandidHere DEF ToldInv
<1>4. CASE TakeAll
  BY <1>3, <1>4 DEF TakeAll, Finish, visit
<1>5. CASE Ambiguous
  BY <1>3, <1>5 DEF Ambiguous, Raise, Finish, visit
<1>6. ASSUME NEW says \in Adverts, Pick(says)
      PROVE  ~hidden' /\ parents' = {} /\ pc' # "read"
  BY <1>3, <1>6 DEF Pick, Descend, Finish, TakesList, ListEnds, visit
<1>7. ~NextParent /\ ~ForEach
  BY <1>3 DEF NextParent, ForEach
<1> QED
  BY <1>2, <1>4, <1>5, <1>6, <1>7

LEMMA ActTells == ASSUME OpsInv, ToldInv, Act \/ UNCHANGED vars PROVE ToldInv'
<1>1. CASE Act
  <2>1. recipe' = recipe /\ hidden' = hidden /\ parents' = parents /\ pc' # "read"
    BY <1>1 DEF Act, Check, AskInfo, Executed, Sent, AnswerLost, Refuses, Reread, Finish,
                call, visit, history
  <2>2. Candid(recipe') <=> Candid(recipe)
    BY <2>1 DEF Candid, Tells
  <2> QED
    BY <2>1, <2>2 DEF ToldInv
<1>2. CASE UNCHANGED vars
  BY <1>2 DEF ToldInv, Candid, Tells, vars, call, place, list, visit, history, Here, Level
<1> QED
  BY <1>1, <1>2

-----------------------------------------------------------------------------
(* The results.                                                             *)

(* The invariant of every call, whatever its operation and the listings.   *)
THEOREM OpsInvariant == Spec => []OpsInv
<1>1. OpsInv /\ [Next]_vars => OpsInv'
  BY LookKeeps, ChooseKeeps, ActKeeps, UnchangedKeeps DEF Next
<1> QED
  BY <1>1, InitOps, PTL DEF Spec

(* Types, and that a call is always at a level and a route of its recipe.  *)
THEOREM OpsTypes == Spec => []TypeOK
<1>1. OpsInv => TypeOK
  BY DEF OpsInv
<1> QED
  BY <1>1, OpsInvariant, PTL

(* No operation has its write executed twice, and none that answers has    *)
(* left it out: clear_log's second attempt, lost answers, re-reads.        *)
THEOREM WritesHaveOneEffect == Spec => []OneEffect
<1>1. OpsInv => OneEffect
  BY DEF OpsInv, EffectInv, OneEffect
<1> QED
  BY <1>1, OpsInvariant, PTL

(* A write reaches the member the caller meant, unless a member was picked *)
(* from a list that said it was partial.                                   *)
THEOREM WritesReachTheMember == Spec => []WritesWhatWasMeant
<1>1. OpsInv => WritesWhatWasMeant
  BY DEF OpsInv, EffectInv, ListInv, WritesWhatWasMeant
<1> QED
  BY <1>1, OpsInvariant, PTL

(* The answer of an operation whose recipe is candid tells of every failure *)
(* met on the way to it: raised, or marked in the list that lacks a member. *)
THEOREM AnswersAreHonest == Spec => []HonestAnswer
<1>1. Init => ToldInv
  BY DEF Init, ToldInv
<1>2. OpsInv /\ ToldInv /\ [Next]_vars => OpsInv' /\ ToldInv'
  BY LookKeeps, ChooseKeeps, ActKeeps, UnchangedKeeps, LookTells, ChooseTells, ActTells
     DEF Next
<1>3. OpsInv /\ ToldInv => HonestAnswer
  BY CandidAssumption DEF OpsInv, TypeOK, ToldInv, HonestAnswer
<1> QED
  BY InitOps, <1>1, <1>2, <1>3, PTL DEF Spec
-----------------------------------------------------------------------------
(* RegistryResolve: types, and what a thread has at each place.            *)
Loading == {"lookup", "touch", "fetch", "insert", "evict", "read"}

PlaceInv(t) ==
    /\ phase[t] \in Loading =>
          at[t] \in Registries /\ at[t] \in trail[t] /\ source[t] \in Sources
    /\ phase[t] = "find" => wanted[t] \in (Requests \X {Latest}) \cup References
    /\ phase[t] \in Loading \cup {"find"} => request[t] \in Requests

ResolveInv == ResolveTypeOK /\ \A t \in Threads : PlaceInv(t)

LEMMA BestIsListed ==
    ASSUME NEW ref, NEW listing \in Listings, NEW r \in Best(ref, listing)
    PROVE  r \in Registries
  BY DEF Best, Candidates, Listings

LEMMA SourcesOf ==
    ASSUME NEW r \in Registries, NEW k \in {"uri", "publication"}
    PROVE  <<r, k>> \in Sources
  BY DEF Sources

(* OrderedDict.move_to_end.                                                *)
LEMMA Moved ==
    ASSUME cache \in Seq(Sources), NEW i \in DOMAIN cache
    PROVE  /\ MoveToEnd(i) \in Seq(Sources)
           /\ Len(MoveToEnd(i)) = Len(cache)
           /\ \A j \in 1..Len(cache) :
                 MoveToEnd(i)[j] = IF j < i THEN cache[j]
                                   ELSE IF j < Len(cache) THEN cache[j + 1]
                                   ELSE cache[i]
<1> DEFINE a == SubSeq(cache, 1, i - 1)
           b == SubSeq(cache, i + 1, Len(cache))
           n == Len(cache)
<1>1. n \in Nat /\ DOMAIN cache = 1..n /\ i \in 1..n
      /\ \A j \in 1..n : cache[j] \in Sources
  OBVIOUS
<1>2. /\ a \in Seq(Sources) /\ Len(a) = i - 1
      /\ \A j \in 1..(i - 1) : a[j] = cache[j]
  <2>1. /\ a \in Seq(Sources) /\ Len(a) = IF 1 <= i - 1 THEN i - 1 - 1 + 1 ELSE 0
        /\ \A j \in 1..(i - 1 - 1 + 1) : a[j] = cache[1 + j - 1]
    BY <1>1, SubSeqProperties
  <2> HIDE DEF a, b, n
  <2> QED
    BY <1>1, <2>1
<1>3. /\ b \in Seq(Sources) /\ Len(b) = n - i
      /\ \A j \in 1..(n - i) : b[j] = cache[i + j]
  <2>0. /\ n - (i + 1) + 1 = n - i
        /\ \A j \in 1..(n - i) : i + 1 + j - 1 = i + j
        /\ i + 1 <= n \/ n - i = 0
    BY <1>1
  <2>1. /\ b \in Seq(Sources) /\ Len(b) = IF i + 1 <= n THEN n - (i + 1) + 1 ELSE 0
        /\ \A j \in 1..(n - (i + 1) + 1) : b[j] = cache[i + 1 + j - 1]
    BY <1>1, SubSeqProperties
  <2> HIDE DEF a, b, n
  <2> QED
    BY <2>0, <2>1
<1>4. /\ a \o b \in Seq(Sources) /\ Len(a \o b) = n - 1
      /\ \A j \in 1..(n - 1) :
            (a \o b)[j] = IF j <= i - 1 THEN a[j] ELSE b[j - (i - 1)]
  <2> HIDE DEF a, b, n
  <2>1. /\ a \o b \in Seq(Sources) /\ Len(a \o b) = Len(a) + Len(b)
        /\ \A j \in 1..(Len(a) + Len(b)) :
              (a \o b)[j] = IF j <= Len(a) THEN a[j] ELSE b[j - Len(a)]
    BY <1>2, <1>3, ConcatProperties
  <2>2. Len(a) = i - 1 /\ Len(b) = n - i /\ (i - 1) + (n - i) = n - 1
    BY <1>1, <1>2, <1>3
  <2> QED
    BY <2>1, <2>2
<1>5. <<cache[i]>> \in Seq(Sources) /\ Len(<<cache[i]>>) = 1
  BY <1>1
<1>6. /\ (a \o b) \o <<cache[i]>> \in Seq(Sources)
      /\ Len((a \o b) \o <<cache[i]>>) = n
      /\ \A j \in 1..n : ((a \o b) \o <<cache[i]>>)[j] =
            IF j <= n - 1 THEN (a \o b)[j] ELSE <<cache[i]>>[j - (n - 1)]
  <2> HIDE DEF a, b, n
  <2>1. /\ (a \o b) \o <<cache[i]>> \in Seq(Sources)
        /\ Len((a \o b) \o <<cache[i]>>) = Len(a \o b) + 1
        /\ \A j \in 1..(Len(a \o b) + 1) : ((a \o b) \o <<cache[i]>>)[j] =
              IF j <= Len(a \o b) THEN (a \o b)[j] ELSE <<cache[i]>>[j - Len(a \o b)]
    BY <1>4, <1>5, ConcatProperties
  <2> QED
    BY <1>1, <1>4, <2>1
<1>7. MoveToEnd(i) = (a \o b) \o <<cache[i]>>
  BY DEF MoveToEnd
<1> HIDE DEF a, b, n
<1>8. ASSUME NEW j \in 1..n
      PROVE  ((a \o b) \o <<cache[i]>>)[j] =
                IF j < i THEN cache[j] ELSE IF j < n THEN cache[j + 1] ELSE cache[i]
  <2>1. CASE j < i
    BY <1>1, <1>2, <1>4, <1>6, <2>1
  <2>2. CASE i <= j /\ j < n
    <3>1. j \in 1..(n - 1) /\ j - (i - 1) \in 1..(n - i) /\ ~(j <= i - 1)
      BY <1>1, <2>2
    <3>2. i + (j - (i - 1)) = j + 1
      BY <1>1
    <3> QED
      BY <1>3, <1>4, <1>6, <2>2, <3>1, <3>2
  <2>3. CASE j = n
    <3>1. ~(j < i) /\ ~(j < n) /\ ~(j <= n - 1) /\ j - (n - 1) = 1
      BY <1>1, <2>3
    <3>2. ((a \o b) \o <<cache[i]>>)[j] = <<cache[i]>>[j - (n - 1)]
      BY <1>6, <3>1
    <3>3. <<cache[i]>>[1] = cache[i]
      OBVIOUS
    <3> QED
      BY <3>1, <3>2, <3>3
  <2>4. j < i \/ (i <= j /\ j < n) \/ j = n
    BY <1>1
  <2> QED
    BY <2>1, <2>2, <2>3, <2>4
<1> QED
  BY <1>6, <1>7, <1>8 DEF n

Distinct == \A i, j \in 1..Len(cache) : cache[i] = cache[j] => i = j

LEMMA MovedKeeps ==
    ASSUME cache \in Seq(Sources), NEW i \in DOMAIN cache, cache' = MoveToEnd(i)
    PROVE  /\ cache' \in Seq(Sources) /\ Len(cache') = Len(cache)
           /\ Elements(cache') = Elements(cache)
           /\ Distinct => Distinct'
<1> DEFINE n == Len(cache)
<1>1. /\ cache' \in Seq(Sources) /\ Len(cache') = n /\ n \in Nat /\ i \in 1..n
      /\ DOMAIN cache = 1..n /\ DOMAIN cache' = 1..n
      /\ \A j \in 1..n : cache'[j] = IF j < i THEN cache[j]
                                    ELSE IF j < n THEN cache[j + 1] ELSE cache[i]
  BY Moved
<1>2. Elements(cache') \subseteq Elements(cache)
  <2>1. ASSUME NEW j \in 1..n
        PROVE  \E k \in 1..n : cache'[j] = cache[k]
    BY <1>1
  <2>2. /\ Elements(cache') = {cache'[j] : j \in 1..n}
        /\ Elements(cache) = {cache[j] : j \in 1..n}
    BY <1>1 DEF Elements
  <2> QED
    BY <2>1, <2>2
<1>3. Elements(cache) \subseteq Elements(cache')
  <2>1. ASSUME NEW j \in 1..n
        PROVE  \E k \in 1..n : cache'[k] = cache[j]
    <3>1. CASE j < i
      BY <1>1, <3>1
    <3>2. CASE j = i
      <4>1. cache'[n] = cache[j]
        BY <1>1, <3>2
      <4> QED
        BY <1>1, <4>1
    <3>3. CASE i < j
      <4>1. j - 1 \in 1..n /\ cache'[j - 1] = cache[j]
        BY <1>1, <3>3
      <4> QED
        BY <4>1
    <3> QED
      BY <1>1, <3>1, <3>2, <3>3
  <2>2. /\ Elements(cache') = {cache'[j] : j \in 1..n}
        /\ Elements(cache) = {cache[j] : j \in 1..n}
    BY <1>1 DEF Elements
  <2> QED
    BY <2>1, <2>2
<1>4. ASSUME Distinct, NEW j \in 1..n, NEW k \in 1..n, cache'[j] = cache'[k]
      PROVE  j = k
  BY <1>1, <1>4 DEF Distinct
<1> QED
  BY <1>1, <1>2, <1>3, <1>4 DEF Distinct

USE ResolveAssumption DEF ResolveAssumption

LEMMA Evicted ==
    ASSUME cache \in Seq(Sources), cache' = SubSeq(cache, Excess + 1, Len(cache))
    PROVE  /\ cache' \in Seq(Sources) /\ Len(cache') <= Limit
           /\ Distinct => Distinct'
<1> DEFINE n == Len(cache)
<1>1. n \in Nat /\ Excess \in Nat /\ Excess <= n /\ n - Excess <= Limit
      /\ \A j \in 1..n : cache[j] \in Sources
  BY DEF Excess
<1>2. /\ cache' \in Seq(Sources) /\ Len(cache') = n - Excess
      /\ \A j \in 1..(n - Excess) : cache'[j] = cache[Excess + j]
  <2> HIDE DEF n
  <2>0. \A j \in (Excess + 1)..n : cache[j] \in Sources
    BY <1>1
  <2>1. /\ SubSeq(cache, Excess + 1, n) \in Seq(Sources)
        /\ Len(SubSeq(cache, Excess + 1, n)) =
              IF Excess + 1 <= n THEN n - (Excess + 1) + 1 ELSE 0
        /\ \A j \in 1..(n - (Excess + 1) + 1) :
              SubSeq(cache, Excess + 1, n)[j] = cache[Excess + 1 + j - 1]
    <3> DEFINE m == Excess + 1
    <3>1. n \in Int /\ m \in Int /\ \A j \in m..n : cache[j] \in Sources
      BY <1>1, <2>0
    <3> HIDE DEF m
    <3>2. /\ SubSeq(cache, m, n) \in Seq(Sources)
          /\ Len(SubSeq(cache, m, n)) = IF m <= n THEN n - m + 1 ELSE 0
          /\ \A j \in 1..(n - m + 1) : SubSeq(cache, m, n)[j] = cache[m + j - 1]
      BY ONLY <3>1, SubSeqProperties
    <3> QED
      BY <3>2 DEF m
  <2>2. cache' = SubSeq(cache, Excess + 1, n)
    BY DEF n
  <2>3. /\ (IF Excess + 1 <= n THEN n - (Excess + 1) + 1 ELSE 0) = n - Excess
        /\ n - (Excess + 1) + 1 = n - Excess
        /\ \A j \in 1..(n - Excess) : Excess + 1 + j - 1 = Excess + j
    BY <1>1
  <2> QED
    BY <2>1, <2>2, <2>3
<1>3. ASSUME Distinct, NEW j \in 1..(n - Excess), NEW k \in 1..(n - Excess),
             cache'[j] = cache'[k]
      PROVE  j = k
  <2>1. Excess + j \in 1..n /\ Excess + k \in 1..n
    BY <1>1
  <2>2. cache[Excess + j] = cache[Excess + k]
    BY <1>2, <1>3
  <2>3. Excess + j = Excess + k
    BY <1>3, <2>1, <2>2 DEF Distinct
  <2> QED
    BY <1>1, <2>3
<1> QED
  BY <1>1, <1>2, <1>3 DEF Distinct

LEMMA AppendedKeeps ==
    ASSUME cache \in Seq(Sources), NEW x \in Sources, cache' = Set(x)
    PROVE  /\ cache' \in Seq(Sources)
           /\ Elements(cache) \subseteq Elements(cache') /\ x \in Elements(cache')
           /\ Len(cache') = IF x \in Elements(cache) THEN Len(cache) ELSE Len(cache) + 1
           /\ Distinct => Distinct'
<1> DEFINE n == Len(cache)
<1>1. n \in Nat /\ DOMAIN cache = 1..n
  OBVIOUS
<1>2. CASE x \in Elements(cache)
  BY <1>2 DEF Set, Distinct
<1>3. CASE x \notin Elements(cache)
  <2>1. /\ cache' \in Seq(Sources) /\ Len(cache') = n + 1 /\ cache'[n + 1] = x
        /\ \A j \in 1..n : cache'[j] = cache[j]
    BY <1>3, AppendProperties DEF Set
  <2>2. DOMAIN cache' = 1..(n + 1)
    BY <2>1
  <2>3. Elements(cache) \subseteq Elements(cache') /\ x \in Elements(cache')
    BY <1>1, <2>1, <2>2 DEF Elements
  <2>4. ASSUME Distinct, NEW j \in 1..(n + 1), NEW k \in 1..(n + 1), cache'[j] = cache'[k]
        PROVE  j = k
    <3>1. \A m \in 1..n : cache'[m] # x
      BY <1>1, <1>3, <2>1 DEF Elements
    <3>2. CASE j \in 1..n /\ k \in 1..n
      BY <2>1, <2>4, <3>2 DEF Distinct
    <3>3. CASE j = n + 1 \/ k = n + 1
      BY <1>1, <2>1, <2>4, <3>1, <3>3
    <3> QED
      BY <1>1, <3>2, <3>3
  <2> QED
    BY <1>3, <2>1, <2>3, <2>4 DEF Distinct
<1> QED
  BY <1>2, <1>3

LEMMA ResolveStarts == ResolveInit => ResolveInv
<1> SUFFICES ASSUME ResolveInit PROVE ResolveInv
  OBVIOUS
<1>1. ResolveTypeOK
  BY DEF ResolveInit, ResolveTypeOK
<1>2. ASSUME NEW t \in Threads
      PROVE  PlaceInv(t)
  BY DEF ResolveInit, PlaceInv, Loading
<1> QED
  BY <1>1, <1>2 DEF ResolveInv

(* A step of one thread leaves the others where they are.                  *)
OthersStay(t) ==
    \A u \in Threads \ {t} :
        /\ phase'[u] = phase[u] /\ at'[u] = at[u] /\ source'[u] = source[u]
        /\ wanted'[u] = wanted[u] /\ trail'[u] = trail[u] /\ request'[u] = request[u]
        /\ answer'[u] = answer[u] /\ gaps'[u] = gaps[u]

StepOf(t) == Resolve(t) \/ Walk(t) \/ Load(t) \/ Say(t)

LEMMA OneThread ==
    ASSUME ResolveInv, NEW t \in Threads, StepOf(t)
    PROVE  OthersStay(t) /\ UNCHANGED docs
<1> USE DEF ResolveInv, ResolveTypeOK, OthersStay, StepOf, walk, asked, Goto, Fail, List
<1>1. CASE Resolve(t)
  BY <1>1 DEF Resolve
<1>2. CASE Walk(t)
  BY <1>2 DEF Walk, Find, FindCycle, FindNothing
<1>3. CASE Load(t)
  BY <1>3 DEF Load, Lookup, Touch, KeyError, Fetch, FetchFails, Evict
<1>4. CASE Say(t)
  BY <1>4 DEF Say, Follow, Answer, NoAnswer
<1> QED
  BY <1>1, <1>2, <1>3, <1>4

LEMMA SaysTypes ==
    ASSUME ResolveTypeOK, NEW r \in Registries
    PROVE  /\ Says(r) \in References \cup {Text, Absent}
           /\ Says(r) \in References => Refers(r) = {Says(r)}
           /\ Says(r) = Text => Defines(r)
           /\ Says(r) = Absent => entry[r] = Absent
           /\ \A x, y \in Refers(r) : x = y
           /\ Refers(r) \subseteq References
<1>1. head[r] \in References \cup {Nil} /\ entry[r] \in References \cup {Text, Absent}
  BY DEF ResolveTypeOK
<1>2. CASE head[r] = Nil
  BY <1>1, <1>2 DEF Says, Refers, Defines
<1>3. CASE head[r] # Nil
  BY <1>1, <1>3 DEF Says, Refers, Defines
<1> QED
  BY <1>2, <1>3

LEMMA ResolveStep ==
    ASSUME ResolveInv, NEW t \in Threads, StepOf(t)
    PROVE  ResolveInv'
<1> USE DEF ResolveInv, ResolveTypeOK, walk, asked, docs
<1>1. OthersStay(t) /\ UNCHANGED docs
  BY OneThread
<1>2. ASSUME ResolveTypeOK', PlaceInv(t)'
      PROVE  ResolveInv'
  BY <1>1, <1>2 DEF OthersStay, PlaceInv
<1>3. CASE Resolve(t)
  <2>1. PICK n \in Requests : /\ wanted' = [wanted EXCEPT ![t] = <<n, Latest>>]
                              /\ request' = [request EXCEPT ![t] = n]
    BY <1>3 DEF Resolve
  <2>2. <<n, Latest>> \in Requests \X {Latest}
    OBVIOUS
  <2>3. /\ ResolveTypeOK' /\ phase'[t] = "find"
        /\ wanted'[t] = <<n, Latest>> /\ request'[t] = n
    BY <1>1, <1>3, <2>1, <2>2 DEF Resolve, Ends
  <2>4. PlaceInv(t)'
    BY <2>2, <2>3 DEF PlaceInv, Loading
  <2> QED
    BY <1>2, <2>3, <2>4
<1>4. CASE Find(t)
  <2>0. PICK listing \in Listings : \E r \in Best(wanted[t], listing) :
          /\ List(t, listing)
          /\ at' = [at EXCEPT ![t] = r]
          /\ trail' = [trail EXCEPT ![t] = @ \cup {r}]
          /\ source' = [source EXCEPT ![t] = <<r, "uri">>]
    BY <1>4 DEF Find
  <2>1. PICK r \in Best(wanted[t], listing) :
          /\ List(t, listing)
          /\ at' = [at EXCEPT ![t] = r]
          /\ trail' = [trail EXCEPT ![t] = @ \cup {r}]
          /\ source' = [source EXCEPT ![t] = <<r, "uri">>]
    BY <2>0
  <2>2. r \in Registries /\ <<r, "uri">> \in Sources
    BY BestIsListed, SourcesOf
  <2>3. /\ ResolveTypeOK' /\ phase'[t] = "lookup" /\ phase[t] = "find"
        /\ at'[t] = r /\ trail'[t] = trail[t] \cup {r} /\ source'[t] = <<r, "uri">>
    BY <1>1, <1>4, <2>1, <2>2 DEF Find, Goto, List, Ends
  <2>4. PlaceInv(t)'
    BY <1>4, <2>2, <2>3 DEF Find, PlaceInv, Loading
  <2> QED
    BY <1>2, <2>3, <2>4
<1>5. CASE FindCycle(t) \/ FindNothing(t)
  <2>1. ResolveTypeOK' /\ phase'[t] \in {"cycle", "unknown"}
    BY <1>1, <1>5 DEF FindCycle, FindNothing, Fail, List, Ends
  <2> QED
    BY <1>2, <2>1 DEF PlaceInv, Loading
<1>6. CASE Lookup(t) \/ KeyError(t)
  <2>1. /\ ResolveTypeOK' /\ phase'[t] \in {"touch", "fetch", "keyerror"}
        /\ phase[t] \in Loading
        /\ phase'[t] = "keyerror" \/ UNCHANGED <<walk, request>>
    BY <1>1, <1>6 DEF Lookup, KeyError, Goto, Fail, Ends, Loading
  <2> QED
    BY <1>2, <2>1 DEF PlaceInv, Loading
<1>7. CASE Touch(t, "touch", "read") \/ Touch(t, "insert", "evict") \/ Fetch(t) \/ Evict(t)
  <2>1. cache' \in Seq(Sources)
    <3>1. CASE Touch(t, "touch", "read") \/ Touch(t, "insert", "evict")
      BY <3>1, Moved DEF Touch
    <3>2. CASE Fetch(t)
      BY <3>2, AppendedKeeps DEF Fetch, PlaceInv, Goto, Loading
    <3>3. CASE Evict(t)
      BY <3>3, Evicted DEF Evict
    <3> QED
      BY <1>7, <3>1, <3>2, <3>3
  <2>2. /\ phase' \in [Threads -> {"read", "evict", "insert"} \cup
                                    {phase[u] : u \in Threads}]
        /\ phase'[t] \in {"read", "evict", "insert"}
        /\ phase[t] \in Loading /\ UNCHANGED <<docs, walk, asked>>
    BY <1>7 DEF Touch, Fetch, Evict, Goto, Loading
  <2>3. ResolveTypeOK'
    BY <2>1, <2>2
  <2> QED
    BY <1>2, <2>2, <2>3 DEF PlaceInv, Loading
<1>8. CASE FetchFails(t)
  <2>1. at[t] \in Registries /\ phase[t] \in Loading
    BY <1>8 DEF FetchFails, PlaceInv, Loading
  <2>2. <<at[t], "publication">> \in Sources
    BY <2>1, SourcesOf
  <2>3. CASE source[t][2] = "uri"
    <3>1. /\ ResolveTypeOK' /\ phase'[t] = "lookup"
          /\ source'[t] = <<at[t], "publication">>
      <4>1. /\ source' = [source EXCEPT ![t] = <<at[t], "publication">>]
            /\ phase' = [phase EXCEPT ![t] = "lookup"]
            /\ UNCHANGED <<docs, cache, wanted, at, trail, answer, asked>>
        BY <1>8, <2>3 DEF FetchFails, Goto
      <4>2. /\ source' \in [Threads -> Sources \cup {Nil}]
            /\ source'[t] = <<at[t], "publication">>
        BY <2>2, <4>1
      <4> QED
        BY <4>1, <4>2
    <3> QED
      BY <1>2, <1>8, <2>1, <2>2, <3>1 DEF FetchFails, PlaceInv, Loading
  <2>4. CASE source[t][2] # "uri"
    <3>1. ResolveTypeOK' /\ phase'[t] = "unloaded"
      BY <1>1, <1>8, <2>4 DEF FetchFails, Fail, Ends
    <3> QED
      BY <1>2, <3>1 DEF PlaceInv, Loading
  <2> QED
    BY <2>3, <2>4
<1>9. CASE Follow(t)
  <2>1. Says(at[t]) \in References
    BY <1>9 DEF Follow
  <2>2. /\ ResolveTypeOK' /\ phase'[t] = "find" /\ wanted'[t] = Says(at[t])
        /\ phase[t] = "read"
    BY <1>1, <1>9, <2>1 DEF Follow, Goto
  <2> QED
    BY <1>2, <1>9, <2>1, <2>2 DEF Follow, PlaceInv, Loading
<1>10. CASE Answer(t) \/ NoAnswer(t)
  <2>1. ResolveTypeOK' /\ phase'[t] \in Ends
    <3>1. at[t] \in Registries
      BY <1>10 DEF Answer, NoAnswer, Goto, PlaceInv, Loading
    <3> QED
      BY <1>1, <1>10, <3>1 DEF Answer, NoAnswer, Goto, Fail, Ends
  <2> QED
    BY <1>2, <2>1 DEF PlaceInv, Loading, Ends
<1> QED
  BY <1>3, <1>4, <1>5, <1>6, <1>7, <1>8, <1>9, <1>10 DEF StepOf, Walk, Load, Say

LEMMA ResolveSteps ==
    ASSUME ResolveInv, [ResolveNext]_resolveVars
    PROVE  ResolveInv'
<1>1. CASE ClearCache
  BY <1>1 DEF ClearCache, ResolveInv, ResolveTypeOK, PlaceInv, docs, walk, asked
<1>2. CASE UNCHANGED resolveVars
  BY <1>2 DEF ResolveInv, ResolveTypeOK, PlaceInv, resolveVars, docs, walk, asked
<1> QED
  BY <1>1, <1>2, ResolveStep DEF ResolveNext, StepOf

(* The variables of the resolutions, and of every thread, keep their types.*)
THEOREM ResolveTypes == ResolveSpec => []ResolveTypeOK
<1>1. ResolveInv /\ [ResolveNext]_resolveVars => ResolveInv'
  BY ResolveSteps
<1>2. ResolveInv => ResolveTypeOK
  BY DEF ResolveInv
<1> QED
  BY <1>1, <1>2, ResolveStarts, PTL DEF ResolveSpec
-----------------------------------------------------------------------------
(* RegistryResolve: the bound of the cache.  A thread that has put its     *)
(* document there and has still to evict accounts for one entry too many,  *)
(* as long as its document is there.                                       *)
Filling == {t \in Threads : phase[t] \in {"insert", "evict"}
                            /\ source[t] \in Elements(cache)}

CacheInv == Distinct /\ Len(cache) <= Limit + Cardinality(Filling)

LEMMA FillingTypes ==
    /\ IsFiniteSet(Filling) /\ Cardinality(Filling) \in Nat
    /\ IsFiniteSet(Filling') /\ Cardinality(Filling') \in Nat
<1>1. Filling \in SUBSET Threads /\ Filling' \in SUBSET Threads
  BY DEF Filling
<1>2. IsFiniteSet(Filling) /\ IsFiniteSet(Filling')
  BY <1>1, FS_Subset
<1> QED
  BY <1>2, FS_CardinalityType

(* No step but the insertion of a document takes the cache further beyond  *)
(* its limit.                                                              *)
LEMMA FillingGrows ==
    ASSUME Filling \subseteq Filling', CacheInv, Distinct', Len(cache) \in Nat,
           Len(cache') \in Nat, Len(cache') <= Len(cache)
    PROVE  CacheInv'
<1>1. Cardinality(Filling) <= Cardinality(Filling')
  BY FillingTypes, FS_Subset
<1>2. Limit \in Nat
  OBVIOUS
<1> QED
  BY <1>1, <1>2, FillingTypes DEF CacheInv

LEMMA StepCache ==
    ASSUME ResolveInv, CacheInv, NEW t \in Threads, StepOf(t)
    PROVE  CacheInv'
<1>1. /\ OthersStay(t) /\ cache \in Seq(Sources) /\ Len(cache) \in Nat
      /\ phase \in [Threads -> Ends \cup {"idle", "find", "lookup", "touch", "fetch",
                                          "insert", "evict", "read"}]
      /\ Distinct
  BY OneThread DEF ResolveInv, ResolveTypeOK, CacheInv
<1>2. CASE Touch(t, "touch", "read") \/ Touch(t, "insert", "evict")
  <2>1. /\ cache' \in Seq(Sources) /\ Len(cache') = Len(cache)
        /\ Elements(cache') = Elements(cache) /\ Distinct'
    BY <1>1, <1>2, MovedKeeps DEF Touch
  <2>2. Filling \subseteq Filling'
    <3>1. source' = source /\ (phase[t] = "insert" => phase'[t] = "evict")
      BY <1>1, <1>2 DEF Touch, Goto, walk
    <3>2. phase[t] \in {"touch", "insert"}
      BY <1>2 DEF Touch, Goto
    <3> QED
      BY <1>1, <2>1, <3>1, <3>2 DEF Filling, OthersStay
  <2> QED
    BY <1>1, <2>1, <2>2, FillingGrows
<1>3. CASE Fetch(t)
  <2>1. /\ source' = source /\ phase[t] = "fetch" /\ phase'[t] = "insert"
        /\ source[t] \in Sources /\ cache' = Set(source[t])
    BY <1>1, <1>3 DEF Fetch, Goto, walk, ResolveInv, PlaceInv, Loading
  <2>2. /\ cache' \in Seq(Sources)
        /\ Elements(cache) \subseteq Elements(cache') /\ source[t] \in Elements(cache')
        /\ Len(cache') <= Len(cache) + 1 /\ Distinct'
    BY <1>1, <2>1, AppendedKeeps
  <2>3. Filling \cup {t} \subseteq Filling' /\ t \notin Filling
    BY <1>1, <2>1, <2>2 DEF Filling, OthersStay
  <2>4. Cardinality(Filling) + 1 <= Cardinality(Filling')
    <3>1. Cardinality(Filling \cup {t}) = Cardinality(Filling) + 1
      BY <2>3, FillingTypes, FS_AddElement
    <3>2. Cardinality(Filling \cup {t}) <= Cardinality(Filling')
      BY <2>3, FillingTypes, FS_Subset
    <3> QED
      BY <3>1, <3>2
  <2>5. Len(cache') \in Nat /\ Limit \in Nat
    BY <2>2
  <2> QED
    BY <1>1, <2>2, <2>4, <2>5, FillingTypes DEF CacheInv
<1>4. CASE Evict(t)
  <2>1. Len(cache') <= Limit /\ Distinct' /\ cache' \in Seq(Sources)
    BY <1>1, <1>4, Evicted DEF Evict
  <2>2. Limit \in Nat /\ Len(cache') \in Nat
    BY <2>1
  <2> QED
    BY <2>1, <2>2, FillingTypes DEF CacheInv
<1>5. CASE ~(Touch(t, "touch", "read") \/ Touch(t, "insert", "evict") \/ Fetch(t)
             \/ Evict(t))
  <2>1. cache' = cache /\ t \notin Filling
    BY <1>5 DEF StepOf, Resolve, Walk, Find, FindCycle, FindNothing, Load, Lookup, KeyError,
                FetchFails, Say, Follow, Answer, NoAnswer, Goto, Filling, Ends
  <2>2. Filling \subseteq Filling'
    BY <1>1, <2>1 DEF Filling, OthersStay
  <2>3. Distinct'
    BY <1>1, <2>1 DEF Distinct
  <2> QED
    BY <1>1, <2>1, <2>2, <2>3, FillingGrows
<1> QED
  BY <1>2, <1>3, <1>4, <1>5

LEMMA CacheSteps ==
    ASSUME ResolveInv, CacheInv, [ResolveNext]_resolveVars
    PROVE  CacheInv'
<1>1. CASE ClearCache
  <2>1. Len(cache') = 0 /\ Distinct'
    BY <1>1 DEF ClearCache, Distinct
  <2>2. Limit \in Nat
    OBVIOUS
  <2> QED
    BY <2>1, <2>2, FillingTypes DEF CacheInv
<1>2. CASE UNCHANGED resolveVars
  <2>1. cache' = cache /\ Filling' = Filling
    BY <1>2 DEF resolveVars, walk, Filling
  <2> QED
    BY <2>1 DEF CacheInv, Distinct
<1> QED
  BY <1>1, <1>2, StepCache DEF ResolveNext, StepOf

(* Without repetitions a sequence has as many elements as positions.       *)
LEMMA DistinctCounts ==
    ASSUME cache \in Seq(Sources), Distinct
    PROVE  Cardinality(Elements(cache)) = Len(cache)
<1> DEFINE n == Len(cache)
<1>1. n \in Nat /\ DOMAIN cache = 1..n /\ cache \in [1..n -> Elements(cache)]
  BY DEF Elements
<1>2. cache \in Surjection(1..n, Elements(cache))
  BY <1>1 DEF Surjection, Elements
<1>3. cache \in Injection(1..n, Elements(cache))
  BY <1>1 DEF Injection, IsInjective, Distinct
<1>4. IsFiniteSet(1..n) /\ Cardinality(1..n) = n
  <2>1. 1 \in Int /\ n \in Int
    BY <1>1
  <2>2. IsFiniteSet(1..n) /\ Cardinality(1..n) = IF 1 > n THEN 0 ELSE n - 1 + 1
    BY <2>1, FS_Interval
  <2> QED
    BY <1>1, <2>2
<1> HIDE DEF n
<1>5. Cardinality(Elements(cache)) = Cardinality(1..n)
  BY <1>2, <1>3, <1>4, FS_Surjection
<1> QED
  BY <1>4, <1>5 DEF n

(* However many threads load documents, fail in the cache, or clear it:    *)
(* when none of them is between its insertion and its eviction, the cache  *)
(* is within its limit; and no document is ever in it twice.               *)
THEOREM CacheIsBounded == ResolveSpec => []CacheBounded
<1>1. ResolveInit => CacheInv
  <2>1. ASSUME ResolveInit PROVE Len(cache) = 0 /\ Distinct
    BY <2>1 DEF ResolveInit, Distinct
  <2>2. Limit \in Nat
    OBVIOUS
  <2> QED
    BY <2>1, <2>2, FillingTypes DEF CacheInv
<1>2. ResolveInv /\ CacheInv /\ [ResolveNext]_resolveVars => ResolveInv' /\ CacheInv'
  BY ResolveSteps, CacheSteps
<1>3. ResolveInv /\ CacheInv => CacheBounded
  <2> SUFFICES ASSUME ResolveInv, CacheInv PROVE CacheBounded
    OBVIOUS
  <2>1. cache \in Seq(Sources) /\ Limit \in Nat
    BY DEF ResolveInv, ResolveTypeOK
  <2>2. ASSUME \A t \in Threads : phase[t] \notin {"insert", "evict"}
        PROVE  Len(cache) <= Limit
    <3>1. Filling = {}
      BY <2>2 DEF Filling
    <3>2. Cardinality(Filling) = 0
      BY <3>1, FS_EmptySet
    <3> QED
      BY <2>1, <3>2 DEF CacheInv
  <2> QED
    BY <2>1, <2>2, DistinctCounts DEF CacheInv, CacheBounded
<1> QED
  BY <1>1, <1>2, <1>3, ResolveStarts, PTL DEF ResolveSpec
-----------------------------------------------------------------------------
(* RegistryResolve: what a resolution means.                               *)
Start(t) == <<request[t], Latest>>

(* As long as every listing was complete, a thread has been to registries  *)
(* that its MessageId reaches, and each of them but the last has led it to *)
(* another; it has been to all of them but those of its current reference. *)
MeaningInv(t) ==
    ~gaps[t] =>
        /\ phase[t] = "find" =>
              /\ trail[t] \cup Target(wanted[t]) \subseteq Reached(request[t])
              /\ Target(Start(t)) \subseteq trail[t] \cup Target(wanted[t])
              /\ \A r \in trail[t] : \E ref \in Refers(r) :
                    /\ Target(ref) \subseteq trail[t] \cup Target(wanted[t])
                    /\ ref = wanted[t] \/ Target(ref) # {}
        /\ phase[t] \in Loading =>
              /\ trail[t] \subseteq Reached(request[t])
              /\ Target(Start(t)) \subseteq trail[t]
              /\ \A r \in trail[t] \ {at[t]} : \E ref \in Refers(r) :
                    Target(ref) \subseteq trail[t] /\ Target(ref) # {}

(* What MeansWhatItSays says of one thread.                                *)
Means(t) ==
    phase[t] \in Ends /\ ~gaps[t] =>
        /\ phase[t] = "returned" => answer[t] \in Reached(request[t]) /\ Defines(answer[t])
        /\ phase[t] = "cycle" =>
              \A r \in Reached(request[t]) : \E ref \in Refers(r) : Target(ref) # {}
        /\ phase[t] = "unknown" => \A r \in Reached(request[t]) : Refers(r) # {}
        /\ phase[t] = "absent" => \E r \in Reached(request[t]) : entry[r] = Absent

MeaningsInv == \A t \in Threads : MeaningInv(t) /\ Means(t)

(* With a complete listing the registry that is chosen is the one meant.   *)
LEMMA BestIsTarget ==
    ASSUME NEW ref
    PROVE  Best(ref, Registries) = Target(ref)
<1>1. \A r \in Registries : r[2] \in Nat /\ r[2] # Latest
  OBVIOUS
<1>2. CASE ref[2] = Latest
  <2>1. Candidates(ref, Registries) = {r \in Registries : r[1] = ref[1]}
    BY <1>2 DEF Candidates
  <2>2. ASSUME NEW r \in Registries
        PROVE  r \in Best(ref, Registries) <=> r \in Target(ref)
    BY <1>2, <2>1 DEF Best, Target
  <2> QED
    BY <2>2 DEF Best, Candidates, Target
<1>3. CASE ref[2] # Latest
  <2>1. Candidates(ref, Registries) = {r \in Registries : r[1] = ref[1] /\ r[2] = ref[2]}
    BY <1>3 DEF Candidates
  <2>2. ASSUME NEW r \in Registries
        PROVE  r \in Best(ref, Registries) <=> r \in Target(ref)
    BY <1>1, <1>3, <2>1 DEF Best, Target
  <2> QED
    BY <2>2 DEF Best, Candidates, Target
<1> QED
  BY <1>2, <1>3

LEMMA TargetIsOne ==
    ASSUME NEW ref, NEW r \in Target(ref)
    PROVE  Target(ref) = {r} /\ r \in Registries
<1>1. ASSUME NEW q \in Target(ref)
      PROVE  q = r
  <2>1. /\ q \in Registries /\ r \in Registries /\ q[1] = r[1]
        /\ q[2] \in Nat /\ r[2] \in Nat /\ q = <<q[1], q[2]>> /\ r = <<r[1], r[2]>>
    BY DEF Target
  <2>2. CASE ref[2] = Latest
    <3>1. q[2] <= r[2] /\ r[2] <= q[2]
      BY <2>1, <2>2 DEF Target
    <3>2. q[2] = r[2]
      BY <2>1, <3>1
    <3> QED
      BY <2>1, <3>2
  <2>3. CASE ref[2] # Latest
    <3>1. q[2] = r[2]
      BY <2>3 DEF Target
    <3> QED
      BY <2>1, <3>1
  <2> QED
    BY <2>2, <2>3
<1> QED
  BY <1>1 DEF Target

(* Reached is the least set with the first registry and those referred to. *)
LEMMA ReachedFirst ==
    ASSUME NEW n
    PROVE  Target(<<n, Latest>>) \subseteq Reached(n) /\ Reached(n) \subseteq Registries
  BY DEF Reached, Target

LEMMA ReachedNext ==
    ASSUME NEW n, NEW r \in Reached(n), NEW ref \in Refers(r)
    PROVE  Target(ref) \subseteq Reached(n)
  BY DEF Reached, Target, Refers

LEMMA ReachedLeast ==
    ASSUME NEW n, NEW S \in SUBSET Registries, Target(<<n, Latest>>) \subseteq S,
           \A r \in S : \A ref \in Refers(r) : Target(ref) \subseteq S
    PROVE  Reached(n) \subseteq S
  BY DEF Reached

(* Documents do not change, and neither does what they mean.               *)
LEMMA MeaningStays ==
    ASSUME UNCHANGED docs
    PROVE  /\ \A n : Reached(n)' = Reached(n)
           /\ \A r : Refers(r)' = Refers(r) /\ Defines(r)' = Defines(r)
           /\ entry' = entry
<1>1. head' = head /\ entry' = entry
  BY DEF docs
<1> QED
  BY <1>1 DEF Reached, Refers, Defines

(* A thread that has been to the only target of its reference, or whose    *)
(* reference has none, has been everywhere its MessageId leads.            *)
LEMMA TrailIsClosed ==
    ASSUME ResolveInv, NEW t \in Threads, MeaningInv(t), ~gaps[t], phase[t] = "find",
           Target(wanted[t]) \subseteq trail[t]
    PROVE  /\ Reached(request[t]) \subseteq trail[t]
           /\ \A r \in trail[t] : \E ref \in Refers(r) :
                 ref = wanted[t] \/ Target(ref) # {}
<1>1. trail[t] \in SUBSET Registries
  BY DEF ResolveInv, ResolveTypeOK
<1>2. Target(<<request[t], Latest>>) \subseteq trail[t]
  BY DEF MeaningInv, Start
<1>3. ASSUME NEW r \in trail[t], NEW ref \in Refers(r)
      PROVE  Target(ref) \subseteq trail[t]
  <2>1. PICK q \in Refers(r) : Target(q) \subseteq trail[t]
    BY DEF MeaningInv
  <2>2. q = ref
    BY <1>1, SaysTypes DEF ResolveInv
  <2> QED
    BY <2>1, <2>2
<1>4. Reached(request[t]) \subseteq trail[t]
  BY <1>1, <1>2, <1>3, ReachedLeast
<1> QED
  BY <1>4 DEF MeaningInv

LEMMA StepMeans ==
    ASSUME ResolveInv, MeaningsInv, NEW t \in Threads, StepOf(t)
    PROVE  MeaningInv(t)' /\ Means(t)'
<1> USE DEF Start
<1>1. UNCHANGED docs
  BY OneThread
<1>2. /\ \A n : Reached(n)' = Reached(n)
      /\ \A r : Refers(r)' = Refers(r) /\ Defines(r)' = Defines(r)
      /\ entry' = entry
  BY <1>1, MeaningStays
<1>3. /\ MeaningInv(t) /\ PlaceInv(t)
      /\ wanted \in [Threads -> (Requests \X {Latest}) \cup References \cup {Nil}]
      /\ at \in [Threads -> Registries \cup {Nil}]
      /\ trail \in [Threads -> SUBSET Registries]
      /\ answer \in [Threads -> Registries \cup {Nil}]
      /\ gaps \in [Threads -> BOOLEAN]
      /\ request \in [Threads -> Requests \cup {Nil}]
      /\ DOMAIN phase = Threads
  BY DEF ResolveInv, ResolveTypeOK, MeaningsInv
<1>4. CASE Resolve(t)
  <2>1. /\ phase'[t] = "find" /\ trail'[t] = {}
        /\ wanted'[t] = <<request'[t], Latest>>
    BY <1>3, <1>4 DEF Resolve
  <2>2. Target(wanted'[t]) \subseteq Reached(request'[t])
    BY <2>1, ReachedFirst
  <2>3. MeaningInv(t)'
    BY <1>2, <2>1, <2>2 DEF MeaningInv, Loading, Target
  <2> QED
    BY <2>1, <2>3 DEF Means, Ends
<1>5. CASE Find(t)
  <2>1. phase[t] = "find" /\ phase'[t] = "lookup" /\ request'[t] = request[t]
    BY <1>3, <1>5 DEF Find, Goto
  <2>2. ASSUME ~gaps'[t]
        PROVE  /\ trail'[t] \subseteq Reached(request[t])
               /\ Target(Start(t)) \subseteq trail'[t]
               /\ \A q \in trail'[t] \ {at'[t]} : \E ref \in Refers(q) :
                    Target(ref) \subseteq trail'[t] /\ Target(ref) # {}
    <3>1. PICK listing \in Listings : \E r \in Best(wanted[t], listing) :
            /\ List(t, listing)
            /\ at' = [at EXCEPT ![t] = r]
            /\ trail' = [trail EXCEPT ![t] = @ \cup {r}]
      BY <1>5 DEF Find
    <3>2. PICK r \in Best(wanted[t], listing) :
            /\ List(t, listing)
            /\ at' = [at EXCEPT ![t] = r]
            /\ trail' = [trail EXCEPT ![t] = @ \cup {r}]
      BY <3>1
    <3>3. ~gaps[t] /\ listing = Registries
      BY <1>3, <2>2, <3>2 DEF List
    <3>4. Target(wanted[t]) = {r}
      BY <3>2, <3>3, BestIsTarget, TargetIsOne
    <3>5. trail'[t] = trail[t] \cup Target(wanted[t])
      BY <1>3, <3>2, <3>4
    <3>6. /\ trail[t] \cup Target(wanted[t]) \subseteq Reached(request[t])
          /\ Target(Start(t)) \subseteq trail[t] \cup Target(wanted[t])
          /\ \A q \in trail[t] : \E ref \in Refers(q) :
                /\ Target(ref) \subseteq trail[t] \cup Target(wanted[t])
                /\ ref = wanted[t] \/ Target(ref) # {}
      BY <1>3, <2>1, <3>3 DEF MeaningInv
    <3>7. at'[t] = r
      BY <1>3, <3>2
    <3>8. ASSUME NEW q \in trail'[t] \ {at'[t]}
          PROVE  \E ref \in Refers(q) : Target(ref) \subseteq trail'[t] /\ Target(ref) # {}
      <4>1. q \in trail[t]
        BY <3>4, <3>5, <3>7
      <4>2. PICK ref \in Refers(q) :
              /\ Target(ref) \subseteq trail[t] \cup Target(wanted[t])
              /\ ref = wanted[t] \/ Target(ref) # {}
        BY <3>6, <4>1
      <4>3. Target(ref) # {}
        BY <3>4, <4>2
      <4> QED
        BY <3>5, <4>2, <4>3
    <3> QED
      BY <3>5, <3>6, <3>8
  <2>3. MeaningInv(t)'
    BY <1>2, <2>1, <2>2 DEF MeaningInv, Target
  <2> QED
    BY <2>1, <2>3 DEF Means, Ends
<1>6. CASE FindCycle(t)
  <2>1. /\ phase[t] = "find" /\ phase'[t] = "cycle"
        /\ UNCHANGED <<trail, request, wanted>>
    BY <1>3, <1>6 DEF FindCycle, Fail
  <2>2. ASSUME ~gaps'[t]
        PROVE  \A r \in Reached(request[t]) : \E ref \in Refers(r) : Target(ref) # {}
    <3>1. PICK listing \in Listings : \E r \in Best(wanted[t], listing) :
            Looped(t, r) /\ List(t, listing)
      BY <1>6 DEF FindCycle
    <3>2. PICK r \in Best(wanted[t], listing) : Looped(t, r) /\ List(t, listing)
      BY <3>1
    <3>3. ~gaps[t] /\ listing = Registries
      BY <1>3, <2>2, <3>2 DEF List
    <3>4. Target(wanted[t]) = {r} /\ r \in trail[t]
      BY <3>2, <3>3, BestIsTarget, TargetIsOne DEF Looped
    <3>5. /\ Reached(request[t]) \subseteq trail[t]
          /\ \A q \in trail[t] : \E ref \in Refers(q) : ref = wanted[t] \/ Target(ref) # {}
      BY <1>3, <2>1, <3>3, <3>4, TrailIsClosed
    <3> QED
      BY <3>4, <3>5
  <2>3. MeaningInv(t)'
    BY <2>1 DEF MeaningInv, Loading
  <2> QED
    BY <1>2, <2>1, <2>2, <2>3 DEF Means, Target
<1>7. CASE FindNothing(t)
  <2>1. /\ phase[t] = "find" /\ phase'[t] = "unknown"
        /\ UNCHANGED <<trail, request, wanted>>
    BY <1>3, <1>7 DEF FindNothing, Fail
  <2>2. ASSUME ~gaps'[t]
        PROVE  \A r \in Reached(request[t]) : Refers(r) # {}
    <3>1. PICK listing \in Listings : Best(wanted[t], listing) = {} /\ List(t, listing)
      BY <1>7 DEF FindNothing
    <3>2. ~gaps[t] /\ listing = Registries
      BY <1>3, <2>2, <3>1 DEF List
    <3>3. Target(wanted[t]) = {}
      BY <3>1, <3>2, BestIsTarget
    <3> QED
      BY <1>3, <2>1, <3>2, <3>3, TrailIsClosed
  <2>3. MeaningInv(t)'
    BY <2>1 DEF MeaningInv, Loading
  <2> QED
    BY <1>2, <2>1, <2>2, <2>3 DEF Means
<1>8. CASE Load(t)
  <2>1. /\ UNCHANGED <<at, trail, request, gaps>> /\ phase[t] \in Loading
        /\ phase'[t] \in Loading \cup {"keyerror", "unloaded"}
    BY <1>3, <1>8 DEF Load, Lookup, Touch, KeyError, Fetch, FetchFails, Evict, Goto, Fail,
                      walk, asked, Loading
  <2>2. MeaningInv(t)'
    BY <1>2, <1>3, <2>1 DEF MeaningInv, Target, Loading
  <2> QED
    BY <2>1, <2>2 DEF Means, Ends, Loading
<1>9. CASE Follow(t)
  <2>1. /\ UNCHANGED <<at, trail, request, gaps>> /\ phase[t] = "read" /\ phase'[t] = "find"
        /\ wanted'[t] = Says(at[t]) /\ Says(at[t]) \in References
        /\ at[t] \in Registries /\ at[t] \in trail[t]
    BY <1>3, <1>9 DEF Follow, Goto, asked, PlaceInv, Loading
  <2>2. Refers(at[t]) = {wanted'[t]}
    BY <2>1, SaysTypes DEF ResolveInv
  <2>3. ASSUME ~gaps[t]
        PROVE  /\ trail[t] \cup Target(wanted'[t]) \subseteq Reached(request[t])
               /\ Target(Start(t)) \subseteq trail[t] \cup Target(wanted'[t])
               /\ \A r \in trail[t] : \E ref \in Refers(r) :
                     /\ Target(ref) \subseteq trail[t] \cup Target(wanted'[t])
                     /\ ref = wanted'[t] \/ Target(ref) # {}
    <3>1. /\ trail[t] \subseteq Reached(request[t])
          /\ Target(Start(t)) \subseteq trail[t]
          /\ \A r \in trail[t] \ {at[t]} : \E ref \in Refers(r) :
                Target(ref) \subseteq trail[t] /\ Target(ref) # {}
      BY <1>3, <2>1, <2>3 DEF MeaningInv, Loading
    <3>2. Target(wanted'[t]) \subseteq Reached(request[t])
      BY <2>1, <2>2, <3>1, ReachedNext
    <3> QED
      BY <2>2, <3>1, <3>2
  <2>4. MeaningInv(t)'
    BY <1>2, <2>1, <2>3 DEF MeaningInv, Loading, Target
  <2> QED
    BY <2>1, <2>4 DEF Means, Ends
<1>10. CASE Answer(t) \/ NoAnswer(t)
  <2>1. /\ UNCHANGED <<trail, request, gaps, at>> /\ phase[t] = "read" /\ phase'[t] \in Ends
        /\ at[t] \in Registries /\ at[t] \in trail[t]
    BY <1>3, <1>10 DEF Answer, NoAnswer, Goto, Fail, asked, PlaceInv, Loading, Ends
  <2>2. /\ phase'[t] \in {"returned", "absent", "arguments"}
        /\ phase'[t] = "returned" => answer'[t] = at[t] /\ Says(at[t]) = Text
        /\ phase'[t] = "absent" => Says(at[t]) = Absent
    BY <1>3, <1>10 DEF Answer, NoAnswer, Goto, Fail
  <2>3. ~gaps[t] => at[t] \in Reached(request[t])
    BY <1>3, <2>1 DEF MeaningInv, Loading
  <2>4. /\ Says(at[t]) = Text => Defines(at[t])
        /\ Says(at[t]) = Absent => entry[at[t]] = Absent
    BY <2>1, SaysTypes DEF ResolveInv
  <2>5. MeaningInv(t)'
    BY <2>2 DEF MeaningInv, Loading
  <2> QED
    BY <1>2, <2>1, <2>2, <2>3, <2>4, <2>5 DEF Means
<1> QED
  BY <1>4, <1>5, <1>6, <1>7, <1>8, <1>9, <1>10 DEF StepOf, Walk, Say

LEMMA MeaningSteps ==
    ASSUME ResolveInv, MeaningsInv, [ResolveNext]_resolveVars
    PROVE  MeaningsInv'
<1>1. ASSUME NEW t \in Threads, UNCHANGED docs,
             /\ phase'[t] = phase[t] /\ at'[t] = at[t] /\ wanted'[t] = wanted[t]
             /\ trail'[t] = trail[t] /\ request'[t] = request[t]
             /\ answer'[t] = answer[t] /\ gaps'[t] = gaps[t]
      PROVE  MeaningInv(t)' /\ Means(t)'
  <2>1. /\ \A n : Reached(n)' = Reached(n)
        /\ \A r : Refers(r)' = Refers(r) /\ Defines(r)' = Defines(r)
        /\ entry' = entry
    BY <1>1, MeaningStays
  <2>2. MeaningInv(t) /\ Means(t)
    BY DEF MeaningsInv
  <2>3. MeaningInv(t)'
    BY <1>1, <2>1, <2>2 DEF MeaningInv, Start, Target
  <2>4. Means(t)'
    BY <1>1, <2>1, <2>2 DEF Means, Target
  <2> QED
    BY <2>3, <2>4
<1>2. CASE ClearCache \/ UNCHANGED resolveVars
  BY <1>1, <1>2 DEF ClearCache, resolveVars, walk, asked, MeaningsInv
<1>3. ASSUME NEW t \in Threads, StepOf(t)
      PROVE  MeaningsInv'
  BY <1>1, <1>3, OneThread, StepMeans DEF OthersStay, MeaningsInv
<1> QED
  BY <1>2, <1>3 DEF ResolveNext, StepOf

(* For any registries, errata and references, and any number of threads,   *)
(* the text that is returned is the one the MessageId stands for, and a    *)
(* cycle, a missing registry or a missing key is reported only where the   *)
(* documents have one, unless a listing lacked a registry.                 *)
THEOREM ResolutionsMeanWhatTheySay == ResolveSpec => []MeansWhatItSays
<1>1. ResolveInit => MeaningsInv
  BY DEF ResolveInit, MeaningsInv, MeaningInv, Means, Loading, Ends
<1>2. ResolveInv /\ MeaningsInv /\ [ResolveNext]_resolveVars
        => ResolveInv' /\ MeaningsInv'
  BY ResolveSteps, MeaningSteps
<1>3. MeaningsInv => MeansWhatItSays
  BY DEF MeaningsInv, Means, MeansWhatItSays
<1> QED
  BY <1>1, <1>2, <1>3, ResolveStarts, PTL DEF ResolveSpec

HIDE ResolveAssumption DEF ResolveAssumption

-----------------------------------------------------------------------------
(* FirmwareUpdate: what the calls for each operation have ahead of them.   *)
AutoAhead ==
    {<<"detect", "discover", "post">>, <<"system", "discover", "post">>,
     <<"discover", "post">>, <<"post">>, <<>>}

CheckedAhead ==
    {<<"action", "check", "post">>, <<"check", "post">>, <<"post">>, <<>>}

StagedAhead == CheckedAhead \cup {<<"check", "action", "check", "post">>}

OtherAhead ==
    {<<"discover", "post">>, <<"action", "allowed", "post">>,
     <<"action", "post">>, <<"allowed", "post">>, <<"post">>, <<>>}

AheadOf(k) ==
    CASE k = "auto"                 -> AutoAhead
      [] k = "stage"                -> StagedAhead
      [] k \in {"standard", "push"} -> CheckedAhead
      [] OTHER                      -> OtherAhead

(* A client that is in use is not dropped.                                 *)
PlanInv(u) ==
    /\ todo[u] \in AheadOf(kind[u])
    /\ todo[u] # <<>> =>
          kind[u] \in Kinds /\ on[u] \in Clients /\ object[on[u]] \in Ids
    /\ body[u] # Unset => on[u] \in Clients

UpdateInv == UpdateTypeOK /\ \A u \in Calls : PlanInv(u)

LEMMA AheadTypes ==
    ASSUME NEW k
    PROVE  AheadOf(k) \subseteq Seq(Steps) /\ <<>> \in AheadOf(k)
<1>1. AheadOf(k) \in {AutoAhead, StagedAhead, CheckedAhead, OtherAhead}
  BY DEF AheadOf
<1>2. /\ AutoAhead \subseteq Seq(Steps) /\ OtherAhead \subseteq Seq(Steps)
      /\ CheckedAhead \subseteq Seq(Steps) /\ StagedAhead \subseteq Seq(Steps)
  BY DEF AutoAhead, CheckedAhead, StagedAhead, OtherAhead, Steps
<1>3. /\ <<>> \in AutoAhead /\ <<>> \in OtherAhead
      /\ <<>> \in CheckedAhead /\ <<>> \in StagedAhead
  BY DEF AutoAhead, CheckedAhead, StagedAhead, OtherAhead
<1> QED
  BY <1>1, <1>2, <1>3

(* Where each step leads.                                                  *)
LEMMA AutoNext ==
    ASSUME NEW p \in AutoAhead, p # <<>>
    PROVE  /\ Tail(p) \in AutoAhead
           /\ Head(p) \in {"detect", "system", "discover", "post"}
           /\ Head(p) \in {"detect", "system"} => Tail(p) = <<"discover", "post">>
           /\ Head(p) = "detect" => p = <<"detect", "discover", "post">>
           /\ Head(p) = "discover" => p = <<"discover", "post">>
           /\ Head(p) = "post" => p = <<"post">>
<1>1. CASE p = <<"detect", "discover", "post">>
  <2>1. Head(p) = "detect" /\ Tail(p) = <<"discover", "post">>
    BY <1>1
  <2> QED
    BY <1>1, <2>1 DEF AutoAhead
<1>2. CASE p = <<"system", "discover", "post">>
  <2>1. Head(p) = "system" /\ Tail(p) = <<"discover", "post">>
    BY <1>2
  <2> QED
    BY <1>2, <2>1 DEF AutoAhead
<1>3. CASE p = <<"discover", "post">>
  <2>1. Head(p) = "discover" /\ Tail(p) = <<"post">>
    BY <1>3
  <2> QED
    BY <1>3, <2>1 DEF AutoAhead
<1>4. CASE p = <<"post">>
  <2>1. Head(p) = "post" /\ Tail(p) = <<>>
    BY <1>4
  <2> QED
    BY <1>4, <2>1 DEF AutoAhead
<1> QED
  BY <1>1, <1>2, <1>3, <1>4 DEF AutoAhead

LEMMA CheckedNext ==
    ASSUME NEW p \in CheckedAhead, p # <<>>
    PROVE  /\ Tail(p) \in CheckedAhead
           /\ Head(p) \in {"action", "check", "post"}
           /\ Head(p) = "action" => Tail(p) = <<"check", "post">>
           /\ Head(p) = "check" => Tail(p) = <<"post">>
           /\ Head(p) = "post" => p = <<"post">>
<1>1. CASE p = <<"action", "check", "post">>
  <2>1. Head(p) = "action" /\ Tail(p) = <<"check", "post">>
    BY <1>1
  <2> QED
    BY <1>1, <2>1 DEF CheckedAhead
<1>2. CASE p = <<"check", "post">>
  <2>1. Head(p) = "check" /\ Tail(p) = <<"post">>
    BY <1>2
  <2> QED
    BY <1>2, <2>1 DEF CheckedAhead
<1>3. CASE p = <<"post">>
  <2>1. Head(p) = "post" /\ Tail(p) = <<>>
    BY <1>3
  <2> QED
    BY <1>3, <2>1 DEF CheckedAhead
<1> QED
  BY <1>1, <1>2, <1>3 DEF CheckedAhead

LEMMA StagedNext ==
    ASSUME NEW p \in StagedAhead, p # <<>>
    PROVE  /\ Tail(p) \in CheckedAhead
           /\ Head(p) \in {"action", "check", "post"}
           /\ Head(p) = "action" => Tail(p) = <<"check", "post">>
           /\ Head(p) = "post" => p = <<"post">>
<1>1. CASE p = <<"check", "action", "check", "post">>
  <2>1. Head(p) = "check" /\ Tail(p) = <<"action", "check", "post">>
    BY <1>1
  <2> QED
    BY <1>1, <2>1 DEF CheckedAhead
<1> QED
  BY <1>1, CheckedNext DEF StagedAhead

LEMMA OtherNext ==
    ASSUME NEW p \in OtherAhead, p # <<>>
    PROVE  /\ Tail(p) \in OtherAhead
           /\ Head(p) \in {"discover", "action", "allowed", "post"}
<1>1. CASE p = <<"discover", "post">>
  <2>1. Head(p) = "discover" /\ Tail(p) = <<"post">>
    BY <1>1
  <2> QED
    BY <1>1, <2>1 DEF OtherAhead
<1>2. CASE p = <<"action", "allowed", "post">>
  <2>1. Head(p) = "action" /\ Tail(p) = <<"allowed", "post">>
    BY <1>2
  <2> QED
    BY <1>2, <2>1 DEF OtherAhead
<1>3. CASE p = <<"action", "post">>
  <2>1. Head(p) = "action" /\ Tail(p) = <<"post">>
    BY <1>3
  <2> QED
    BY <1>3, <2>1 DEF OtherAhead
<1>4. CASE p = <<"allowed", "post">>
  <2>1. Head(p) = "allowed" /\ Tail(p) = <<"post">>
    BY <1>4
  <2> QED
    BY <1>4, <2>1 DEF OtherAhead
<1>5. CASE p = <<"post">>
  <2>1. Head(p) = "post" /\ Tail(p) = <<>>
    BY <1>5
  <2> QED
    BY <1>5, <2>1 DEF OtherAhead
<1> QED
  BY <1>1, <1>2, <1>3, <1>4, <1>5 DEF OtherAhead

LEMMA StepAhead ==
    ASSUME NEW k, NEW p \in AheadOf(k), p # <<>>
    PROVE  /\ Tail(p) \in AheadOf(k)
           /\ Head(p) \in {"detect", "system"} => k = "auto"
           /\ Head(p) = "check" => k \in {"standard", "stage", "push"}
           /\ k = "push" /\ Head(p) = "check" => Tail(p) = <<"post">>
<1>1. CASE k = "auto"
  BY <1>1, AutoNext DEF AheadOf
<1>2. CASE k = "stage"
  BY <1>2, StagedNext DEF AheadOf, StagedAhead
<1>3. CASE k \in {"standard", "push"}
  BY <1>3, CheckedNext DEF AheadOf
<1>4. CASE k \notin {"auto", "stage", "standard", "push"}
  BY <1>4, OtherNext DEF AheadOf
<1> QED
  BY <1>1, <1>2, <1>3, <1>4

LEMMA Begins ==
    ASSUME NEW k \in DOMAIN Plan
    PROVE  Plan[k] \in AheadOf(k) /\ Plan[k] # <<>>
  BY DEF Plan, AheadOf, AutoAhead, CheckedAhead, StagedAhead, OtherAhead

LEMMA ToSystem ==
    [<<"detect", "discover", "post">> EXCEPT ![1] = "system"]
        = <<"system", "discover", "post">>
  OBVIOUS

(* A step of one call changes what that call has ahead of it only.         *)
LEMMA StepKeepsPlans ==
    ASSUME UpdateInv, NEW u \in Calls, todo[u] # <<>>, NEW p, NEW k \in Kinds,
           todo' = [todo EXCEPT ![u] = p], p \in AheadOf(k),
           kind' = [kind EXCEPT ![u] = k], on' = on, object' = object,
           \A v \in Calls \ {u} : body'[v] = body[v]
    PROVE  /\ todo' \in [Calls -> Seq(Steps)]
           /\ kind' \in [Calls -> Kinds \cup {Unset}]
           /\ \A v \in Calls : PlanInv(v)'
<1>1. /\ todo \in [Calls -> Seq(Steps)] /\ kind \in [Calls -> Kinds \cup {Unset}]
      /\ p \in Seq(Steps)
  BY AheadTypes DEF UpdateInv, UpdateTypeOK
<1>2. /\ todo'[u] = p /\ \A v \in Calls \ {u} : todo'[v] = todo[v]
      /\ kind'[u] = k /\ \A v \in Calls \ {u} : kind'[v] = kind[v]
  BY <1>1
<1>3. ASSUME NEW v \in Calls
      PROVE  PlanInv(v)'
  <2>1. CASE v = u
    BY <1>2, <2>1 DEF UpdateInv, PlanInv
  <2>2. CASE v # u
    BY <1>2, <2>2 DEF UpdateInv, PlanInv
  <2> QED
    BY <2>1, <2>2
<1> QED
  BY <1>1, <1>3

USE UpdateAssumption DEF UpdateAssumption

LEMMA UpdateStarts == UpdateInit => UpdateInv
<1> SUFFICES ASSUME UpdateInit PROVE UpdateInv
  OBVIOUS
<1>1. UpdateTypeOK
  BY DEF UpdateInit, UpdateTypeOK
<1>2. ASSUME NEW u \in Calls
      PROVE  PlanInv(u)
  BY AheadTypes DEF UpdateInit, PlanInv
<1> QED
  BY <1>1, <1>2 DEF UpdateInv

LEMMA ClientsUpdate ==
    ASSUME UpdateInv, NEW c \in Clients, Create(c) \/ Drop(c) \/ OfferChanges(c)
    PROVE  UpdateInv'
<1> USE DEF UpdateInv, UpdateTypeOK, bmcs, objs, ofCall, updateHist
<1>1. CASE Create(c)
  <2>1. UpdateTypeOK'
    BY <1>1 DEF Create
  <2>2. ASSUME NEW u \in Calls
        PROVE  PlanInv(u)'
    BY <1>1 DEF Create, PlanInv
  <2> QED
    BY <2>1, <2>2
<1>2. CASE Drop(c)
  <2>1. UpdateTypeOK'
    BY <1>2 DEF Drop
  <2>2. ASSUME NEW u \in Calls
        PROVE  PlanInv(u)'
    BY <1>2 DEF Drop, PlanInv
  <2> QED
    BY <2>1, <2>2
<1>3. CASE OfferChanges(c)
  <2>1. UpdateTypeOK'
    <3>1. offer' \in [Clients -> Offers] /\ offer'[c] \in Offers
      BY <1>3 DEF OfferChanges
    <3>2. seen' \in [Calls -> SUBSET Offers]
      BY <1>3, <3>1 DEF OfferChanges
    <3> QED
      BY <1>3, <3>1, <3>2 DEF OfferChanges
  <2>2. ASSUME NEW u \in Calls
        PROVE  PlanInv(u)'
    BY <1>3 DEF OfferChanges, PlanInv
  <2> QED
    BY <2>1, <2>2
<1> QED
  BY <1>1, <1>2, <1>3

LEMMA WantsTypes ==
    ASSUME NEW k \in Operations
    PROVE  Wants(k) \subseteq SUBSET {"targets", "stage"}
  BY DEF Wants

LEMMA BeginUpdate ==
    ASSUME UpdateInv, NEW u \in Calls, NEW c \in Clients, NEW k \in Operations,
           NEW w \in Wants(k), Begin(u, c, k, w)
    PROVE  UpdateInv'
<1> USE DEF UpdateInv, UpdateTypeOK, bmcs, objs
<1>1. k \in DOMAIN Plan /\ k \in Kinds /\ w \in SUBSET {"targets", "stage"}
  BY WantsTypes DEF Kinds
<1>2. Plan[k] \in AheadOf(k) /\ Plan[k] \in Seq(Steps) /\ Plan[k] # <<>>
  BY <1>1, Begins, AheadTypes
<1>3. UpdateTypeOK'
  <2>1. todo' \in [Calls -> Seq(Steps)]
    BY <1>2 DEF Begin
  <2>2. /\ on' \in [Calls -> Clients \cup {Unset}]
        /\ kind' \in [Calls -> Kinds \cup {Unset}]
        /\ wants' \in [Calls -> SUBSET {"targets", "stage"}]
    BY <1>1 DEF Begin
  <2>3. vendor' \in [Calls -> Vendors \cup {"generic", Unset}]
    BY DEF Begin
  <2>4. seen' \in [Calls -> SUBSET Offers]
    BY DEF Begin
  <2>5. body' \in [Calls -> Bodies \cup {Unset}]
    BY DEF Begin
  <2>6. owners' \in [Ids -> SUBSET Clients] /\ whose' \in [Calls -> SUBSET Clients]
    BY DEF Begin
  <2> QED
    BY <2>1, <2>2, <2>3, <2>4, <2>5, <2>6 DEF Begin
<1>4. ASSUME NEW v \in Calls
      PROVE  PlanInv(v)'
  <2>1. CASE v = u
    BY <1>1, <1>2, <2>1 DEF Begin, PlanInv
  <2>2. CASE v # u
    BY <2>2 DEF Begin, PlanInv
  <2> QED
    BY <2>1, <2>2
<1> QED
  BY <1>3, <1>4

(* A call that goes on by a step, or ends.                                 *)
LEMMA OnUpdate ==
    ASSUME UpdateInv, NEW u \in Calls, todo[u] # <<>>, Done(u) \/ Abort(u),
           UNCHANGED <<kind, on, object>>,
           \A v \in Calls \ {u} : body'[v] = body[v]
    PROVE  todo' \in [Calls -> Seq(Steps)] /\ \A v \in Calls : PlanInv(v)'
<1>1. PICK p \in AheadOf(kind[u]) : todo' = [todo EXCEPT ![u] = p]
  <2>1. todo[u] \in AheadOf(kind[u])
    BY DEF UpdateInv, PlanInv
  <2>2. CASE Done(u)
    BY <2>1, <2>2, StepAhead DEF Done
  <2>3. CASE Abort(u)
    BY <2>3, AheadTypes DEF Abort
  <2> QED
    BY <2>2, <2>3
<1>2. kind[u] \in Kinds /\ kind' = [kind EXCEPT ![u] = kind[u]]
  BY DEF UpdateInv, UpdateTypeOK, PlanInv
<1> QED
  BY <1>1, <1>2, StepKeepsPlans

LEMMA NowHas ==
    ASSUME NEW u, NEW step, Now(u, step)
    PROVE  todo[u] # <<>> /\ Head(todo[u]) = step
  BY DEF Now

LEMMA RecognisedTypes ==
    ASSUME NEW c \in Clients, UpdateTypeOK
    PROVE  /\ Recognised(c) \in {maker[c], "generic"}
           /\ Recognised(c) \in Vendors \cup {"generic"}
           /\ Recognised(c) # maker[c] => shows[c] = "key"
  BY DEF Recognised, UpdateTypeOK

LEMMA DetectionUpdate ==
    ASSUME UpdateInv, NEW u \in Calls, Detection(u)
    PROVE  UpdateInv'
<1> USE DEF UpdateInv, UpdateTypeOK, bmcs, objs, ofCall, updateHist
<1>1. /\ todo[u] # <<>> /\ on[u] \in Clients /\ Key(on[u]) \in Ids
      /\ Head(todo[u]) \in {"detect", "system"} /\ kind[u] = "auto"
  <2>1. todo[u] # <<>> /\ Head(todo[u]) \in {"detect", "system"}
    BY DEF Detection, Cached, Uncached, Detect, DetectFails, Now
  <2>2. on[u] \in Clients /\ Key(on[u]) \in Ids /\ todo[u] \in AheadOf(kind[u])
    BY <2>1 DEF PlanInv, Key
  <2> QED
    BY <2>1, <2>2, StepAhead
<1>2. CASE Cached(u)
  <2>1. todo' \in [Calls -> Seq(Steps)] /\ \A v \in Calls : PlanInv(v)'
    BY <1>1, <1>2, OnUpdate DEF Cached
  <2>2. vendor' \in [Calls -> Vendors \cup {"generic", Unset}]
    BY <1>1, <1>2 DEF Cached
  <2> QED
    BY <1>2, <2>1, <2>2 DEF Cached
<1>3. CASE Uncached(u)
  <2>1. todo[u] \in AutoAhead
    BY <1>1 DEF PlanInv, AheadOf
  <2>2. todo[u] = <<"detect", "discover", "post">>
    BY <1>1, <1>3, <2>1, AutoNext DEF Uncached, Now
  <2>3. todo' = [todo EXCEPT ![u] = <<"system", "discover", "post">>]
    BY <1>3, <2>2, ToSystem DEF Uncached
  <2>4. <<"system", "discover", "post">> \in AheadOf(kind[u])
    BY <1>1 DEF AheadOf, AutoAhead
  <2>5. kind' = [kind EXCEPT ![u] = kind[u]] /\ kind[u] \in Kinds
    BY <1>1, <1>3 DEF Uncached, PlanInv
  <2>6. UNCHANGED <<on, object, body>>
    BY <1>3 DEF Uncached
  <2>7. todo' \in [Calls -> Seq(Steps)] /\ \A v \in Calls : PlanInv(v)'
    <3> HIDE DEF UpdateInv, UpdateTypeOK
    <3> QED
      BY <1>1, <2>3, <2>4, <2>5, <2>6, StepKeepsPlans
  <2> QED
    BY <1>3, <2>7 DEF Uncached
<1>4. ASSUME NEW x \in Vendors \cup {"generic"}, Detected(u, x),
             UNCHANGED <<bmcs, object, on, kind, wants, body, seen, owners, whose>>,
             lost' \in [Clients -> BOOLEAN]
      PROVE  UpdateInv'
  <2>1. todo' \in [Calls -> Seq(Steps)] /\ \A v \in Calls : PlanInv(v)'
    BY <1>1, <1>4, OnUpdate DEF Detected
  <2>2. /\ vendor' \in [Calls -> Vendors \cup {"generic", Unset}]
        /\ vendorCache' \in [Ids -> Vendors \cup {"generic", Unset}]
    BY <1>4 DEF Detected
  <2> QED
    BY <1>4, <2>1, <2>2
<1>5. CASE Detect(u)
  BY <1>1, <1>4, <1>5, RecognisedTypes DEF Detect
<1>6. CASE DetectFails(u)
  BY <1>1, <1>4, <1>6 DEF DetectFails
<1> QED
  BY <1>2, <1>3, <1>5, <1>6 DEF Detection

LEMMA DialectTypes ==
    ASSUME NEW v
    PROVE  Dialect(v) \in DOMAIN Strategy
  BY DEF Dialect, Strategy

LEMMA RequestUpdate ==
    ASSUME UpdateInv, NEW u \in Calls, Request(u)
    PROVE  UpdateInv'
<1> USE DEF UpdateInv, UpdateTypeOK, bmcs, objs, ofCall, updateHist
<1>1. todo[u] # <<>> /\ kind[u] \in Kinds
  BY DEF Request, ReadFails, Discover, ReadAction, CheckOffer, CheckSkipped, Post, Now,
         PlanInv
<1>2. CASE ReadFails(u) \/ Discover(u) \/ ReadAction(u) \/ CheckOffer(u)
  <2>1. Done(u) \/ Abort(u)
    BY <1>2 DEF ReadFails, Discover, ReadAction, CheckOffer
  <2>2. UNCHANGED <<bmcs, objs, ofCall, updateHist>>
    BY <1>2 DEF ReadFails, Discover, ReadAction, CheckOffer
  <2>3. todo' \in [Calls -> Seq(Steps)] /\ \A v \in Calls : PlanInv(v)'
    BY <1>1, <2>1, <2>2, OnUpdate
  <2> QED
    BY <2>2, <2>3
<1>3. CASE CheckSkipped(u)
  <2>1. todo' = [todo EXCEPT ![u] = <<"post">>]
    <3>1. Tail(todo[u]) = <<"post">>
      BY <1>3, <1>1, StepAhead DEF CheckSkipped, Now, PlanInv
    <3> QED
      BY <1>3, <3>1 DEF CheckSkipped, Done
  <2>2. <<"post">> \in AheadOf("raw push")
    BY DEF AheadOf, OtherAhead
  <2>3. /\ todo' \in [Calls -> Seq(Steps)] /\ \A v \in Calls : PlanInv(v)'
        /\ kind' \in [Calls -> Kinds \cup {Unset}]
    BY <1>1, <1>3, <2>1, <2>2, StepKeepsPlans DEF CheckSkipped, Kinds
  <2> QED
    BY <1>3, <2>3 DEF CheckSkipped
<1>4. CASE Post(u)
  <2>1. Sends(u) \in SUBSET {"targets", "stage"}
    BY DEF Sends
  <2>2. body' \in [Calls -> Bodies \cup {Unset}]
    BY <1>4, <2>1, DialectTypes DEF Post, Bodies
  <2>3. todo' \in [Calls -> Seq(Steps)] /\ \A v \in Calls : PlanInv(v)'
    BY <1>1, <1>4, OnUpdate DEF Post
  <2> QED
    BY <1>4, <2>2, <2>3 DEF Post
<1> QED
  BY <1>2, <1>3, <1>4 DEF Request

LEMMA UpdateSteps ==
    ASSUME UpdateInv, [UpdateNext]_updateVars
    PROVE  UpdateInv'
<1>1. CASE UNCHANGED updateVars
  BY <1>1 DEF UpdateInv, UpdateTypeOK, PlanInv, updateVars, bmcs, objs, ofCall, updateHist
<1> QED
  BY <1>1, ClientsUpdate, BeginUpdate, DetectionUpdate, RequestUpdate DEF UpdateNext

(* The variables of the update manager, and of every call, keep their types*)
THEOREM UpdateTypes == UpdateSpec => []UpdateTypeOK
<1>1. UpdateInv /\ [UpdateNext]_updateVars => UpdateInv'
  BY UpdateSteps
<1>2. UpdateInv => UpdateTypeOK
  BY DEF UpdateInv
<1> QED
  BY <1>1, <1>2, UpdateStarts, PTL DEF UpdateSpec
-----------------------------------------------------------------------------
(* FirmwareUpdate: what is validated is what is sent.                      *)
CheckedKinds == {"standard", "stage", "push"}

(* A call that looks at the capabilities has seen those advertised now,    *)
(* and gets to its POST through a validation that one of those it has seen *)
(* passed.                                                                 *)
OfferInv ==
    \A u \in Calls : kind[u] \in CheckedKinds =>
        /\ todo[u] # <<>> => offer[on[u]] \in seen[u]
        /\ todo[u] = <<"post">> =>
              wants[u] = {} \/ \E o \in seen[u] : Valid(o, wants[u])
        /\ body[u] # Unset => \E o \in seen[u] : Takes(o, body[u].says)

LEMMA ValidTakes ==
    ASSUME NEW o \in Offer, NEW w \in SUBSET {"targets", "stage"},
           Valid(o, w) \/ w = {}
    PROVE  Takes(o, w)
<1>1. /\ o.targets \in BOOLEAN \cup {Unset} /\ o.stage \in BOOLEAN \cup {Unset}
      /\ o.typed \in BOOLEAN /\ Unset \notin BOOLEAN
  BY DEF Offer, Maybe
<1>2. CASE w = {}
  BY <1>2 DEF Takes
<1>3. CASE Valid(o, w)
  <2>1. "stage" \in w => o.stage = TRUE \/ (o.stage = Unset /\ o.staging # Unset)
    BY <1>3 DEF Valid, Supports
  <2>2. "targets" \in w => \/ o.targets = TRUE
                           \/ o.targets = Unset /\ (o.allowable # Unset \/ o.typed)
    BY <1>3 DEF Valid, Supports
  <2>3. "targets" \in w => IF "stage" \in w THEN o.staging = TRUE
                                            ELSE o.allowable = TRUE \/ o.typed
    BY <1>3 DEF Valid, Listed
  <2>4. "stage" \in w => o.stage # FALSE
    BY <1>1, <2>1
  <2>5. "targets" \in w /\ "stage" \notin w => TRUE \in {o.allowable, o.typed}
    BY <1>1, <2>3
  <2> QED
    BY <1>1, <2>1, <2>2, <2>3, <2>4, <2>5 DEF Takes
<1> QED
  BY <1>2, <1>3

(* The steps after which nothing has changed for the calls that look.      *)
LEMMA OffersStay ==
    ASSUME UpdateInv, OfferInv, NEW u \in Calls, todo[u] # <<>>,
           UNCHANGED <<offer, on, wants, body, seen>>,
           \A v \in Calls \ {u} : kind'[v] = kind[v] /\ todo'[v] = todo[v],
           kind'[u] \in CheckedKinds =>
              /\ kind'[u] = kind[u]
              /\ todo'[u] = <<"post">> =>
                    wants[u] = {} \/ \E o \in seen[u] : Valid(o, wants[u])
    PROVE  OfferInv'
<1> SUFFICES ASSUME NEW v \in Calls, kind'[v] \in CheckedKinds
             PROVE  /\ todo'[v] # <<>> => offer[on[v]] \in seen[v]
                    /\ todo'[v] = <<"post">> =>
                          wants[v] = {} \/ \E o \in seen[v] : Valid(o, wants[v])
                    /\ body[v] # Unset => \E o \in seen[v] : Takes(o, body[v].says)
  BY DEF OfferInv
<1>1. CASE v = u
  BY <1>1 DEF OfferInv
<1>2. CASE v # u
  BY <1>2 DEF OfferInv
<1> QED
  BY <1>1, <1>2

LEMMA RequestOffers ==
    ASSUME UpdateInv, OfferInv, NEW u \in Calls, Request(u)
    PROVE  OfferInv'
<1> USE DEF bmcs, objs, ofCall, updateHist
<1>1. /\ todo[u] # <<>> /\ todo[u] \in AheadOf(kind[u]) /\ on[u] \in Clients
      /\ todo \in [Calls -> Seq(Steps)] /\ kind \in [Calls -> Kinds \cup {Unset}]
      /\ wants[u] \in SUBSET {"targets", "stage"} /\ offer[on[u]] \in Offers
      /\ seen[u] \subseteq Offers
  BY DEF Request, ReadFails, Discover, ReadAction, CheckOffer, CheckSkipped, Post, Now,
         PlanInv, UpdateInv, UpdateTypeOK
<1>2. kind[u] \in CheckedKinds =>
        /\ Head(todo[u]) \in {"check", "action", "post"}
        /\ Head(todo[u]) = "action" => Tail(todo[u]) = <<"check", "post">>
        /\ Head(todo[u]) = "post" => todo[u] = <<"post">>
  BY <1>1, CheckedNext, StagedNext DEF AheadOf, CheckedKinds
<1>3. CASE Done(u)
  <2>1. todo'[u] = Tail(todo[u]) /\ \A v \in Calls \ {u} : todo'[v] = todo[v]
    BY <1>1, <1>3 DEF Done
  <2>2. CASE Discover(u) \/ ReadAction(u)
    <3>1. kind[u] \in CheckedKinds => todo'[u] # <<"post">>
      BY <1>2, <2>1, <2>2 DEF Discover, ReadAction, Now
    <3> QED
      BY <1>1, <2>1, <2>2, <3>1, OffersStay DEF Discover, ReadAction
  <2>3. CASE CheckOffer(u)
    <3>1. UNCHANGED <<bmcs, objs, on, kind, wants, vendor, body, updateHist>>
      BY <2>3 DEF CheckOffer
    <3>2. kind[u] \in CheckedKinds /\ todo'[u] = <<"post">> =>
            wants[u] = {} \/ \E o \in seen[u] : Valid(o, wants[u])
      <4>1. CASE wants[u] = {} \/ Valid(offer[on[u]], wants[u])
        BY <1>1, <4>1 DEF OfferInv
      <4>2. CASE ~(wants[u] = {} \/ Valid(offer[on[u]], wants[u]))
        <5>1. todo'[u] = <<>>
          BY <1>1, <2>3, <4>2 DEF CheckOffer, Abort
        <5>2. <<>> # <<"post">>
          OBVIOUS
        <5> QED
          BY ONLY <5>1, <5>2
      <4> QED
        BY <4>1, <4>2
    <3> QED
      BY <1>1, <2>1, <3>1, <3>2, OffersStay
  <2>4. CASE CheckSkipped(u)
    <3>1. kind'[u] \notin CheckedKinds /\ \A v \in Calls \ {u} : kind'[v] = kind[v]
      BY <1>1, <2>4 DEF CheckSkipped, CheckedKinds
    <3> QED
      BY <1>1, <2>1, <2>4, <3>1, OffersStay DEF CheckSkipped
  <2>5. CASE Post(u)
    <3>1. UNCHANGED <<bmcs, objs, on, kind, wants, vendor, updateHist>>
      BY <2>5 DEF Post
    <3>2. /\ body'[u].says = Sends(u)
          /\ \A v \in Calls \ {u} : body'[v] = body[v]
      BY <2>5 DEF Post, UpdateInv, UpdateTypeOK
    <3>3. ASSUME kind[u] \in CheckedKinds
          PROVE  todo'[u] = <<>> /\ \E o \in seen[u] : Takes(o, Sends(u))
      <4>1. todo[u] = <<"post">>
        BY <1>2, <2>5, <3>3 DEF Post, Now
      <4>2. todo'[u] = <<>> /\ Sends(u) = wants[u]
        BY <2>1, <3>3, <4>1 DEF Sends, Simple, CheckedKinds
      <4>3. PICK o \in seen[u] : wants[u] = {} \/ Valid(o, wants[u])
        BY <1>1, <3>3, <4>1 DEF OfferInv
      <4>4. o \in Offer
        BY <1>1
      <4> QED
        BY <1>1, <4>2, <4>3, <4>4, ValidTakes
    <3>4. ASSUME NEW v \in Calls, kind[v] \in CheckedKinds
          PROVE  /\ todo'[v] # <<>> => offer[on[v]] \in seen[v]
                 /\ todo'[v] = <<"post">> =>
                       wants[v] = {} \/ \E o \in seen[v] : Valid(o, wants[v])
                 /\ body'[v] # Unset => \E o \in seen[v] : Takes(o, body'[v].says)
      <4>1. CASE v = u
        BY <3>2, <3>3, <3>4, <4>1
      <4>2. CASE v # u
        BY <2>1, <3>2, <3>4, <4>2 DEF OfferInv
      <4> QED
        BY <4>1, <4>2
    <3> QED
      BY <3>1, <3>4 DEF OfferInv
  <2>6. CASE ReadFails(u)
    <3>1. todo'[u] = <<>>
      BY <1>1, <2>6 DEF ReadFails, Abort
    <3> QED
      BY <1>1, <2>1, <2>6, <3>1, OffersStay DEF ReadFails
  <2> QED
    BY <2>2, <2>3, <2>4, <2>5, <2>6 DEF Request
<1>4. CASE Abort(u)
  <2>1. todo'[u] = <<>> /\ \A v \in Calls \ {u} : todo'[v] = todo[v]
    BY <1>1, <1>4 DEF Abort
  <2>2. CASE Post(u) \/ CheckSkipped(u) \/ ReadAction(u)
    BY <1>3, <2>2 DEF Post, CheckSkipped, ReadAction
  <2>3. CASE ReadFails(u) \/ Discover(u) \/ CheckOffer(u)
    <3>1. UNCHANGED <<bmcs, objs, on, kind, wants, vendor, body, updateHist>>
      BY <2>3 DEF ReadFails, Discover, CheckOffer
    <3>2. todo'[u] # <<"post">>
      BY <2>1
    <3> QED
      BY <1>1, <2>1, <3>1, <3>2, OffersStay
  <2> QED
    BY <2>2, <2>3 DEF Request
<1> QED
  BY <1>3, <1>4 DEF Request, ReadFails, Discover, ReadAction, CheckOffer, CheckSkipped, Post

LEMMA OfferSteps ==
    ASSUME UpdateInv, OfferInv, [UpdateNext]_updateVars
    PROVE  OfferInv'
<1> USE DEF UpdateInv, UpdateTypeOK, bmcs, objs, ofCall, updateHist
<1>1. ASSUME NEW c \in Clients, Create(c) \/ Drop(c)
      PROVE  OfferInv'
  BY <1>1 DEF Create, Drop, OfferInv
<1>2. ASSUME NEW c \in Clients, OfferChanges(c)
      PROVE  OfferInv'
  <2> SUFFICES ASSUME NEW u \in Calls, kind[u] \in CheckedKinds
               PROVE  /\ todo[u] # <<>> => offer'[on[u]] \in seen'[u]
                      /\ todo[u] = <<"post">> =>
                            wants[u] = {} \/ \E o \in seen'[u] : Valid(o, wants[u])
                      /\ body[u] # Unset =>
                            \E o \in seen'[u] : Takes(o, body[u].says)
    BY <1>2 DEF OfferChanges, OfferInv
  <2>1. seen[u] \subseteq seen'[u]
    BY <1>2 DEF OfferChanges
  <2>2. todo[u] # <<>> => offer'[on[u]] \in seen'[u]
    <3>1. CASE todo[u] # <<>> /\ on[u] = c
      BY <1>2, <3>1 DEF OfferChanges, Checked, CheckedKinds
    <3>2. CASE todo[u] # <<>> /\ on[u] # c
      <4>1. offer'[on[u]] = offer[on[u]]
        BY <1>2, <3>2 DEF OfferChanges, PlanInv
      <4> QED
        BY <2>1, <3>2, <4>1 DEF OfferInv
    <3> QED
      BY <3>1, <3>2
  <2> QED
    BY <2>1, <2>2 DEF OfferInv
<1>3. ASSUME NEW u \in Calls, NEW c \in Clients, NEW k \in Operations,
             NEW w \in Wants(k), Begin(u, c, k, w)
      PROVE  OfferInv'
  <2>1. ASSUME NEW v \in Calls \ {u}
        PROVE  /\ kind'[v] = kind[v] /\ todo'[v] = todo[v] /\ on'[v] = on[v]
               /\ seen'[v] = seen[v] /\ wants'[v] = wants[v] /\ body'[v] = body[v]
    BY <1>3 DEF Begin
  <2>2. /\ kind'[u] = k /\ on'[u] = c /\ todo'[u] = Plan[k] /\ body'[u] = Unset
        /\ k \in CheckedKinds => seen'[u] = {offer[c]}
    BY <1>3 DEF Begin, CheckedKinds
  <2>3. k \in CheckedKinds => Plan[k] # <<"post">>
    BY DEF CheckedKinds, Plan
  <2>4. offer' = offer
    BY <1>3 DEF Begin
  <2>5. ASSUME NEW v \in Calls, kind'[v] \in CheckedKinds
        PROVE  /\ todo'[v] # <<>> => offer'[on'[v]] \in seen'[v]
               /\ todo'[v] = <<"post">> =>
                     wants'[v] = {} \/ \E o \in seen'[v] : Valid(o, wants'[v])
               /\ body'[v] # Unset => \E o \in seen'[v] : Takes(o, body'[v].says)
    <3>1. CASE v = u
      BY <2>2, <2>3, <2>4, <2>5, <3>1
    <3>2. CASE v # u
      BY <2>1, <2>4, <2>5, <3>2 DEF OfferInv
    <3> QED
      BY <3>1, <3>2
  <2> QED
    BY <2>5 DEF OfferInv
<1>4. ASSUME NEW u \in Calls, Detection(u)
      PROVE  OfferInv'
  <2>1. todo[u] # <<>> /\ kind[u] = "auto"
    <3>1. todo[u] # <<>> /\ Head(todo[u]) \in {"detect", "system"}
      BY <1>4 DEF Detection, Cached, Uncached, Detect, DetectFails, Now
    <3> QED
      BY <3>1, StepAhead DEF PlanInv
  <2>2. UNCHANGED <<offer, on, kind, wants, body, seen>>
    BY <1>4 DEF Detection, Cached, Uncached, Detect, DetectFails
  <2>3. \A v \in Calls \ {u} : todo'[v] = todo[v]
    BY <1>4 DEF Detection, Cached, Uncached, Detect, DetectFails, Detected, Done
  <2>4. kind'[u] \notin CheckedKinds
    BY <2>1, <2>2 DEF CheckedKinds
  <2> QED
    BY <2>1, <2>2, <2>3, <2>4, OffersStay
<1>5. CASE UNCHANGED updateVars
  BY <1>5 DEF OfferInv, updateVars
<1> QED
  BY <1>1, <1>2, <1>3, <1>4, <1>5, RequestOffers DEF UpdateNext

(* Whatever the service advertises while a call reads, validates and posts,*)
(* what a standard update, a staged one or an upload says of targets and   *)
(* staging was advertised at one moment of the call.                       *)
THEOREM AdvertisedIsSent == UpdateSpec => []AdvertisedOnly
<1>1. UpdateInit => OfferInv
  <2>1. UpdateInit => \A u \in Calls : todo[u] = <<>> /\ body[u] = Unset
    BY DEF UpdateInit
  <2>2. <<>> # <<"post">>
    OBVIOUS
  <2> QED
    BY <2>1, <2>2 DEF OfferInv
<1>2. UpdateInv /\ OfferInv /\ [UpdateNext]_updateVars => UpdateInv' /\ OfferInv'
  BY UpdateSteps, OfferSteps
<1>3. OfferInv => AdvertisedOnly
  BY DEF OfferInv, AdvertisedOnly, CheckedKinds
<1> QED
  BY <1>1, <1>2, <1>3, UpdateStarts, PTL DEF UpdateSpec
-----------------------------------------------------------------------------
(* FirmwareUpdate: the vendor an update is for is that of its BMC, or of   *)
(* one whose client had the same identity.                                 *)
MayBe(c, v) == v = maker[c] \/ (v = "generic" /\ (lost[c] \/ shows[c] = "key"))

Detectable == {<<"discover", "post">>, <<"post">>}

(* What the cache has under an identity was detected for one of the        *)
(* clients that have had it, and so was what a call goes on with; while a  *)
(* call goes on its client is in use, and the identity is given to none.   *)
DialectInv ==
    /\ \A c \in Clients : object[c] \in Ids => c \in owners[object[c]]
    /\ \A i \in Ids : vendorCache[i] # Unset =>
          \E c \in owners[i] : MayBe(c, vendorCache[i])
    /\ \A u \in Calls : kind[u] = "auto" =>
          /\ todo[u] # <<>> => whose[u] = owners[object[on[u]]]
          /\ todo[u] \in Detectable => \E c \in whose[u] : MayBe(c, vendor[u])
          /\ body[u] # Unset => \E c \in whose[u] : Fits(c, body[u].dialect)

LEMMA MayBeFits ==
    ASSUME NEW c, NEW v, MayBe(c, v)
    PROVE  Fits(c, Dialect(v))
  BY DEF MayBe, Fits, Dialect, Strategy

(* Only a failed detection changes what a client may be taken for.         *)
LEMMA MayBeKept ==
    ASSUME UNCHANGED <<maker, shows>>, \A c \in Clients : lost[c] => lost'[c]
    PROVE  /\ \A c \in Clients : \A v : MayBe(c, v) => MayBe(c, v)'
           /\ \A c \in Clients : \A d : Fits(c, d) => Fits(c, d)'
  BY DEF MayBe, Fits, Dialect

LEMMA NotDetectable == <<>> \notin Detectable
  BY DEF Detectable

LEMMA ClientsDialect ==
    ASSUME UpdateInv, DialectInv, NEW c \in Clients,
           Create(c) \/ Drop(c) \/ OfferChanges(c)
    PROVE  DialectInv'
<1> USE DEF UpdateInv, UpdateTypeOK, bmcs, objs, ofCall, updateHist
<1>0. UNCHANGED <<maker, shows, lost, vendorCache, todo, on, kind, vendor, body, whose>>
  BY DEF Create, Drop, OfferChanges
<1>1. /\ \A d \in Clients : \A v : MayBe(d, v) => MayBe(d, v)'
      /\ \A d \in Clients : \A e : Fits(d, e) => Fits(d, e)'
  BY <1>0, MayBeKept
<1>2. ASSUME \A d \in Clients : object'[d] \in Ids => d \in owners'[object'[d]],
             \A i \in Ids : owners[i] \subseteq owners'[i],
             \A u \in Calls : todo[u] # <<>> =>
                owners'[object'[on[u]]] = owners[object[on[u]]]
      PROVE  DialectInv'
  <2>1. ASSUME NEW i \in Ids, vendorCache'[i] # Unset
        PROVE  \E d \in owners'[i] : MayBe(d, vendorCache[i])'
    <3>1. PICK d \in owners[i] : MayBe(d, vendorCache[i])
      BY <1>0, <2>1 DEF DialectInv
    <3>2. d \in Clients
      BY <3>1
    <3> QED
      BY <1>0, <1>1, <1>2, <3>1, <3>2 DEF MayBe
  <2>2. ASSUME NEW u \in Calls, kind'[u] = "auto"
        PROVE  /\ todo'[u] # <<>> => whose'[u] = owners'[object'[on'[u]]]
               /\ todo'[u] \in Detectable => \E d \in whose'[u] : MayBe(d, vendor[u])'
               /\ body'[u] # Unset => \E d \in whose'[u] : Fits(d, body[u].dialect)'
    <3>1. whose[u] \subseteq Clients
      OBVIOUS
    <3>2. todo'[u] # <<>> => whose'[u] = owners'[object'[on'[u]]]
      BY <1>0, <1>2, <2>2 DEF DialectInv
    <3>3. todo'[u] \in Detectable => \E d \in whose'[u] : MayBe(d, vendor[u])'
      BY <1>0, <1>1, <2>2, <3>1 DEF DialectInv, MayBe
    <3>4. body'[u] # Unset => \E d \in whose'[u] : Fits(d, body[u].dialect)'
      BY <1>0, <1>1, <2>2, <3>1 DEF DialectInv, Fits, Dialect
    <3> QED
      BY <3>2, <3>3, <3>4
  <2> QED
    BY <1>2, <2>1, <2>2 DEF DialectInv
<1>3. CASE Create(c)
  <2>1. PICK i \in Ids : /\ \A d \in Clients : object[d] # i
                         /\ object' = [object EXCEPT ![c] = i]
                         /\ owners' = [owners EXCEPT ![i] = @ \cup {c}]
    BY <1>3 DEF Create
  <2>2. object'[c] = i /\ \A d \in Clients \ {c} : object'[d] = object[d]
    BY <2>1
  <2>3. owners'[i] = owners[i] \cup {c} /\ \A j \in Ids \ {i} : owners'[j] = owners[j]
    BY <2>1
  <2>4. ASSUME NEW d \in Clients, object'[d] \in Ids
        PROVE  d \in owners'[object'[d]]
    <3>1. CASE d = c
      BY <2>2, <2>3, <3>1
    <3>2. CASE d # c
      BY <2>1, <2>2, <2>3, <2>4, <3>2 DEF DialectInv
    <3> QED
      BY <3>1, <3>2
  <2>5. ASSUME NEW u \in Calls, todo[u] # <<>>
        PROVE  owners'[object'[on[u]]] = owners[object[on[u]]]
    <3>1. on[u] \in Clients /\ object[on[u]] \in Ids /\ on[u] # c
      BY <1>3, <2>5 DEF PlanInv, Create
    <3> QED
      BY <2>1, <2>2, <2>3, <3>1
  <2> QED
    BY <1>2, <2>3, <2>4, <2>5
<1>4. CASE Drop(c)
  <2>1. /\ object'[c] \notin Ids /\ \A d \in Clients \ {c} : object'[d] = object[d]
        /\ owners' = owners
    BY <1>4 DEF Drop
  <2>2. ASSUME NEW u \in Calls, todo[u] # <<>>
        PROVE  object'[on[u]] = object[on[u]]
    <3>1. on[u] \in Clients /\ on[u] # c
      BY <1>4, <2>2 DEF PlanInv, Drop
    <3> QED
      BY <2>1, <3>1
  <2>3. ASSUME NEW d \in Clients, object'[d] \in Ids
        PROVE  d \in owners'[object'[d]]
    BY <2>1, <2>3 DEF DialectInv
  <2> QED
    BY <1>2, <2>1, <2>2, <2>3
<1>5. CASE OfferChanges(c)
  <2>1. UNCHANGED <<object, owners>>
    BY <1>5 DEF OfferChanges
  <2>2. \A d \in Clients : object[d] \in Ids => d \in owners[object[d]]
    BY DEF DialectInv
  <2> QED
    BY <1>2, <2>1, <2>2
<1> QED
  BY <1>3, <1>4, <1>5

LEMMA BeginDialect ==
    ASSUME UpdateInv, DialectInv, NEW u \in Calls, NEW c \in Clients,
           NEW k \in Operations, NEW w \in Wants(k), Begin(u, c, k, w)
    PROVE  DialectInv'
<1> USE DEF UpdateInv, UpdateTypeOK, bmcs, objs
<1>1. UNCHANGED <<maker, shows, lost, owners, object, vendorCache>>
  BY DEF Begin
<1>2. ASSUME NEW v \in Calls \ {u}
      PROVE  /\ kind'[v] = kind[v] /\ todo'[v] = todo[v] /\ on'[v] = on[v]
             /\ vendor'[v] = vendor[v] /\ body'[v] = body[v] /\ whose'[v] = whose[v]
  BY DEF Begin
<1>3. /\ kind'[u] = k /\ todo'[u] = Plan[k] /\ body'[u] = Unset /\ on'[u] = c
      /\ k = "auto" => whose'[u] = owners[object[c]]
  BY DEF Begin
<1>4. k = "auto" => Plan[k] \notin Detectable
  BY DEF Plan, Detectable
<1>5. ASSUME NEW v \in Calls, kind'[v] = "auto"
      PROVE  /\ todo'[v] # <<>> => whose'[v] = owners'[object'[on'[v]]]
             /\ todo'[v] \in Detectable => \E d \in whose'[v] : MayBe(d, vendor[v])'
             /\ body'[v] # Unset => \E d \in whose'[v] : Fits(d, body[v].dialect)'
  <2>1. CASE v = u
    BY <1>1, <1>3, <1>4, <1>5, <2>1
  <2>2. CASE v # u
    <3>1. todo'[v] # <<>> => whose'[v] = owners'[object'[on'[v]]]
      BY <1>1, <1>2, <1>5, <2>2 DEF DialectInv
    <3>2. ASSUME todo'[v] \in Detectable
          PROVE  \E d \in whose'[v] : MayBe(d, vendor[v])'
      <4>1. PICK d \in whose[v] : MayBe(d, vendor[v])
        BY <1>2, <1>5, <2>2, <3>2 DEF DialectInv
      <4>2. MayBe(d, vendor[v])'
        BY <1>1, <1>2, <2>2, <4>1 DEF MayBe
      <4> QED
        BY <1>2, <2>2, <4>2
    <3>3. ASSUME body'[v] # Unset
          PROVE  \E d \in whose'[v] : Fits(d, body[v].dialect)'
      <4>1. PICK d \in whose[v] : Fits(d, body[v].dialect)
        BY <1>2, <1>5, <2>2, <3>3 DEF DialectInv
      <4>2. Fits(d, body[v].dialect)'
        BY <1>1, <1>2, <2>2, <4>1 DEF Fits, Dialect
      <4> QED
        BY <1>2, <2>2, <4>2
    <3> QED
      BY <3>1, <3>2, <3>3
  <2> QED
    BY <2>1, <2>2
<1>6. \A d \in Clients : object'[d] \in Ids => d \in owners'[object'[d]]
  BY <1>1 DEF DialectInv
<1>7. \A i \in Ids : vendorCache'[i] # Unset =>
         \E d \in owners'[i] : MayBe(d, vendorCache[i])'
  BY <1>1 DEF DialectInv, MayBe
<1> QED
  BY <1>5, <1>6, <1>7 DEF DialectInv

LEMMA DetectionDialect ==
    ASSUME UpdateInv, DialectInv, NEW u \in Calls, Detection(u)
    PROVE  DialectInv'
<1> USE DEF UpdateInv, UpdateTypeOK, bmcs, objs, ofCall, updateHist
<1>1. /\ todo[u] # <<>> /\ on[u] \in Clients /\ object[on[u]] \in Ids
      /\ todo[u] \in AutoAhead /\ Head(todo[u]) \in {"detect", "system"}
      /\ kind[u] = "auto"
  <2>1. todo[u] # <<>> /\ Head(todo[u]) \in {"detect", "system"}
    BY DEF Detection, Cached, Uncached, Detect, DetectFails, Now
  <2> QED
    BY <2>1, StepAhead DEF PlanInv, AheadOf
<1>2. /\ whose[u] = owners[object[on[u]]] /\ on[u] \in whose[u]
      /\ \A i \in Ids : owners[i] \subseteq Clients
      /\ \A v \in Calls : whose[v] \subseteq Clients
  BY <1>1 DEF DialectInv
<1>3. /\ UNCHANGED <<maker, shows, object, on, kind, body, owners, whose>>
      /\ \A v \in Calls \ {u} : vendor'[v] = vendor[v] /\ todo'[v] = todo[v]
      /\ \A c \in Clients : lost[c] => lost'[c]
  BY <1>1 DEF Detection, Cached, Uncached, Detect, DetectFails, Detected, Done
<1>4. /\ \A c \in Clients : \A v : MayBe(c, v) => MayBe(c, v)'
      /\ \A c \in Clients : \A d : Fits(c, d) => Fits(c, d)'
  BY <1>3, MayBeKept
<1>5. ASSUME \A i \in Ids : vendorCache'[i] # Unset =>
                \E c \in owners[i] : MayBe(c, vendorCache[i])',
             todo'[u] \in Detectable => \E c \in whose[u] : MayBe(c, vendor[u])'
      PROVE  DialectInv'
  <2>1. ASSUME NEW v \in Calls, kind'[v] = "auto"
        PROVE  /\ todo'[v] # <<>> => whose'[v] = owners'[object'[on'[v]]]
               /\ todo'[v] \in Detectable => \E c \in whose'[v] : MayBe(c, vendor[v])'
               /\ body'[v] # Unset => \E c \in whose'[v] : Fits(c, body[v].dialect)'
    <3>1. todo'[v] # <<>> => whose'[v] = owners'[object'[on'[v]]]
      BY <1>2, <1>3, <2>1 DEF DialectInv
    <3>2. CASE v = u
      <4>1. body'[v] # Unset => \E c \in whose'[v] : Fits(c, body[v].dialect)'
        BY <1>2, <1>3, <1>4, <2>1 DEF DialectInv, Fits, Dialect
      <4> QED
        BY <1>3, <1>5, <3>1, <3>2, <4>1
    <3>3. CASE v # u
      <4>1. body'[v] # Unset => \E c \in whose'[v] : Fits(c, body[v].dialect)'
        BY <1>2, <1>3, <1>4, <2>1 DEF DialectInv, Fits, Dialect
      <4>2. ASSUME todo'[v] \in Detectable
            PROVE  \E c \in whose'[v] : MayBe(c, vendor[v])'
        <5>1. PICK c \in whose[v] : MayBe(c, vendor[v])
          BY <1>3, <2>1, <3>3, <4>2 DEF DialectInv
        <5>2. MayBe(c, vendor[v])'
          BY <1>2, <1>3, <1>4, <3>3, <5>1 DEF MayBe
        <5> QED
          BY <1>3, <5>2
      <4> QED
        BY <3>1, <4>1, <4>2
    <3> QED
      BY <3>2, <3>3
  <2>2. \A d \in Clients : object'[d] \in Ids => d \in owners'[object'[d]]
    BY <1>3 DEF DialectInv
  <2> QED
    BY <1>3, <1>5, <2>1, <2>2 DEF DialectInv
<1>6. ASSUME vendorCache' = vendorCache
      PROVE  \A i \in Ids : vendorCache'[i] # Unset =>
                \E c \in owners[i] : MayBe(c, vendorCache[i])'
  <2> SUFFICES ASSUME NEW i \in Ids, vendorCache'[i] # Unset
               PROVE  \E c \in owners[i] : MayBe(c, vendorCache[i])'
    OBVIOUS
  <2>1. PICK c \in owners[i] : MayBe(c, vendorCache[i])
    BY <1>6 DEF DialectInv
  <2>2. MayBe(c, vendorCache[i])'
    BY <1>2, <1>4, <1>6, <2>1 DEF MayBe
  <2> QED
    BY <2>2
<1>7. CASE Cached(u)
  <2>1. vendor'[u] = vendorCache[object[on[u]]] /\ vendorCache' = vendorCache
        /\ vendorCache[object[on[u]]] # Unset
    BY <1>7 DEF Cached, Key
  <2>2. \E c \in whose[u] : MayBe(c, vendorCache[object[on[u]]])
    BY <1>1, <1>2, <2>1 DEF DialectInv
  <2>3. \E c \in whose[u] : MayBe(c, vendor[u])'
    BY <1>2, <1>4, <2>1, <2>2 DEF MayBe
  <2> QED
    BY <1>5, <1>6, <2>1, <2>3
<1>8. CASE Uncached(u)
  <2>1. todo[u] = <<"detect", "discover", "post">>
    BY <1>1, <1>8, AutoNext DEF Uncached, Now
  <2>2. todo' = [todo EXCEPT ![u] = <<"system", "discover", "post">>]
    BY <1>8, <2>1, ToSystem DEF Uncached
  <2>3. <<"system", "discover", "post">> \notin Detectable
    BY DEF Detectable
  <2>4. vendorCache' = vendorCache
    BY <1>8 DEF Uncached
  <2>5. todo'[u] \notin Detectable
    BY <2>2, <2>3
  <2> QED
    BY <1>5, <1>6, <2>4, <2>5
<1>9. ASSUME NEW x, Detected(u, x), MayBe(on[u], x)'
      PROVE  DialectInv'
  <2>1. /\ vendor'[u] = x /\ vendorCache'[object[on[u]]] = x
        /\ \A i \in Ids \ {object[on[u]]} : vendorCache'[i] = vendorCache[i]
    BY <1>1, <1>9 DEF Detected, Key
  <2>2. ASSUME NEW i \in Ids, vendorCache'[i] # Unset
        PROVE  \E c \in owners[i] : MayBe(c, vendorCache[i])'
    <3>1. CASE i = object[on[u]]
      <4>1. on[u] \in owners[i] /\ MayBe(on[u], x)' /\ vendorCache'[i] = x
        BY <1>2, <1>9, <2>1, <3>1
      <4> QED
        BY <1>3, <4>1 DEF MayBe
    <3>2. CASE i # object[on[u]]
      <4>1. PICK c \in owners[i] : MayBe(c, vendorCache[i])
        BY <2>1, <2>2, <3>2 DEF DialectInv
      <4>2. MayBe(c, vendorCache[i])' /\ c \in owners[i]
        BY <1>2, <1>4, <2>1, <3>2, <4>1 DEF MayBe
      <4> QED
        BY <4>2
    <3> QED
      BY <3>1, <3>2
  <2>3. \E c \in whose[u] : MayBe(c, vendor[u])'
    BY <1>2, <1>3, <1>9, <2>1 DEF MayBe
  <2> QED
    BY <1>5, <2>2, <2>3
<1>10. CASE Detect(u)
  <2>1. MayBe(on[u], Recognised(on[u]))'
    BY <1>1, <1>3, RecognisedTypes DEF MayBe, Recognised
  <2>2. Recognised(on[u])' = Recognised(on[u])
    BY <1>3 DEF Recognised
  <2> QED
    BY <1>3, <1>9, <1>10, <2>1, <2>2 DEF Detect, MayBe
<1>11. CASE DetectFails(u)
  <2>1. lost'[on[u]] = TRUE
    BY <1>1, <1>11 DEF DetectFails
  <2>2. PICK v \in {"generic"} \cup ({maker[on[u]]} \cap {"lenovo", "xfusion"}) :
           Detected(u, v)
    BY <1>11 DEF DetectFails
  <2>3. MayBe(on[u], v)'
    BY <1>3, <2>1, <2>2 DEF MayBe
  <2> QED
    BY <1>9, <2>2, <2>3
<1> QED
  BY <1>7, <1>8, <1>10, <1>11 DEF Detection

LEMMA RequestDialect ==
    ASSUME UpdateInv, DialectInv, NEW u \in Calls, Request(u)
    PROVE  DialectInv'
<1> USE DEF UpdateInv, UpdateTypeOK, bmcs, objs, ofCall, updateHist
<1>1. todo[u] # <<>> /\ todo[u] \in AheadOf(kind[u])
  BY DEF Request, ReadFails, Discover, ReadAction, CheckOffer, CheckSkipped, Post, Now,
         PlanInv
<1>2. /\ UNCHANGED <<maker, shows, object, vendorCache, on, vendor, lost, owners, whose>>
      /\ Done(u) \/ Abort(u)
      /\ \A v \in Calls \ {u} : todo'[v] = todo[v] /\ body'[v] = body[v]
      /\ \A v \in Calls : kind'[v] = "auto" => kind[v] = "auto"
  BY DEF Request, ReadFails, Discover, ReadAction, CheckOffer, CheckSkipped, Post,
         Done, Abort
<1>3. kind[u] = "auto" =>
        /\ todo'[u] \in Detectable => todo[u] \in Detectable
        /\ Head(todo[u]) = "post" => todo[u] \in Detectable
  <2>1. CASE kind[u] = "auto"
    <3>1. todo[u] \in AutoAhead /\ Head(todo[u]) \notin {"detect", "system"}
      BY <1>1, <2>1 DEF AheadOf, Request, ReadFails, Discover, ReadAction, CheckOffer,
                        CheckSkipped, Post, Now
    <3>2. todo[u] \in Detectable
      BY <1>1, <3>1, AutoNext DEF Detectable
    <3> QED
      BY <3>2
  <2> QED
    BY <2>1
<1>4. ASSUME NEW v \in Calls, kind'[v] = "auto"
      PROVE  /\ todo'[v] # <<>> => whose[v] = owners[object[on[v]]]
             /\ todo'[v] \in Detectable => \E c \in whose[v] : MayBe(c, vendor[v])
             /\ body'[v] # Unset => \E c \in whose[v] : Fits(c, body'[v].dialect)
  <2>1. CASE v # u
    BY <1>2, <1>4, <2>1 DEF DialectInv
  <2>2. v = u => whose[v] = owners[object[on[v]]]
    BY <1>1, <1>2, <1>4 DEF DialectInv
  <2>3. CASE v = u /\ ~Post(u)
    <3>1. body' = body
      BY <2>3 DEF Request, ReadFails, Discover, ReadAction, CheckOffer, CheckSkipped
    <3> QED
      BY <1>2, <1>3, <1>4, <2>2, <2>3, <3>1 DEF DialectInv
  <2>4. CASE v = u /\ Post(u)
    <3>1. kind[u] = "auto" /\ todo[u] \in Detectable
      BY <1>2, <1>3, <1>4, <2>4 DEF Post, Now
    <3>2. PICK c \in whose[u] : MayBe(c, vendor[u])
      BY <3>1 DEF DialectInv
    <3>3. body'[u].dialect = Dialect(vendor[u])
      BY <2>4, <3>1 DEF Post, Simple
    <3>4. Fits(c, body'[u].dialect)
      BY <3>2, <3>3, MayBeFits
    <3> QED
      BY <2>2, <2>4, <3>2, <3>4
  <2> QED
    BY <2>1, <2>3, <2>4
<1>5. \A v \in Calls : kind'[v] = "auto" =>
         /\ todo'[v] \in Detectable => \E c \in whose'[v] : MayBe(c, vendor[v])'
         /\ body'[v] # Unset => \E c \in whose'[v] : Fits(c, body[v].dialect)'
  BY <1>2, <1>4 DEF MayBe, Fits, Dialect
<1>6. \A d \in Clients : object'[d] \in Ids => d \in owners'[object'[d]]
  BY <1>2 DEF DialectInv
<1>7. \A i \in Ids : vendorCache'[i] # Unset =>
         \E d \in owners'[i] : MayBe(d, vendorCache[i])'
  BY <1>2 DEF DialectInv, MayBe
<1> QED
  BY <1>2, <1>4, <1>5, <1>6, <1>7 DEF DialectInv

(* An update whose vendor is detected is sent in the dialect of its BMC,   *)
(* or at worst in that of an earlier client with the same identity,        *)
(* however calls and clients interleave, clients come and go, identities   *)
(* are given again, and whatever detection fails (VendorDetector.detect).  *)
THEOREM DialectIsRight == UpdateSpec => []RightDialect
<1>1. UpdateInit => DialectInv
  <2>1. ASSUME UpdateInit
        PROVE  /\ \A u \in Calls : todo[u] = <<>> /\ body[u] = Unset
               /\ \A c \in Clients : object[c] \notin Ids
               /\ \A i \in Ids : vendorCache[i] = Unset
    BY <2>1 DEF UpdateInit
  <2> QED
    BY <2>1, NotDetectable DEF DialectInv
<1>2. UpdateInv /\ DialectInv /\ [UpdateNext]_updateVars => UpdateInv' /\ DialectInv'
  <2> SUFFICES ASSUME UpdateInv, DialectInv, [UpdateNext]_updateVars
               PROVE  DialectInv'
    BY UpdateSteps
  <2>1. CASE UNCHANGED updateVars
    BY <2>1 DEF updateVars, bmcs, objs, ofCall, updateHist, DialectInv, MayBe, Fits, Dialect
  <2> QED
    BY <2>1, ClientsDialect, BeginDialect, DetectionDialect, RequestDialect DEF UpdateNext
<1>3. DialectInv => RightDialect
  BY DEF DialectInv, RightDialect
<1> QED
  BY <1>1, <1>2, <1>3, UpdateStarts, PTL DEF UpdateSpec
===============================================================================
