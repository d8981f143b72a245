----------------------------- MODULE ResourceOps -----------------------------
(***************************************************************************)
(* One call of a resource manager of the SDK (systems, managers, chassis,  *)
(* accounts, events, policies, fabrics, cooling ...), request by request.  *)
(*                                                                         *)
(* Every such operation has the same skeleton, whatever resource it is     *)
(* about: it walks the links the BMC advertises, from level to level; on   *)
(* each level it tries one or several places (routes) and then takes all   *)
(* the members it read, or picks one of them to go on from; an operation   *)
(* that writes then validates the request against what the picked member   *)
(* advertises and sends it.  What differs is what a missing link, a 404,   *)
(* another failure or an empty list does on each route, how the member is  *)
(* picked, and what is validated: the operation's recipe.  The recipes are *)
(* in ManagerRecipes, one per method; this module runs any of them.        *)
(*                                                                         *)
(* The BMC answers each request as it likes, so that everything another    *)
(* client does to it between two requests is covered: a link may be        *)
(* missing, a listed member gone or failing, a write executed with its     *)
(* answer lost.  A page of a collection is read as one request             *)
(* (CollectionPaging models the pages), and the conditional headers of a   *)
(* PATCH are EtagPatch's.                                                  *)
(***************************************************************************)
EXTENDS Naturals, Sequences, FiniteSets

CONSTANTS Members,  \* the places in a listing, in the order of the listing
          Recipes,  \* operation -> its recipe
          Forgetful,    \* operations that do not tell of every failure
          None

\* Places are numbers, so that the first of a list is the least.
ASSUME MembersAssumption ==
    /\ Members \subseteq Nat
    /\ \A S \in SUBSET Members : S # {} => \E m \in S : \A n \in S : m <= n

\* How a place is read: one resource; a resource that holds the whole list; a
\* collection expanded by _get_collection; links that are part of the resource
\* before, read by _get_list; a collection whose members are read one by one
\* and dropped when they fail, or raise.
Forms == {"resource", "embedded", "collection", "links", "raw", "raising"}
Reactions == {"next", "end", "raise"}

\* A place to look: how it is read, and what each bad answer does.  "fixed"
\* says that the URI needs no link (it is built, or cannot be missing), and
\* "keep" that an empty list is an answer.
Routes == [form : Forms,
           absent : Reactions \cup {"fixed"},
           gone : Reactions,
           failed : Reactions,
           empty : Reactions \cup {"keep"}]

\* otherwise: what happens when no route is left.
Levels == [routes : Seq(Routes),
           pick : {"all", "each", "first", "sole", "key"},
           otherwise : {"raise", "empty"}]

\* The validation and the request of an operation that writes: the action (or
\* property, or collection) must be advertised, the value not be refused by the
\* member's own lists, nor by the ActionInfo that is read where these are silent,
\* nor by another resource that is read in any case.
Writes == [checks : SUBSET {"action", "inline", "info", "probe"},
           noop : BOOLEAN,      \* returns early when the setting is in place
           again : BOOLEAN,     \* sends once more after a 400
           reread : BOOLEAN]    \* reads the member again afterwards

ASSUME RecipesAssumption ==
    \A o \in DOMAIN Recipes :
        /\ Recipes[o].levels \in Seq(Levels) /\ Recipes[o].levels # <<>>
        /\ \A i \in 1 .. Len(Recipes[o].levels) :
              /\ Recipes[o].levels[i].routes # <<>>
              /\ Recipes[o].levels[i].pick = "each" => i < Len(Recipes[o].levels)
        /\ Recipes[o].write \in {<<>>} \cup {<<w>> : w \in Writes}
        /\ Recipes[o].optional \in BOOLEAN

\* An operation that writes goes from one picked member to the next, through
\* lists that are read by _get_collection.
ASSUME WriteAssumption ==
    \A o \in DOMAIN Recipes : Recipes[o].write # <<>> =>
        \A i \in 1 .. Len(Recipes[o].levels) :
            LET lvl == Recipes[o].levels[i]
            IN /\ lvl.pick \in {"first", "sole", "key"}
               /\ lvl.otherwise = "raise"
               /\ \A j \in 1 .. Len(lvl.routes) :
                     lvl.routes[j].form \in {"resource", "collection"}

\* A route on which every failure is raised or marked: it does not move on
\* after one, nor from a list that lacks members, and drops no member unmarked.
Tells(where) ==
    /\ where.failed = "raise"
    /\ where.form \notin {"links", "raw"}
    /\ where.form \in {"collection", "raising"} => where.gone = "raise"
    /\ where.form = "collection" => where.empty \in {"keep", "raise"}

\* A recipe of such routes, that copies no list into another one.
Candid(what) ==
    \A i \in 1 .. Len(what.levels) :
        /\ what.levels[i].pick # "each"
        /\ \A j \in 1 .. Len(what.levels[i].routes) :
              Tells(what.levels[i].routes[j])

ASSUME CandidAssumption ==
    \A o \in DOMAIN Recipes \ Forgetful : Candid(Recipes[o])

\* What the BMC says of the request the caller asks for, where it says it.
Said == {"unsaid", "offered", "refused"}

\* What a picked member advertises: the action (or the property to write),
\* whether the value is allowed, and how much of it is already in place.
Adverts == [action : BOOLEAN, inline : Said, already : {"all", "part", "no"}]

VARIABLES op,       \* the operation called
          recipe,   \* its recipe
          strict,   \* RedfishClient(strict_collection_errors)
          named,    \* the members the caller's identifier matches; None: no identifier
          pc,
          level, route,
          listed,   \* the members the current listing names
          unread,   \* those not read yet
          got,      \* those read
          parents,  \* the parents an aggregating read has not visited yet
          some,     \* a parent visited before advertised its list
          marked,   \* the current list says that it is partial
          advert,   \* what the picked member advertises
          outcome,
          \* history
          blind,    \* a member was picked from a partial list
          astray,   \* a member was picked that the full list would not have given
          hidden,   \* a failure that was neither raised nor marked
          broken,   \* a listed member could not be read
          effects   \* how often the BMC executed the write

call == <<op, recipe, strict, named>>
place == <<level, route>>
list == <<listed, unread, got, marked>>
visit == <<parents, some>>
history == <<blind, astray, hidden, broken, effects>>
vars == <<call, pc, place, list, visit, advert, outcome, history>>

Level == recipe.levels[level]
Here == Level.routes[route]
First(S) == CHOOSE m \in S : \A n \in S : m <= n

NoList == listed' = {} /\ unread' = {} /\ got' = {} /\ marked' = FALSE

\* A behaviour is one call: an operation of some client, with an identifier or,
\* where the signature allows it, without.
Init ==
    /\ op \in DOMAIN Recipes /\ recipe = Recipes[op]
    /\ strict \in BOOLEAN
    /\ \/ named = None /\ recipe.optional
       \/ named \in SUBSET Members
    /\ pc = "ask"
    /\ level = 1 /\ route = 1
    /\ listed = {} /\ unread = {} /\ got = {} /\ marked = FALSE
    /\ parents = {} /\ some = FALSE
    /\ advert = None
    /\ outcome = None
    /\ blind = FALSE /\ astray = FALSE /\ hidden = FALSE
    /\ broken = FALSE
    /\ effects = 0

-----------------------------------------------------------------------------
(* How a call ends, and how it goes on elsewhere.                           *)

Finish(how) ==
    /\ outcome' = how
    /\ pc' = "done"

Raise ==
    /\ Finish("raise")
    /\ UNCHANGED <<call, place, list, visit, advert, blind, astray, hidden,
                   effects>>

\* No route is left: None or an empty list, or RedfishNotFoundError, unless an
\* aggregating read has had a list or has another parent to look at.
Exhausted ==
    /\ NoList
    /\ IF parents = {}
       THEN /\ Finish(IF Level.otherwise = "raise" /\ ~some THEN "raise" ELSE "answer")
            /\ UNCHANGED <<place, visit>>
       ELSE /\ parents' = parents \ {First(parents)}
            /\ route' = 1 /\ pc' = "ask"
            /\ UNCHANGED <<level, some, outcome>>
    /\ UNCHANGED <<call, advert, blind, astray, effects>>

NextRoute ==
    IF route = Len(Level.routes)
    THEN Exhausted
    ELSE /\ route' = route + 1
         /\ pc' = "ask"
         /\ NoList
         /\ UNCHANGED <<call, level, visit, advert, outcome, blind, astray,
                        effects>>

\* A reaction, and whether it leaves a failure behind that nobody is told of.
React(reaction, forgets) ==
    \/ reaction = "raise" /\ Raise
    \/ /\ reaction = "next"
       /\ hidden' = (hidden \/ forgets)
       /\ NextRoute
    \/ /\ reaction = "end"
       /\ hidden' = (hidden \/ forgets)
       /\ Exhausted

-----------------------------------------------------------------------------
(* Looking at a route.                                                      *)

\* The resource read before does not advertise the link.
NoLink ==
    /\ pc = "ask"
    /\ Here.absent # "fixed"
    /\ React(Here.absent, FALSE)
    /\ UNCHANGED broken

\* The request for the collection or the resource is answered 404.
Gone ==
    /\ pc = "ask"
    /\ Here.form # "links"
    /\ React(Here.gone, FALSE)
    /\ UNCHANGED broken

\* It fails in another way.
Failed ==
    /\ pc = "ask"
    /\ Here.form # "links"
    /\ React(Here.failed, TRUE)
    /\ UNCHANGED broken

\* It is answered; a resource is the only member of its own listing.
Answered(members) ==
    /\ pc = "ask"
    /\ Here.form = "resource" => Cardinality(members) = 1
    /\ listed' = members
    /\ unread' = IF Here.form \in {"resource", "embedded"} THEN {} ELSE members
    /\ got' = IF Here.form \in {"resource", "embedded"} THEN members ELSE {}
    /\ marked' = FALSE
    /\ pc' = "read"
    /\ UNCHANGED <<call, place, visit, advert, outcome, history>>

\* _get_collection, _get_list: the members one by one, in the order of the list.
ReadMember ==
    /\ pc = "read" /\ unread # {}
    /\ unread' = unread \ {First(unread)}
    /\ got' = got \cup {First(unread)}
    /\ UNCHANGED <<call, pc, place, listed, visit, marked, advert, outcome, history>>

\* A _get_collection that logs the member's error as _get_list does.
DropMember_Logged ==
    /\ unread' = unread \ {First(unread)}
    /\ hidden' = TRUE
    /\ UNCHANGED <<call, pc, place, listed, got, marked, visit, advert, outcome,
                   blind, astray, effects>>

\* A member that cannot be read is left out: a collection records it in the
\* result, a list of links only logs it.
DropMember ==
    /\ unread' = unread \ {First(unread)}
    /\ marked' = (marked \/ Here.form = "collection")
    /\ hidden' = (hidden \/ Here.form # "collection")
    /\ UNCHANGED <<call, pc, place, listed, got, visit, advert, outcome,
                   blind, astray, effects>>

\* With strict_collection_errors, and in the helpers that do not catch it, the
\* member's error leaves the expansion, and then meets what the route does
\* with an error: a 404 of a member looks like a 404 of the collection.
MemberFails(why) ==
    /\ pc = "read" /\ unread # {}
    /\ broken' = TRUE
    /\ IF Here.form = "raising" \/ (strict /\ Here.form = "collection")
       THEN React(IF why = "gone" THEN Here.gone ELSE Here.failed, TRUE)
       ELSE DropMember

-----------------------------------------------------------------------------
(* The end of a list.                                                       *)

\* A selection that takes the first match instead of refusing an ambiguous one.
Select_FirstMatch(pick, members) ==
    LET matching == IF pick \in {"first", "sole"} \/ named = None
                    THEN members ELSE members \cap named
    IN IF matching = {} THEN {} ELSE {First(matching)}

\* select_member, systems.get, resolve_log_service: the members that match.
Select(pick, members) ==
    IF pick = "first"
    THEN IF members = {} THEN {} ELSE {First(members)}
    ELSE IF pick = "sole" \/ named = None THEN members ELSE members \cap named

ListEnds == pc = "read" /\ unread = {}

NothingThere ==
    /\ ListEnds
    /\ got = {} /\ Here.empty # "keep"
    /\ React(Here.empty, marked)
    /\ UNCHANGED broken

TakesList == ListEnds /\ (got # {} \/ Here.empty = "keep")

Aggregates == \E i \in 1 .. level - 1 : recipe.levels[i].pick = "each"

\* The list is the answer, with its mark; an aggregating read copies it into a
\* plain list, which cannot be marked, and goes on with the next parent.
TakeAll ==
    /\ TakesList /\ Level.pick = "all"
    /\ parents = {}
    /\ hidden' = (hidden \/ (marked /\ Aggregates))
    /\ Finish("answer")
    /\ UNCHANGED <<call, place, list, visit, advert, blind, astray, broken,
                   effects>>

NextParent ==
    /\ TakesList /\ Level.pick = "all"
    /\ parents # {}
    /\ parents' = parents \ {First(parents)} /\ some' = TRUE
    /\ hidden' = (hidden \/ marked)
    /\ route' = 1 /\ pc' = "ask"
    /\ NoList
    /\ UNCHANGED <<call, level, advert, outcome, blind, astray, broken,
                   effects>>

Descend ==
    /\ level' = level + 1 /\ route' = 1
    /\ pc' = "ask"
    /\ NoList

\* network_ports, memory_chunks, processor_ports without an identifier: the
\* next level is read for each member; without members nothing is advertised.
ForEach ==
    /\ TakesList /\ Level.pick = "each" /\ named = None
    /\ IF got = {}
       THEN Raise /\ UNCHANGED broken
       ELSE /\ parents' = got \ {First(got)}
            /\ hidden' = (hidden \/ marked)
            /\ Descend
            /\ UNCHANGED <<call, some, advert, outcome, blind, astray, broken,
                           effects>>

\* What the caller means: the first of the list, the only one, or the one the
\* identifier stands for, among all the members the BMC named.
Designated ==
    IF Level.pick = "first"
    THEN {m \in listed : \A n \in listed : m <= n}
    ELSE {m \in listed : Level.pick # "sole" /\ named # None => m \in named}

Picking == Level.pick \in {"first", "sole", "key"} \/ (Level.pick = "each" /\ named # None)

Ambiguous ==
    /\ TakesList /\ Picking
    /\ Cardinality(Select(Level.pick, got)) # 1
    /\ Raise
    /\ UNCHANGED broken

\* Exactly one member matches: the call goes on from it.
Pick(says) ==
    /\ TakesList /\ Picking
    /\ Cardinality(Select(Level.pick, got)) = 1
    /\ blind' = (blind \/ marked)
    /\ astray' = (astray \/ Designated # Select(Level.pick, got))
    /\ advert' = IF level = Len(recipe.levels) /\ recipe.write # <<>> THEN says ELSE None
    /\ IF level < Len(recipe.levels)
       THEN Descend /\ UNCHANGED outcome
       ELSE /\ IF recipe.write = <<>>
               THEN Finish("answer")
               ELSE pc' = "check" /\ UNCHANGED outcome
            /\ UNCHANGED <<place, list>>
    /\ UNCHANGED <<call, visit, hidden, broken, effects>>

-----------------------------------------------------------------------------
(* Validating and sending the request.                                      *)

Write == recipe.write[1]

\* RedfishValidationError before anything is sent.
Rejected ==
    \/ "action" \in Write.checks /\ ~advert.action
    \/ "inline" \in Write.checks /\ advert.inline = "refused"

AsksMore ==
    \/ "probe" \in Write.checks
    \/ "info" \in Write.checks /\ advert.inline = "unsaid"

Check ==
    /\ pc = "check"
    /\ IF Rejected
       THEN Finish("raise")
       ELSE IF Write.noop /\ advert.already # "no"
       THEN Finish("noop")
       ELSE pc' = (IF AsksMore THEN "info" ELSE "send") /\ UNCHANGED outcome
    /\ UNCHANGED <<call, place, list, visit, advert, blind, astray, hidden,
                   broken, effects>>

\* ActionInfo, or the resource a policy is about, says whether it is allowed.
\* Only a plain refusal counts: an unstated list allows everything.
AskInfo(says) ==
    /\ pc = "info"
    /\ IF says \in {"refused", "failed"}
       THEN Finish("raise")
       ELSE pc' = "send" /\ UNCHANGED outcome
    /\ UNCHANGED <<call, place, list, visit, advert, blind, astray, hidden,
                   broken, effects>>

Sent == Finish("answer")

\* The BMC executes the request and the answer arrives.
Executed ==
    /\ pc \in {"send", "resend"}
    /\ effects' = effects + 1
    /\ IF Write.reread
       THEN pc' = "reread" /\ UNCHANGED outcome
       ELSE Sent
    /\ UNCHANGED <<call, place, list, visit, advert, blind, astray, hidden,
                   broken>>

\* A clear_log that sends once more after any error, not only after a 400.
AnswerLost_SentAgain ==
    /\ pc \in {"send", "resend"}
    /\ effects' = effects + 1
    /\ IF pc = "send" /\ Write.again
       THEN pc' = "resend" /\ UNCHANGED outcome
       ELSE Finish("raise")
    /\ UNCHANGED <<call, place, list, visit, advert, blind, astray, hidden,
                   broken>>

\* The BMC executes the request and the answer is lost.
AnswerLost ==
    /\ pc \in {"send", "resend"}
    /\ effects' = effects + 1
    /\ Finish("raise")
    /\ UNCHANGED <<call, place, list, visit, advert, blind, astray, hidden,
                   broken>>

\* clear_log: a 400 may only be about the JSON body, so it is sent without.
Retries(status) == pc = "send" /\ Write.again /\ status = 400

\* The BMC does not execute it and says so.
Refuses(status) ==
    /\ pc \in {"send", "resend"}
    /\ IF Retries(status)
       THEN pc' = "resend" /\ UNCHANGED outcome
       ELSE Finish("raise")
    /\ UNCHANGED <<call, place, list, visit, advert, history>>

\* set_indicator_led and its like return what the BMC says afterwards.
Reread(ok) ==
    /\ pc = "reread"
    /\ Finish(IF ok THEN "answer" ELSE "raise")
    /\ UNCHANGED <<call, place, list, visit, advert, history>>

Look ==
    \/ NoLink \/ Gone \/ Failed
    \/ \E members \in SUBSET Members : Answered(members)
    \/ ReadMember
    \/ \E why \in {"gone", "failed"} : MemberFails(why)

Choose ==
    \/ NothingThere \/ TakeAll \/ NextParent \/ ForEach \/ Ambiguous
    \/ \E says \in Adverts : Pick(says)

Act ==
    \/ Check
    \/ \E says \in Said \cup {"failed"} : AskInfo(says)
    \/ Executed \/ AnswerLost
    \/ \E status \in {400, 500} : Refuses(status)
    \/ \E ok \in BOOLEAN : Reread(ok)

Next == Look \/ Choose \/ Act

Spec == Init /\ [][Next]_vars

-----------------------------------------------------------------------------
(* Type correctness of a call's state.                                      *)
TypeOK ==
    /\ op \in DOMAIN Recipes /\ recipe = Recipes[op] /\ strict \in BOOLEAN
    /\ named = None \/ named \subseteq Members
    /\ pc \in {"ask", "read", "check", "info", "send", "resend",
               "reread", "done"}
    /\ level \in 1 .. Len(recipe.levels)
    /\ route \in 1 .. Len(Level.routes)
    /\ listed \subseteq Members
    /\ unread \subseteq listed /\ got \subseteq listed /\ unread \cap got = {}
    /\ parents \subseteq Members
    /\ {some, marked, blind, astray, hidden, broken} \subseteq BOOLEAN
    /\ advert = None \/ advert \in Adverts
    /\ outcome \in {None, "answer", "raise", "noop"}
    /\ effects \in Nat

(* A write reaches the member the caller meant - the only one, the first one *)
(* or the one the identifier stands for, among all the BMC named - unless a  *)
(* member was picked from a list that said it was partial (select_member,    *)
(* systems.get, resolve_log_service).                                       *)
WritesWhatWasMeant == effects > 0 /\ astray => blind

(* However a call ends, the BMC has executed its write at most once, and a   *)
(* call that answers has written (clear_log's second attempt, lost answers,  *)
(* re-reads after a PATCH).                                                 *)
OneEffect ==
    /\ effects <= 1
    /\ pc = "done" /\ outcome = "answer" /\ recipe.write # <<>> => effects = 1

(* An answer tells of every failure met on the way to it, by its mark, save  *)
(* those of the operations that move on whatever went wrong, drop links     *)
(* without a mark or copy lists into one (_get_collection, _get_list).      *)
HonestAnswer == outcome = "answer" /\ hidden => op \in Forgetful

(* With strict_collection_errors, "Raise the original SDK exception when a   *)
(* collection member or continuation page fails" (RedfishClient.__init__).  *)
StrictRaises == strict /\ broken => outcome \notin {"answer", "noop"}

(* A call that returns without sending anything found the requested setting  *)
(* in place (the early return of change_boot_source).                       *)
NoOpMeansDone == outcome = "noop" => advert.already = "all"
=============================================================================
