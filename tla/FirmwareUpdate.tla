---------------------------- MODULE FirmwareUpdate ----------------------------
(***************************************************************************)
(* The update manager (redfish_sdk/managers/update.py), the update         *)
(* strategies of the vendors and their detection                           *)
(* (redfish_sdk/managers/update_strategies/).  Calls of several threads    *)
(* update the BMCs of several clients; the vendors that were detected are  *)
(* kept in one cache of the process, under the id() of the client object.  *)
(*                                                                         *)
(* A request is known by its dialect and by what it says of its targets.   *)
(***************************************************************************)
EXTENDS Naturals, Sequences, FiniteSets

CONSTANTS
    Calls,
    Clients,        \* client objects over the life of the process
    Ids,            \* what id() may return
    Unset,          \* Python's None
    Collected,      \* the object of a client that is gone
    Vendors,        \* the vendors the BMCs may be of
    Offers,         \* the capabilities an UpdateService may advertise, see Offer
    Operations      \* those the calls are for, see Plan

(* What the strategy of a vendor does with the targets it is given; every  *)
(* other vendor is updated by the generic strategy (registry.py).          *)
Strategy ==
    [generic    |-> "optional", lenovo |-> "optional", nettrix |-> "optional",
     enginetech |-> "required",
     inspur     |-> "dropped",  zte    |-> "dropped",
     xfusion    |-> "dropped",  h3c    |-> "dropped"]

Dialect(v) == IF v \in DOMAIN Strategy THEN v ELSE "generic"

(* UpdateServiceCapabilities as far as it is about one target: whether it  *)
(* supports the parameters Targets and Stage, and whether the target is in *)
(* AllowableTargets, in AllowableStaging, or of an allowable type.  Unset  *)
(* is a field that is absent.                                              *)
Maybe == BOOLEAN \cup {Unset}

Offer == [targets : Maybe, stage : Maybe, allowable : Maybe, staging : Maybe,
          typed : BOOLEAN]

VARIABLES
    maker,      \* the vendor of the BMC of each client
    shows,      \* where its System resource says so
    offer,      \* what its UpdateService advertises now
    object,     \* the id of each client object, Unset before it is created
    vendorCache,    \* VendorDetector._cache
    todo,       \* the steps each call has still to make
    on, kind, wants,    \* its client, operation and parameters
    vendor,     \* the vendor a simple_update is for
    body,       \* the request it has sent
    lost,       \* history: a detection for the client object has failed
    seen,       \* history: what the service advertised during the call
    owners,     \* history: the clients that have had each id, so far
    whose       \* history: those that have had the id of the call's client

bmcs == <<maker, shows, offer>>
objs == <<object, vendorCache>>
ofCall == <<on, kind, wants, vendor, body>>
updateHist == <<lost, seen, owners, whose>>
updateVars == <<bmcs, objs, todo, ofCall, updateHist>>

(* The steps of each operation.                                            *)
Plan ==
    [auto     |-> <<"detect", "discover", "post">>,     \* simple_update
     override |-> <<"discover", "post">>,               \* with a vendor given
     standard |-> <<"action", "check", "post">>,
     stage    |-> <<"check", "action", "check", "post">>,
     push     |-> <<"action", "check", "post">>,        \* upload_firmware_file
     activate |-> <<"action", "post">>,
     flash    |-> <<"action", "allowed", "post">>,      \* bmc_firmware_update
     upload   |-> <<"action", "post">>]                 \* of a key or an image

ASSUME UpdateAssumption ==
    /\ Offers \subseteq Offer
    /\ IsFiniteSet(Clients) /\ IsFiniteSet(Ids)
    /\ Operations \subseteq DOMAIN Plan
    /\ {Unset, Collected} \cap (Ids \cup BOOLEAN) = {} /\ Unset # Collected

UpdateInit ==
    /\ maker \in [Clients -> Vendors]
    /\ shows \in [Clients -> {"name", "key"}]
    /\ offer \in [Clients -> Offers]
    /\ object = [c \in Clients |-> Unset]
    /\ vendorCache = [i \in Ids |-> Unset]
    /\ todo = [u \in Calls |-> <<>>]
    /\ on = [u \in Calls |-> Unset]
    /\ kind = [u \in Calls |-> Unset]
    /\ wants = [u \in Calls |-> {}]
    /\ vendor = [u \in Calls |-> Unset]
    /\ body = [u \in Calls |-> Unset]
    /\ lost = [c \in Clients |-> FALSE]
    /\ seen = [u \in Calls |-> {}]
    /\ owners = [i \in Ids |-> {}] /\ whose = [u \in Calls |-> {}]

Now(u, step) == todo[u] # <<>> /\ Head(todo[u]) = step

Done(u) == todo' = [todo EXCEPT ![u] = Tail(@)]

Abort(u) == todo' = [todo EXCEPT ![u] = <<>>]
-----------------------------------------------------------------------------
(* A client is created; one that is not in use is dropped and collected,   *)
(* and its id is free for another.  What is cached under it stays.         *)
Create(c) ==
    /\ object[c] = Unset
    /\ \E i \in Ids :
          /\ \A d \in Clients : object[d] # i
          /\ object' = [object EXCEPT ![c] = i]
          /\ owners' = [owners EXCEPT ![i] = @ \cup {c}]
    /\ UNCHANGED <<bmcs, vendorCache, todo, ofCall, lost, seen, whose>>

Drop(c) ==
    /\ object[c] \in Ids
    /\ \A u \in Calls : on[u] = c => todo[u] = <<>>
    /\ object' = [object EXCEPT ![c] = Collected]
    /\ UNCHANGED <<bmcs, vendorCache, todo, ofCall, updateHist>>

(* An update, or the end of one, changes what the service advertises; it   *)
(* matters to the calls that look at it.                                   *)
Checked(u, c) ==
    on[u] = c /\ todo[u] # <<>> /\ kind[u] \in {"standard", "stage", "push"}

OfferChanges(c) ==
    /\ \E u \in Calls : Checked(u, c)
    /\ \E o \in Offers : offer' = [offer EXCEPT ![c] = o]
    /\ seen' = [u \in Calls |->
          IF Checked(u, c) THEN seen[u] \cup {offer'[c]} ELSE seen[u]]
    /\ UNCHANGED <<maker, shows, objs, todo, ofCall, lost, owners, whose>>

Begin(u, c, k, w) ==
    /\ todo[u] = <<>> /\ object[c] \in Ids
    /\ todo' = [todo EXCEPT ![u] = Plan[k]]
    /\ on' = [on EXCEPT ![u] = c]
    /\ kind' = [kind EXCEPT ![u] = k]
    /\ wants' = [wants EXCEPT ![u] = w]
    /\ vendor' = [vendor EXCEPT ![u] = IF k = "override" THEN maker[c] ELSE Unset]
    /\ seen' = [seen EXCEPT ![u] = IF k \in {"standard", "stage", "push"}
                                     THEN {offer[c]} ELSE {}]
    /\ whose' = [whose EXCEPT ![u] = IF k = "auto" THEN owners[object[c]] ELSE {}]
    /\ body' = [body EXCEPT ![u] = Unset]
    /\ UNCHANGED <<bmcs, objs, lost, owners>>

(* activate_software and a staged update have targets.                     *)
Wants(k) ==
    CASE k \in {"auto", "override"} -> {{}, {"targets"}}
      [] k \in {"standard", "push"} -> SUBSET {"targets", "stage"}
      [] k = "stage"                -> {{"targets", "stage"}}
      [] k = "activate"             -> {{"targets"}}
      [] OTHER                      -> {{}}
-----------------------------------------------------------------------------
(* VendorDetector.detect: the cache is looked at, and written, under the   *)
(* id of the client.  Only Lenovo and xFusion have keys under Oem that are *)
(* known.                                                                  *)
Recognised(c) ==
    IF shows[c] = "name" \/ maker[c] \in {"lenovo", "xfusion"}
      THEN maker[c] ELSE "generic"

Key_Process(c) == CHOOSE i \in Ids : TRUE

Key(c) == object[c]

Cached(u) ==
    /\ Now(u, "detect") /\ vendorCache[Key(on[u])] # Unset
    /\ vendor' = [vendor EXCEPT ![u] = vendorCache[Key(on[u])]]
    /\ Done(u)
    /\ UNCHANGED <<bmcs, objs, on, kind, wants, body, updateHist>>

Uncached(u) ==
    /\ Now(u, "detect") /\ vendorCache[Key(on[u])] = Unset
    /\ todo' = [todo EXCEPT ![u][1] = "system"]
    /\ UNCHANGED <<bmcs, objs, ofCall, updateHist>>

Detected(u, v) ==
    /\ vendor' = [vendor EXCEPT ![u] = v]
    /\ vendorCache' = [vendorCache EXCEPT ![Key(on[u])] = v]
    /\ Done(u)

Detect(u) ==
    /\ Now(u, "system")
    /\ Detected(u, Recognised(on[u]))
    /\ UNCHANGED <<bmcs, object, on, kind, wants, body, updateHist>>

(* The read fails: the keys under Oem alone are tried, by another read,    *)
(* and if it fails as well the BMC is taken for a generic one.             *)
DetectFails(u) ==
    /\ Now(u, "system")
    /\ LET c == on[u] IN
       \E v \in {"generic"} \cup ({maker[c]} \cap {"lenovo", "xfusion"}) :
          /\ Detected(u, v)
          /\ lost' = [lost EXCEPT ![c] = TRUE]
    /\ UNCHANGED <<bmcs, object, on, kind, wants, body, seen, owners, whose>>
-----------------------------------------------------------------------------
(* A read of the UpdateService, for the target of an action or the push    *)
(* URI: it fails, or there is none or more than one.                       *)
ReadFails(u) ==
    /\ \E step \in {"discover", "action", "check", "allowed"} : Now(u, step)
    /\ Abort(u)
    /\ UNCHANGED <<bmcs, objs, on, kind, wants, vendor, body, updateHist>>

(* Enginetech refuses an update without targets.                           *)
Refused(u) ==
    /\ Strategy[Dialect(vendor[u])] = "required" /\ "targets" \notin wants[u]

Discover(u) ==
    /\ Now(u, "discover")
    /\ IF Refused(u) THEN Abort(u) ELSE Done(u)
    /\ UNCHANGED <<bmcs, objs, on, kind, wants, vendor, body, updateHist>>

(* _action, _allowed (inline, from ActionInfo, or a default list).         *)
ReadAction(u) ==
    /\ Now(u, "action") \/ Now(u, "allowed")
    /\ Done(u)
    /\ UNCHANGED <<bmcs, objs, ofCall, updateHist>>
-----------------------------------------------------------------------------
(* validate_update_parameters.  A service older than the flags says with   *)
(* its lists that it supports the parameters.                              *)
Supports_Unsaid(o, p) ==
    CASE p = "targets" -> o.targets # FALSE
      [] p = "stage"   -> o.stage = TRUE \/ (o.stage = Unset /\ o.staging # Unset)

Supports(o, p) ==
    CASE p = "targets" -> \/ o.targets = TRUE
                          \/ o.targets = Unset /\ (o.allowable # Unset \/ o.typed)
      [] p = "stage"   -> o.stage = TRUE \/ (o.stage = Unset /\ o.staging # Unset)

Listed(o, w) ==
    IF "stage" \in w THEN o.staging = TRUE ELSE o.allowable = TRUE \/ o.typed

Valid(o, w) ==
    /\ \A p \in w : Supports(o, p)
    /\ "targets" \in w => Listed(o, w)

CheckOffer(u) ==
    /\ Now(u, "check")
    /\ IF wants[u] = {} \/ Valid(offer[on[u]], wants[u])
         THEN Done(u) ELSE Abort(u)
    /\ UNCHANGED <<bmcs, objs, on, kind, wants, vendor, body, updateHist>>

(* Untyped parameters of upload_firmware_file are not checked.             *)
CheckSkipped(u) ==
    /\ Now(u, "check") /\ kind[u] = "push"
    /\ Done(u)
    /\ kind' = [kind EXCEPT ![u] = "raw push"]
    /\ UNCHANGED <<bmcs, objs, on, wants, vendor, body, updateHist>>
-----------------------------------------------------------------------------
Simple(u) == kind[u] \in {"auto", "override"}

(* The targets a request carries.                                          *)
Sends(u) ==
    IF Simple(u) /\ Strategy[Dialect(vendor[u])] = "dropped"
      THEN wants[u] \ {"targets"} ELSE wants[u]

Post(u) ==
    /\ Now(u, "post")
    /\ body' = [body EXCEPT ![u] =
          [dialect |-> IF Simple(u) THEN Dialect(vendor[u]) ELSE "standard",
           says    |-> Sends(u)]]
    /\ Done(u)
    /\ UNCHANGED <<bmcs, objs, on, kind, wants, vendor, updateHist>>
-----------------------------------------------------------------------------
Detection(u) == Cached(u) \/ Uncached(u) \/ Detect(u) \/ DetectFails(u)

Request(u) ==
    \/ ReadFails(u) \/ Discover(u) \/ ReadAction(u)
    \/ CheckOffer(u) \/ CheckSkipped(u) \/ Post(u)

UpdateNext ==
    \/ \E c \in Clients : Create(c) \/ Drop(c) \/ OfferChanges(c)
    \/ \E u \in Calls :
          \/ \E c \in Clients, k \in Operations :
                \E w \in Wants(k) : Begin(u, c, k, w)
          \/ Detection(u) \/ Request(u)

UpdateSpec == UpdateInit /\ [][UpdateNext]_updateVars
-----------------------------------------------------------------------------
Kinds == DOMAIN Plan \cup {"raw push"}

Steps == {"detect", "system", "discover", "action", "check", "allowed", "post"}

Bodies == [dialect : DOMAIN Strategy \cup {"standard"},
           says : SUBSET {"targets", "stage"}]

UpdateTypeOK ==
    /\ maker \in [Clients -> Vendors] /\ shows \in [Clients -> {"name", "key"}]
    /\ offer \in [Clients -> Offers]
    /\ object \in [Clients -> Ids \cup {Unset, Collected}]
    /\ vendorCache \in [Ids -> Vendors \cup {"generic", Unset}]
    /\ todo \in [Calls -> Seq(Steps)]
    /\ on \in [Calls -> Clients \cup {Unset}]
    /\ kind \in [Calls -> Kinds \cup {Unset}]
    /\ wants \in [Calls -> SUBSET {"targets", "stage"}]
    /\ vendor \in [Calls -> Vendors \cup {"generic", Unset}]
    /\ body \in [Calls -> Bodies \cup {Unset}]
    /\ lost \in [Clients -> BOOLEAN]
    /\ seen \in [Calls -> SUBSET Offers]
    /\ owners \in [Ids -> SUBSET Clients] /\ whose \in [Calls -> SUBSET Clients]

(* The dialects a BMC may be addressed in.  Where a detection has failed   *)
(* for its client once, that is cached, and from then on, as where the     *)
(* vendor shows in its keys alone, it may be the generic one.              *)
Fits(c, dialect) ==
    \/ dialect = Dialect(maker[c])
    \/ dialect = "generic" /\ (lost[c] \/ shows[c] = "key")

(* An update whose vendor is detected speaks a dialect that fits the BMC   *)
(* of its client, or of an earlier client that had the same id(): the      *)
(* cache of VendorDetector outlives its clients, and their ids do not.  A  *)
(* client whose id was no other's before is never taken for another.       *)
RightDialect ==
    \A u \in Calls : kind[u] = "auto" /\ body[u] # Unset =>
        \E c \in whose[u] : Fits(c, body[u].dialect)

(* "Results are cached per client instance" (VendorDetector): the dialect  *)
(* fits the BMC the update is sent to.                                     *)
OwnDialect ==
    \A u \in Calls : kind[u] = "auto" /\ body[u] # Unset =>
        Fits(on[u], body[u].dialect)

(* A standard update carries a parameter, and a target, only if the        *)
(* service advertised at one moment of the call that it takes all of them, *)
(* in the words of UpdateServiceCapabilities.                              *)
Takes(o, says) ==
    /\ "stage" \in says => o.stage # FALSE /\ (o.stage = TRUE \/ o.staging # Unset)
    /\ "targets" \in says =>
          /\ o.targets = TRUE \/ (o.targets = Unset /\ ~(o.allowable = Unset /\ ~o.typed))
          /\ "stage" \in says => o.staging = TRUE
          /\ "stage" \notin says => TRUE \in {o.allowable, o.typed}

AdvertisedOnly ==
    \A u \in Calls : kind[u] \in {"standard", "stage", "push"} /\ body[u] # Unset =>
        \E o \in seen[u] : Takes(o, body[u].says)

(* An update that is staged, or for chosen targets, is not sent as one     *)
(* that is neither: "targets: Optional list of firmware target paths"      *)
(* (simple_update).                                                        *)
TargetsKept ==
    \A u \in Calls : body[u] # Unset => body[u].says = wants[u]
=============================================================================
