------------------------------ MODULE EtagPatch ------------------------------
(***************************************************************************)
(* Conditional PATCH of one resource by the threads of one client, while   *)
(* other clients of the BMC change it too (redfish_sdk/http_client.py, and *)
(* the callers in client.py and managers/).                                *)
(*                                                                         *)
(* The ETag of version v of the resource is v itself.  The HTTP client     *)
(* keeps the ETag of the latest answer it stored for the path in a cache   *)
(* that its threads share; a model read from the BMC keeps one of its own. *)
(* Whether an answer carries an ETag is up to the BMC.                     *)
(***************************************************************************)
EXTENDS Naturals

CONSTANTS
    Threads,        \* the threads that share the client
    Ops,            \* the operations they may call, see Op
    OnGet,          \* where a GET may have its ETag: a set of subsets of Places
    OnPatch,        \* whether a successful PATCH answers with the new ETag
    OnError,        \* whether a refusal (412) answers with the current ETag
    Others,         \* other clients write the resource
    None,           \* no ETag; in If-Match, the wildcard "*"
    MaxVersion,     \* bound: versions of the resource
    MaxOps          \* bound: operations one thread calls

(* "read" is a typed GET; "generic" is RedfishClient.patch; "manager" reads *)
(* the resource, patches it through the cache and reads it back             *)
(* (set_indicator_led, set_drive_indicator_led, set_boot_option_enabled);   *)
(* "entity" reads it and patches it with the ETag of the model it read      *)
(* (update_secure_boot, PolicyServiceManager.update).                       *)
Op == {"read", "generic", "manager", "entity"}

Places == {"header", "body"}

ASSUME EtagAssumption ==
    /\ Ops \subseteq Op
    /\ OnGet \subseteq SUBSET Places
    /\ OnPatch \subseteq BOOLEAN /\ OnError \subseteq BOOLEAN
    /\ Others \in BOOLEAN
    /\ MaxVersion \in Nat /\ MaxOps \in Nat
    /\ None \notin Nat

VARIABLES
    version,    \* BMC: the current version of the resource
    cache,      \* _last_etag[path], or None
    pc,         \* where each thread is
    op,         \* the operation it runs
    answer,     \* the ETag header of the answer it has just received
    model,      \* odata_etag of the model it has read
    ifMatch,    \* the If-Match header of its PATCH
    left,       \* how many operations it may still call
    known,      \* history: the latest version its caller was told of
    own         \* history: where the ETag of its latest read still is

history == <<known, own>>
vars == <<version, cache, pc, op, answer, model, ifMatch, left, history>>

Etags == Nat \cup {None}
PCs == {"idle", "lookup", "get", "store", "attach", "match", "wire",
        "store_new", "store_error"}

Init ==
    /\ version = 0
    /\ cache = None
    /\ pc = [t \in Threads |-> "idle"]
    /\ op = [t \in Threads |-> "read"]
    /\ answer = [t \in Threads |-> None]
    /\ model = [t \in Threads |-> None]
    /\ ifMatch = [t \in Threads |-> None]
    /\ left = [t \in Threads |-> MaxOps]
    /\ known = [t \in Threads |-> None]
    /\ own = [t \in Threads |-> {}]

Goto(t, from, to) == pc[t] = from /\ pc' = [pc EXCEPT ![t] = to]

(* Another client writes the resource.                                     *)
OtherWrite ==
    /\ Others /\ version < MaxVersion
    /\ version' = version + 1
    /\ UNCHANGED <<cache, pc, op, answer, model, ifMatch, left, history>>

Start(t, o) ==
    /\ left[t] > 0
    /\ Goto(t, "idle", IF o = "generic" THEN "lookup" ELSE "get")
    /\ op' = [op EXCEPT ![t] = o]
    /\ model' = [model EXCEPT ![t] = None]
    /\ left' = [left EXCEPT ![t] = @ - 1]
    /\ UNCHANGED <<version, cache, answer, ifMatch, history>>

(* _send_generic_patch reads the resource only when nothing is cached.     *)
Lookup(t) ==
    /\ Goto(t, "lookup", IF cache = None THEN "get" ELSE "match")
    /\ UNCHANGED <<version, cache, op, answer, model, ifMatch, left, history>>
-----------------------------------------------------------------------------
(* get and get_raw                                                         *)
Get(t) ==
    /\ Goto(t, "get", "store")
    /\ known' = [known EXCEPT ![t] = version]
    /\ \E places \in OnGet :
          /\ own' = [own EXCEPT ![t] = IF op[t] = "read" THEN {} ELSE places]
          /\ answer' = [answer EXCEPT
                ![t] = IF "header" \in places THEN version ELSE None]
          /\ model' = [model EXCEPT
                ![t] = IF "body" \in places /\ op[t] # "generic"
                       THEN version ELSE None]
    /\ UNCHANGED <<version, cache, op, ifMatch, left>>

(* An error, or no answer: only _send_generic_patch goes on.               *)
GetFails(t) ==
    /\ Goto(t, "get", IF op[t] = "generic" THEN "match" ELSE "idle")
    /\ UNCHANGED <<version, cache, op, answer, model, ifMatch, left, history>>

(* The ETag of the header a thread has received is kept in the cache only. *)
Exposed(t) ==
    \/ pc[t] = "attach"
    \/ pc[t] = "match" /\ op[t] # "entity"

(* _store_etag                                                             *)
StoreEtag(t) ==
    /\ cache' = IF answer[t] # None THEN answer[t] ELSE cache
    /\ own' = [x \in Threads |->
          IF x # t /\ Exposed(x) /\ cache' # cache
            THEN own[x] \ {"header"} ELSE own[x]]

Store(t) ==
    /\ Goto(t, "store", IF op[t] = "generic" THEN "match" ELSE "attach")
    /\ StoreEtag(t)
    /\ UNCHANGED <<version, op, answer, model, ifMatch, left, known>>

Attach_Always(t) ==
    /\ Goto(t, "attach", IF op[t] = "read" THEN "idle" ELSE "match")
    /\ model' = [model EXCEPT ![t] = IF cache # None THEN cache ELSE @]
    /\ UNCHANGED <<version, cache, op, answer, ifMatch, left, history>>

(* A model without an ETag of its own is given the cached one.             *)
Attach(t) ==
    /\ Goto(t, "attach", IF op[t] = "read" THEN "idle" ELSE "match")
    /\ model' = [model EXCEPT ![t] = IF @ = None THEN cache ELSE @]
    /\ UNCHANGED <<version, cache, op, answer, ifMatch, left, history>>
-----------------------------------------------------------------------------
(* patch and patch_raw                                                     *)
GetEtag_Cached(t) == cache

(* _get_etag: the ETag of the body, else the cached one, else "*".         *)
GetEtag(t) == IF op[t] = "entity" /\ model[t] # None THEN model[t] ELSE cache

Match(t) ==
    /\ Goto(t, "match", "wire")
    /\ ifMatch' = [ifMatch EXCEPT ![t] = GetEtag(t)]
    /\ UNCHANGED <<version, cache, op, answer, model, left, history>>

Matches(t) == ifMatch[t] \in {version, None}

Write(t) ==
    /\ Matches(t) /\ version < MaxVersion
    /\ version' = version + 1

Applied(t) ==
    /\ Goto(t, "wire", "store_new")
    /\ Write(t)
    /\ known' = [known EXCEPT ![t] = version + 1]
    /\ \E tagged \in OnPatch :
          answer' = [answer EXCEPT ![t] = IF tagged THEN version + 1 ELSE None]
    /\ own' = [own EXCEPT ![t] = {}]
    /\ UNCHANGED <<cache, op, model, ifMatch, left>>

Refused(t) ==
    /\ Goto(t, "wire", "store_error")
    /\ ~Matches(t)
    /\ \E tagged \in OnError :
          answer' = [answer EXCEPT ![t] = IF tagged THEN version ELSE None]
    /\ own' = [own EXCEPT ![t] = {}]
    /\ UNCHANGED <<version, cache, op, model, ifMatch, left, known>>

(* No answer; the PATCH may have been applied.                             *)
Lost(t) ==
    /\ Goto(t, "wire", "idle")
    /\ UNCHANGED version \/ Write(t)
    /\ own' = [own EXCEPT ![t] = {}]
    /\ UNCHANGED <<cache, op, answer, model, ifMatch, left, known>>

(* A manager reads the resource back.                                      *)
StoreNew(t) ==
    /\ Goto(t, "store_new", IF op[t] = "manager" THEN "get" ELSE "idle")
    /\ StoreEtag(t)
    /\ op' = [op EXCEPT ![t] = IF @ = "manager" THEN "read" ELSE @]
    /\ UNCHANGED <<version, answer, model, ifMatch, left, known>>

(* _store_etag comes before _raise_for_status.                             *)
StoreError(t) ==
    /\ Goto(t, "store_error", "idle")
    /\ StoreEtag(t)
    /\ UNCHANGED <<version, op, answer, model, ifMatch, left, known>>
-----------------------------------------------------------------------------
Step(t) ==
    \/ Lookup(t) \/ Get(t) \/ GetFails(t) \/ Store(t) \/ Attach(t)
    \/ Match(t) \/ Applied(t) \/ Refused(t) \/ Lost(t)
    \/ StoreNew(t) \/ StoreError(t)

Next ==
    \/ \E t \in Threads : Step(t) \/ \E o \in Ops : Start(t, o)
    \/ OtherWrite

Spec == Init /\ [][Next]_vars
-----------------------------------------------------------------------------
(* Types, and no ETag is known before the BMC has issued it.               *)
TypeOK ==
    LET Issued == 0..version \cup {None}
    IN  /\ version \in 0..MaxVersion
        /\ cache \in Issued
        /\ pc \in [Threads -> PCs]
        /\ op \in [Threads -> {"read"} \cup Ops]
        /\ answer \in [Threads -> Issued]
        /\ model \in [Threads -> Issued]
        /\ ifMatch \in [Threads -> Issued]
        /\ left \in [Threads -> 0..MaxOps]
        /\ known \in [Threads -> Issued]
        /\ own \in [Threads -> SUBSET Places]

(* An operation has an ETag of its own to patch with: that of the body it  *)
(* has parsed, when it passes the model on, or that of the header, unless  *)
(* another thread of the client has changed the cache between the moment   *)
(* it was stored there and the moment it was taken out again.              *)
HasOwnEtag(t) ==
    \/ "header" \in own[t]
    \/ "body" \in own[t] /\ op[t] = "entity"

(* An operation that reads the resource before it patches it, and that has *)
(* an ETag of its own, never overwrites a write it has not read: an older  *)
(* cache entry, or one left by another thread at any other moment, does no *)
(* harm.                                                                   *)
ReadersKeepUpdates ==
    [][\A t \in Threads : Applied(t) /\ HasOwnEtag(t) => known[t] = version]_vars

(* Nor is such an operation refused, unless the resource has changed since *)
(* it was read.                                                            *)
ReadersConflictIsReal ==
    [][\A t \in Threads : Refused(t) /\ HasOwnEtag(t) => known[t] # version]_vars

(* However it is patched: a PATCH that names an ETag is applied only to    *)
(* the version its caller was told of last.                                *)
NoLostUpdate ==
    [][\A t \in Threads :
          Applied(t) /\ ifMatch[t] # None => known[t] = version]_vars

(* However it is patched: a PATCH is refused only when the resource has    *)
(* changed since its caller was told of it.                                *)
NoSpuriousConflict ==
    [][\A t \in Threads : Refused(t) => known[t] # version]_vars

(* An operation that reads the resource before it patches it never sends   *)
(* the wildcard (the managers read "so the HTTP layer has a fresh ETag for *)
(* If-Match").                                                             *)
ReadsMakeConditional ==
    \A t \in Threads :
        pc[t] = "wire" /\ op[t] \in {"manager", "entity"} => ifMatch[t] # None
=============================================================================
