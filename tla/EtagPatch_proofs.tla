--------------------------- MODULE EtagPatch_proofs ---------------------------
(***************************************************************************)
(* Proofs about EtagPatch, for every use of the client by any number of    *)
(* threads, and wherever the BMC puts its ETags: types, and what a PATCH   *)
(* is worth that follows a read.                                           *)
(***************************************************************************)
EXTENDS EtagPatch, TLAPS

Issued == 0..version \cup {None}

LEMMA MoreIssued ==
    ASSUME version \in Nat, version' \in {version, version + 1}
    PROVE  Issued \subseteq Issued'
  BY DEF Issued

LEMMA InitTypes == Init => TypeOK
  BY EtagAssumption DEF Init, TypeOK, PCs

LEMMA StepTypes == TypeOK /\ [Next]_vars => TypeOK'
<1> SUFFICES ASSUME TypeOK, [Next]_vars PROVE TypeOK'
  OBVIOUS
<1> USE EtagAssumption DEF TypeOK, PCs, Goto, StoreEtag, Write, history
<1>1. CASE OtherWrite
  <2>1. version' \in 0..MaxVersion /\ Issued \subseteq Issued'
    BY <1>1, MoreIssued DEF OtherWrite
  <2> QED
    BY <1>1, <2>1 DEF OtherWrite, Issued
<1>2. ASSUME NEW t \in Threads, NEW o \in Ops, Start(t, o) PROVE TypeOK'
  BY <1>2 DEF Start
<1>3. ASSUME NEW t \in Threads, Step(t) PROVE TypeOK'
  <2>1. CASE Lookup(t)
    BY <2>1 DEF Lookup
  <2>2. CASE Get(t)
    BY <2>2 DEF Get
  <2>3. CASE GetFails(t)
    BY <2>3 DEF GetFails
  <2>4. CASE Store(t)
    BY <2>4 DEF Store
  <2>5. CASE Attach(t)
    BY <2>5 DEF Attach
  <2>6. CASE Match(t)
    BY <2>6 DEF Match, GetEtag
  <2>7. CASE Applied(t)
    <3>1. version' = version + 1 /\ version' \in 0..MaxVersion
      BY <2>7 DEF Applied
    <3>2. Issued \subseteq Issued' /\ version' \in Issued'
      BY <3>1, MoreIssued DEF Issued
    <3>3. known' \in [Threads -> Issued'] /\ answer' \in [Threads -> Issued']
      BY <2>7, <3>1, <3>2 DEF Applied, Issued
    <3> QED
      BY <2>7, <3>1, <3>2, <3>3 DEF Applied, Issued
  <2>8. CASE Refused(t)
    BY <2>8 DEF Refused
  <2>9. CASE Lost(t)
    <3>1. version' \in {version, version + 1} /\ version' \in 0..MaxVersion
      BY <2>9 DEF Lost
    <3>2. Issued \subseteq Issued'
      BY <3>1, MoreIssued
    <3> QED
      BY <2>9, <3>1, <3>2 DEF Lost, Issued
  <2>10. CASE StoreNew(t)
    BY <2>10 DEF StoreNew
  <2>11. CASE StoreError(t)
    BY <2>11 DEF StoreError
  <2> QED
    BY <1>3, <2>1, <2>2, <2>3, <2>4, <2>5, <2>6, <2>7, <2>8, <2>9, <2>10, <2>11
    DEF Step
<1>4. CASE UNCHANGED vars
  BY <1>4 DEF vars
<1> QED
  BY <1>1, <1>2, <1>3, <1>4 DEF Next

(* The types of the cache and the threads' locals, and that no ETag is     *)
(* known before the BMC has issued it, for every mixture of operations.    *)
THEOREM EtagTypes == Spec => []TypeOK
  BY InitTypes, StepTypes, PTL DEF Spec
-----------------------------------------------------------------------------
(* Where the ETag of a thread's read is: in the answer until it is stored, *)
(* in the cache until it is taken out, then in the model of an operation   *)
(* that passes it on, and at last in If-Match.  The ETag of the body is in *)
(* the model from the start.                                               *)
OwnAt(t) ==
    /\ own[t] # {} => known[t] # None
    /\ \/ op[t] = "read"
       \/ pc[t] \in {"idle", "lookup", "get", "store_new", "store_error"}
       => own[t] = {}
    /\ pc[t] = "store" /\ "header" \in own[t] => answer[t] = known[t]
    /\ pc[t] = "attach" /\ "header" \in own[t] => cache = known[t]
    /\ pc[t] \in {"store", "attach"} /\ op[t] = "entity"
       => model[t] = IF "body" \in own[t] THEN known[t] ELSE None
    /\ pc[t] = "match" /\ op[t] = "entity" /\ HasOwnEtag(t)
       => model[t] = known[t]
    /\ pc[t] = "match" /\ op[t] # "entity" /\ "header" \in own[t]
       => cache = known[t]
    /\ pc[t] = "wire" /\ HasOwnEtag(t) => ifMatch[t] = known[t]

OwnInv == \A t \in Threads : OwnAt(t)

LEMMA InitOwn == Init => OwnInv
  BY DEF Init, OwnInv, OwnAt, HasOwnEtag

(* A thread loses the ETag of its read when another one changes the cache  *)
(* that holds it, and is not concerned by anything else others do.         *)
LEMMA OthersStore ==
    ASSUME NEW t \in Threads, NEW x \in Threads, x # t, TypeOK, OwnAt(x),
           StoreEtag(t), pc'[x] = pc[x], op'[x] = op[x],
           UNCHANGED <<answer, model, ifMatch, known>>
    PROVE  OwnAt(x)'
<1>1. own'[x] = IF Exposed(x) /\ cache' # cache
                  THEN own[x] \ {"header"} ELSE own[x]
  BY DEF StoreEtag
<1>2. CASE Exposed(x) /\ cache' # cache
  <2>1. /\ "header" \notin own'[x]
        /\ "body" \in own'[x] <=> "body" \in own[x]
        /\ own'[x] # {} => own[x] # {}
    BY <1>1, <1>2
  <2>2. pc[x] \in {"attach", "match"}
    BY <1>2 DEF Exposed
  <2> QED
    BY <2>1, <2>2 DEF OwnAt, HasOwnEtag
<1>3. CASE ~(Exposed(x) /\ cache' # cache)
  <2>1. own'[x] = own[x]
    BY <1>1, <1>3
  <2>2. CASE cache' = cache
    BY <2>1, <2>2 DEF OwnAt, HasOwnEtag
  <2>3. CASE ~Exposed(x)
    BY <2>1, <2>3 DEF OwnAt, HasOwnEtag, Exposed
  <2> QED
    BY <1>3, <2>2, <2>3
<1> QED
  BY <1>2, <1>3

LEMMA OthersRest ==
    ASSUME NEW t \in Threads, NEW x \in Threads, x # t, TypeOK, OwnAt(x),
           Step(t), cache' = cache, own'[x] = own[x]
    PROVE  OwnAt(x)'
<1> USE DEF TypeOK, Goto
<1>1. /\ pc'[x] = pc[x] /\ op'[x] = op[x] /\ answer'[x] = answer[x]
      /\ model'[x] = model[x] /\ ifMatch'[x] = ifMatch[x]
      /\ known'[x] = known[x]
  <2>1. CASE Lookup(t) \/ Get(t) \/ GetFails(t)
    BY <2>1 DEF Lookup, Get, GetFails, history
  <2>2. CASE Store(t) \/ Attach(t) \/ Match(t)
    BY <2>2 DEF Store, Attach, Match, history
  <2>3. CASE Applied(t) \/ Refused(t) \/ Lost(t)
    BY <2>3 DEF Applied, Refused, Lost
  <2>4. CASE StoreNew(t) \/ StoreError(t)
    BY <2>4 DEF StoreNew, StoreError
  <2> QED
    BY <2>1, <2>2, <2>3, <2>4 DEF Step
<1> QED
  BY <1>1 DEF OwnAt, HasOwnEtag

Storing(t) == Store(t) \/ StoreNew(t) \/ StoreError(t)

LEMMA StepOthers ==
    ASSUME NEW t \in Threads, NEW x \in Threads, x # t, TypeOK, OwnAt(x),
           Step(t)
    PROVE  OwnAt(x)'
<1>1. CASE Storing(t)
  <2>1. /\ StoreEtag(t) /\ pc'[x] = pc[x] /\ op'[x] = op[x]
        /\ UNCHANGED <<answer, model, ifMatch, known>>
    BY <1>1 DEF Storing, Store, StoreNew, StoreError, Goto, TypeOK
  <2> QED
    BY <2>1, OthersStore
<1>2. CASE ~Storing(t)
  <2>1. cache' = cache /\ own'[x] = own[x]
    BY <1>2 DEF Storing, Step, Lookup, Get, GetFails, Attach, Match, Applied,
                Refused, Lost, history, TypeOK
  <2> QED
    BY <2>1, OthersRest
<1> QED
  BY <1>1, <1>2

LEMMA StepSelf ==
    ASSUME NEW t \in Threads, TypeOK, OwnAt(t), Step(t)
    PROVE  OwnAt(t)'
<1> USE EtagAssumption DEF TypeOK, OwnAt, Goto, HasOwnEtag, history
<1>1. CASE Lookup(t)
  BY <1>1 DEF Lookup
<1>2. CASE Get(t)
  <2>1. known'[t] = version /\ version # None /\ pc'[t] = "store"
    BY <1>2 DEF Get
  <2>2. /\ "header" \in own'[t] => answer'[t] = version
        /\ op[t] = "entity"
           => model'[t] = IF "body" \in own'[t] THEN version ELSE None
    BY <1>2 DEF Get
  <2> QED
    BY <1>2, <2>1, <2>2 DEF Get
<1>3. CASE GetFails(t)
  BY <1>3 DEF GetFails
<1>4. CASE Store(t)
  <2>1. own'[t] = own[t]
    BY <1>4 DEF Store, StoreEtag
  <2>2. "header" \in own[t] => cache' = known[t]
    BY <1>4 DEF Store, StoreEtag
  <2> QED
    BY <1>4, <2>1, <2>2 DEF Store
<1>5. CASE Attach(t)
  <2>1. own'[t] = own[t] /\ known'[t] = known[t] /\ cache' = cache
    BY <1>5 DEF Attach
  <2>2. op[t] = "entity" /\ "body" \in own[t] => model'[t] = known[t]
    BY <1>5 DEF Attach
  <2>3. op[t] = "entity" /\ "body" \notin own[t] => model'[t] = cache
    BY <1>5 DEF Attach
  <2>4. op'[t] = op[t] /\ pc'[t] = IF op[t] = "read" THEN "idle" ELSE "match"
    BY <1>5 DEF Attach
  <2>5. pc[t] = "attach"
    BY <1>5 DEF Attach
  <2>6. CASE op[t] = "read"
    BY <2>1, <2>4, <2>6
  <2>7. CASE op[t] = "entity"
    BY <2>1, <2>2, <2>3, <2>4, <2>5, <2>7
  <2>8. CASE op[t] \notin {"read", "entity"}
    BY <2>1, <2>4, <2>5, <2>8
  <2> QED
    BY <2>6, <2>7, <2>8
<1>6. CASE Match(t)
  BY <1>6 DEF Match, GetEtag
<1>7. CASE Applied(t)
  BY <1>7 DEF Applied
<1>8. CASE Refused(t)
  BY <1>8 DEF Refused
<1>9. CASE Lost(t)
  BY <1>9 DEF Lost
<1>10. CASE StoreNew(t)
  BY <1>10 DEF StoreNew, StoreEtag
<1>11. CASE StoreError(t)
  BY <1>11 DEF StoreError, StoreEtag
<1> QED
  BY <1>1, <1>2, <1>3, <1>4, <1>5, <1>6, <1>7, <1>8, <1>9, <1>10, <1>11 DEF Step

LEMMA StepOwn == TypeOK /\ OwnInv /\ [Next]_vars => OwnInv'
<1> SUFFICES ASSUME TypeOK, OwnInv, [Next]_vars, NEW x \in Threads
             PROVE  OwnAt(x)'
  BY DEF OwnInv
<1>1. OwnAt(x)
  BY DEF OwnInv
<1>2. CASE OtherWrite \/ UNCHANGED vars
  BY <1>1, <1>2 DEF OtherWrite, vars, history, OwnAt, HasOwnEtag
<1>3. ASSUME NEW t \in Threads, NEW o \in Ops, Start(t, o) PROVE OwnAt(x)'
  BY <1>1, <1>3 DEF Start, Goto, TypeOK, history, OwnAt, HasOwnEtag
<1>4. ASSUME NEW t \in Threads, Step(t) PROVE OwnAt(x)'
  BY <1>1, <1>4, StepOthers, StepSelf
<1> QED
  BY <1>2, <1>3, <1>4 DEF Next

(* The inductive invariant holds in every reachable state.                 *)
THEOREM OwnInvariant == Spec => []OwnInv
  BY InitOwn, StepOwn, EtagTypes, PTL DEF Spec

(* A PATCH that follows a read loses no update, for any number of threads, *)
(* whatever they and other clients read and write meanwhile, unless the    *)
(* BMC gave no ETag or another thread displaced it from the cache.         *)
THEOREM UpdatesAreKept == Spec => ReadersKeepUpdates
<1>1. OwnInv => [\A t \in Threads :
          Applied(t) /\ HasOwnEtag(t) => known[t] = version]_vars
  BY DEF OwnInv, OwnAt, HasOwnEtag, Applied, Goto, Write, Matches
<1> QED
  BY <1>1, OwnInvariant, PTL DEF Spec, ReadersKeepUpdates

(* Nor is such a PATCH refused unless the resource has changed.            *)
THEOREM ConflictsAreReal == Spec => ReadersConflictIsReal
<1>1. OwnInv => [\A t \in Threads :
          Refused(t) /\ HasOwnEtag(t) => known[t] # version]_vars
  BY DEF OwnInv, OwnAt, HasOwnEtag, Refused, Goto, Matches
<1> QED
  BY <1>1, OwnInvariant, PTL DEF Spec, ReadersConflictIsReal
=============================================================================
