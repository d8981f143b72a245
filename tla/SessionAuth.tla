----------------------------- MODULE SessionAuth -----------------------------
(***************************************************************************)
(* The authentication state of one RedfishHttpClient shared by several     *)
(* threads, and the BMC's session table (redfish_sdk/http_client.py,       *)
(* redfish_sdk/managers/session.py).                                       *)
(*                                                                         *)
(* The client keeps the mode, the session key, the session location, the   *)
(* cached refresh failure and the headers of its requests.Session in five  *)
(* separate attributes.  Only _refresh_session holds a lock; every other   *)
(* reader and writer of the five goes without it, so every assignment, and *)
(* every read a decision rests on, is a step of its own here.              *)
(*                                                                         *)
(* A session is identified with its token; a location, where the BMC gives *)
(* one, names a session.  A request is one exchange (the default           *)
(* retry_5xx = 0; HttpSend models the retry loop).                         *)
(***************************************************************************)
EXTENDS Naturals, FiniteSets

CONSTANTS
    Threads,    \* the threads that share the client
    Tokens,     \* the tokens the BMC can still issue in this run, plus Given
    Given,      \* the session_key handed to the constructor
    None,       \* Python's None
    Ops,        \* the operations the threads may call
    Starts,     \* the ways the client may have been constructed
    MaxOps      \* bound: the operations one thread calls

ASSUME AuthAssumption ==
    /\ Given \in Tokens
    /\ None \notin Tokens \cup Threads
    /\ Ops \subseteq {"read", "write", "create", "delete", "close"}
    /\ Starts \subseteq {"basic", "login", "resume"}
    /\ MaxOps \in Nat

VARIABLES
    mode,       \* _auth_mode
    key,        \* _session_key
    location,   \* _session_location: the session it names, or None
    failure,    \* _session_refresh_failure: {} or {the key it was cached for}
    header,     \* the managed headers of _session: Authorization, X-Auth-Token
    lock,       \* _session_refresh_lock: its holder, or None
    live,       \* BMC: the sessions it accepts
    issued,     \* BMC: every token it ever issued
    pc,         \* where each thread is
    op,         \* the operation it runs
    meth,       \* the method of its current request
    tries,      \* how often that request went on the wire
    observed,   \* observed_session_key
    cred,       \* the managed headers its request on the wire carries
    target,     \* the session it is installing or deleting
    left,       \* how many operations it may still call
    logins,     \* history: login POSTs of _refresh_session, by observed key
    gone,       \* history: sessions whose deletion the BMC acknowledged to delete()
    closed      \* history: close() has returned

auth  == <<mode, key, location, failure, header>>
bmc   == <<live, issued>>
local == <<op, meth, tries, observed, cred, target, left>>
hist  == <<logins, gone, closed>>
vars  == <<auth, lock, bmc, pc, local, hist>>

Keys    == Tokens \cup {None}
Headers == [basic : BOOLEAN, token : Keys]
NoCred  == [basic |-> FALSE, token |-> None]

RequestPCs == {"mode", "key", "observe", "send", "wire"}
RefreshPCs == {"acquire", "check", "cached", "login"}
SetPCs     == {"set_mode", "set_key", "set_location", "clear_failure",
               "drop_basic", "put_token"}
ResetPCs   == {"reset_mode", "reset_key", "reset_location", "reset_failure",
               "drop_token", "put_basic"}
PCs == {"idle", "clear", "close", "logout"}
         \cup RequestPCs \cup RefreshPCs \cup SetPCs \cup ResetPCs

Goto(t, from, to) == pc[t] = from /\ pc' = [pc EXCEPT ![t] = to]

(* The operation returns to its caller, or raises.  A thread between two   *)
(* operations has no locals.                                               *)
Return(t) ==
    /\ pc' = [pc EXCEPT ![t] = "idle"]
    /\ meth' = [meth EXCEPT ![t] = "GET"]
    /\ tries' = [tries EXCEPT ![t] = 0]
    /\ observed' = [observed EXCEPT ![t] = None]
    /\ cred' = [cred EXCEPT ![t] = NoCred]
    /\ target' = [target EXCEPT ![t] = None]
    /\ UNCHANGED <<op, left>>
-----------------------------------------------------------------------------
(* __init__: Basic credentials, session mode without a key (the first      *)
(* request logs in), or an existing session whose location is optional.    *)
Constructed(m, k) ==
    /\ mode = m
    /\ key = k
    /\ header = [basic |-> m = "basic", token |-> k]
    /\ live = {k} \ {None}

Init ==
    /\ \/ "basic" \in Starts /\ Constructed("basic", None) /\ location = None
       \/ "login" \in Starts /\ Constructed("session", None) /\ location = None
       \/ "resume" \in Starts /\ Constructed("session", Given)
          /\ location \in {Given, None}
    /\ failure = {}
    /\ lock = None
    /\ issued = {Given}
    /\ pc = [t \in Threads |-> "idle"]
    /\ op = [t \in Threads |-> "read"]
    /\ meth = [t \in Threads |-> "GET"]
    /\ tries = [t \in Threads |-> 0]
    /\ observed = [t \in Threads |-> None]
    /\ cred = [t \in Threads |-> NoCred]
    /\ target = [t \in Threads |-> None]
    /\ left = [t \in Threads |-> MaxOps]
    /\ logins = [k \in Keys |-> 0]
    /\ gone = {}
    /\ closed = FALSE

(* A caller enters the client.  create() and delete() first read: the root *)
(* service and the session collection.                                     *)
Start(t, o) ==
    /\ ~closed
    /\ left[t] > 0
    /\ Goto(t, "idle", IF o = "close" THEN "close" ELSE "mode")
    /\ op' = [op EXCEPT ![t] = o]
    /\ meth' = [meth EXCEPT ![t] = IF o = "write" THEN "POST" ELSE "GET"]
    /\ left' = [left EXCEPT ![t] = @ - 1]
    /\ UNCHANGED <<tries, observed, cred, target, auth, lock, bmc, hist>>
-----------------------------------------------------------------------------
(* _request, before the exchange: session mode without a key logs in       *)
(* first.  Mode and key are two reads.                                     *)
CheckMode(t) ==
    /\ Goto(t, "mode", IF mode = "session" THEN "key" ELSE "observe")
    /\ UNCHANGED <<local, auth, lock, bmc, hist>>

CheckKey(t) ==
    /\ Goto(t, "key", IF key = None THEN "acquire" ELSE "observe")
    /\ observed' = [observed EXCEPT ![t] = None]
    /\ UNCHANGED <<op, meth, tries, cred, target, left, auth, lock, bmc, hist>>

Observe(t) ==
    /\ Goto(t, "observe", "send")
    /\ observed' = [observed EXCEPT ![t] = key]
    /\ UNCHANGED <<op, meth, tries, cred, target, left, auth, lock, bmc, hist>>

(* _send: requests merges the session's headers into the prepared request. *)
Send(t) ==
    /\ Goto(t, "send", "wire")
    /\ cred' = [cred EXCEPT ![t] = header]
    /\ tries' = [tries EXCEPT ![t] = @ + 1]
    /\ UNCHANGED <<op, meth, observed, target, left, auth, lock, bmc, hist>>
-----------------------------------------------------------------------------
(* What the BMC does with a request.                                       *)
Authorised(t) == cred[t].basic \/ cred[t].token \in live

IssueToken(n) ==
    /\ n \in Tokens \ issued
    /\ live' = live \cup {n}
    /\ issued' = issued \cup {n}

Executed(t) ==
    \/ op[t] = "create" /\ meth[t] = "POST" /\ \E n \in Tokens : IssueToken(n)
    \/ meth[t] = "DELETE" /\ live' = live \ {target[t]} /\ UNCHANGED issued

Expire(s) ==
    /\ s \in live
    /\ live' = live \ {s}
    /\ UNCHANGED <<issued, auth, lock, pc, local, hist>>

(* 2xx: a read or a write is over; create() and delete() go on from their  *)
(* read to the request it was for.                                         *)
Answered(t) ==
    /\ pc[t] = "wire" /\ Authorised(t)
    /\ op[t] \in {"read", "write"}
    /\ Return(t)
    /\ UNCHANGED <<auth, lock, bmc, hist>>

Discovered(t) ==
    /\ Authorised(t)
    /\ op[t] \in {"create", "delete"} /\ meth[t] = "GET"
    /\ Goto(t, "wire", "mode")
    /\ tries' = [tries EXCEPT ![t] = 0]
    /\ \/ /\ op[t] = "create"
          /\ meth' = [meth EXCEPT ![t] = "POST"]
          /\ UNCHANGED target
       \/ /\ op[t] = "delete"
          /\ meth' = [meth EXCEPT ![t] = "DELETE"]
          /\ \E s \in live : target' = [target EXCEPT ![t] = s]
    /\ UNCHANGED <<op, observed, cred, left, auth, lock, bmc, hist>>

(* select_member raises when the collection does not list the session.     *)
NotListed(t) ==
    /\ pc[t] = "wire" /\ Authorised(t)
    /\ op[t] = "delete" /\ meth[t] = "GET"
    /\ Return(t)
    /\ UNCHANGED <<auth, lock, bmc, hist>>

(* create(): the token is installed when switch_to_token_auth is set.      *)
Created(t) ==
    /\ Authorised(t)
    /\ op[t] = "create" /\ meth[t] = "POST"
    /\ Goto(t, "wire", "set_mode")
    /\ \E n \in Tokens : IssueToken(n) /\ target' = [target EXCEPT ![t] = n]
    /\ UNCHANGED <<op, meth, tries, observed, cred, left, auth, lock, hist>>

CreatedForCaller(t) ==
    /\ pc[t] = "wire" /\ Authorised(t)
    /\ op[t] = "create" /\ meth[t] = "POST"
    /\ \E n \in Tokens : IssueToken(n)
    /\ Return(t)
    /\ UNCHANGED <<auth, lock, hist>>

Deleted(t) ==
    /\ Authorised(t)
    /\ meth[t] = "DELETE"
    /\ Goto(t, "wire", IF op[t] = "close" THEN "reset_mode" ELSE "clear")
    /\ Executed(t)
    /\ gone' = IF op[t] = "delete" THEN gone \cup {target[t]} ELSE gone
    /\ UNCHANGED <<local, auth, lock, logins, closed>>

(* logout() swallows every failure of its DELETE under close(), and resets *)
(* in its finally block.                                                   *)
Abort(t) ==
    IF op[t] = "close"
      THEN pc' = [pc EXCEPT ![t] = "reset_mode"] /\ UNCHANGED local
      ELSE Return(t)

MayRefresh_NoBound(t) == meth[t] = "GET" /\ mode = "session"

MayRefresh_AnyMethod(t) == mode = "session" /\ tries[t] = 1

(* _request, after the exchange: only a read, only in session mode, and    *)
(* only the first answer leads to a refresh.                               *)
MayRefresh(t) ==
    /\ meth[t] = "GET"
    /\ mode = "session"
    /\ tries[t] = 1

Rejected(t) ==
    /\ pc[t] = "wire" /\ ~Authorised(t)
    /\ IF MayRefresh(t)
         THEN pc' = [pc EXCEPT ![t] = "acquire"] /\ UNCHANGED local
         ELSE Abort(t)
    /\ UNCHANGED <<auth, lock, bmc, hist>>

(* A timeout, a broken connection or a server error; the BMC may have      *)
(* executed the request all the same.                                      *)
Lost(t) ==
    /\ pc[t] = "wire"
    /\ UNCHANGED bmc \/ (Authorised(t) /\ Executed(t))
    /\ Abort(t)
    /\ UNCHANGED <<auth, lock, hist>>
-----------------------------------------------------------------------------
(* _refresh_session                                                        *)
Acquire(t) ==
    /\ lock = None
    /\ lock' = t
    /\ Goto(t, "acquire", "check")
    /\ UNCHANGED <<local, auth, bmc, hist>>

(* Back in _request: the first login goes on to the exchange, a refresh    *)
(* repeats it.                                                             *)
Resume(t) == IF tries[t] = 0 THEN "observe" ELSE "send"

AlreadyRefreshed_Never(t) == FALSE

AlreadyRefreshed(t) == observed[t] # None /\ key # observed[t]

CheckKeyAgain(t) ==
    /\ pc[t] = "check"
    /\ IF AlreadyRefreshed(t)
         THEN lock' = None /\ pc' = [pc EXCEPT ![t] = Resume(t)]
         ELSE pc' = [pc EXCEPT ![t] = "cached"] /\ UNCHANGED lock
    /\ UNCHANGED <<local, auth, bmc, hist>>

FailureCached_Never(t) == FALSE

FailureCached(t) == failure = {observed[t]}

CheckFailure(t) ==
    /\ pc[t] = "cached"
    /\ IF FailureCached(t)
         THEN lock' = None /\ Return(t)
         ELSE pc' = [pc EXCEPT ![t] = "login"] /\ UNCHANGED <<lock, local>>
    /\ UNCHANGED <<auth, bmc, hist>>

CountLogin(t) == logins' = [logins EXCEPT ![observed[t]] = @ + 1]

LoginSucceeds(t) ==
    /\ Goto(t, "login", "set_mode")
    /\ \E n \in Tokens : IssueToken(n) /\ target' = [target EXCEPT ![t] = n]
    /\ CountLogin(t)
    /\ UNCHANGED <<op, meth, tries, observed, cred, left, auth, lock,
                   gone, closed>>

LoginFails_KeepsLock(t) ==
    /\ pc[t] = "login"
    /\ UNCHANGED bmc
    /\ CountLogin(t)
    /\ failure' = {observed[t]}
    /\ Return(t)
    /\ UNCHANGED <<mode, key, location, header, lock, gone, closed>>

LoginFails_FallsBack(t) ==
    /\ Goto(t, "login", "reset_mode")
    /\ UNCHANGED bmc
    /\ CountLogin(t)
    /\ lock' = None
    /\ UNCHANGED <<local, auth, gone, closed>>

(* Refused, unreachable, no token in the answer, or the answer was lost    *)
(* after the BMC had opened the session: the failure is cached and raised. *)
LoginFails(t) ==
    /\ pc[t] = "login"
    /\ UNCHANGED bmc \/ \E n \in Tokens : IssueToken(n)
    /\ CountLogin(t)
    /\ failure' = {observed[t]}
    /\ lock' = None
    /\ Return(t)
    /\ UNCHANGED <<mode, key, location, header, gone, closed>>
-----------------------------------------------------------------------------
(* set_auth_token, assignment by assignment.                               *)
SetMode(t) ==
    /\ Goto(t, "set_mode", "set_key")
    /\ mode' = "session"
    /\ UNCHANGED <<key, location, failure, header, local, lock, bmc, hist>>

SetKey(t) ==
    /\ Goto(t, "set_key", "set_location")
    /\ key' = target[t]
    /\ UNCHANGED <<mode, location, failure, header, local, lock, bmc, hist>>

SetLocation_Kept(t) ==
    /\ Goto(t, "set_location", "clear_failure")
    /\ UNCHANGED <<auth, local, lock, bmc, hist>>

(* The answer to the login need not have a Location header.                *)
SetLocation(t) ==
    /\ Goto(t, "set_location", "clear_failure")
    /\ location' \in {target[t], None}
    /\ UNCHANGED <<mode, key, failure, header, local, lock, bmc, hist>>

ClearFailure(t) ==
    /\ Goto(t, "clear_failure", "drop_basic")
    /\ failure' = {}
    /\ UNCHANGED <<mode, key, location, header, local, lock, bmc, hist>>

DropBasic(t) ==
    /\ Goto(t, "drop_basic", "put_token")
    /\ header' = [header EXCEPT !.basic = FALSE]
    /\ UNCHANGED <<mode, key, location, failure, local, lock, bmc, hist>>

PutToken_Early(t) ==
    /\ pc[t] = "put_token"
    /\ IF lock = t
         THEN lock' = None /\ pc' = [pc EXCEPT ![t] = Resume(t)] /\ UNCHANGED local
         ELSE UNCHANGED lock /\ Return(t)
    /\ UNCHANGED <<auth, bmc, hist>>

(* The last assignment; a refresh then releases the lock and goes on with  *)
(* its request, create() is over.                                          *)
PutToken(t) ==
    /\ pc[t] = "put_token"
    /\ header' = [header EXCEPT !.token = target[t]]
    /\ IF lock = t
         THEN lock' = None /\ pc' = [pc EXCEPT ![t] = Resume(t)] /\ UNCHANGED local
         ELSE UNCHANGED lock /\ Return(t)
    /\ UNCHANGED <<mode, key, location, failure, bmc, hist>>
-----------------------------------------------------------------------------
(* reset_basic_auth, assignment by assignment.                             *)
ResetMode(t) ==
    /\ Goto(t, "reset_mode", "reset_key")
    /\ mode' = "basic"
    /\ UNCHANGED <<key, location, failure, header, local, lock, bmc, hist>>

ResetKey(t) ==
    /\ Goto(t, "reset_key", "reset_location")
    /\ key' = None
    /\ UNCHANGED <<mode, location, failure, header, local, lock, bmc, hist>>

ResetLocation(t) ==
    /\ Goto(t, "reset_location", "reset_failure")
    /\ location' = None
    /\ UNCHANGED <<mode, key, failure, header, local, lock, bmc, hist>>

ResetFailure(t) ==
    /\ Goto(t, "reset_failure", "drop_token")
    /\ failure' = {}
    /\ UNCHANGED <<mode, key, location, header, local, lock, bmc, hist>>

DropToken_Kept(t) ==
    /\ Goto(t, "drop_token", "put_basic")
    /\ UNCHANGED <<auth, local, lock, bmc, hist>>

DropToken(t) ==
    /\ Goto(t, "drop_token", "put_basic")
    /\ header' = [header EXCEPT !.token = None]
    /\ UNCHANGED <<mode, key, location, failure, local, lock, bmc, hist>>

PutBasic(t) ==
    /\ pc[t] = "put_basic"
    /\ header' = [header EXCEPT !.basic = TRUE]
    /\ closed' = (closed \/ op[t] = "close")
    /\ Return(t)
    /\ UNCHANGED <<mode, key, location, failure, lock, bmc, logins, gone>>

ClearActive_Never(t) ==
    /\ pc[t] = "clear"
    /\ Return(t)
    /\ UNCHANGED <<auth, lock, bmc, hist>>

(* clear_active_session, after delete() removed a session from the BMC.    *)
(* (Its two reads of the location are one step.)                           *)
ClearActive(t) ==
    /\ pc[t] = "clear"
    /\ IF location = target[t]
         THEN pc' = [pc EXCEPT ![t] = "reset_mode"] /\ UNCHANGED local
         ELSE Return(t)
    /\ UNCHANGED <<auth, lock, bmc, hist>>

(* close(), and logout(): without a location there is nothing to delete.   *)
Close(t) ==
    /\ pc[t] = "close"
    /\ IF mode = "session"
         THEN /\ pc' = [pc EXCEPT ![t] = "logout"]
              /\ UNCHANGED <<local, closed>>
         ELSE Return(t) /\ closed' = TRUE
    /\ UNCHANGED <<auth, lock, bmc, logins, gone>>

Logout(t) ==
    /\ Goto(t, "logout", IF location = None THEN "reset_mode" ELSE "send")
    /\ meth' = [meth EXCEPT ![t] = "DELETE"]
    /\ target' = [target EXCEPT ![t] = location]
    /\ UNCHANGED <<op, tries, observed, cred, left, auth, lock, bmc, hist>>
-----------------------------------------------------------------------------
RequestStep(t) ==
    \/ CheckMode(t) \/ CheckKey(t) \/ Observe(t) \/ Send(t)
    \/ Answered(t) \/ Discovered(t) \/ NotListed(t)
    \/ Created(t) \/ CreatedForCaller(t) \/ Deleted(t)
    \/ Rejected(t) \/ Lost(t)

RefreshStep(t) ==
    \/ Acquire(t) \/ CheckKeyAgain(t) \/ CheckFailure(t)
    \/ LoginSucceeds(t) \/ LoginFails(t)

SetStep(t) ==
    \/ SetMode(t) \/ SetKey(t) \/ SetLocation(t)
    \/ ClearFailure(t) \/ DropBasic(t) \/ PutToken(t)

ResetStep(t) ==
    \/ ResetMode(t) \/ ResetKey(t) \/ ResetLocation(t)
    \/ ResetFailure(t) \/ DropToken(t) \/ PutBasic(t)

Step(t) ==
    \/ RequestStep(t) \/ RefreshStep(t) \/ SetStep(t) \/ ResetStep(t)
    \/ ClearActive(t) \/ Close(t) \/ Logout(t)

Next ==
    \/ \E t \in Threads : Step(t) \/ \E o \in Ops : Start(t, o)
    \/ \E s \in Tokens : Expire(s)

(* Every exchange has a timeout and every lock holder releases in a with   *)
(* block, so a thread inside an operation keeps going.  Nobody has to call *)
(* an operation, and no session has to expire.                             *)
Spec == Init /\ [][Next]_vars
FairSpec == Spec /\ \A t \in Threads : WF_vars(Step(t))
-----------------------------------------------------------------------------
TypeOK ==
    /\ mode \in {"basic", "session"}
    /\ key \in Keys /\ location \in Keys
    /\ failure \in SUBSET Keys
    /\ header \in Headers
    /\ lock \in Threads \cup {None}
    /\ live \in SUBSET Tokens /\ issued \in SUBSET Tokens
    /\ pc \in [Threads -> PCs]
    /\ op \in [Threads -> {"read"} \cup Ops]
    /\ meth \in [Threads -> {"GET", "POST", "DELETE"}]
    /\ tries \in [Threads -> 0..2]
    /\ observed \in [Threads -> Keys]
    /\ cred \in [Threads -> Headers]
    /\ target \in [Threads -> Keys]
    /\ left \in [Threads -> 0..MaxOps]
    /\ logins \in [Keys -> Nat]
    /\ gone \in SUBSET Keys
    /\ closed \in BOOLEAN

(* A state-changing request goes on the wire at most once per call, and a  *)
(* read at most twice, whatever the other threads do to the client         *)
(* meanwhile (_request refreshes and repeats reads only).                  *)
NoReplayedWrite == \A t \in Threads : meth[t] # "GET" => tries[t] <= 1

(* For each session the client ever held, the expired session is refreshed *)
(* by one login attempt at most: callers that saw the same key share its   *)
(* outcome, success or failure (_refresh_session).                         *)
OneLoginPerKey == \A k \in Tokens : logins[k] <= 1

(* Outside a refresh the request headers carry exactly the session key     *)
(* the client believes in, and no Basic credentials.                       *)
HeaderMatchesKey ==
    lock = None => header = [basic |-> FALSE, token |-> key]

(* A client that was told to use sessions never sends Basic credentials,   *)
(* not even when its refresh fails.                                        *)
NoBasicFallback == \A t \in Threads : ~cred[t].basic

(* A cached refresh failure is about the key the client still uses, so no  *)
(* caller can be handed the failure of an earlier session.                 *)
FailureIsCurrent == lock = None => failure \subseteq {key}

(* A failed refresh is final: while nobody installs other credentials, no  *)
(* later caller logs in again (_session_refresh_failure).                  *)
LockoutIsFinal == [][failure # {} => UNCHANGED <<logins, key, failure>>]_vars

(* Every operation a thread calls returns or raises.                       *)
EveryCallReturns == \A t \in Threads : pc[t] # "idle" ~> pc[t] = "idle"

Quiet == \A t \in Threads : pc[t] = "idle"

(* Between operations of a client used by one thread the five attributes   *)
(* agree: mode, key, location and headers describe the same credentials.   *)
Settled ==
    Quiet =>
        /\ mode = "basic" => key = None
        /\ header = [basic |-> mode = "basic", token |-> key]
        /\ location \in {key, None}

(* Once delete() has returned, the client no longer authenticates with the *)
(* session it deleted, provided it knows where its own session is          *)
(* (clear_active_session).                                                 *)
DeletedIsNotActive == Quiet /\ location = key => key \notin gone

(* close() leaves Basic mode without key, location or token header.        *)
CloseClearsAuth ==
    closed /\ Quiet => /\ mode = "basic" /\ key = None /\ location = None
                       /\ header = [basic |-> TRUE, token |-> None]

(* A session client without a key logs in once before its first requests.  *)
FirstLoginOnce == logins[None] <= 1

(* Only an expired session is refreshed.                                   *)
OnlyExpiredIsRefreshed ==
    [][\A t \in Threads :
          pc[t] = "cached" /\ pc'[t] = "login" => observed[t] \notin live]_vars
-----------------------------------------------------------------------------
(* A caller of _refresh_session has asked from the moment it decides to    *)
(* refresh until its outcome is fixed: the assignment of the new key, the  *)
(* early return, or the failure.                                           *)
Asking(t) ==
    \/ pc[t] \in RefreshPCs
    \/ pc[t] \in {"set_mode", "set_key"} /\ lock = t

AskingFor == [t \in Threads |-> IF Asking(t) THEN {observed[t]} ELSE {}]

Abstract == INSTANCE SessionRefresh WITH
    Callers <- Threads,
    current <- key,
    failed  <- failure,
    asking  <- AskingFor

(* Although a refresh is spread over a network exchange and six            *)
(* assignments, its callers cannot tell it from an atomic one.             *)
RefreshIsAtomic == Abstract!Spec
=============================================================================
