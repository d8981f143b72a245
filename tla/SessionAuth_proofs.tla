-------------------------- MODULE SessionAuth_proofs --------------------------
(***************************************************************************)
(* What holds of SessionAuth for any number of threads, tokens and         *)
(* operations.  Part 1 is about every client: the types, the owner of the  *)
(* refresh lock, and how often a request goes on the wire.                 *)
(***************************************************************************)
EXTENDS SessionAuth, TLAPS

(* Only the thread inside _refresh_session holds its lock, and it holds it *)
(* from there to the last assignment of set_auth_token.                    *)
HeldPCs == {"check", "cached", "login"}

LockInv ==
    \A t \in Threads :
        /\ lock = t => pc[t] \in HeldPCs \cup SetPCs
        /\ pc[t] \in HeldPCs => lock = t

(* A request that may still go on the wire has not been there, or is a     *)
(* read that has been there once.                                          *)
Sendable(t) == tries[t] = 0 \/ (tries[t] = 1 /\ meth[t] = "GET")

BeforeSend == {"idle", "mode", "key", "observe", "close", "logout"}

TriesInv ==
    \A t \in Threads :
        /\ pc[t] \in BeforeSend => tries[t] = 0
        /\ pc[t] \in {"send"} \cup RefreshPCs => Sendable(t)
        /\ lock = t => Sendable(t)

WireInv == TypeOK /\ LockInv /\ TriesInv /\ NoReplayedWrite

USE AuthAssumption DEF AuthAssumption

LEMMA SetBasic ==
    ASSUME NEW h \in Headers, NEW b \in BOOLEAN
    PROVE  [h EXCEPT !.basic = b] \in Headers
  BY DEF Headers

LEMMA SetToken ==
    ASSUME NEW h \in Headers, NEW k \in Keys
    PROVE  [h EXCEPT !.token = k] \in Headers
  BY DEF Headers

LEMMA NoCredType == NoCred \in Headers
  BY DEF NoCred, Headers, Keys

LEMMA ConstructedHeader ==
    ASSUME NEW b \in BOOLEAN, NEW k \in Keys
    PROVE  [basic |-> b, token |-> k] \in Headers
  BY DEF Headers

LEMMA InitWire == Init => WireInv
<1> SUFFICES ASSUME Init PROVE WireInv
  OBVIOUS
<1>1. PICK m \in {"basic", "session"}, k \in {None, Given} : Constructed(m, k)
  BY DEF Init
<1>2. header \in Headers
  <2>1. (m = "basic") \in BOOLEAN
    BY Zenon
  <2> QED
    BY <1>1, <2>1, ConstructedHeader DEF Constructed, Keys
<1>3. /\ mode \in {"basic", "session"} /\ key \in Keys /\ location \in Keys
      /\ failure \in SUBSET Keys /\ lock \in Threads \cup {None}
      /\ live \in SUBSET Tokens /\ issued \in SUBSET Tokens
      /\ gone \in SUBSET Keys
  BY <1>1 DEF Init, Constructed, Keys
<1>4. /\ pc \in [Threads -> PCs] /\ op \in [Threads -> {"read"} \cup Ops]
      /\ meth \in [Threads -> {"GET", "POST", "DELETE"}]
      /\ tries \in [Threads -> 0..2] /\ observed \in [Threads -> Keys]
      /\ target \in [Threads -> Keys] /\ left \in [Threads -> 0..MaxOps]
      /\ logins \in [Keys -> Nat]
  BY DEF Init, Keys, PCs
<1>5. cred \in [Threads -> Headers] /\ closed \in BOOLEAN
  BY NoCredType, Zenon DEF Init
<1>6. TypeOK
  BY <1>2, <1>3, <1>4, <1>5 DEF TypeOK
<1>7. LockInv /\ TriesInv /\ NoReplayedWrite
  BY DEF Init, LockInv, TriesInv, NoReplayedWrite, HeldPCs, SetPCs,
         RefreshPCs, Sendable
<1> QED
  BY <1>6, <1>7 DEF WireInv

LEMMA RequestWire ==
    ASSUME WireInv, NEW t \in Threads, RequestStep(t)
    PROVE  WireInv'
<1> USE DEF WireInv, TypeOK, LockInv, TriesInv, NoReplayedWrite, Goto, Keys,
            auth, bmc, local, hist
<1> USE DEF PCs, RequestPCs, RefreshPCs, SetPCs, ResetPCs, HeldPCs,
            BeforeSend, Sendable
<1>1. CASE CheckMode(t)
  BY <1>1 DEF CheckMode
<1>2. CASE CheckKey(t)
  BY <1>2 DEF CheckKey
<1>3. CASE Observe(t)
  BY <1>3 DEF Observe
<1>4. CASE Send(t)
  BY <1>4 DEF Send
<1>5. CASE Answered(t)
  BY <1>5, NoCredType DEF Answered, Return
<1>6. CASE Discovered(t)
  BY <1>6 DEF Discovered
<1>7. CASE NotListed(t)
  BY <1>7, NoCredType DEF NotListed, Return
<1>8. CASE Created(t)
  BY <1>8 DEF Created, IssueToken
<1>9. CASE CreatedForCaller(t)
  BY <1>9, NoCredType DEF CreatedForCaller, IssueToken, Return
<1>10. CASE Deleted(t)
  BY <1>10 DEF Deleted, Executed, IssueToken
<1>11. CASE Rejected(t)
  <2>1. CASE MayRefresh(t)
    BY <1>11, <2>1, NoCredType DEF Rejected, Abort, Return, MayRefresh
  <2>2. CASE ~MayRefresh(t)
    BY <1>11, <2>2, NoCredType DEF Rejected, Abort, Return
  <2> QED
    BY <2>1, <2>2
<1>12. CASE Lost(t)
  <2>1. CASE (op[t] = "close")
    BY <1>12, <2>1, NoCredType DEF Lost, Executed, IssueToken, Abort, Return
  <2>2. CASE ~(op[t] = "close")
    BY <1>12, <2>2, NoCredType DEF Lost, Executed, IssueToken, Abort, Return
  <2> QED
    BY <2>1, <2>2
<1> QED
  BY <1>1, <1>2, <1>3, <1>4, <1>5, <1>6, <1>7, <1>8, <1>9, <1>10, <1>11, <1>12 DEF RequestStep

LEMMA RefreshWire ==
    ASSUME WireInv, NEW t \in Threads, RefreshStep(t)
    PROVE  WireInv'
<1> USE DEF WireInv, TypeOK, LockInv, TriesInv, NoReplayedWrite, Goto, Keys,
            auth, bmc, local, hist
<1> USE DEF PCs, RequestPCs, RefreshPCs, SetPCs, ResetPCs, HeldPCs,
            BeforeSend, Sendable
<1>1. CASE Acquire(t)
  BY <1>1 DEF Acquire
<1>2. CASE CheckKeyAgain(t)
  BY <1>2 DEF CheckKeyAgain, Resume
<1>3. CASE CheckFailure(t)
  <2>1. CASE FailureCached(t)
    BY <1>3, <2>1, NoCredType DEF CheckFailure, Return
  <2>2. CASE ~FailureCached(t)
    BY <1>3, <2>2, NoCredType DEF CheckFailure, Return
  <2> QED
    BY <2>1, <2>2
<1>4. CASE LoginSucceeds(t)
  BY <1>4 DEF LoginSucceeds, IssueToken, CountLogin
<1>5. CASE LoginFails(t)
  BY <1>5, NoCredType DEF LoginFails, IssueToken, CountLogin, Return
<1> QED
  BY <1>1, <1>2, <1>3, <1>4, <1>5 DEF RefreshStep

LEMMA SetWire ==
    ASSUME WireInv, NEW t \in Threads, SetStep(t)
    PROVE  WireInv'
<1> USE DEF WireInv, TypeOK, LockInv, TriesInv, NoReplayedWrite, Goto, Keys,
            auth, bmc, local, hist
<1> USE DEF PCs, RequestPCs, RefreshPCs, SetPCs, ResetPCs, HeldPCs,
            BeforeSend, Sendable
<1>1. CASE SetMode(t)
  BY <1>1 DEF SetMode
<1>2. CASE SetKey(t)
  BY <1>2 DEF SetKey
<1>3. CASE SetLocation(t)
  BY <1>3 DEF SetLocation
<1>4. CASE ClearFailure(t)
  BY <1>4 DEF ClearFailure
<1>5. CASE DropBasic(t)
  <2>1. header' \in Headers
    BY <1>5, SetBasic DEF DropBasic
  <2> QED
    BY <1>5, <2>1 DEF DropBasic
<1>6. CASE PutToken(t)
  <2>1. header' \in Headers
    BY <1>6, SetToken DEF PutToken
  <2> QED
    BY <1>6, <2>1, NoCredType, SMTT(30) DEF PutToken, Resume, Return
<1> QED
  BY <1>1, <1>2, <1>3, <1>4, <1>5, <1>6 DEF SetStep

LEMMA ResetWire ==
    ASSUME WireInv, NEW t \in Threads, ResetStep(t)
    PROVE  WireInv'
<1> USE DEF WireInv, TypeOK, LockInv, TriesInv, NoReplayedWrite, Goto, Keys,
            auth, bmc, local, hist
<1> USE DEF PCs, RequestPCs, RefreshPCs, SetPCs, ResetPCs, HeldPCs,
            BeforeSend, Sendable
<1>1. CASE ResetMode(t)
  BY <1>1 DEF ResetMode
<1>2. CASE ResetKey(t)
  BY <1>2 DEF ResetKey
<1>3. CASE ResetLocation(t)
  BY <1>3 DEF ResetLocation
<1>4. CASE ResetFailure(t)
  BY <1>4 DEF ResetFailure
<1>5. CASE DropToken(t)
  <2>1. header' \in Headers
    BY <1>5, SetToken DEF DropToken
  <2> QED
    BY <1>5, <2>1 DEF DropToken
<1>6. CASE PutBasic(t)
  <2>1. header' \in Headers
    BY <1>6, SetBasic DEF PutBasic
  <2> QED
    BY <1>6, <2>1, NoCredType DEF PutBasic, Return
<1> QED
  BY <1>1, <1>2, <1>3, <1>4, <1>5, <1>6 DEF ResetStep

LEMMA NextWire == WireInv /\ [Next]_vars => WireInv'
<1> SUFFICES ASSUME WireInv, [Next]_vars PROVE WireInv'
  OBVIOUS
<1> USE DEF WireInv, TypeOK, LockInv, TriesInv, NoReplayedWrite, Goto, Keys,
            auth, bmc, local, hist
<1> USE DEF PCs, RequestPCs, RefreshPCs, SetPCs, ResetPCs, HeldPCs,
            BeforeSend, Sendable
<1>1. ASSUME NEW t \in Threads, Step(t) PROVE WireInv'
  <2>1. CASE ClearActive(t)
    <3>1. CASE location = target[t]
      BY <2>1, <3>1 DEF ClearActive
    <3>2. CASE location # target[t]
      BY <2>1, <3>2, NoCredType DEF ClearActive, Return
    <3> QED
      BY <3>1, <3>2
  <2>2. CASE Close(t)
    <3>1. CASE mode = "session"
      BY <2>2, <3>1 DEF Close
    <3>2. CASE mode # "session"
      BY <2>2, <3>2, NoCredType DEF Close, Return
    <3> QED
      BY <3>1, <3>2
  <2>3. CASE Logout(t)
    BY <2>3 DEF Logout
  <2> QED
    BY <1>1, <2>1, <2>2, <2>3, RequestWire, RefreshWire, SetWire, ResetWire
    DEF Step
<1>2. ASSUME NEW t \in Threads, NEW o \in Ops, Start(t, o) PROVE WireInv'
  BY <1>2 DEF Start
<1>3. ASSUME NEW s \in Tokens, Expire(s) PROVE WireInv'
  BY <1>3 DEF Expire
<1>4. CASE UNCHANGED vars
  BY <1>4 DEF vars
<1> QED
  BY <1>1, <1>2, <1>3, <1>4 DEF Next

(* The types hold, the refresh lock has one owner, and a request that may  *)
(* still be sent was sent at most once, for a read: the inductive          *)
(* invariant behind the theorems about every client.                       *)
THEOREM WireInvariant == Spec => []WireInv
<1>1. Init => WireInv
  BY InitWire
<1>2. WireInv /\ [Next]_vars => WireInv'
  BY NextWire
<1> QED
  BY <1>1, <1>2, PTL DEF Spec

(* Every attribute of the client and every local of its threads keeps its  *)
(* type, whatever the threads call.                                        *)
THEOREM TypeCorrect == Spec => []TypeOK
<1>1. WireInv => TypeOK
  BY DEF WireInv
<1> QED
  BY <1>1, WireInvariant, PTL

(* No state-changing request of a client is repeated by the client, however*)
(* many threads create, delete, refresh and close sessions meanwhile.      *)
THEOREM WritesAreNotReplayed == Spec => []NoReplayedWrite
<1>1. WireInv => NoReplayedWrite
  BY DEF WireInv
<1> QED
  BY <1>1, WireInvariant, PTL
-----------------------------------------------------------------------------
(***************************************************************************)
(* From here on: a client in session mode whose threads only send          *)
(* requests: nobody creates, deletes or closes a session behind            *)
(* _refresh_session, so that every assignment of set_auth_token happens    *)
(* under its lock.                                                         *)
(***************************************************************************)
RequestsOnly == Ops \subseteq {"read", "write"} /\ Starts \subseteq {"login", "resume"}

(* The assignments that follow the one to _session_key: the headers are    *)
(* behind the key until the last of them.                                  *)
Behind(t) ==
    lock = t /\ pc[t] \in {"set_location", "clear_failure", "drop_basic", "put_token"}

PathInv ==
    /\ mode = "session"
    /\ \A t \in Threads :
        /\ op[t] \in {"read", "write"}
        /\ meth[t] \in {"GET", "POST"}
        /\ pc[t] \in {"idle"} \cup RequestPCs \cup RefreshPCs \cup SetPCs
        /\ pc[t] \in SetPCs => lock = t

HeaderInv ==
    /\ ~header.basic
    /\ \A t \in Threads : ~cred[t].basic
    /\ \A t \in Threads : Behind(t) => key = target[t]
    /\ (\A t \in Threads : ~Behind(t)) => header.token = key

RequestInv == WireInv /\ PathInv /\ HeaderInv

LEMMA HeaderIs ==
    ASSUME NEW h \in Headers, ~h.basic
    PROVE  h = [basic |-> FALSE, token |-> h.token]
  BY Zenon DEF Headers

LEMMA InitRequest == ASSUME RequestsOnly, Init PROVE RequestInv
<1>1. WireInv
  BY InitWire
<1>2. PathInv
  BY DEF Init, Constructed, RequestsOnly, PathInv, RequestPCs, RefreshPCs, SetPCs
<1>3. PICK k \in {None, Given} : Constructed("session", k)
  BY DEF Init, RequestsOnly
<1>4. header = [basic |-> FALSE, token |-> key]
  <2>1. ("session" = "basic") = FALSE
    BY SMT
  <2> QED
    BY <1>3, <2>1 DEF Constructed
<1>5. HeaderInv
  BY <1>4, Zenon DEF Init, HeaderInv, Behind, NoCred
<1> QED
  BY <1>1, <1>2, <1>5 DEF RequestInv

LEMMA NextPath ==
    ASSUME RequestsOnly, WireInv, PathInv, [Next]_vars
    PROVE  PathInv'
<1> USE DEF WireInv, TypeOK, LockInv, PathInv, Goto, auth,
            bmc, local, hist
<1> USE DEF RequestPCs, RefreshPCs, SetPCs, ResetPCs, HeldPCs
<1>1. ASSUME NEW t \in Threads, RequestStep(t) PROVE PathInv'
  <2>1. CASE CheckMode(t)
    BY <2>1 DEF CheckMode
  <2>2. CASE CheckKey(t)
    BY <2>2 DEF CheckKey
  <2>3. CASE Observe(t)
    BY <2>3 DEF Observe
  <2>4. CASE Send(t)
    BY <2>4 DEF Send
  <2>5. CASE Answered(t)
    BY <2>5 DEF Answered, Return
  <2>6. CASE Discovered(t)
    BY <2>6 DEF Discovered
  <2>7. CASE NotListed(t)
    BY <2>7 DEF NotListed, Return
  <2>8. CASE Created(t)
    BY <2>8 DEF Created
  <2>9. CASE CreatedForCaller(t)
    BY <2>9 DEF CreatedForCaller, Return
  <2>10. CASE Deleted(t)
    BY <2>10 DEF Deleted
  <2>11. CASE Rejected(t)
    <3>1. CASE MayRefresh(t)
      BY <2>11, <3>1 DEF Rejected, Abort, Return
    <3>2. CASE ~MayRefresh(t)
      BY <2>11, <3>2 DEF Rejected, Abort, Return
    <3> QED
      BY <3>1, <3>2
  <2>12. CASE Lost(t)
    BY <2>12 DEF Lost, Abort, Return
  <2> QED
    BY <1>1, <2>1, <2>2, <2>3, <2>4, <2>5, <2>6, <2>7, <2>8, <2>9, <2>10, <2>11, <2>12 DEF RequestStep
<1>2. ASSUME NEW t \in Threads, RefreshStep(t) PROVE PathInv'
  <2>1. CASE Acquire(t)
    BY <2>1 DEF Acquire
  <2>2. CASE CheckKeyAgain(t)
    BY <2>2 DEF CheckKeyAgain, Resume
  <2>3. CASE CheckFailure(t)
    <3>1. CASE FailureCached(t)
      BY <2>3, <3>1 DEF CheckFailure, Return
    <3>2. CASE ~FailureCached(t)
      BY <2>3, <3>2 DEF CheckFailure, Return
    <3> QED
      BY <3>1, <3>2
  <2>4. CASE LoginSucceeds(t)
    BY <2>4 DEF LoginSucceeds
  <2>5. CASE LoginFails(t)
    BY <2>5 DEF LoginFails, Return
  <2> QED
    BY <1>2, <2>1, <2>2, <2>3, <2>4, <2>5 DEF RefreshStep
<1>3. ASSUME NEW t \in Threads, SetStep(t) PROVE PathInv'
  <2>1. CASE SetMode(t)
    BY <2>1 DEF SetMode
  <2>2. CASE SetKey(t)
    BY <2>2 DEF SetKey
  <2>3. CASE SetLocation(t)
    BY <2>3 DEF SetLocation
  <2>4. CASE ClearFailure(t)
    BY <2>4 DEF ClearFailure
  <2>5. CASE DropBasic(t)
    BY <2>5 DEF DropBasic
  <2>6. CASE PutToken(t)
    BY <2>6 DEF PutToken, Resume
  <2> QED
    BY <1>3, <2>1, <2>2, <2>3, <2>4, <2>5, <2>6 DEF SetStep
<1>4. ASSUME NEW t \in Threads,
             ResetStep(t) \/ ClearActive(t) \/ Close(t) \/ Logout(t)
      PROVE  FALSE
  BY <1>4 DEF ResetStep, ResetMode, ResetKey, ResetLocation, ResetFailure,
              DropToken, PutBasic, ClearActive, Close, Logout
<1>5. ASSUME NEW t \in Threads, NEW o \in Ops, Start(t, o)
      PROVE  PathInv'
  BY <1>5 DEF Start, RequestsOnly
<1>6. ASSUME NEW s \in Tokens, Expire(s) PROVE PathInv'
  BY <1>6 DEF Expire
<1>7. CASE UNCHANGED vars
  BY <1>7 DEF vars
<1> QED
  BY <1>1, <1>2, <1>3, <1>4, <1>5, <1>6, <1>7 DEF Next, Step

LEMMA NextHeader ==
    ASSUME RequestsOnly, WireInv, PathInv, HeaderInv, [Next]_vars
    PROVE  HeaderInv'
<1> USE DEF WireInv, TypeOK, LockInv, PathInv, HeaderInv, Behind, Goto, auth,
            bmc, local, hist
<1> USE DEF RequestPCs, RefreshPCs, SetPCs, ResetPCs, HeldPCs
<1>1. ASSUME NEW t \in Threads, RequestStep(t) PROVE HeaderInv'
  <2>1. CASE CheckMode(t)
    BY <2>1 DEF CheckMode
  <2>2. CASE CheckKey(t)
    BY <2>2 DEF CheckKey
  <2>3. CASE Observe(t)
    BY <2>3 DEF Observe
  <2>4. CASE Send(t)
    BY <2>4 DEF Send
  <2>5. CASE Answered(t)
    BY <2>5 DEF Answered, Return, NoCred
  <2>6. CASE Discovered(t)
    BY <2>6 DEF Discovered
  <2>7. CASE NotListed(t)
    BY <2>7 DEF NotListed, Return, NoCred
  <2>8. CASE Created(t)
    BY <2>8 DEF Created
  <2>9. CASE CreatedForCaller(t)
    BY <2>9 DEF CreatedForCaller, Return, NoCred
  <2>10. CASE Deleted(t)
    BY <2>10 DEF Deleted
  <2>11. CASE Rejected(t)
    <3>1. CASE MayRefresh(t)
      BY <2>11, <3>1 DEF Rejected, Abort, Return, NoCred
    <3>2. CASE ~MayRefresh(t)
      BY <2>11, <3>2 DEF Rejected, Abort, Return, NoCred
    <3> QED
      BY <3>1, <3>2
  <2>12. CASE Lost(t)
    BY <2>12 DEF Lost, Abort, Return, NoCred
  <2> QED
    BY <1>1, <2>1, <2>2, <2>3, <2>4, <2>5, <2>6, <2>7, <2>8, <2>9, <2>10, <2>11, <2>12 DEF RequestStep
<1>2. ASSUME NEW t \in Threads, RefreshStep(t) PROVE HeaderInv'
  <2>1. CASE Acquire(t)
    BY <2>1 DEF Acquire
  <2>2. CASE CheckKeyAgain(t)
    BY <2>2 DEF CheckKeyAgain, Resume
  <2>3. CASE CheckFailure(t)
    <3>1. CASE FailureCached(t)
      BY <2>3, <3>1 DEF CheckFailure, Return, NoCred
    <3>2. CASE ~FailureCached(t)
      BY <2>3, <3>2 DEF CheckFailure, Return, NoCred
    <3> QED
      BY <3>1, <3>2
  <2>4. CASE LoginSucceeds(t)
    BY <2>4 DEF LoginSucceeds
  <2>5. CASE LoginFails(t)
    BY <2>5 DEF LoginFails, Return, NoCred
  <2> QED
    BY <1>2, <2>1, <2>2, <2>3, <2>4, <2>5 DEF RefreshStep
<1>3. ASSUME NEW t \in Threads, SetStep(t) PROVE HeaderInv'
  <2>1. CASE SetMode(t)
    BY <2>1 DEF SetMode
  <2>2. CASE SetKey(t)
    BY <2>2 DEF SetKey
  <2>3. CASE SetLocation(t)
    BY <2>3 DEF SetLocation
  <2>4. CASE ClearFailure(t)
    BY <2>4 DEF ClearFailure
  <2>5. CASE DropBasic(t)
    BY <2>5 DEF DropBasic
  <2>6. CASE PutToken(t)
    BY <2>6 DEF PutToken, Resume
  <2> QED
    BY <1>3, <2>1, <2>2, <2>3, <2>4, <2>5, <2>6 DEF SetStep
<1>4. ASSUME NEW t \in Threads,
             ResetStep(t) \/ ClearActive(t) \/ Close(t) \/ Logout(t)
      PROVE  FALSE
  BY <1>4 DEF ResetStep, ResetMode, ResetKey, ResetLocation, ResetFailure,
              DropToken, PutBasic, ClearActive, Close, Logout
<1>5. ASSUME NEW t \in Threads, NEW o \in Ops, Start(t, o)
      PROVE  HeaderInv'
  BY <1>5 DEF Start, RequestsOnly
<1>6. ASSUME NEW s \in Tokens, Expire(s) PROVE HeaderInv'
  BY <1>6 DEF Expire
<1>7. CASE UNCHANGED vars
  BY <1>7 DEF vars
<1> QED
  BY <1>1, <1>2, <1>3, <1>4, <1>5, <1>6, <1>7 DEF Next, Step

LEMMA NextRequest ==
    ASSUME RequestsOnly, RequestInv, [Next]_vars
    PROVE  RequestInv'
<1>1. WireInv'
  BY NextWire DEF RequestInv
<1>2. PathInv'
  BY NextPath DEF RequestInv
<1>3. HeaderInv'
  BY NextHeader DEF RequestInv
<1> QED
  BY <1>1, <1>2, <1>3 DEF RequestInv

(* The invariant of a session client whose threads only send requests.     *)
THEOREM RequestInvariant == ASSUME RequestsOnly PROVE Spec => []RequestInv
<1>1. Init => RequestInv
  BY InitRequest
<1>2. RequestInv /\ [Next]_vars => RequestInv'
  BY NextRequest
<1> QED
  BY <1>1, <1>2, PTL DEF Spec

(* Outside a refresh the headers of a session client carry its session key *)
(* and nothing else, for any number of threads that send requests.         *)
THEOREM HeadersFollowKey == ASSUME RequestsOnly PROVE Spec => []HeaderMatchesKey
<1>1. RequestInv => HeaderMatchesKey
  <2> SUFFICES ASSUME RequestInv, lock = None
               PROVE  header = [basic |-> FALSE, token |-> key]
    BY DEF HeaderMatchesKey
  <2>1. header.token = key
    BY DEF RequestInv, HeaderInv, Behind
  <2>2. header \in Headers /\ ~header.basic
    BY DEF RequestInv, WireInv, TypeOK, HeaderInv
  <2> QED
    BY <2>1, <2>2, HeaderIs
<1> QED
  BY <1>1, RequestInvariant, PTL

(* A session client whose refreshes fail never falls back to sending Basic *)
(* credentials.                                                            *)
THEOREM BasicIsNeverSent == ASSUME RequestsOnly PROVE Spec => []NoBasicFallback
<1>1. RequestInv => NoBasicFallback
  BY DEF RequestInv, HeaderInv, NoBasicFallback
<1> QED
  BY <1>1, RequestInvariant, PTL

-----------------------------------------------------------------------------
(***************************************************************************)
(* Callers of _refresh_session share its outcome: what holds while the     *)
(* threads of a client constructed with a session key send requests, and   *)
(* why such a client implements SessionRefresh.                            *)
(***************************************************************************)
Resumed == RequestsOnly /\ Starts \subseteq {"resume"}

Replacing(t) == pc[t] \in {"set_mode", "set_key"}

(* Sessions are never mistaken for one another: what a caller observed was *)
(* issued before, what it installs has not been refreshed by anybody.      *)
FreshInv ==
    /\ key \in issued \ {None}
    /\ \A t \in Threads :
        /\ pc[t] \in {"send", "wire"} \cup RefreshPCs \cup SetPCs => observed[t] \in issued
        /\ pc[t] \in SetPCs => target[t] \in issued
        /\ Replacing(t) => target[t] # key /\ logins[target[t]] = 0
    /\ \A k \in Tokens : logins[k] > 0 => k \in issued

(* The key and the failure that go with it stay put while a refresh is     *)
(* under way, and a refresh gets to its login without a failure.           *)
OutcomeInv ==
    /\ failure \subseteq {key}
    /\ \A t \in Threads :
        /\ pc[t] \in {"cached", "login"} \/ Replacing(t) => observed[t] = key
        /\ pc[t] \in {"login"} \cup SetPCs => failure = {}

(* The client has logged in for its current key only if that login failed, *)
(* or its outcome is about to replace the key.                             *)
LoginInv ==
    /\ OneLoginPerKey
    /\ logins[key] > 0 => failure = {key} \/ \E t \in Threads : Replacing(t)

RefreshInv == RequestInv /\ FreshInv /\ OutcomeInv /\ LoginInv

LEMMA InitRefresh == ASSUME Resumed, Init PROVE RefreshInv
<1>1. RequestInv
  BY InitRequest DEF Resumed
<1>2. key = Given /\ issued = {Given} /\ failure = {}
  BY DEF Init, Constructed, Resumed
<1>3. FreshInv /\ OutcomeInv
  BY <1>2 DEF Init, FreshInv, OutcomeInv, RefreshPCs, SetPCs, Replacing, Keys
<1>4. LoginInv
  BY <1>2 DEF Init, LoginInv, OneLoginPerKey, Keys
<1> QED
  BY <1>1, <1>3, <1>4 DEF RefreshInv

LEMMA NextFresh ==
    ASSUME Resumed, RequestInv, FreshInv, OutcomeInv, [Next]_vars
    PROVE  FreshInv'
<1> USE DEF RequestInv, WireInv, TypeOK, LockInv, PathInv, Goto, auth, bmc,
            local, hist, Keys
<1> USE DEF RequestPCs, RefreshPCs, SetPCs, ResetPCs, HeldPCs, Replacing,
            FreshInv, OutcomeInv
<1>1. ASSUME NEW t \in Threads, RequestStep(t) PROVE FreshInv'
  <2>1. CASE CheckMode(t)
    BY <2>1 DEF CheckMode
  <2>2. CASE CheckKey(t)
    BY <2>2 DEF CheckKey
  <2>3. CASE Observe(t)
    BY <2>3 DEF Observe
  <2>4. CASE Send(t)
    BY <2>4 DEF Send
  <2>5. CASE Answered(t)
    BY <2>5 DEF Answered, Return
  <2>6. CASE Discovered(t)
    BY <2>6 DEF Discovered
  <2>7. CASE NotListed(t)
    BY <2>7 DEF NotListed, Return
  <2>8. CASE Created(t)
    BY <2>8 DEF Created
  <2>9. CASE CreatedForCaller(t)
    BY <2>9 DEF CreatedForCaller, Return
  <2>10. CASE Deleted(t)
    BY <2>10 DEF Deleted
  <2>11. CASE Rejected(t)
    <3>1. CASE MayRefresh(t)
      BY <2>11, <3>1 DEF Rejected, Abort, Return
    <3>2. CASE ~MayRefresh(t)
      BY <2>11, <3>2 DEF Rejected, Abort, Return
    <3> QED
      BY <3>1, <3>2
  <2>12. CASE Lost(t)
    BY <2>12 DEF Lost, Abort, Return, Executed
  <2> QED
    BY <1>1, <2>1, <2>2, <2>3, <2>4, <2>5, <2>6, <2>7, <2>8, <2>9, <2>10, <2>11, <2>12 DEF RequestStep
<1>2. ASSUME NEW t \in Threads, RefreshStep(t) PROVE FreshInv'
  <2>1. CASE Acquire(t)
    BY <2>1 DEF Acquire
  <2>2. CASE CheckKeyAgain(t)
    BY <2>2 DEF CheckKeyAgain, Resume, AlreadyRefreshed
  <2>3. CASE CheckFailure(t)
    <3>1. CASE FailureCached(t)
      BY <2>3, <3>1 DEF CheckFailure, Return, FailureCached
    <3>2. CASE ~FailureCached(t)
      BY <2>3, <3>2 DEF CheckFailure, Return, FailureCached
    <3> QED
      BY <3>1, <3>2
  <2>4. CASE LoginSucceeds(t)
    BY <2>4 DEF LoginSucceeds, CountLogin, IssueToken
  <2>5. CASE LoginFails(t)
    BY <2>5 DEF LoginFails, Return, CountLogin, IssueToken
  <2> QED
    BY <1>2, <2>1, <2>2, <2>3, <2>4, <2>5 DEF RefreshStep
<1>3. ASSUME NEW t \in Threads, SetStep(t) PROVE FreshInv'
  <2>1. CASE SetMode(t)
    BY <2>1 DEF SetMode
  <2>2. CASE SetKey(t)
    BY <2>2 DEF SetKey
  <2>3. CASE SetLocation(t)
    BY <2>3 DEF SetLocation
  <2>4. CASE ClearFailure(t)
    BY <2>4 DEF ClearFailure
  <2>5. CASE DropBasic(t)
    BY <2>5 DEF DropBasic
  <2>6. CASE PutToken(t)
    BY <2>6 DEF PutToken, Resume
  <2> QED
    BY <1>3, <2>1, <2>2, <2>3, <2>4, <2>5, <2>6 DEF SetStep
<1>4. ASSUME NEW t \in Threads,
             ResetStep(t) \/ ClearActive(t) \/ Close(t) \/ Logout(t)
      PROVE  FALSE
  BY <1>4 DEF ResetStep, ResetMode, ResetKey, ResetLocation, ResetFailure,
              DropToken, PutBasic, ClearActive, Close, Logout
<1>5. ASSUME NEW t \in Threads, NEW o \in Ops, Start(t, o)
      PROVE  FreshInv'
  BY <1>5 DEF Start, RequestsOnly, Resumed
<1>6. ASSUME NEW s \in Tokens, Expire(s) PROVE FreshInv'
  BY <1>6 DEF Expire
<1>7. CASE UNCHANGED vars
  BY <1>7 DEF vars
<1> QED
  BY <1>1, <1>2, <1>3, <1>4, <1>5, <1>6, <1>7 DEF Next, Step

LEMMA NextOutcome ==
    ASSUME Resumed, RequestInv, FreshInv, OutcomeInv, [Next]_vars
    PROVE  OutcomeInv'
<1> USE DEF RequestInv, WireInv, TypeOK, LockInv, PathInv, Goto, auth, bmc,
            local, hist, Keys
<1> USE DEF RequestPCs, RefreshPCs, SetPCs, ResetPCs, HeldPCs, Replacing,
            FreshInv, OutcomeInv
<1>1. ASSUME NEW t \in Threads, RequestStep(t) PROVE OutcomeInv'
  <2>1. CASE CheckMode(t)
    BY <2>1 DEF CheckMode
  <2>2. CASE CheckKey(t)
    BY <2>2 DEF CheckKey
  <2>3. CASE Observe(t)
    BY <2>3 DEF Observe
  <2>4. CASE Send(t)
    BY <2>4 DEF Send
  <2>5. CASE Answered(t)
    BY <2>5 DEF Answered, Return
  <2>6. CASE Discovered(t)
    BY <2>6 DEF Discovered
  <2>7. CASE NotListed(t)
    BY <2>7 DEF NotListed, Return
  <2>8. CASE Created(t)
    BY <2>8 DEF Created
  <2>9. CASE CreatedForCaller(t)
    BY <2>9 DEF CreatedForCaller, Return
  <2>10. CASE Deleted(t)
    BY <2>10 DEF Deleted
  <2>11. CASE Rejected(t)
    <3>1. CASE MayRefresh(t)
      BY <2>11, <3>1 DEF Rejected, Abort, Return
    <3>2. CASE ~MayRefresh(t)
      BY <2>11, <3>2 DEF Rejected, Abort, Return
    <3> QED
      BY <3>1, <3>2
  <2>12. CASE Lost(t)
    BY <2>12 DEF Lost, Abort, Return, Executed
  <2> QED
    BY <1>1, <2>1, <2>2, <2>3, <2>4, <2>5, <2>6, <2>7, <2>8, <2>9, <2>10, <2>11, <2>12 DEF RequestStep
<1>2. ASSUME NEW t \in Threads, RefreshStep(t) PROVE OutcomeInv'
  <2>1. CASE Acquire(t)
    BY <2>1 DEF Acquire
  <2>2. CASE CheckKeyAgain(t)
    BY <2>2 DEF CheckKeyAgain, Resume, AlreadyRefreshed
  <2>3. CASE CheckFailure(t)
    <3>1. CASE FailureCached(t)
      BY <2>3, <3>1 DEF CheckFailure, Return, FailureCached
    <3>2. CASE ~FailureCached(t)
      BY <2>3, <3>2 DEF CheckFailure, Return, FailureCached
    <3> QED
      BY <3>1, <3>2
  <2>4. CASE LoginSucceeds(t)
    BY <2>4 DEF LoginSucceeds, CountLogin, IssueToken
  <2>5. CASE LoginFails(t)
    BY <2>5 DEF LoginFails, Return, CountLogin, IssueToken
  <2> QED
    BY <1>2, <2>1, <2>2, <2>3, <2>4, <2>5 DEF RefreshStep
<1>3. ASSUME NEW t \in Threads, SetStep(t) PROVE OutcomeInv'
  <2>1. CASE SetMode(t)
    BY <2>1 DEF SetMode
  <2>2. CASE SetKey(t)
    BY <2>2 DEF SetKey
  <2>3. CASE SetLocation(t)
    BY <2>3 DEF SetLocation
  <2>4. CASE ClearFailure(t)
    BY <2>4 DEF ClearFailure
  <2>5. CASE DropBasic(t)
    BY <2>5 DEF DropBasic
  <2>6. CASE PutToken(t)
    BY <2>6 DEF PutToken, Resume
  <2> QED
    BY <1>3, <2>1, <2>2, <2>3, <2>4, <2>5, <2>6 DEF SetStep
<1>4. ASSUME NEW t \in Threads,
             ResetStep(t) \/ ClearActive(t) \/ Close(t) \/ Logout(t)
      PROVE  FALSE
  BY <1>4 DEF ResetStep, ResetMode, ResetKey, ResetLocation, ResetFailure,
              DropToken, PutBasic, ClearActive, Close, Logout
<1>5. ASSUME NEW t \in Threads, NEW o \in Ops, Start(t, o)
      PROVE  OutcomeInv'
  BY <1>5 DEF Start, RequestsOnly, Resumed
<1>6. ASSUME NEW s \in Tokens, Expire(s) PROVE OutcomeInv'
  BY <1>6 DEF Expire
<1>7. CASE UNCHANGED vars
  BY <1>7 DEF vars
<1> QED
  BY <1>1, <1>2, <1>3, <1>4, <1>5, <1>6, <1>7 DEF Next, Step

LEMMA NextLogin ==
    ASSUME Resumed, RequestInv, FreshInv, OutcomeInv, LoginInv, [Next]_vars
    PROVE  LoginInv'
<1> USE DEF RequestInv, WireInv, TypeOK, LockInv, PathInv, Goto, auth, bmc,
            local, hist, Keys
<1> USE DEF RequestPCs, RefreshPCs, SetPCs, ResetPCs, HeldPCs, Replacing,
            FreshInv, OutcomeInv
<1> USE DEF LoginInv, OneLoginPerKey
<1>1. ASSUME NEW t \in Threads, RequestStep(t) PROVE LoginInv'
  <2>1. CASE CheckMode(t)
    BY <2>1 DEF CheckMode
  <2>2. CASE CheckKey(t)
    BY <2>2 DEF CheckKey
  <2>3. CASE Observe(t)
    BY <2>3 DEF Observe
  <2>4. CASE Send(t)
    BY <2>4 DEF Send
  <2>5. CASE Answered(t)
    BY <2>5 DEF Answered, Return
  <2>6. CASE Discovered(t)
    BY <2>6 DEF Discovered
  <2>7. CASE NotListed(t)
    BY <2>7 DEF NotListed, Return
  <2>8. CASE Created(t)
    BY <2>8 DEF Created
  <2>9. CASE CreatedForCaller(t)
    BY <2>9 DEF CreatedForCaller, Return
  <2>10. CASE Deleted(t)
    BY <2>10 DEF Deleted
  <2>11. CASE Rejected(t)
    <3>1. CASE MayRefresh(t)
      BY <2>11, <3>1 DEF Rejected, Abort, Return
    <3>2. CASE ~MayRefresh(t)
      BY <2>11, <3>2 DEF Rejected, Abort, Return
    <3> QED
      BY <3>1, <3>2
  <2>12. CASE Lost(t)
    BY <2>12 DEF Lost, Abort, Return, Executed
  <2> QED
    BY <1>1, <2>1, <2>2, <2>3, <2>4, <2>5, <2>6, <2>7, <2>8, <2>9, <2>10, <2>11, <2>12 DEF RequestStep
<1>2. ASSUME NEW t \in Threads, RefreshStep(t) PROVE LoginInv'
  <2>1. CASE Acquire(t)
    BY <2>1 DEF Acquire
  <2>2. CASE CheckKeyAgain(t)
    BY <2>2 DEF CheckKeyAgain, Resume, AlreadyRefreshed
  <2>3. CASE CheckFailure(t)
    <3>1. CASE FailureCached(t)
      BY <2>3, <3>1 DEF CheckFailure, Return, FailureCached
    <3>2. CASE ~FailureCached(t)
      BY <2>3, <3>2 DEF CheckFailure, Return, FailureCached
    <3> QED
      BY <3>1, <3>2
  <2>4. CASE LoginSucceeds(t)
    <3>1. observed[t] = key /\ failure = {} /\ lock = t
      BY <2>4 DEF LoginSucceeds
    <3>2. ~(\E u \in Threads : Replacing(u))
      BY <2>4, <3>1 DEF LoginSucceeds
    <3>3. logins[key] = 0
      BY <3>1, <3>2
    <3>4. logins' = [logins EXCEPT ![key] = 1] /\ key' = key
      BY <2>4, <3>1, <3>3 DEF LoginSucceeds, CountLogin
    <3>5. Replacing(t)'
      BY <2>4 DEF LoginSucceeds
    <3> QED
      BY <3>4, <3>5
  <2>5. CASE LoginFails(t)
    <3>1. observed[t] = key /\ failure = {} /\ lock = t
      BY <2>5 DEF LoginFails
    <3>2. ~(\E u \in Threads : Replacing(u))
      BY <2>5, <3>1 DEF LoginFails
    <3>3. logins[key] = 0
      BY <3>1, <3>2
    <3>4. logins' = [logins EXCEPT ![key] = 1] /\ key' = key /\ failure' = {key}
      BY <2>5, <3>1, <3>3 DEF LoginFails, CountLogin
    <3> QED
      BY <3>3, <3>4
  <2> QED
    BY <1>2, <2>1, <2>2, <2>3, <2>4, <2>5 DEF RefreshStep
<1>3. ASSUME NEW t \in Threads, SetStep(t) PROVE LoginInv'
  <2>1. CASE SetMode(t)
    BY <2>1 DEF SetMode
  <2>2. CASE SetKey(t)
    BY <2>2 DEF SetKey
  <2>3. CASE SetLocation(t)
    BY <2>3 DEF SetLocation
  <2>4. CASE ClearFailure(t)
    BY <2>4 DEF ClearFailure
  <2>5. CASE DropBasic(t)
    BY <2>5 DEF DropBasic
  <2>6. CASE PutToken(t)
    BY <2>6 DEF PutToken, Resume
  <2> QED
    BY <1>3, <2>1, <2>2, <2>3, <2>4, <2>5, <2>6 DEF SetStep
<1>4. ASSUME NEW t \in Threads,
             ResetStep(t) \/ ClearActive(t) \/ Close(t) \/ Logout(t)
      PROVE  FALSE
  BY <1>4 DEF ResetStep, ResetMode, ResetKey, ResetLocation, ResetFailure,
              DropToken, PutBasic, ClearActive, Close, Logout
<1>5. ASSUME NEW t \in Threads, NEW o \in Ops, Start(t, o)
      PROVE  LoginInv'
  BY <1>5 DEF Start, RequestsOnly, Resumed
<1>6. ASSUME NEW s \in Tokens, Expire(s) PROVE LoginInv'
  BY <1>6 DEF Expire
<1>7. CASE UNCHANGED vars
  BY <1>7 DEF vars
<1> QED
  BY <1>1, <1>2, <1>3, <1>4, <1>5, <1>6, <1>7 DEF Next, Step

LEMMA NextRefresh == ASSUME Resumed, RefreshInv, [Next]_vars PROVE RefreshInv'
<1>1. RequestInv'
  BY NextRequest DEF RefreshInv, Resumed
<1>2. FreshInv'
  BY NextFresh DEF RefreshInv
<1>3. OutcomeInv'
  BY NextOutcome DEF RefreshInv
<1>4. LoginInv'
  BY NextLogin DEF RefreshInv
<1> QED
  BY <1>1, <1>2, <1>3, <1>4 DEF RefreshInv

(* The invariant of a client constructed with a session key.               *)
THEOREM RefreshInvariant == ASSUME Resumed PROVE Spec => []RefreshInv
<1>1. Init => RefreshInv
  BY InitRefresh
<1>2. RefreshInv /\ [Next]_vars => RefreshInv'
  BY NextRefresh
<1> QED
  BY <1>1, <1>2, PTL DEF Spec

(* However many callers see the same session expire, one login is made on  *)
(* behalf of it.                                                           *)
THEOREM LoginsAreShared == ASSUME Resumed PROVE Spec => []OneLoginPerKey
<1>1. RefreshInv => OneLoginPerKey
  BY DEF RefreshInv, LoginInv
<1> QED
  BY <1>1, RefreshInvariant, PTL

(* No caller is handed the failure of a session the client has replaced.   *)
THEOREM FailuresAreCurrent == ASSUME Resumed PROVE Spec => []FailureIsCurrent
<1>1. RefreshInv => FailureIsCurrent
  BY DEF RefreshInv, OutcomeInv, FailureIsCurrent
<1> QED
  BY <1>1, RefreshInvariant, PTL

(* A step of the client, seen through key, failure and logins.  Only three *)
(* steps touch them: the assignment of a new key and the two outcomes of a *)
(* login; clearing the failure on the way finds it cleared.                *)
LEMMA OutcomeSteps ==
    ASSUME Resumed, RefreshInv, [Next]_vars
    PROVE  \/ UNCHANGED <<key, failure, logins>>
           \/ \E t \in Threads : SetKey(t) \/ LoginSucceeds(t) \/ LoginFails(t)
<1> USE DEF auth, bmc, local, hist
<1>1. ASSUME NEW t \in Threads, RequestStep(t)
      PROVE  UNCHANGED <<key, failure, logins>>
  BY <1>1 DEF RequestStep, CheckMode, CheckKey, Observe, Send, Answered,
              Discovered, NotListed, Created, CreatedForCaller, Deleted,
              Rejected, Lost
<1>2. ASSUME NEW t \in Threads, RefreshStep(t)
      PROVE  UNCHANGED <<key, failure, logins>> \/ LoginSucceeds(t) \/ LoginFails(t)
  BY <1>2 DEF RefreshStep, Acquire, CheckKeyAgain, CheckFailure
<1>3. ASSUME NEW t \in Threads, SetStep(t)
      PROVE  UNCHANGED <<key, failure, logins>> \/ SetKey(t)
  <2>1. CASE ClearFailure(t)
    <3>1. failure = {}
      BY <2>1 DEF ClearFailure, Goto, RefreshInv, OutcomeInv, SetPCs
    <3> QED
      BY <2>1, <3>1 DEF ClearFailure
  <2> QED
    BY <1>3, <2>1 DEF SetStep, SetMode, SetLocation, DropBasic, PutToken
<1>4. ASSUME NEW t \in Threads,
             ResetStep(t) \/ ClearActive(t) \/ Close(t) \/ Logout(t)
      PROVE  FALSE
  BY <1>4 DEF ResetStep, ResetMode, ResetKey, ResetLocation, ResetFailure,
              DropToken, PutBasic, ClearActive, Close, Logout, Goto,
              RefreshInv, RequestInv, PathInv, RequestPCs, RefreshPCs, SetPCs
<1>5. ASSUME NEW t \in Threads, NEW o \in Ops, Start(t, o)
      PROVE  UNCHANGED <<key, failure, logins>>
  BY <1>5 DEF Start
<1>6. ASSUME NEW s \in Tokens, Expire(s) PROVE UNCHANGED <<key, failure, logins>>
  BY <1>6 DEF Expire
<1>7. CASE UNCHANGED vars
  BY <1>7 DEF vars
<1> QED
  BY <1>1, <1>2, <1>3, <1>4, <1>5, <1>6, <1>7 DEF Next, Step

(* After a failed refresh no caller of the client logs in again.           *)
THEOREM LockoutHolds == ASSUME Resumed PROVE Spec => LockoutIsFinal
<1>1. ASSUME RefreshInv, [Next]_vars, failure # {}
      PROVE  UNCHANGED <<logins, key, failure>>
  <2>1. ASSUME NEW t \in Threads, SetKey(t) \/ LoginSucceeds(t) \/ LoginFails(t)
        PROVE  FALSE
    BY <1>1, <2>1 DEF SetKey, LoginSucceeds, LoginFails, Goto, RefreshInv,
                      OutcomeInv, SetPCs
  <2> QED
    BY <1>1, <2>1, OutcomeSteps
<1>2. RefreshInv /\ [Next]_vars => [failure # {} => UNCHANGED <<logins, key, failure>>]_vars
  BY <1>1
<1> QED
  BY <1>2, RefreshInvariant, PTL DEF Spec, LockoutIsFinal

-----------------------------------------------------------------------------
(***************************************************************************)
(* The refinement.  AskingFor maps the threads to the callers of           *)
(* SessionRefresh; a step changes it for one thread at most.               *)
(***************************************************************************)
LEMMA AskingUnchanged ==
    ASSUME \A u \in Threads : /\ Asking(u)' <=> Asking(u)
                              /\ Asking(u) => observed'[u] = observed[u]
    PROVE  AskingFor' = AskingFor
  BY DEF AskingFor

LEMMA AskingEnds ==
    ASSUME NEW t \in Threads, ~Asking(t)',
           \A u \in Threads \ {t} : /\ Asking(u)' <=> Asking(u)
                                    /\ Asking(u) => observed'[u] = observed[u]
    PROVE  AskingFor' = [AskingFor EXCEPT ![t] = {}]
  BY DEF AskingFor

LEMMA AskingBegins ==
    ASSUME NEW t \in Threads, ~Asking(t), Asking(t)',
           \A u \in Threads \ {t} : /\ Asking(u)' <=> Asking(u)
                                    /\ Asking(u) => observed'[u] = observed[u]
    PROVE  /\ AskingFor[t] = {}
           /\ AskingFor' = [AskingFor EXCEPT ![t] = {observed'[t]}]
  BY DEF AskingFor

(* A step in which a caller's outcome is fixed.                            *)
LEMMA Ends ==
    ASSUME TypeOK, NEW t \in Threads, Asking(t), ~Asking(t)',
           \E p \in PCs : pc' = [pc EXCEPT ![t] = p],
           observed' = observed \/ observed' = [observed EXCEPT ![t] = None],
           lock' = lock \/ (lock = t /\ lock' = None)
    PROVE  /\ AskingFor[t] = {observed[t]}
           /\ AskingFor' = [AskingFor EXCEPT ![t] = {}]
<1>1. \A u \in Threads \ {t} : /\ Asking(u)' <=> Asking(u)
                               /\ observed'[u] = observed[u]
  BY DEF Asking, TypeOK
<1> QED
  BY <1>1, AskingEnds DEF AskingFor

LEMMA InitRefines == ASSUME Resumed, Init PROVE Abstract!Init
<1>1. key \in Tokens \cup {None} /\ failure = {}
  BY InitRefresh DEF Init, RefreshInv, RequestInv, WireInv, TypeOK, Keys
<1>2. AskingFor = [t \in Threads |-> {}]
  BY DEF Init, AskingFor, Asking, RefreshPCs
<1> QED
  BY <1>1, <1>2 DEF Abstract!Init

(* Steps outside _refresh_session: one of them asks for a refresh.         *)
LEMMA RequestRefines ==
    ASSUME Resumed, RefreshInv, NEW t \in Threads, RequestStep(t)
    PROVE  \/ UNCHANGED <<key, failure, AskingFor>>
           \/ Abstract!Ask(t)
<1> USE DEF RefreshInv, RequestInv, WireInv, TypeOK, PathInv, FreshInv, Keys,
            Goto, auth, bmc, local, hist
<1>1. CASE Rejected(t) /\ MayRefresh(t)
  <2>1. pc[t] = "wire" /\ pc' = [pc EXCEPT ![t] = "acquire"]
    BY <1>1 DEF Rejected
  <2>2. UNCHANGED <<key, failure, observed, lock>>
    BY <1>1 DEF Rejected
  <2>3. /\ AskingFor[t] = {}
        /\ AskingFor' = [AskingFor EXCEPT ![t] = {observed'[t]}]
    BY <2>1, <2>2, AskingBegins DEF Asking, RefreshPCs
  <2> QED
    BY <2>2, <2>3 DEF Abstract!Ask
<1>2. CASE ~(Rejected(t) /\ MayRefresh(t))
  <2>1. /\ pc[t] \in RequestPCs
        /\ \E p \in RequestPCs \cup {"idle"} : pc' = [pc EXCEPT ![t] = p]
        /\ \A u \in Threads \ {t} : observed'[u] = observed[u]
        /\ UNCHANGED <<key, failure, lock>>
    <3> USE DEF RequestPCs
    <3>1. CASE CheckMode(t)
      BY <3>1 DEF CheckMode
    <3>2. CASE CheckKey(t)
      BY <3>2 DEF CheckKey
    <3>3. CASE Observe(t) \/ Send(t)
      BY <3>3 DEF Observe, Send
    <3>4. CASE Answered(t) \/ NotListed(t) \/ Lost(t) \/ Rejected(t)
      BY <3>4, <1>2 DEF Answered, NotListed, Lost, Rejected, Return, Abort
    <3>5. CASE Discovered(t) \/ Created(t) \/ CreatedForCaller(t) \/ Deleted(t)
      BY <3>5 DEF Discovered, Created, CreatedForCaller, Deleted
    <3> QED
      BY <3>1, <3>2, <3>3, <3>4, <3>5 DEF RequestStep
  <2>2. AskingFor' = AskingFor
    BY <2>1, AskingUnchanged DEF Asking, RequestPCs, RefreshPCs
  <2> QED
    BY <2>1, <2>2
<1> QED
  BY <1>1, <1>2

(* Steps of _refresh_session before its assignments: taking the lock and   *)
(* finding no excuse to return change nothing for the caller.              *)
LEMMA RefreshRefines ==
    ASSUME Resumed, RefreshInv, NEW t \in Threads, RefreshStep(t)
    PROVE  \/ UNCHANGED <<key, failure, AskingFor>>
           \/ Abstract!AlreadyReplaced(t) \/ Abstract!GiveUp(t)
<1>5. CASE LoginFails(t)
  <2>1. /\ pc[t] = "login" /\ pc' = [pc EXCEPT ![t] = "idle"]
        /\ observed' = [observed EXCEPT ![t] = None]
        /\ failure' = {observed[t]} /\ key' = key
        /\ lock' = None
    BY <1>5 DEF LoginFails, Return
  <2>2. TypeOK /\ lock = t
    BY <2>1 DEF RefreshInv, RequestInv, WireInv, LockInv, HeldPCs
  <2>3. Asking(t) /\ ~Asking(t)'
    BY <2>1, <2>2 DEF Asking, RefreshPCs, TypeOK
  <2>4. /\ AskingFor[t] = {observed[t]}
        /\ AskingFor' = [AskingFor EXCEPT ![t] = {}]
    BY <2>1, <2>2, <2>3, Ends DEF PCs
  <2>5. failure = {} /\ observed[t] = key
    BY <2>1 DEF RefreshInv, OutcomeInv
  <2> QED
    BY <2>1, <2>4, <2>5 DEF Abstract!GiveUp, Abstract!Done
<1> USE DEF RefreshInv, RequestInv, WireInv, TypeOK, LockInv, FreshInv,
            OutcomeInv, Keys, Goto, auth, bmc, local, hist
<1> USE DEF Asking, RefreshPCs, HeldPCs, PCs
<1>1. CASE Acquire(t)
  <2>1. AskingFor' = AskingFor
    BY <1>1, AskingUnchanged DEF Acquire
  <2> QED
    BY <1>1, <2>1 DEF Acquire
<1>2. CASE CheckKeyAgain(t)
  <2>1. CASE AlreadyRefreshed(t)
    <3>1. /\ AskingFor[t] = {observed[t]}
          /\ AskingFor' = [AskingFor EXCEPT ![t] = {}]
      BY <1>2, <2>1, Ends DEF CheckKeyAgain, Resume, RequestPCs
    <3> QED
      BY <1>2, <2>1, <3>1
      DEF CheckKeyAgain, AlreadyRefreshed, Abstract!AlreadyReplaced, Abstract!Done
  <2>2. CASE ~AlreadyRefreshed(t)
    <3>1. AskingFor' = AskingFor
      BY <1>2, <2>2, AskingUnchanged DEF CheckKeyAgain
    <3> QED
      BY <1>2, <3>1 DEF CheckKeyAgain
  <2> QED
    BY <2>1, <2>2
<1>3. CASE CheckFailure(t)
  <2>1. CASE FailureCached(t)
    <3>1. /\ AskingFor[t] = {observed[t]}
          /\ AskingFor' = [AskingFor EXCEPT ![t] = {}]
      BY <1>3, <2>1, Ends DEF CheckFailure, Return
    <3> QED
      BY <1>3, <2>1, <3>1
      DEF CheckFailure, FailureCached, Abstract!GiveUp, Abstract!Done
  <2>2. CASE ~FailureCached(t)
    <3>1. AskingFor' = AskingFor
      BY <1>3, <2>2, AskingUnchanged DEF CheckFailure
    <3> QED
      BY <1>3, <2>2, <3>1 DEF CheckFailure
  <2> QED
    BY <2>1, <2>2
<1>4. CASE LoginSucceeds(t)
  <2>1. AskingFor' = AskingFor
    BY <1>4, AskingUnchanged, SMTT(30) DEF LoginSucceeds
  <2> QED
    BY <1>4, <2>1 DEF LoginSucceeds
<1> QED
  BY <1>1, <1>2, <1>3, <1>4, <1>5 DEF RefreshStep

(* The assignments of set_auth_token: the one to _session_key replaces the *)
(* key, the others are invisible.                                          *)
LEMMA SetRefines ==
    ASSUME Resumed, RefreshInv, NEW t \in Threads, SetStep(t)
    PROVE  UNCHANGED <<key, failure, AskingFor>> \/ Abstract!Replace(t)
<1>1. CASE SetKey(t)
  <2>1. /\ pc[t] = "set_key" /\ pc' = [pc EXCEPT ![t] = "set_location"]
        /\ key' = target[t]
        /\ UNCHANGED <<failure, observed, lock>>
    BY <1>1 DEF SetKey, Goto, local
  <2>2. TypeOK /\ lock = t
    BY <2>1 DEF RefreshInv, RequestInv, WireInv, PathInv, SetPCs
  <2>3. Asking(t) /\ ~Asking(t)'
    BY <2>1, <2>2 DEF Asking, RefreshPCs, TypeOK
  <2>4. /\ AskingFor[t] = {observed[t]}
        /\ AskingFor' = [AskingFor EXCEPT ![t] = {}]
    BY <2>1, <2>2, <2>3, Ends DEF PCs, SetPCs
  <2>5. key = observed[t] /\ failure = {} /\ target[t] \in issued \ {key}
    BY <2>1 DEF RefreshInv, OutcomeInv, FreshInv, Replacing, SetPCs
  <2>6. target[t] \in Tokens \ {key}
    BY <2>2, <2>5 DEF TypeOK
  <2> QED
    BY <2>1, <2>4, <2>5, <2>6 DEF Abstract!Replace, Abstract!Done
<1> USE DEF RefreshInv, RequestInv, WireInv, TypeOK, LockInv, PathInv, FreshInv,
            OutcomeInv, Keys, Goto, auth, bmc, local, hist
<1> USE DEF Asking, RefreshPCs, SetPCs, PCs, Replacing
<1>2. CASE SetMode(t)
  <2>1. AskingFor' = AskingFor
    BY <1>2, AskingUnchanged DEF SetMode
  <2> QED
    BY <1>2, <2>1 DEF SetMode
<1>3. CASE SetLocation(t) \/ ClearFailure(t) \/ DropBasic(t) \/ PutToken(t)
  <2>1. /\ pc[t] \in SetPCs \ {"set_mode", "set_key"}
        /\ \E p \in SetPCs \cup RequestPCs :
              p \notin {"set_mode", "set_key"} /\ pc' = [pc EXCEPT ![t] = p]
        /\ lock' = lock \/ (lock = t /\ lock' = None)
        /\ UNCHANGED <<key, failure, observed>>
    BY <1>3 DEF SetLocation, ClearFailure, DropBasic, PutToken, Resume, RequestPCs
  <2>2. AskingFor' = AskingFor
    BY <2>1, AskingUnchanged DEF RequestPCs
  <2> QED
    BY <2>1, <2>2
<1> QED
  BY <1>1, <1>2, <1>3 DEF SetStep

LEMMA StepRefines ==
    ASSUME Resumed, RefreshInv, [Next]_vars
    PROVE  [Abstract!Next]_(Abstract!refreshVars)
<1> USE DEF Abstract!Next, Abstract!refreshVars
<1>1. ASSUME NEW t \in Threads, Step(t)
      PROVE  [Abstract!Next]_(Abstract!refreshVars)
  <2>1. ~(ResetStep(t) \/ ClearActive(t) \/ Close(t) \/ Logout(t))
    BY DEF ResetStep, ResetMode, ResetKey, ResetLocation, ResetFailure,
           DropToken, PutBasic, ClearActive, Close, Logout, Goto,
           RefreshInv, RequestInv, PathInv, RequestPCs, RefreshPCs, SetPCs
  <2> QED
    BY <1>1, <2>1, RequestRefines, RefreshRefines, SetRefines DEF Step
<1>2. ASSUME NEW t \in Threads, NEW o \in Ops, Start(t, o)
      PROVE  UNCHANGED <<key, failure, AskingFor>>
  <2>1. /\ pc[t] = "idle" /\ \E p \in {"mode", "close"} : pc' = [pc EXCEPT ![t] = p]
        /\ UNCHANGED <<key, failure, observed, lock>>
    BY <1>2 DEF Start, Goto, auth
  <2>2. AskingFor' = AskingFor
    BY <2>1, AskingUnchanged
    DEF Asking, RefreshPCs, RefreshInv, RequestInv, WireInv, TypeOK
  <2> QED
    BY <2>1, <2>2
<1>3. ASSUME NEW s \in Tokens, Expire(s)
      PROVE  UNCHANGED <<key, failure, AskingFor>>
  BY <1>3 DEF Expire, AskingFor, Asking, auth, local
<1>4. CASE UNCHANGED vars
  BY <1>4 DEF vars, AskingFor, Asking, auth, local
<1> QED
  BY <1>1, <1>2, <1>3, <1>4 DEF Next

(* A client constructed with a session key, whose threads send requests,   *)
(* implements the atomic refresh of SessionRefresh.                        *)
THEOREM RefreshesAreAtomic == ASSUME Resumed PROVE Spec => RefreshIsAtomic
<1>1. Init => Abstract!Init
  BY InitRefines
<1>2. RefreshInv /\ [Next]_vars => [Abstract!Next]_(Abstract!refreshVars)
  BY StepRefines
<1> QED
  BY <1>1, <1>2, RefreshInvariant, PTL DEF Spec, RefreshIsAtomic, Abstract!Spec

-----------------------------------------------------------------------------
(***************************************************************************)
(* From here on: a client used by one thread, which calls whatever it      *)
(* likes on a client constructed however it likes.                         *)
(***************************************************************************)
SingleThread == \E t \in Threads : Threads = {t}

(* Mode, key, location and headers describe the same credentials.          *)
Agree ==
    /\ mode = "basic" => key = None
    /\ header.basic = (mode = "basic") /\ header.token = key
    /\ location \in {key, None}

(* What set_auth_token and reset_basic_auth have assigned so far.          *)
AssignedInv(t) ==
    /\ pc[t] \notin SetPCs \cup ResetPCs => Agree
    /\ pc[t] \in SetPCs \ {"set_mode"} => mode = "session"
    /\ pc[t] \in SetPCs \ {"set_mode", "set_key"} => key = target[t]
    /\ pc[t] \in {"clear_failure", "drop_basic", "put_token"}
         => location \in {target[t], None}
    /\ pc[t] = "put_token" => ~header.basic
    /\ pc[t] \in ResetPCs \ {"reset_mode"} => mode = "basic"
    /\ pc[t] \in ResetPCs \ {"reset_mode", "reset_key"} => key = None
    /\ pc[t] \in {"reset_failure", "drop_token", "put_basic"} => location = None
    /\ pc[t] = "put_basic" => header.token = None

(* The client knows of no deleted session as its own, unless it is about   *)
(* to forget it; what it installs was never deleted.                       *)
GoneInv(t) ==
    /\ live \subseteq issued /\ gone \subseteq issued
    /\ pc[t] \in SetPCs => target[t] \in issued \ gone
    /\ pc[t] \notin SetPCs \cup ResetPCs \cup {"clear"} => location \notin gone
    /\ pc[t] = "clear" /\ location \in gone => location = target[t]
    /\ meth[t] = "DELETE" /\ op[t] = "delete" => target[t] \in issued
    /\ pc[t] \in {"close", "logout"} => op[t] = "close"

ClosedInv(t) == closed => pc[t] = "idle" /\ mode = "basic"

OneInv == \A t \in Threads : AssignedInv(t) /\ GoneInv(t) /\ ClosedInv(t)

LEMMA HeaderShape ==
    ASSUME NEW h \in Headers, NEW b \in BOOLEAN, NEW k, h.basic = b, h.token = k
    PROVE  h = [basic |-> b, token |-> k]
  BY Zenon DEF Headers

LEMMA RequestOne ==
    ASSUME WireInv, OneInv, NEW t \in Threads, RequestStep(t)
    PROVE  AssignedInv(t)' /\ GoneInv(t)' /\ ClosedInv(t)'
<1> USE DEF WireInv, TypeOK, OneInv, AssignedInv, GoneInv, ClosedInv, Agree, Goto,
            auth, bmc, local, hist, Keys, Headers
<1> USE DEF RequestPCs, RefreshPCs, SetPCs, ResetPCs
<1>1. CASE CheckMode(t)
  BY <1>1 DEF CheckMode
<1>2. CASE CheckKey(t)
  BY <1>2 DEF CheckKey
<1>3. CASE Observe(t)
  BY <1>3 DEF Observe
<1>4. CASE Send(t)
  BY <1>4 DEF Send
<1>5. CASE Answered(t)
  BY <1>5 DEF Answered, Return
<1>6. CASE Discovered(t)
  BY <1>6 DEF Discovered
<1>7. CASE NotListed(t)
  BY <1>7 DEF NotListed, Return
<1>8. CASE Created(t)
  BY <1>8 DEF Created, IssueToken
<1>9. CASE CreatedForCaller(t)
  BY <1>9 DEF CreatedForCaller, IssueToken, Return
<1>10. CASE Deleted(t)
  BY <1>10 DEF Deleted, Executed, IssueToken
<1>11. CASE Rejected(t)
  <2>1. CASE MayRefresh(t)
    BY <1>11, <2>1 DEF Rejected, Abort, Return, MayRefresh
  <2>2. CASE ~(MayRefresh(t))
    <3>1. Abort(t) /\ pc[t] = "wire" /\ UNCHANGED <<auth, lock, bmc, hist>>
      BY <1>11, <2>2 DEF Rejected
    <3>2. CASE op[t] = "close"
      BY <3>1, <3>2 DEF Abort
    <3>3. CASE op[t] # "close" /\ Return(t)
      <4>1. AssignedInv(t)'
        BY <3>1, <3>3 DEF Return
      <4>2. GoneInv(t)'
        BY <3>1, <3>3 DEF Return
      <4>3. ClosedInv(t)'
        BY <3>1, <3>3 DEF Return
      <4> QED
        BY <4>1, <4>2, <4>3
    <3> QED
      BY <3>1, <3>2, <3>3 DEF Abort
  <2> QED
    BY <2>1, <2>2
<1>12. CASE Lost(t)
  <2>1. CASE op[t] = "close"
    BY <1>12, <2>1 DEF Lost, Abort, Executed, IssueToken, Return
  <2>2. CASE ~(op[t] = "close")
    <3>1. AssignedInv(t)'
      BY <1>12, <2>2 DEF Lost, Abort, Executed, IssueToken, Return
    <3>2. GoneInv(t)'
      BY <1>12, <2>2 DEF Lost, Abort, Executed, IssueToken, Return
    <3>3. ClosedInv(t)'
      BY <1>12, <2>2 DEF Lost, Abort, Executed, IssueToken, Return
    <3> QED
      BY <3>1, <3>2, <3>3
  <2> QED
    BY <2>1, <2>2
<1> QED
  BY <1>1, <1>2, <1>3, <1>4, <1>5, <1>6, <1>7, <1>8, <1>9, <1>10, <1>11, <1>12 DEF RequestStep

LEMMA RefreshOne ==
    ASSUME WireInv, OneInv, NEW t \in Threads, RefreshStep(t)
    PROVE  AssignedInv(t)' /\ GoneInv(t)' /\ ClosedInv(t)'
<1> USE DEF WireInv, TypeOK, OneInv, AssignedInv, GoneInv, ClosedInv, Agree, Goto,
            auth, bmc, local, hist, Keys, Headers
<1> USE DEF RequestPCs, RefreshPCs, SetPCs, ResetPCs
<1>1. CASE Acquire(t)
  BY <1>1 DEF Acquire
<1>2. CASE CheckKeyAgain(t)
  BY <1>2 DEF CheckKeyAgain, Resume
<1>3. CASE CheckFailure(t)
  <2>1. CASE FailureCached(t)
    BY <1>3, <2>1 DEF CheckFailure, Return
  <2>2. CASE ~(FailureCached(t))
    BY <1>3, <2>2 DEF CheckFailure, Return
  <2> QED
    BY <2>1, <2>2
<1>4. CASE LoginSucceeds(t)
  BY <1>4 DEF LoginSucceeds, IssueToken
<1>5. CASE LoginFails(t)
  BY <1>5 DEF LoginFails, IssueToken, Return
<1> QED
  BY <1>1, <1>2, <1>3, <1>4, <1>5 DEF RefreshStep

LEMMA SetOne ==
    ASSUME WireInv, OneInv, NEW t \in Threads, SetStep(t)
    PROVE  AssignedInv(t)' /\ GoneInv(t)' /\ ClosedInv(t)'
<1> USE DEF WireInv, TypeOK, OneInv, AssignedInv, GoneInv, ClosedInv, Agree, Goto,
            auth, bmc, local, hist, Keys, Headers
<1> USE DEF RequestPCs, RefreshPCs, SetPCs, ResetPCs
<1>1. CASE SetMode(t)
  BY <1>1 DEF SetMode
<1>2. CASE SetKey(t)
  BY <1>2 DEF SetKey
<1>3. CASE SetLocation(t)
  BY <1>3 DEF SetLocation
<1>4. CASE ClearFailure(t)
  BY <1>4 DEF ClearFailure
<1>5. CASE DropBasic(t)
  BY <1>5 DEF DropBasic
<1>6. CASE PutToken(t)
  <2>1. CASE lock = t
    BY <1>6, <2>1 DEF PutToken, Resume, Return
  <2>2. CASE ~(lock = t)
    BY <1>6, <2>2 DEF PutToken, Resume, Return
  <2> QED
    BY <2>1, <2>2
<1> QED
  BY <1>1, <1>2, <1>3, <1>4, <1>5, <1>6 DEF SetStep

LEMMA ResetOne ==
    ASSUME WireInv, OneInv, NEW t \in Threads, ResetStep(t)
    PROVE  AssignedInv(t)' /\ GoneInv(t)' /\ ClosedInv(t)'
<1> USE DEF WireInv, TypeOK, OneInv, AssignedInv, GoneInv, ClosedInv, Agree, Goto,
            auth, bmc, local, hist, Keys, Headers
<1> USE DEF RequestPCs, RefreshPCs, SetPCs, ResetPCs
<1>1. CASE ResetMode(t)
  BY <1>1 DEF ResetMode
<1>2. CASE ResetKey(t)
  BY <1>2 DEF ResetKey
<1>3. CASE ResetLocation(t)
  BY <1>3 DEF ResetLocation
<1>4. CASE ResetFailure(t)
  BY <1>4 DEF ResetFailure
<1>5. CASE DropToken(t)
  BY <1>5 DEF DropToken
<1>6. CASE PutBasic(t)
  <2>1. /\ mode' = "basic" /\ key' = None /\ location' = None
        /\ header'.token = None /\ header'.basic = TRUE
    BY <1>6 DEF PutBasic
  <2>2. (mode' = "basic") = TRUE
    BY <2>1
  <2>3. Agree'
    BY <2>1, <2>2
  <2>4. None \notin gone /\ pc'[t] = "idle" /\ meth'[t] = "GET"
    BY <1>6 DEF PutBasic, Return
  <2> HIDE DEF Agree
  <2> QED
    BY <1>6, <2>1, <2>3, <2>4 DEF PutBasic
<1> QED
  BY <1>1, <1>2, <1>3, <1>4, <1>5, <1>6 DEF ResetStep

LEMMA NextOne ==
    ASSUME SingleThread, WireInv, OneInv, [Next]_vars
    PROVE  OneInv'
<1>1. SUFFICES ASSUME NEW t \in Threads
               PROVE  AssignedInv(t)' /\ GoneInv(t)' /\ ClosedInv(t)'
  BY DEF OneInv
<1> USE DEF WireInv, TypeOK, OneInv, AssignedInv, GoneInv, ClosedInv, Agree, Goto,
            auth, bmc, local, hist, Keys, Headers
<1> USE DEF RequestPCs, RefreshPCs, SetPCs, ResetPCs
<1>2. CASE ClearActive(t)
  <2>1. CASE location = target[t]
    BY <1>2, <2>1 DEF ClearActive
  <2>2. CASE location # target[t]
    <3>1. AssignedInv(t)'
      BY <1>2, <2>2 DEF ClearActive, Return
    <3>2. GoneInv(t)'
      BY <1>2, <2>2 DEF ClearActive, Return
    <3>3. ClosedInv(t)'
      BY <1>2, <2>2 DEF ClearActive, Return
    <3> QED
      BY <3>1, <3>2, <3>3
  <2> QED
    BY <2>1, <2>2
<1>3. CASE Close(t)
  <2>1. CASE mode = "session"
    BY <1>3, <2>1 DEF Close
  <2>2. CASE mode # "session"
    <3>1. AssignedInv(t)'
      BY <1>3, <2>2 DEF Close, Return
    <3>2. GoneInv(t)'
      BY <1>3, <2>2 DEF Close, Return
    <3>3. ClosedInv(t)'
      BY <1>3, <2>2 DEF Close, Return
    <3> QED
      BY <3>1, <3>2, <3>3
  <2> QED
    BY <2>1, <2>2
<1>4. CASE Logout(t)
  BY <1>4 DEF Logout
<1>5. CASE Step(t)
  BY <1>2, <1>3, <1>4, <1>5, RequestOne, RefreshOne, SetOne, ResetOne DEF Step
<1>6. ASSUME NEW o \in Ops, Start(t, o)
      PROVE  AssignedInv(t)' /\ GoneInv(t)' /\ ClosedInv(t)'
  BY <1>6 DEF Start
<1>7. ASSUME NEW s \in Tokens, Expire(s)
      PROVE  AssignedInv(t)' /\ GoneInv(t)' /\ ClosedInv(t)'
  BY <1>7 DEF Expire
<1>8. CASE UNCHANGED vars
  BY <1>8 DEF vars
<1>9. CASE \E s \in Threads : Step(s) \/ \E o \in Ops : Start(s, o)
  <2>1. Threads = {t}
    BY DEF SingleThread
  <2>2. Step(t) \/ \E o \in Ops : Start(t, o)
    <3>1. PICK s \in Threads : Step(s) \/ \E o \in Ops : Start(s, o)
      BY <1>9
    <3>2. s = t
      BY <2>1
    <3> QED
      BY <3>1, <3>2
  <2> QED
    BY <1>5, <1>6, <2>2, Zenon
<1> QED
  BY <1>7, <1>8, <1>9, Zenon DEF Next

LEMMA InitOne == ASSUME Init PROVE OneInv
<1>1. PICK m \in {"basic", "session"}, k \in {None, Given} :
        Constructed(m, k) /\ (m = "basic" => k = None) /\ location \in {k, None}
  BY DEF Init
<1>2. header.basic = (mode = "basic") /\ header.token = key
  BY <1>1 DEF Constructed
<1>3. Agree
  BY <1>1, <1>2 DEF Agree, Constructed
<1>4. live \subseteq issued /\ gone = {} /\ closed = FALSE
  BY <1>1 DEF Init, Constructed
<1> QED
  BY <1>3, <1>4 DEF Init, OneInv, AssignedInv, GoneInv, ClosedInv, SetPCs, ResetPCs

(* The invariant of a client that one thread uses, whatever it calls.      *)
THEOREM OneInvariant == ASSUME SingleThread PROVE Spec => [](WireInv /\ OneInv)
<1>1. Init => WireInv /\ OneInv
  BY InitWire, InitOne
<1>2. WireInv /\ OneInv /\ [Next]_vars => (WireInv /\ OneInv)'
  BY NextWire, NextOne
<1> QED
  BY <1>1, <1>2, PTL DEF Spec

LEMMA QuietAgrees ==
    ASSUME WireInv, OneInv, Quiet, NEW t \in Threads
    PROVE  /\ Agree /\ location \notin gone
           /\ header = [basic |-> mode = "basic", token |-> key]
<1>1. Agree /\ location \notin gone
  BY DEF OneInv, AssignedInv, GoneInv, Quiet, SetPCs, ResetPCs
<1>2. header \in Headers /\ (mode = "basic") \in BOOLEAN
  BY Zenon DEF WireInv, TypeOK
<1>3. header = [basic |-> mode = "basic", token |-> key]
  BY <1>1, <1>2, HeaderShape, Zenon DEF Agree
<1> QED
  BY <1>1, <1>3

(* Whatever one thread called and whatever failed, between its calls mode, *)
(* key, location and headers describe the same credentials.                *)
THEOREM AttributesSettle ==
    ASSUME SingleThread
    PROVE  Spec => []Settled
<1>1. WireInv /\ OneInv => Settled
  BY QuietAgrees, Zenon DEF SingleThread, Settled, Agree
<1> QED
  BY <1>1, OneInvariant, PTL

(* After delete() the client does not authenticate with the deleted        *)
(* session, where it knew its own session's location.                      *)
THEOREM DeletedIsForgotten ==
    ASSUME SingleThread
    PROVE  Spec => []DeletedIsNotActive
<1>1. WireInv /\ OneInv => DeletedIsNotActive
  BY QuietAgrees, Zenon DEF SingleThread, DeletedIsNotActive
<1> QED
  BY <1>1, OneInvariant, PTL

(* close() leaves Basic mode without key, location or token header,        *)
(* whether or not its DELETE was answered.                                 *)
THEOREM CloseIsClean ==
    ASSUME SingleThread
    PROVE  Spec => []CloseClearsAuth
<1>1. WireInv /\ OneInv => CloseClearsAuth
  <2> SUFFICES ASSUME WireInv, OneInv, closed, Quiet
               PROVE  /\ mode = "basic" /\ key = None /\ location = None
                      /\ header = [basic |-> TRUE, token |-> None]
    BY DEF CloseClearsAuth
  <2>1. Agree /\ header = [basic |-> mode = "basic", token |-> key]
    BY QuietAgrees, Zenon DEF SingleThread
  <2>2. mode = "basic"
    BY DEF SingleThread, OneInv, ClosedInv
  <2>3. key = None /\ location = None
    BY <2>1, <2>2 DEF Agree
  <2>4. (mode = "basic") = TRUE
    BY <2>2
  <2> QED
    BY <2>1, <2>2, <2>3, <2>4
<1> QED
  BY <1>1, OneInvariant, PTL
=============================================================================
