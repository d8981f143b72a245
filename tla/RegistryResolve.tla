--------------------------- MODULE RegistryResolve ---------------------------
(***************************************************************************)
(* resolve and _load_document (redfish_sdk/managers/registries.py): the    *)
(* message registries a BMC advertises, the references between their       *)
(* documents, and the cache of documents that the threads of one client    *)
(* share.                                                                  *)
(*                                                                         *)
(* A registry is known by its name (prefix, major and minor version) and   *)
(* its errata.  A document is what it says of the one key that is          *)
(* resolved: the text, nothing, or the registry it refers to, in the head  *)
(* of the document or at the key.                                          *)
(***************************************************************************)
EXTENDS Naturals, Sequences, FiniteSets

CONSTANTS
    Threads,
    Registries,         \* the registries the BMC advertises: <<name, errata>>
    Requests,           \* names of registries the callers ask for
    References,         \* what documents refer to: <<name, errata>>, or
                        \* <<name, Latest>> for the latest
    Latest, Nil, Text, Absent,
    Failing,            \* sources that may fail: subset of {"uri", "publication"}
    Partial,            \* whether a listing may lack a registry it could not read
    Limit               \* _MAX_CACHE_ENTRIES

ASSUME ResolveAssumption ==
    /\ IsFiniteSet(Threads) /\ IsFiniteSet(Registries)
    /\ \A r \in Registries : r = <<r[1], r[2]>> /\ r[2] \in Nat
    /\ Latest \notin Nat /\ Nil \notin Registries
    /\ Nil \notin References /\ {Text, Absent} \cap References = {} /\ Text # Absent
    /\ Failing \subseteq {"uri", "publication"} /\ Partial \in BOOLEAN
    /\ Limit \in Nat \ {0}

VARIABLES
    head,       \* ReferencedRegistry of each document, or Nil
    entry,      \* what it has at the key: Text, Absent or a reference
    cache,      \* _document_cache, the keys in its order
    phase,
    wanted,     \* the reference the thread follows
    at,         \* the registry it has found
    trail,      \* the registries on the way (its order is for the message only)
    source, answer,
    request,    \* history: the name the thread was asked for
    gaps        \* history: a listing lacked a registry during the call

docs == <<head, entry>>
walk == <<wanted, at, trail, source, answer>>
asked == <<request, gaps>>
resolveVars == <<docs, cache, phase, walk, asked>>

Sources == {<<r, k>> : r \in Registries, k \in {"uri", "publication"}}

(* A document that refers to another as a whole need have no messages.     *)
ResolveInit ==
    /\ head \in [Registries -> References \cup {Nil}]
    /\ entry \in [Registries -> References \cup {Text, Absent}]
    /\ \A r \in Registries : head[r] # Nil => entry[r] = Text
    /\ cache = <<>>
    /\ phase = [t \in Threads |-> "idle"]
    /\ wanted = [t \in Threads |-> Nil]
    /\ at = [t \in Threads |-> Nil]
    /\ trail = [t \in Threads |-> {}]
    /\ source = [t \in Threads |-> Nil]
    /\ answer = [t \in Threads |-> Nil]
    /\ request = [t \in Threads |-> Nil]
    /\ gaps = [t \in Threads |-> FALSE]

Goto(t, from, to) == phase[t] = from /\ phase' = [phase EXCEPT ![t] = to]

Elements(s) == {s[i] : i \in DOMAIN s}
-----------------------------------------------------------------------------
Ends == {"returned", "cycle", "unknown", "unloaded", "absent", "arguments",
         "keyerror"}

Resolve(t) ==
    /\ phase[t] \in Ends \cup {"idle"} /\ phase' = [phase EXCEPT ![t] = "find"]
    /\ \E name \in Requests :
          /\ wanted' = [wanted EXCEPT ![t] = <<name, Latest>>]
          /\ request' = [request EXCEPT ![t] = name]
    /\ at' = [at EXCEPT ![t] = Nil]
    /\ trail' = [trail EXCEPT ![t] = {}]
    /\ source' = [source EXCEPT ![t] = Nil]
    /\ answer' = [answer EXCEPT ![t] = Nil]
    /\ gaps' = [gaps EXCEPT ![t] = FALSE]
    /\ UNCHANGED <<docs, cache>>

(* The latest errata, unless the reference names one.                      *)
Candidates(ref, listing) ==
    {r \in listing : r[1] = ref[1] /\ ref[2] \in {Latest, r[2]}}

Best(ref, listing) ==
    {r \in Candidates(ref, listing) :
        \A s \in Candidates(ref, listing) : s[2] <= r[2]}

Listings == IF Partial THEN SUBSET Registries ELSE {Registries}

(* Every hop reads the listing anew.                                       *)
List(t, listing) ==
    gaps' = [gaps EXCEPT ![t] = @ \/ listing # Registries]

Fail(t, why) ==
    /\ phase' = [phase EXCEPT ![t] = why]
    /\ UNCHANGED answer

Looped_Here(t, r) == r = at[t]

Looped(t, r) == r \in trail[t]

(* _find_registry, _find_referenced_registry, and the test for a cycle.    *)
Find(t) ==
    /\ Goto(t, "find", "lookup")
    /\ \E listing \in Listings : \E r \in Best(wanted[t], listing) :
          /\ ~Looped(t, r)
          /\ List(t, listing)
          /\ at' = [at EXCEPT ![t] = r]
          /\ trail' = [trail EXCEPT ![t] = @ \cup {r}]
          /\ source' = [source EXCEPT ![t] = <<r, "uri">>]
    /\ UNCHANGED <<docs, cache, wanted, answer, request>>

FindCycle(t) ==
    /\ phase[t] = "find"
    /\ \E listing \in Listings : \E r \in Best(wanted[t], listing) :
          Looped(t, r) /\ List(t, listing)
    /\ Fail(t, "cycle")
    /\ UNCHANGED <<docs, cache, wanted, at, trail, source, request>>

(* Not advertised, or the listing could not be read.                       *)
FindNothing(t) ==
    /\ phase[t] = "find"
    /\ \E listing \in Listings :
          Best(wanted[t], listing) = {} /\ List(t, listing)
    /\ Fail(t, "unknown")
    /\ UNCHANGED <<docs, cache, wanted, at, trail, source, request>>
-----------------------------------------------------------------------------
(* OrderedDict: a key that is set keeps its place, move_to_end takes it to *)
(* the end, popitem(last=False) removes the first.                         *)
Set(x) == IF x \in Elements(cache) THEN cache ELSE Append(cache, x)

MoveToEnd(i) ==
    SubSeq(cache, 1, i - 1) \o SubSeq(cache, i + 1, Len(cache)) \o <<cache[i]>>

Lookup(t) ==
    /\ Goto(t, "lookup", IF source[t] \in Elements(cache) THEN "touch" ELSE "fetch")
    /\ UNCHANGED <<docs, cache, walk, asked>>

Touch(t, from, to) ==
    /\ Goto(t, from, to)
    /\ \E i \in DOMAIN cache : cache[i] = source[t] /\ cache' = MoveToEnd(i)
    /\ UNCHANGED <<docs, walk, asked>>

(* move_to_end of a key another thread has removed.                        *)
KeyError(t) ==
    /\ phase[t] \in {"touch", "insert"} /\ source[t] \notin Elements(cache)
    /\ Fail(t, "keyerror")
    /\ UNCHANGED <<docs, cache, wanted, at, trail, source, asked>>

Fetch(t) ==
    /\ Goto(t, "fetch", "insert")
    /\ cache' = Set(source[t])
    /\ UNCHANGED <<docs, walk, asked>>

FetchFails(t) ==
    /\ phase[t] = "fetch" /\ source[t][2] \in Failing
    /\ IF source[t][2] = "uri"
         THEN /\ source' = [source EXCEPT ![t] = <<at[t], "publication">>]
              /\ Goto(t, "fetch", "lookup") /\ UNCHANGED answer
         ELSE Fail(t, "unloaded") /\ UNCHANGED source
    /\ UNCHANGED <<docs, cache, wanted, at, trail, asked>>

Excess_OneMore == IF Len(cache) > Limit + 1 THEN Len(cache) - (Limit + 1) ELSE 0

Excess == IF Len(cache) > Limit THEN Len(cache) - Limit ELSE 0

(* The loop that evicts makes no call: it is one step.                     *)
Evict(t) ==
    /\ Goto(t, "evict", "read")
    /\ cache' = SubSeq(cache, Excess + 1, Len(cache))
    /\ UNCHANGED <<docs, walk, asked>>

(* clear_cache, by whoever.                                                *)
ClearCache ==
    /\ cache # <<>> /\ cache' = <<>>
    /\ UNCHANGED <<docs, phase, walk, asked>>
-----------------------------------------------------------------------------
(* What the document of r says of the key: its head comes first.           *)
Says_EntryOnly(r) == entry[r]

Says(r) == IF head[r] # Nil THEN head[r] ELSE entry[r]

Follow(t) ==
    /\ Goto(t, "read", "find")
    /\ Says(at[t]) \in References
    /\ wanted' = [wanted EXCEPT ![t] = Says(at[t])]
    /\ UNCHANGED <<docs, cache, at, trail, source, answer, asked>>

Answer(t) ==
    /\ Goto(t, "read", "returned")
    /\ Says(at[t]) = Text
    /\ answer' = [answer EXCEPT ![t] = at[t]]
    /\ UNCHANGED <<docs, cache, wanted, at, trail, source, asked>>

(* The key is absent, or the arguments do not fit its text.                *)
NoAnswer(t) ==
    /\ phase[t] = "read"
    /\ \/ Says(at[t]) = Absent /\ Fail(t, "absent")
       \/ Says(at[t]) = Text /\ Fail(t, "arguments")
    /\ UNCHANGED <<docs, cache, wanted, at, trail, source, asked>>
-----------------------------------------------------------------------------
Walk(t) == Find(t) \/ FindCycle(t) \/ FindNothing(t)

Load(t) ==
    \/ Lookup(t) \/ Touch(t, "touch", "read") \/ Touch(t, "insert", "evict")
    \/ KeyError(t) \/ Fetch(t) \/ FetchFails(t) \/ Evict(t)

Say(t) == Follow(t) \/ Answer(t) \/ NoAnswer(t)

ResolveNext ==
    \/ ClearCache
    \/ \E t \in Threads : Resolve(t) \/ Walk(t) \/ Load(t) \/ Say(t)

(* A thread that is resolving runs on, and every request is answered.      *)
Fairness == \A t \in Threads : WF_resolveVars(Walk(t) \/ Load(t) \/ Say(t))

ResolveSpec == ResolveInit /\ [][ResolveNext]_resolveVars /\ Fairness
-----------------------------------------------------------------------------
ResolveTypeOK ==
    /\ head \in [Registries -> References \cup {Nil}]
    /\ entry \in [Registries -> References \cup {Text, Absent}]
    /\ cache \in Seq(Sources)
    /\ phase \in [Threads -> Ends \cup {"idle", "find", "lookup", "touch", "fetch",
                                     "insert", "evict", "read"}]
    /\ wanted \in [Threads -> (Requests \X {Latest}) \cup References \cup {Nil}]
    /\ at \in [Threads -> Registries \cup {Nil}]
    /\ trail \in [Threads -> SUBSET Registries]
    /\ source \in [Threads -> Sources \cup {Nil}]
    /\ answer \in [Threads -> Registries \cup {Nil}]
    /\ request \in [Threads -> Requests \cup {Nil}]
    /\ gaps \in [Threads -> BOOLEAN]

(* The meaning of a MessageId: the registries reached from the latest      *)
(* errata of its name by the references of their documents.                *)
Target(ref) ==
    {r \in Registries :
        /\ r[1] = ref[1]
        /\ IF ref[2] = Latest
             THEN \A s \in Registries : s[1] = r[1] => s[2] <= r[2]
             ELSE r[2] = ref[2]}

Refers(r) == {head[r], IF head[r] = Nil THEN entry[r] ELSE Nil} \cap References

Reached(name) ==
    {x \in Registries :
        \A S \in SUBSET Registries :
            /\ Target(<<name, Latest>>) \subseteq S
            /\ \A r \in S, ref \in References : ref \in Refers(r) => Target(ref) \subseteq S
            => x \in S}

Defines(r) == head[r] = Nil /\ entry[r] = Text

(* The message that is returned is the one its MessageId stands for, and a *)
(* failure is the documents': unless registries could not be listed, a     *)
(* cycle is reported only where every registry reached refers to another,  *)
(* and a missing registry or key only where one is missing.                *)
MeansWhatItSays ==
    \A t \in Threads : phase[t] \in Ends /\ ~gaps[t] =>
        LET seen == Reached(request[t]) IN
        /\ phase[t] = "returned" => answer[t] \in seen /\ Defines(answer[t])
        /\ phase[t] = "cycle" =>
              \A r \in seen : \E ref \in Refers(r) : Target(ref) # {}
        /\ phase[t] = "unknown" => \A r \in seen : Refers(r) # {}
        /\ phase[t] = "absent" => \E r \in seen : entry[r] = Absent

(* When no thread is loading a document the cache is within its limit,     *)
(* and no document is in it twice (test_registry_document_cache_is_bounded)*)
CacheBounded ==
    /\ (\A t \in Threads : phase[t] \notin {"insert", "evict"}) =>
          Len(cache) <= Limit
    /\ Cardinality(Elements(cache)) = Len(cache)

(* Only a race of threads, or a clear_cache during the call, fails in the  *)
(* cache.                                                                  *)
CacheNeverFails == \A t \in Threads : phase[t] # "keyerror"

(* Every resolution ends: references that form a cycle are noticed, and a  *)
(* document that is evicted at once is not looked up again.                *)
EveryResolutionEnds ==
    \A t \in Threads : (phase[t] = "find") ~> (phase[t] \in Ends)
=============================================================================
