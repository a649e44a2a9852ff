---------------------------- MODULE OkhttpRedirect ----------------------------
(***************************************************************************)
(* hook/okhttp_redirect: answering HTTP requests from a cache.             *)
(*                                                                         *)
(* HttpEngine.sendRequest and HttpEngine.readResponse of an application's  *)
(* okhttp are replaced for the urls ShouldFake selects.  sendRequest asks  *)
(* the cache (ResourceCacheInterface) and on a hit sends nothing.          *)
(* readResponse asks the cache AGAIN: on a hit it builds the response from *)
(* the cached document, else it lets okhttp read the response, and a       *)
(* response with code 200 is written to a file named by the md5 of the url *)
(* and the cache service is told to take that file.                        *)
(*                                                                         *)
(* The requests of all the threads and processes of a package share the    *)
(* files and the service, and no lock orders them.  The service is not in  *)
(* this repository: what it does is what ResourceCache relies on.          *)
(*                                                                         *)
(* The handlers reach the request and the response of okhttp through two   *)
(* static Fields.  Such an access can come to nothing while another one    *)
(* goes on (FieldAccess): ShouldFake is false then, the handler throws, or *)
(* the response is not set.                                                *)
(***************************************************************************)
EXTENDS Integers, FiniteSets

CONSTANTS
    Request,    \* requests at a time, each with its HttpEngine, in a process of
                \* the package
    Url,        \* urls (two with one md5 are not told apart)
    Fake,       \* the urls for which ShouldFake is true
    Body,       \* bodies that the network's responses have
    Backend,    \* "service": ResourceCache, "fixture": ResourceCacheTest
    Absent,     \* no file, no entry, no response
    Empty,      \* a file that was opened for writing and is not written yet
    Damaged,    \* a part of a document, or parts of two
    MaxFaults,  \* bound: failing network, service and file operations, and accesses
                \* to a Field that come to nothing
    MaxEvicts   \* bound: entries that the service drops

ASSUME RedirectAssumption ==
    /\ Fake \subseteq Url
    /\ Body # {}
    /\ Backend \in {"service", "fixture"}
    /\ MaxFaults \in Nat /\ MaxEvicts \in Nat

VARIABLES
    hooks,      \* the methods of HttpEngine that HookClass replaced
    pc,         \* per request: where it is
    url,        \* per request: userRequest.url()
    exchanged,  \* per request: okhttp's own sendRequest was called
    resp,       \* per request: userResponse
    disk,       \* per url: the file /data/data/<pkg>/<md5>
    store,      \* per url: the entry of the cache service
    faults, evicts,  \* counters for the bounds
    \* History: read by no guard, written for the properties.
    received,   \* per url: bodies that the network gave with code 200
    overlapped, \* urls whose file was opened while another request used it
    evicted,    \* urls whose entry was dropped
    faulted,    \* per request: an operation of it failed
    raced,      \* per request: one of its accesses to a Field came to nothing
    due         \* per request: a whole document was stored when it began

engine == <<pc, url, exchanged, resp>>
bounds == <<faults, evicts>>
history == <<received, overlapped, evicted, faulted, raced, due>>
vars == <<hooks, engine, disk, store, bounds, history>>

-----------------------------------------------------------------------------
(* Documents.  layers counts the base64 codings around the body.           *)

Document == [field : {"body", "data"}, body : Body, layers : 1..3]

\* What is no document can be told from one, and "nothing" from "something".
ASSUME MarkAssumption ==
    /\ {Absent, Empty, Damaged} \cap Document = {}
    /\ Absent \notin {Empty, Damaged}

\* Variant: the caller has coded the body as well.
ToJson_Thrice(b) == [field |-> "body", body |-> b, layers |-> 4]

\* json.put("body", Base64.getEncoder().encode(body)) puts a byte[], which
\* fastjson writes as the base64 text of those bytes: two codings.
ToJson(b) == [field |-> "body", body |-> b, layers |-> 2]

\* The document of ResourceCacheTest: its body is coded once and is the member
\* "data".
FixtureDocument == [field |-> "data", body |-> CHOOSE b \in Body : TRUE, layers |-> 1]

\* new Cache(id, bytes): getString("body") of a text that is a whole document.
\* For anything else parseObject or decode(null) throws.
Parses(d) == d \in Document /\ d.field = "body"

Response == [from : {"network", "cache"}, code : {200, 404}, body : Body, layers : 0..2]
FromNetwork(c, b) == [from |-> "network", code |-> c, body |-> b, layers |-> 0]
\* Cache decodes once; responseCode is 200.
FromCache(d) == [from |-> "cache", code |-> 200, body |-> d.body, layers |-> d.layers - 1]

Method == {"sendRequest", "readResponse"}
SavePc == {"open", "write", "upload"}
Pc == {"idle", "send", "read", "fetch", "network", "plain", "done", "failed"} \cup SavePc

TypeOK ==
    /\ hooks \in SUBSET Method
    /\ pc \in [Request -> Pc]
    /\ url \in [Request -> Url]
    /\ exchanged \in [Request -> BOOLEAN]
    /\ resp \in [Request -> Response \cup {Absent}]
    /\ disk \in [Url -> Document \cup {Absent, Empty, Damaged}]
    /\ store \in [Url -> Document \cup {Absent, Empty, Damaged}]
    /\ faults \in 0..MaxFaults /\ evicts \in 0..MaxEvicts
    /\ received \in [Url -> SUBSET Body]
    /\ overlapped \in SUBSET Url /\ evicted \in SUBSET Url
    /\ faulted \in [Request -> BOOLEAN] /\ raced \in [Request -> BOOLEAN]
    /\ due \in [Request -> BOOLEAN]

\* HookClass hooks method by method, logs the ones that fail and goes on.
Init ==
    /\ hooks \in SUBSET Method
    /\ pc = [r \in Request |-> "idle"]
    /\ url \in [Request -> Url]
    /\ exchanged = [r \in Request |-> FALSE]
    /\ resp = [r \in Request |-> Absent]
    /\ disk = [u \in Url |-> Absent]
    /\ store = [u \in Url |-> Absent]
    /\ faults = 0 /\ evicts = 0
    /\ received = [u \in Url |-> {}]
    /\ overlapped = {} /\ evicted = {}
    /\ faulted = [r \in Request |-> FALSE]
    /\ raced = [r \in Request |-> FALSE]
    /\ due = [r \in Request |-> FALSE]

Goto(r, l) == pc' = [pc EXCEPT ![r] = l]

\* Variant: the file of an earlier response counts as an entry.
HasCache_File(u) == disk[u] # Absent

\* has_cache: there is an entry, whatever it holds.  The fixture says true.
HasCache(u) == \/ Backend = "fixture"
               \/ store[u] # Absent

\* What GetCache is given to parse.
GetCache(u) == IF Backend = "fixture" THEN FixtureDocument ELSE store[u]

\* replaceHookedMethod runs the fake method, else okhttp's own.
Fakes(m, r) == m \in hooks /\ url[r] \in Fake

-----------------------------------------------------------------------------
Begin(r, u) ==
    /\ pc[r] = "idle"
    /\ Goto(r, "send")
    /\ url' = [url EXCEPT ![r] = u]
    /\ due' = [due EXCEPT ![r] = /\ hooks = Method /\ u \in Fake
                                 /\ Backend = "service" /\ Parses(store[u])]
    /\ UNCHANGED <<hooks, exchanged, resp, disk, store, bounds, received,
                   overlapped, evicted, faulted, raced>>

\* Variant: the cache is not asked before the request is sent.
SendRequest_Always(r) ==
    /\ pc[r] = "send"
    /\ exchanged' = [exchanged EXCEPT ![r] = TRUE]
    /\ Goto(r, "read")
    /\ UNCHANGED <<hooks, url, resp, disk, store, bounds, history>>

\* sendRequest: with an entry in the cache nothing leaves.  The request to the
\* cache and okhttp's own sendRequest, which no other request sees, are one step.
SendRequest(r) ==
    /\ pc[r] = "send"
    /\ exchanged' = [exchanged EXCEPT ![r] =
                        ~(Fakes("sendRequest", r) /\ HasCache(url[r]))]
    /\ Goto(r, "read")
    /\ UNCHANGED <<hooks, url, resp, disk, store, bounds, history>>

\* readResponse asks again.
ReadResponse(r) ==
    /\ pc[r] = "read"
    /\ Goto(r, IF Fakes("readResponse", r) /\ HasCache(url[r])
               THEN "fetch" ELSE "network")
    /\ UNCHANGED <<hooks, url, exchanged, resp, disk, store, bounds, history>>

\* Variant: a document that does not parse is asked for again.
FetchCache_Retries(r) ==
    /\ pc[r] = "fetch"
    /\ IF Parses(GetCache(url[r]))
       THEN /\ resp' = [resp EXCEPT ![r] = FromCache(GetCache(url[r]))]
            /\ Goto(r, "done")
       ELSE /\ Goto(r, "read")
            /\ UNCHANGED resp
    /\ UNCHANGED <<hooks, url, exchanged, disk, store, bounds, history>>

\* GetCache and SetResponse.  No entry any more (an empty "data") and a text
\* that is no document are exceptions, which the application gets.
FetchCache(r) ==
    /\ pc[r] = "fetch"
    /\ IF Parses(GetCache(url[r]))
       THEN /\ resp' = [resp EXCEPT ![r] = FromCache(GetCache(url[r]))]
            /\ Goto(r, "done")
       ELSE /\ Goto(r, "failed")
            /\ UNCHANGED resp
    /\ UNCHANGED <<hooks, url, exchanged, disk, store, bounds, history>>

\* Variant: responses are saved whatever their code.
ReadNetwork_AnyCode(r) ==
    /\ pc[r] = "network" /\ exchanged[r]
    /\ \E c \in {200, 404}, b \in Body :
        /\ resp' = [resp EXCEPT ![r] = FromNetwork(c, b)]
        /\ received' = IF c = 200 THEN [received EXCEPT ![url[r]] = @ \cup {b}]
                                  ELSE received
        /\ Goto(r, IF Fakes("readResponse", r) THEN "open" ELSE "done")
    /\ UNCHANGED <<hooks, url, exchanged, disk, store, bounds, overlapped,
                   evicted, faulted, raced, due>>

\* okhttp's own readResponse; a faked response with code 200 is kept.
\* GetBodyBytes puts the bytes it consumed back, for the application.
ReadNetwork(r) ==
    /\ pc[r] = "network" /\ exchanged[r]
    /\ \E c \in {200, 404}, b \in Body :
        /\ resp' = [resp EXCEPT ![r] = FromNetwork(c, b)]
        /\ received' = IF c = 200 THEN [received EXCEPT ![url[r]] = @ \cup {b}]
                                  ELSE received
        /\ Goto(r, IF Fakes("readResponse", r) /\ c = 200 THEN "open" ELSE "done")
    /\ UNCHANGED <<hooks, url, exchanged, disk, store, bounds, overlapped,
                   evicted, faulted, raced, due>>

\* okhttp has no request to read a response of: IllegalStateException.
NothingSent(r) ==
    /\ pc[r] = "network" /\ ~exchanged[r]
    /\ Goto(r, "failed")
    /\ UNCHANGED <<hooks, url, exchanged, resp, disk, store, bounds, history>>

-----------------------------------------------------------------------------
(* UploadCache: save_file, then the request upload_cache, during which the  *)
(* service reads the file.                                                 *)

Peer(r, labels) == \E q \in Request \ {r} : url[q] = url[r] /\ pc[q] \in labels

\* new FileOutputStream truncates the file.
OpenFile(r) ==
    /\ pc[r] = "open"
    /\ disk' = [disk EXCEPT ![url[r]] = Empty]
    /\ overlapped' = IF Peer(r, {"write", "upload"}) THEN overlapped \cup {url[r]}
                                                     ELSE overlapped
    /\ Goto(r, "write")
    /\ UNCHANGED <<hooks, url, exchanged, resp, store, bounds, received,
                   evicted, faulted, raced, due>>

\* The write is at the stream's own offset 0: over another document, a longer
\* one keeps its rest.
WriteFile(r) ==
    /\ pc[r] = "write"
    /\ \E d \in {ToJson(resp[r].body)} \cup
                (IF disk[url[r]] \in {Empty, ToJson(resp[r].body)} THEN {} ELSE {Damaged}) :
          disk' = [disk EXCEPT ![url[r]] = d]
    /\ Goto(r, "upload")
    /\ UNCHANGED <<hooks, url, exchanged, resp, store, bounds, history>>

\* upload_cache; an answer other than "true" is only logged.
Upload(r) ==
    /\ pc[r] = "upload"
    /\ \/ store' = [store EXCEPT ![url[r]] = IF Backend = "service" THEN disk[url[r]]
                                                                    ELSE @]
       \/ UNCHANGED store
    /\ Goto(r, "done")
    /\ UNCHANGED <<hooks, url, exchanged, resp, disk, bounds, history>>

-----------------------------------------------------------------------------
Fail(r) ==
    /\ faults < MaxFaults
    /\ faults' = faults + 1
    /\ faulted' = [faulted EXCEPT ![r] = TRUE]
    /\ Goto(r, "failed")
    /\ UNCHANGED <<hooks, url, exchanged, resp, evicts, received, overlapped,
                   evicted, raced, due>>

\* The service does not answer has_cache or download_cache, the connection
\* fails, the file cannot be opened: the exception goes to the application.
CallFails(r) ==
    /\ pc[r] \in {"send", "read", "fetch", "network", "open"}
    /\ Fail(r)
    /\ UNCHANGED <<disk, store>>

\* Variant: the exception of save_file is swallowed and the upload goes on.
WriteFails_Swallowed(r) ==
    /\ pc[r] = "write"
    /\ faults < MaxFaults
    /\ faults' = faults + 1
    /\ disk' = [disk EXCEPT ![url[r]] = Damaged]
    /\ Goto(r, "upload")
    /\ UNCHANGED <<hooks, url, exchanged, resp, store, evicts, history>>

\* The write fails, after a part of the document or before.
WriteFails(r) ==
    /\ pc[r] = "write"
    /\ Fail(r)
    /\ \/ disk' = [disk EXCEPT ![url[r]] = Damaged]
       \/ UNCHANGED disk
    /\ UNCHANGED store

\* The answer to upload_cache does not come; the service may have done it.
\* The response that had arrived is not delivered.
UploadFails(r) ==
    /\ pc[r] = "upload"
    /\ Fail(r)
    /\ \/ store' = [store EXCEPT ![url[r]] = IF Backend = "service" THEN disk[url[r]]
                                                                    ELSE @]
       \/ UNCHANGED store
    /\ UNCHANGED disk

-----------------------------------------------------------------------------
(* HookTools.GetFieldValue and SetField on RequestField and ResponseField, *)
(* while another request of the process uses them.                         *)

\* FieldAccess!FailureNeedsOverlap: only beside another request.
LosesAccess(r) ==
    /\ faults < MaxFaults
    /\ \E q \in Request \ {r} : pc[q] # "idle"
    /\ faults' = faults + 1
    /\ raced' = [raced EXCEPT ![r] = TRUE]
    /\ UNCHANGED <<hooks, url, evicts, overlapped, evicted, faulted, due>>

\* ShouldFake catches what GetRequest throws and says false: okhttp's own sendRequest.
SendUnfaked(r) ==
    /\ pc[r] = "send" /\ Fakes("sendRequest", r)
    /\ LosesAccess(r)
    /\ exchanged' = [exchanged EXCEPT ![r] = TRUE]
    /\ Goto(r, "read")
    /\ UNCHANGED <<resp, disk, store, received>>

\* The same, with okhttp's own readResponse to come.
ReadUnfaked(r) ==
    /\ pc[r] = "read" /\ Fakes("readResponse", r)
    /\ LosesAccess(r)
    /\ Goto(r, "plain")
    /\ UNCHANGED <<exchanged, resp, disk, store, received>>

\* okhttp's own readResponse, which is all there is to it.
ReadPlain(r) ==
    /\ pc[r] = "plain"
    /\ IF exchanged[r]
       THEN \E c \in {200, 404}, b \in Body :
              /\ resp' = [resp EXCEPT ![r] = FromNetwork(c, b)]
              /\ received' = IF c = 200 THEN [received EXCEPT ![url[r]] = @ \cup {b}]
                                        ELSE received
              /\ Goto(r, "done")
       ELSE /\ Goto(r, "failed")
            /\ UNCHANGED <<resp, received>>
    /\ UNCHANGED <<hooks, url, exchanged, disk, store, bounds, overlapped, evicted,
                   faulted, raced, due>>

\* GetRequest or GetResponse in a handler: the proxy of null throws, which the
\* application gets.  SetResponse: its result is not looked at, and okhttp, asked for
\* the response, throws.  An exchange that has taken place is lost.
HandlerThrows(r) ==
    /\ \/ pc[r] = "send" /\ Fakes("sendRequest", r)
       \/ pc[r] \in {"read", "fetch"} /\ Fakes("readResponse", r)
       \/ pc[r] = "network" /\ Fakes("readResponse", r) /\ exchanged[r]
    /\ LosesAccess(r)
    /\ Goto(r, "failed")
    /\ UNCHANGED <<exchanged, resp, disk, store, received>>

-----------------------------------------------------------------------------
\* The application is done with the response.
Return(r) ==
    /\ pc[r] \in {"done", "failed"}
    /\ Goto(r, "idle")
    /\ exchanged' = [exchanged EXCEPT ![r] = FALSE]
    /\ resp' = [resp EXCEPT ![r] = Absent]
    /\ faulted' = [faulted EXCEPT ![r] = FALSE]
    /\ raced' = [raced EXCEPT ![r] = FALSE]
    /\ due' = [due EXCEPT ![r] = FALSE]
    /\ UNCHANGED <<hooks, url, disk, store, bounds, received, overlapped, evicted>>

\* The process of the request is killed: what it wrote of the file stays.
Kill(r) ==
    /\ pc[r] # "idle"
    /\ Goto(r, "idle")
    /\ \/ /\ pc[r] = "write"
          /\ disk' = [disk EXCEPT ![url[r]] = Damaged]
       \/ UNCHANGED disk
    /\ exchanged' = [exchanged EXCEPT ![r] = FALSE]
    /\ resp' = [resp EXCEPT ![r] = Absent]
    /\ faulted' = [faulted EXCEPT ![r] = FALSE]
    /\ raced' = [raced EXCEPT ![r] = FALSE]
    /\ due' = [due EXCEPT ![r] = FALSE]
    /\ UNCHANGED <<hooks, url, store, bounds, received, overlapped, evicted>>

\* The service drops an entry, by itself or because it was restarted.
Evict(u) ==
    /\ evicts < MaxEvicts /\ store[u] # Absent
    /\ evicts' = evicts + 1
    /\ store' = [store EXCEPT ![u] = Absent]
    /\ evicted' = evicted \cup {u}
    /\ due' = [r \in Request |-> due[r] /\ url[r] # u]
    /\ UNCHANGED <<hooks, engine, disk, faults, received, overlapped, faulted, raced>>

-----------------------------------------------------------------------------
Step(r) ==
    \/ SendRequest(r) \/ ReadResponse(r) \/ FetchCache(r)
    \/ ReadNetwork(r) \/ NothingSent(r)
    \/ OpenFile(r) \/ WriteFile(r) \/ Upload(r)
    \/ CallFails(r) \/ WriteFails(r) \/ UploadFails(r)
    \/ SendUnfaked(r) \/ ReadUnfaked(r) \/ ReadPlain(r) \/ HandlerThrows(r)

Next == \/ \E r \in Request : Step(r) \/ Return(r) \/ Kill(r)
        \/ \E r \in Request, u \in Url : Begin(r, u)
        \/ \E u \in Url : Evict(u)

Spec == Init /\ [][Next]_vars

\* Every call of the cache and of the network returns or times out, and nothing
\* in a request waits for another request.
Fairness == \A r \in Request : WF_vars(Step(r))
FairSpec == Spec /\ Fairness

-----------------------------------------------------------------------------
(* Properties.                                                             *)

Answered(r) == pc[r] = "done"

\* A response from the cache has a body that the network once gave, with code
\* 200, for the same url: no error page and no half of a file is ever replayed,
\* whatever overlaps, fails or is killed (HttpEngine 141-163, ResourceCache 108-133).
HitIsGenuine ==
    \A r \in Request :
        Answered(r) /\ resp[r].from = "cache" => resp[r].body \in received[url[r]]

\* The service never takes a file that is not a whole document unless two
\* requests were saving one url at once: a failed or interrupted save alone
\* does not get there (ResourceCache 127-133, units.save_file).
DamageNeedsOverlap ==
    \A u \in Url : store[u] \in {Empty, Damaged} => u \in overlapped

\* What an application loses by the redirection: an answer is missing only after
\* a failed operation of the request itself, an access to a Field that another
\* request spoiled, a dropped or damaged entry, or when readResponse is not replaced
\* and sendRequest is (HttpEngine 121-163).
FailureHasCause ==
    \A r \in Request : pc[r] = "failed" =>
        \/ faulted[r] \/ raced[r]
        \/ url[r] \in evicted \cup overlapped
        \/ hooks = {"sendRequest"}

\* The purpose of the redirection: a request that begins with a whole document
\* in the cache sends nothing and is answered from the cache, unless the entry
\* is dropped under way or another request spoils an access to a Field (HttpEngine
\* 122-134, 158-162).
CacheIsUsed ==
    \A r \in Request :
        Answered(r) /\ due[r] /\ ~raced[r] => ~exchanged[r] /\ resp[r].from = "cache"

\* A cached response is the one that was received: its body carries no coding
\* that the received one did not carry.
ReplayIsPlain ==
    \A r \in Request : Answered(r) => resp[r].layers = 0

\* Every request ends with a response or an exception, in whatever state the
\* entries of the cache are, unless its process ends before (HttpEngine 121-163).
RequestEnds ==
    \A r \in Request : pc[r] = "send" ~> pc[r] \in {"done", "failed", "idle"}

=============================================================================
