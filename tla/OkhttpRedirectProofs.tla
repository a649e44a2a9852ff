------------------------- MODULE OkhttpRedirectProofs -------------------------
(***************************************************************************)
(* Theorems about OkhttpRedirect, for any requests, urls and bodies.       *)
(***************************************************************************)
EXTENDS OkhttpRedirect, TLAPS

(* The inductive invariant, in parts.                                      *)

\* A response that is being saved was received, with code 200, for its url.
SaveInv ==
    \A r \in Request : pc[r] \in SavePc =>
        resp[r] \in Response /\ resp[r].body \in received[url[r]]

\* So was what the documents hold, in the files and in the service.
GenuineInv ==
    \A u \in Url : \A d \in {disk[u], store[u]} :
        d \in Document => d.field = "body" /\ d.body \in received[u]

\* Two requests that write or upload one file have been noticed.
Saving(r) == pc[r] \in {"write", "upload"}

OverlapInv ==
    \A r, q \in Request :
        r # q /\ Saving(r) /\ Saving(q) /\ url[r] = url[q] => url[r] \in overlapped

\* Alone with its file, a request finds it empty and then leaves a document in it.
FileInv ==
    \A r \in Request :
        /\ Saving(r) => disk[url[r]] # Absent
        /\ pc[r] = "write" => disk[url[r]] = Empty \/ url[r] \in overlapped
        /\ pc[r] = "upload" => disk[url[r]] \in Document \/ url[r] \in overlapped

\* What was in the service is there, or was dropped.
Kept(u) == store[u] # Absent \/ u \in evicted

\* Why a request is where it is: nothing was sent, or nothing will be read, because of
\* an entry.
AskedInv ==
    \A r \in Request :
        /\ pc[r] = "read" /\ ~exchanged[r] => Fakes("sendRequest", r) /\ Kept(url[r])
        /\ pc[r] = "fetch" => Kept(url[r])
        /\ pc[r] = "network" /\ ~exchanged[r] => hooks = {"sendRequest"} \/ url[r] \in evicted
        /\ pc[r] = "plain" => raced[r]

\* Nothing is sent before a request begins.
FreshInv == \A r \in Request : pc[r] = "idle" => ~exchanged[r]

\* A request that began with an entry and keeps its luck finds it at each question.
DueInv ==
    \A r \in Request : due[r] =>
        /\ hooks = Method /\ url[r] \in Fake /\ Backend = "service"
        /\ store[url[r]] # Absent
        /\ raced[r] \/ pc[r] \in {"send", "read", "fetch", "done", "failed"}
        /\ raced[r] \/ ~exchanged[r]

IInv ==
    /\ TypeOK
    /\ SaveInv /\ GenuineInv /\ HitIsGenuine
    /\ OverlapInv /\ FileInv /\ DamageNeedsOverlap
    /\ Backend = "service" => AskedInv /\ FailureHasCause
    /\ FreshInv /\ DueInv /\ CacheIsUsed

LEMMA InitIInv == Init => IInv
  <1>. SUFFICES ASSUME Init PROVE IInv
    OBVIOUS
  <1>1. TypeOK
    BY RedirectAssumption DEF Init, TypeOK, Pc
  <1>2. \A r \in Request : pc[r] = "idle" /\ ~due[r]
    BY DEF Init
  <1>3. \A u \in Url : disk[u] = Absent /\ store[u] = Absent
    BY DEF Init
  <1>4. SaveInv /\ HitIsGenuine /\ OverlapInv /\ FileInv /\ AskedInv /\ FailureHasCause
          /\ FreshInv /\ DueInv /\ CacheIsUsed
    BY <1>2 DEF Init, FreshInv, SaveInv, SavePc, HitIsGenuine, OverlapInv, FileInv, AskedInv, Saving,
       FailureHasCause, DueInv, CacheIsUsed, Answered
  <1>5. GenuineInv /\ DamageNeedsOverlap
    BY <1>3, MarkAssumption DEF GenuineInv, DamageNeedsOverlap
  <1>. QED
    BY <1>1, <1>4, <1>5 DEF IInv

-----------------------------------------------------------------------------
(* Documents.                                                              *)

LEMMA ToJsonIsDocument ==
    ASSUME NEW b \in Body
    PROVE  ToJson(b) \in Document /\ ToJson(b).field = "body" /\ ToJson(b).body = b
  BY DEF ToJson, Document

LEMMA ParsedIsService ==
    ASSUME NEW u, Parses(GetCache(u))
    PROVE  Backend = "service" /\ GetCache(u) = store[u] /\ store[u] \in Document
  <1>1. Backend # "fixture"
    BY DEF Parses, GetCache, FixtureDocument
  <1>. QED
    BY <1>1, RedirectAssumption DEF RedirectAssumption, Parses, GetCache

LEMMA FromCacheIsResponse ==
    ASSUME NEW d \in Document
    PROVE  /\ FromCache(d) \in Response
           /\ FromCache(d).from = "cache" /\ FromCache(d).body = d.body
  BY DEF FromCache, Document, Response

LEMMA FromNetworkIsResponse ==
    ASSUME NEW c \in {200, 404}, NEW b \in Body
    PROVE  /\ FromNetwork(c, b) \in Response
           /\ FromNetwork(c, b).from = "network" /\ FromNetwork(c, b).body = b
  BY DEF FromNetwork, Response

-----------------------------------------------------------------------------
(* Types.                                                                  *)

LEMMA FetchType ==
    ASSUME TypeOK, NEW r \in Request, FetchCache(r) PROVE TypeOK'
  <1>1. resp' \in [Request -> Response \cup {Absent}]
    <2>1. CASE Parses(GetCache(url[r]))
      <3>1. FromCache(GetCache(url[r])) \in Response
        BY <2>1, ParsedIsService, FromCacheIsResponse
      <3>. QED
        BY <2>1, <3>1 DEF FetchCache, TypeOK
    <2>2. CASE ~Parses(GetCache(url[r]))
      BY <2>2 DEF FetchCache, TypeOK
    <2>. QED
      BY <2>1, <2>2
  <1>2. pc' \in [Request -> Pc]
    BY DEF FetchCache, Goto, TypeOK, Pc
  <1>. QED
    BY <1>1, <1>2 DEF FetchCache, TypeOK, bounds, history

LEMMA NetworkType ==
    ASSUME TypeOK, NEW r \in Request, ReadNetwork(r) \/ ReadPlain(r) PROVE TypeOK'
  <1>1. resp' \in [Request -> Response \cup {Absent}]
    BY FromNetworkIsResponse DEF ReadNetwork, ReadPlain, TypeOK
  <1>2. received' \in [Url -> SUBSET Body]
    BY DEF ReadNetwork, ReadPlain, TypeOK
  <1>3. pc' \in [Request -> Pc]
    BY DEF ReadNetwork, ReadPlain, Goto, TypeOK, Pc, SavePc
  <1>. QED
    BY <1>1, <1>2, <1>3 DEF ReadNetwork, ReadPlain, TypeOK, bounds, history

LEMMA SaveType ==
    ASSUME TypeOK, SaveInv, NEW r \in Request,
           OpenFile(r) \/ WriteFile(r) \/ Upload(r)
    PROVE  TypeOK'
  <1>1. disk' \in [Url -> Document \cup {Absent, Empty, Damaged}]
    <2>1. ASSUME WriteFile(r) PROVE ToJson(resp[r].body) \in Document
      <3>1. resp[r].body \in Body
        BY <2>1 DEF WriteFile, SaveInv, SavePc, Response
      <3>. QED
        BY <3>1, ToJsonIsDocument
    <2>. QED
      BY <2>1 DEF OpenFile, WriteFile, Upload, TypeOK
  <1>2. store' \in [Url -> Document \cup {Absent, Empty, Damaged}]
    BY DEF OpenFile, WriteFile, Upload, TypeOK
  <1>3. pc' \in [Request -> Pc]
    BY DEF OpenFile, WriteFile, Upload, Goto, TypeOK, Pc, SavePc
  <1>4. overlapped' \in SUBSET Url
    BY DEF OpenFile, WriteFile, Upload, TypeOK, history
  <1>. QED
    BY <1>1, <1>2, <1>3, <1>4 DEF OpenFile, WriteFile, Upload, TypeOK, bounds, history

LEMMA FailType ==
    ASSUME TypeOK, NEW r \in Request, CallFails(r) \/ WriteFails(r) \/ UploadFails(r)
    PROVE  TypeOK'
  <1>1. Fail(r)
    BY DEF CallFails, WriteFails, UploadFails
  <1>2. faults' \in 0 .. MaxFaults
    BY <1>1, RedirectAssumption DEF Fail, TypeOK, RedirectAssumption
  <1>3. pc' \in [Request -> Pc] /\ faulted' \in [Request -> BOOLEAN]
    BY <1>1 DEF Fail, Goto, TypeOK, Pc
  <1>4. /\ disk' \in [Url -> Document \cup {Absent, Empty, Damaged}]
        /\ store' \in [Url -> Document \cup {Absent, Empty, Damaged}]
    BY DEF CallFails, WriteFails, UploadFails, TypeOK
  <1>. QED
    BY <1>1, <1>2, <1>3, <1>4 DEF Fail, TypeOK

LEMMA LostAccessType ==
    ASSUME TypeOK, NEW r \in Request, SendUnfaked(r) \/ ReadUnfaked(r) \/ HandlerThrows(r)
    PROVE  TypeOK'
  <1>1. LosesAccess(r)
    BY DEF SendUnfaked, ReadUnfaked, HandlerThrows
  <1>2. faults' \in 0 .. MaxFaults
    BY <1>1, RedirectAssumption DEF LosesAccess, TypeOK, RedirectAssumption
  <1>3. raced' \in [Request -> BOOLEAN]
    BY <1>1 DEF LosesAccess, TypeOK
  <1>4. pc' \in [Request -> Pc] /\ exchanged' \in [Request -> BOOLEAN]
    BY DEF SendUnfaked, ReadUnfaked, HandlerThrows, Goto, TypeOK, Pc
  <1>. QED
    BY <1>1, <1>2, <1>3, <1>4 DEF LosesAccess, SendUnfaked, ReadUnfaked, HandlerThrows, TypeOK

LEMMA TypeStep == TypeOK /\ SaveInv /\ [Next]_vars => TypeOK'
  <1>. SUFFICES ASSUME TypeOK, SaveInv, [Next]_vars PROVE TypeOK'
    OBVIOUS
  <1>1. ASSUME NEW r \in Request, NEW u \in Url, Begin(r, u) PROVE TypeOK'
    <2>1. due' \in [Request -> BOOLEAN]
      BY <1>1 DEF Begin, TypeOK
    <2>. QED
      BY <1>1, <2>1 DEF Begin, Goto, TypeOK, Pc, bounds
  <1>2. ASSUME NEW r \in Request, SendRequest(r) \/ ReadResponse(r) \/ NothingSent(r)
        PROVE  TypeOK'
    <2>1. pc' \in [Request -> Pc]
      BY <1>2 DEF SendRequest, ReadResponse, NothingSent, Goto, TypeOK, Pc
    <2>2. exchanged' \in [Request -> BOOLEAN]
      BY <1>2 DEF SendRequest, ReadResponse, NothingSent, TypeOK
    <2>. QED
      BY <1>2, <2>1, <2>2 DEF SendRequest, ReadResponse, NothingSent, TypeOK, bounds, history
  <1>3. ASSUME NEW r \in Request, Return(r) \/ Kill(r) PROVE TypeOK'
    <2>1. /\ pc' \in [Request -> Pc] /\ exchanged' \in [Request -> BOOLEAN]
          /\ resp' \in [Request -> Response \cup {Absent}]
          /\ faulted' \in [Request -> BOOLEAN] /\ raced' \in [Request -> BOOLEAN]
          /\ due' \in [Request -> BOOLEAN]
      BY <1>3 DEF Return, Kill, Goto, TypeOK, Pc
    <2>2. disk' \in [Url -> Document \cup {Absent, Empty, Damaged}]
      BY <1>3 DEF Return, Kill, TypeOK
    <2>. QED
      BY <1>3, <2>1, <2>2 DEF Return, Kill, TypeOK, bounds
  <1>4. ASSUME NEW u \in Url, Evict(u) PROVE TypeOK'
    <2>1. evicts' \in 0 .. MaxEvicts
      BY <1>4, RedirectAssumption DEF Evict, TypeOK, RedirectAssumption
    <2>2. due' \in [Request -> BOOLEAN]
      BY <1>4 DEF Evict, TypeOK
    <2>. QED
      BY <1>4, <2>1, <2>2 DEF Evict, TypeOK, engine
  <1>5. ASSUME UNCHANGED vars PROVE TypeOK'
    BY <1>5 DEF vars, engine, bounds, history, TypeOK
  <1>. QED
    BY <1>1, <1>2, <1>3, <1>4, <1>5, FetchType, NetworkType, SaveType, FailType,
       LostAccessType DEF Next, Step

-----------------------------------------------------------------------------
(* What every step does.                                                   *)

\* The steps of one request.
Acts(r) == Step(r) \/ Return(r) \/ Kill(r) \/ \E u \in Url : Begin(r, u)

LEMMA NextIsActs == Next <=> (\E r \in Request : Acts(r)) \/ (\E u \in Url : Evict(u))
  BY DEF Next, Acts

\* They change nothing of another request, and history only grows.
LEMMA Frame ==
    ASSUME TypeOK, NEW r \in Request, Acts(r)
    PROVE  /\ \A q \in Request \ {r} :
                 /\ pc'[q] = pc[q] /\ url'[q] = url[q] /\ exchanged'[q] = exchanged[q]
                 /\ resp'[q] = resp[q] /\ faulted'[q] = faulted[q]
                 /\ raced'[q] = raced[q] /\ due'[q] = due[q]
           /\ hooks' = hooks /\ evicted' = evicted /\ overlapped \subseteq overlapped'
           /\ \A u \in Url : received[u] \subseteq received'[u]
  <1>1. ASSUME (\E u \in Url : Begin(r, u)) \/ SendRequest(r)
               \/ ReadResponse(r) \/ FetchCache(r) \/ NothingSent(r)
        PROVE  /\ \A q \in Request \ {r} :
                     /\ pc'[q] = pc[q] /\ url'[q] = url[q] /\ exchanged'[q] = exchanged[q]
                     /\ resp'[q] = resp[q] /\ faulted'[q] = faulted[q]
                     /\ raced'[q] = raced[q] /\ due'[q] = due[q]
               /\ hooks' = hooks /\ evicted' = evicted /\ overlapped' = overlapped
               /\ received' = received
    BY <1>1 DEF TypeOK, Begin, SendRequest, ReadResponse, FetchCache, NothingSent, Goto, history
  <1>2. ASSUME OpenFile(r) \/ WriteFile(r) \/ Upload(r)
               \/ CallFails(r) \/ WriteFails(r) \/ UploadFails(r)
        PROVE  /\ \A q \in Request \ {r} :
                     /\ pc'[q] = pc[q] /\ url'[q] = url[q] /\ exchanged'[q] = exchanged[q]
                     /\ resp'[q] = resp[q] /\ faulted'[q] = faulted[q]
                     /\ raced'[q] = raced[q] /\ due'[q] = due[q]
               /\ hooks' = hooks /\ evicted' = evicted /\ overlapped \subseteq overlapped'
               /\ received' = received
    BY <1>2 DEF TypeOK, OpenFile, WriteFile, Upload, CallFails, WriteFails, UploadFails, Fail,
       Goto, history
  <1>3. ASSUME ReadNetwork(r) \/ ReadPlain(r)
        PROVE  /\ \A q \in Request \ {r} :
                     /\ pc'[q] = pc[q] /\ url'[q] = url[q] /\ exchanged'[q] = exchanged[q]
                     /\ resp'[q] = resp[q] /\ faulted'[q] = faulted[q]
                     /\ raced'[q] = raced[q] /\ due'[q] = due[q]
               /\ hooks' = hooks /\ evicted' = evicted /\ overlapped' = overlapped
               /\ \A u \in Url : received[u] \subseteq received'[u]
    BY <1>3 DEF TypeOK, ReadNetwork, ReadPlain, Goto
  <1>4. ASSUME SendUnfaked(r) \/ ReadUnfaked(r) \/ HandlerThrows(r) \/ Return(r) \/ Kill(r)
        PROVE  /\ \A q \in Request \ {r} :
                     /\ pc'[q] = pc[q] /\ url'[q] = url[q] /\ exchanged'[q] = exchanged[q]
                     /\ resp'[q] = resp[q] /\ faulted'[q] = faulted[q]
                     /\ raced'[q] = raced[q] /\ due'[q] = due[q]
               /\ hooks' = hooks /\ evicted' = evicted /\ overlapped' = overlapped
               /\ received' = received
    BY <1>4 DEF TypeOK, SendUnfaked, ReadUnfaked, HandlerThrows, LosesAccess, Return, Kill, Goto
  <1>. QED
    BY <1>1, <1>2, <1>3, <1>4 DEF Acts, Step

\* A request keeps its url until it begins again, and its response until it returns.
LEMMA OwnFrame ==
    ASSUME TypeOK, NEW r \in Request, Acts(r), pc'[r] # "idle", pc[r] # "idle"
    PROVE  /\ url'[r] = url[r]
           /\ faulted[r] => faulted'[r]
           /\ raced[r] => raced'[r]
           /\ due'[r] = due[r]
           /\ pc[r] \in SavePc => resp'[r] = resp[r]
  <1>1. ASSUME SendRequest(r) \/ ReadResponse(r) \/ FetchCache(r) \/ NothingSent(r)
               \/ OpenFile(r) \/ WriteFile(r) \/ Upload(r)
        PROVE  url' = url /\ faulted' = faulted /\ raced' = raced /\ due' = due
               /\ (pc[r] \in SavePc => resp'[r] = resp[r])
    BY <1>1 DEF SendRequest, ReadResponse, FetchCache, NothingSent, OpenFile, WriteFile, Upload,
       SavePc, history
  <1>2. ASSUME ReadNetwork(r) \/ ReadPlain(r)
        PROVE  url' = url /\ faulted' = faulted /\ raced' = raced /\ due' = due
               /\ pc[r] \notin SavePc
    BY <1>2 DEF ReadNetwork, ReadPlain, SavePc
  <1>3. ASSUME CallFails(r) \/ WriteFails(r) \/ UploadFails(r)
        PROVE  url' = url /\ faulted'[r] /\ raced' = raced /\ due' = due /\ resp' = resp
    BY <1>3 DEF CallFails, WriteFails, UploadFails, Fail, TypeOK
  <1>4. ASSUME SendUnfaked(r) \/ ReadUnfaked(r) \/ HandlerThrows(r)
        PROVE  url' = url /\ faulted' = faulted /\ raced'[r] /\ due' = due /\ resp' = resp
    BY <1>4 DEF SendUnfaked, ReadUnfaked, HandlerThrows, LosesAccess, TypeOK
  <1>5. ~Return(r) /\ ~Kill(r) /\ ~(\E u \in Url : Begin(r, u))
    BY DEF Return, Kill, Begin, Goto, TypeOK
  <1>. QED
    BY <1>1, <1>2, <1>3, <1>4, <1>5 DEF Acts, Step

\* Only a request that writes puts a document into a file, only one that uploads puts
\* the file into the service.
LEMMA Files ==
    ASSUME TypeOK, NEW r \in Request, Acts(r)
    PROVE  /\ \A u \in Url : \/ disk'[u] = disk[u]
                             \/ disk'[u] \in {Empty, Damaged}
                             \/ disk'[u] = ToJson(resp[r].body) /\ pc[r] = "write" /\ u = url[r]
           /\ \A u \in Url : disk'[u] # disk[u] => pc[r] \in {"open", "write"} /\ u = url[r]
           /\ \A u \in Url : \/ store'[u] = store[u]
                             \/ store'[u] = disk[u] /\ pc[r] = "upload" /\ u = url[r]
  <1>1. ASSUME (\E u \in Url : Begin(r, u)) \/ SendRequest(r) \/ ReadResponse(r)
               \/ FetchCache(r) \/ NothingSent(r) \/ CallFails(r) \/ ReadNetwork(r)
               \/ ReadPlain(r) \/ SendUnfaked(r) \/ ReadUnfaked(r) \/ HandlerThrows(r) \/ Return(r)
        PROVE  disk' = disk /\ store' = store
    BY <1>1 DEF Begin, SendRequest, ReadResponse, FetchCache, NothingSent, CallFails,
       ReadNetwork, ReadPlain, SendUnfaked, ReadUnfaked, HandlerThrows, Return
  <1>2. ASSUME OpenFile(r) \/ WriteFile(r) \/ WriteFails(r) \/ Kill(r)
        PROVE  /\ \A u \in Url : \/ disk'[u] = disk[u]
                                 \/ disk'[u] \in {Empty, Damaged}
                                 \/ disk'[u] = ToJson(resp[r].body) /\ pc[r] = "write" /\ u = url[r]
               /\ \A u \in Url : disk'[u] # disk[u] => pc[r] \in {"open", "write"} /\ u = url[r]
               /\ store' = store
    BY <1>2 DEF OpenFile, WriteFile, WriteFails, Kill, TypeOK
  <1>3. ASSUME Upload(r) \/ UploadFails(r)
        PROVE  /\ disk' = disk
               /\ \A u \in Url : \/ store'[u] = store[u]
                                 \/ store'[u] = disk[u] /\ pc[r] = "upload" /\ u = url[r]
    BY <1>3 DEF Upload, UploadFails, TypeOK
  <1>. QED
    BY <1>1, <1>2, <1>3 DEF Acts, Step

LEMMA EvictFrame ==
    ASSUME TypeOK, NEW u \in Url, Evict(u)
    PROVE  /\ UNCHANGED <<hooks, pc, url, exchanged, resp, disk, received, overlapped, faulted, raced>>
           /\ evicted' = evicted \cup {u}
           /\ \A w \in Url \ {u} : store'[w] = store[w]
           /\ store'[u] = Absent
           /\ \A r \in Request : due'[r] => due[r] /\ url[r] # u
  BY DEF TypeOK, Evict, engine

-----------------------------------------------------------------------------
(* What is replayed.                                                       *)

LEMMA SaveStep == IInv /\ [Next]_vars => SaveInv'
  <1>. SUFFICES ASSUME IInv, [Next]_vars PROVE SaveInv'
    OBVIOUS
  <1>0. TypeOK /\ SaveInv
    BY DEF IInv
  <1>1. ASSUME NEW r \in Request, Acts(r) PROVE SaveInv'
    <2>. SUFFICES ASSUME NEW q \in Request, pc'[q] \in SavePc
                  PROVE  resp'[q] \in Response /\ resp'[q].body \in received'[url'[q]]
      BY DEF SaveInv
    <2>1. CASE q # r
      BY <1>0, <1>1, <2>1, Frame DEF SaveInv, TypeOK
    <2>2. CASE q = r /\ pc[r] \in SavePc
      <3>1. resp'[r] = resp[r] /\ url'[r] = url[r]
        BY <1>0, <1>1, <2>2, OwnFrame DEF SavePc
      <3>. QED
        BY <1>0, <1>1, <2>2, <3>1, Frame DEF SaveInv, TypeOK
    <2>3. CASE q = r /\ pc[r] \notin SavePc
      <3>1. ReadNetwork(r) /\ pc'[r] # "done"
        BY <1>0, <1>1, <2>3 DEF Acts, Step, Begin, SendRequest, ReadResponse, FetchCache,
           NothingSent, OpenFile, WriteFile, Upload, CallFails, WriteFails, UploadFails, Fail,
           SendUnfaked, ReadUnfaked, ReadPlain, HandlerThrows, Return, Kill, Goto, SavePc, TypeOK
      <3>2. PICK c \in {200, 404}, b \in Body :
               /\ resp' = [resp EXCEPT ![r] = FromNetwork(c, b)]
               /\ received' = IF c = 200 THEN [received EXCEPT ![url[r]] = @ \cup {b}]
                                         ELSE received
               /\ pc' = [pc EXCEPT ![r] = IF Fakes("readResponse", r) /\ c = 200
                                          THEN "open" ELSE "done"]
        BY <3>1 DEF ReadNetwork, Goto
      <3>3. c = 200
        BY <1>0, <3>1, <3>2 DEF TypeOK
      <3>4. resp'[r] = FromNetwork(c, b) /\ b \in received'[url[r]] /\ url' = url
        BY <1>0, <3>1, <3>2, <3>3 DEF TypeOK, ReadNetwork
      <3>. QED
        BY <2>3, <3>4, FromNetworkIsResponse
    <2>. QED
      BY <2>1, <2>2, <2>3
  <1>2. ASSUME NEW u \in Url, Evict(u) PROVE SaveInv'
    BY <1>0, <1>2, EvictFrame DEF SaveInv
  <1>3. ASSUME UNCHANGED vars PROVE SaveInv'
    BY <1>0, <1>3 DEF SaveInv, vars, engine, history
  <1>. QED
    BY <1>1, <1>2, <1>3, NextIsActs

LEMMA GenuineStep == IInv /\ [Next]_vars => GenuineInv'
  <1>. SUFFICES ASSUME IInv, [Next]_vars PROVE GenuineInv'
    OBVIOUS
  <1>0. TypeOK /\ SaveInv /\ GenuineInv
    BY DEF IInv
  <1>1. ASSUME NEW r \in Request, Acts(r), NEW u \in Url, NEW d \in {disk'[u], store'[u]},
               d \in Document
        PROVE  d.field = "body" /\ d.body \in received'[u]
    <2>1. received[u] \subseteq received'[u]
      BY <1>0, <1>1, Frame
    <2>2. \/ d \in {disk[u], store[u]}
          \/ d = ToJson(resp[r].body) /\ pc[r] = "write" /\ u = url[r]
      BY <1>0, <1>1, Files, MarkAssumption
    <2>3. CASE d \in {disk[u], store[u]}
      BY <1>0, <1>1, <2>1, <2>3 DEF GenuineInv
    <2>4. CASE d = ToJson(resp[r].body) /\ pc[r] = "write" /\ u = url[r]
      <3>1. resp[r].body \in received[u] /\ resp[r].body \in Body
        BY <1>0, <2>4 DEF SaveInv, SavePc, TypeOK
      <3>. QED
        BY <2>1, <2>4, <3>1, ToJsonIsDocument
    <2>. QED
      BY <2>2, <2>3, <2>4
  <1>2. ASSUME NEW u \in Url, Evict(u) PROVE GenuineInv'
    BY <1>0, <1>2, EvictFrame, MarkAssumption DEF GenuineInv
  <1>3. ASSUME UNCHANGED vars PROVE GenuineInv'
    BY <1>0, <1>3 DEF GenuineInv, vars, history
  <1>4. ASSUME NEW r \in Request, Acts(r) PROVE GenuineInv'
    BY <1>1, <1>4 DEF GenuineInv
  <1>. QED
    BY <1>2, <1>3, <1>4, NextIsActs

LEMMA HitStep == IInv /\ [Next]_vars => HitIsGenuine'
  <1>. SUFFICES ASSUME IInv, [Next]_vars PROVE HitIsGenuine'
    OBVIOUS
  <1>0. TypeOK /\ SaveInv /\ GenuineInv /\ HitIsGenuine
    BY DEF IInv
  <1>1. ASSUME NEW r \in Request, Acts(r) PROVE HitIsGenuine'
    <2>. SUFFICES ASSUME NEW q \in Request, pc'[q] = "done", resp'[q].from = "cache"
                  PROVE  resp'[q].body \in received'[url'[q]]
      BY DEF HitIsGenuine, Answered
    <2>1. CASE q # r
      BY <1>0, <1>1, <2>1, Frame DEF HitIsGenuine, Answered, TypeOK
    <2>2. CASE q = r
      <3>1. FetchCache(r) \/ ReadNetwork(r) \/ ReadPlain(r) \/ Upload(r)
        BY <1>0, <1>1, <2>2 DEF Acts, Step, Begin, SendRequest, ReadResponse,
           NothingSent, OpenFile, WriteFile, CallFails, WriteFails, UploadFails, Fail,
           SendUnfaked, ReadUnfaked, HandlerThrows, Return, Kill, Goto, TypeOK
      <3>2. CASE FetchCache(r)
        <4>1. Parses(GetCache(url[r])) /\ resp'[r] = FromCache(GetCache(url[r]))
          BY <1>0, <2>2, <3>2 DEF FetchCache, Goto, TypeOK
        <4>2. GetCache(url[r]) = store[url[r]] /\ store[url[r]] \in Document
          BY <4>1, ParsedIsService
        <4>3. resp'[r].body = store[url[r]].body
          BY <4>1, <4>2, FromCacheIsResponse
        <4>. QED
          BY <1>0, <2>2, <3>2, <4>2, <4>3 DEF GenuineInv, FetchCache, TypeOK, history
      <3>3. CASE ReadNetwork(r) \/ ReadPlain(r)
        <4>1. PICK c \in {200, 404}, b \in Body : resp' = [resp EXCEPT ![r] = FromNetwork(c, b)]
          BY <1>0, <2>2, <3>3 DEF ReadNetwork, ReadPlain, Goto, TypeOK
        <4>2. resp'[r].from = "network"
          BY <1>0, <4>1, FromNetworkIsResponse DEF TypeOK
        <4>. QED
          BY <2>2, <4>2
      <3>4. CASE Upload(r)
        BY <1>0, <2>2, <3>4 DEF SaveInv, SavePc, Upload, history
      <3>. QED
        BY <3>1, <3>2, <3>3, <3>4
    <2>. QED
      BY <2>1, <2>2
  <1>2. ASSUME NEW u \in Url, Evict(u) PROVE HitIsGenuine'
    BY <1>0, <1>2, EvictFrame DEF HitIsGenuine, Answered
  <1>3. ASSUME UNCHANGED vars PROVE HitIsGenuine'
    BY <1>0, <1>3 DEF HitIsGenuine, Answered, vars, engine, history
  <1>. QED
    BY <1>1, <1>2, <1>3, NextIsActs

-----------------------------------------------------------------------------
(* The files.                                                              *)

\* A request comes to write by opening its file, and to upload by writing it.
LEMMA SavingStep ==
    ASSUME TypeOK, NEW r \in Request, Acts(r), Saving(r)'
    PROVE  /\ url'[r] = url[r]
           /\ \/ OpenFile(r) /\ pc'[r] = "write"
              \/ WriteFile(r) /\ pc'[r] = "upload"
  BY DEF Saving, Acts, Step, Begin, SendRequest, ReadResponse, FetchCache, ReadNetwork,
     NothingSent, OpenFile, WriteFile, Upload, CallFails, WriteFails, UploadFails, Fail,
     SendUnfaked, ReadUnfaked, ReadPlain, HandlerThrows, Return, Kill, Goto, TypeOK

LEMMA OverlapStep == IInv /\ [Next]_vars => OverlapInv'
  <1>. SUFFICES ASSUME IInv, [Next]_vars PROVE OverlapInv'
    OBVIOUS
  <1>0. TypeOK /\ OverlapInv
    BY DEF IInv
  <1>1. ASSUME NEW r \in Request, Acts(r) PROVE OverlapInv'
    <2>1. \A q \in Request \ {r} : (Saving(q)' <=> Saving(q)) /\ url'[q] = url[q]
      BY <1>0, <1>1, Frame DEF Saving
    <2>2. overlapped \subseteq overlapped'
      BY <1>0, <1>1, Frame
    <2>3. ASSUME NEW q \in Request \ {r}, Saving(q), Saving(r)', url[q] = url'[r]
          PROVE  url[q] \in overlapped'
      <3>1. CASE OpenFile(r) /\ url'[r] = url[r]
        <4>1. Peer(r, {"write", "upload"})
          BY <2>3, <3>1 DEF Peer, Saving
        <4>. QED
          BY <2>3, <3>1, <4>1 DEF OpenFile
      <3>2. CASE WriteFile(r) /\ url'[r] = url[r]
        BY <1>0, <2>2, <2>3, <3>2 DEF OverlapInv, Saving, WriteFile
      <3>. QED
        BY <1>0, <1>1, <2>3, <3>1, <3>2, SavingStep
    <2>. QED
      BY <1>0, <2>1, <2>2, <2>3 DEF OverlapInv
  <1>2. ASSUME NEW u \in Url, Evict(u) PROVE OverlapInv'
    BY <1>0, <1>2, EvictFrame DEF OverlapInv, Saving
  <1>3. ASSUME UNCHANGED vars PROVE OverlapInv'
    BY <1>0, <1>3 DEF OverlapInv, Saving, vars, engine, history
  <1>. QED
    BY <1>1, <1>2, <1>3, NextIsActs

LEMMA FileStep == IInv /\ [Next]_vars => FileInv'
  <1>. SUFFICES ASSUME IInv, [Next]_vars PROVE FileInv'
    OBVIOUS
  <1>0. TypeOK /\ SaveInv /\ OverlapInv /\ FileInv
    BY DEF IInv
  <1>. DEFINE Good(q) == /\ disk[url[q]] # Absent
                         /\ pc[q] = "write" => disk[url[q]] = Empty \/ url[q] \in overlapped
                         /\ pc[q] = "upload" => disk[url[q]] \in Document \/ url[q] \in overlapped
  <1>1. ASSUME NEW r \in Request, Acts(r), NEW q \in Request, Saving(q)' PROVE Good(q)'
    <2>1. overlapped \subseteq overlapped'
      BY <1>0, <1>1, Frame
    <2>2. CASE q = r /\ OpenFile(r) /\ pc'[r] = "write" /\ url'[r] = url[r]
      BY <1>0, <2>2, MarkAssumption DEF OpenFile, TypeOK
    <2>3. CASE q = r /\ WriteFile(r) /\ pc'[r] = "upload" /\ url'[r] = url[r]
      <3>1. ToJson(resp[r].body) \in Document
        BY <1>0, <2>3, ToJsonIsDocument DEF SaveInv, SavePc, WriteFile, Response
      <3>2. \/ disk'[url[r]] = ToJson(resp[r].body)
            \/ disk'[url[r]] = Damaged /\ disk[url[r]] # Empty
        BY <1>0, <2>3 DEF WriteFile, TypeOK
      <3>3. disk[url[r]] = Empty \/ url[r] \in overlapped
        BY <1>0, <2>3 DEF FileInv, WriteFile
      <3>. QED
        BY <2>1, <2>3, <3>1, <3>2, <3>3, MarkAssumption
    \* Another request has changed the file: this one was noticed.
    <2>4. CASE q # r
      <3>1. pc'[q] = pc[q] /\ url'[q] = url[q] /\ Saving(q)
        BY <1>0, <1>1, <2>4, Frame DEF Saving
      <3>2. Good(q)
        BY <1>0, <3>1 DEF FileInv, Saving
      <3>3. CASE disk'[url[q]] = disk[url[q]]
        BY <2>1, <3>1, <3>2, <3>3
      <3>4. CASE disk'[url[q]] # disk[url[q]]
        <4>1. url[r] = url[q] /\ pc[r] \in {"open", "write"} /\ url[q] \in Url
          BY <1>0, <1>1, <3>4, Files DEF TypeOK
        <4>2. url[q] \in overlapped'
          <5>1. CASE pc[r] = "write"
            BY <1>0, <2>1, <2>4, <3>1, <4>1, <5>1 DEF OverlapInv, Saving
          <5>2. CASE pc[r] = "open"
            <6>1. OpenFile(r)
              BY <1>1, <3>4, <5>2 DEF Acts, Step, Begin, SendRequest, ReadResponse,
                 FetchCache, ReadNetwork, NothingSent, WriteFile, Upload, CallFails, WriteFails,
                 UploadFails, SendUnfaked, ReadUnfaked, ReadPlain, HandlerThrows, Return, Kill
            <6>2. Peer(r, {"write", "upload"})
              BY <2>4, <3>1, <4>1 DEF Peer, Saving
            <6>. QED
              BY <4>1, <6>1, <6>2 DEF OpenFile
          <5>. QED
            BY <4>1, <5>1, <5>2
        <4>3. disk'[url[q]] # Absent
          <5>1. pc[r] = "write" => ToJson(resp[r].body) \in Document
            BY <1>0, ToJsonIsDocument DEF SaveInv, SavePc, Response
          <5>. QED
            BY <1>0, <1>1, <3>4, <4>1, <5>1, Files, MarkAssumption
        <4>. QED
          BY <3>1, <4>2, <4>3
      <3>. QED
        BY <3>3, <3>4
    <2>. QED
      BY <1>0, <1>1, <2>2, <2>3, <2>4, SavingStep
  <1>2. ASSUME NEW u \in Url, Evict(u) PROVE FileInv'
    BY <1>0, <1>2, EvictFrame DEF FileInv, Saving
  <1>3. ASSUME UNCHANGED vars PROVE FileInv'
    BY <1>0, <1>3 DEF FileInv, Saving, vars, engine, history
  <1>4. ASSUME NEW r \in Request, Acts(r) PROVE FileInv'
    BY <1>1, <1>4 DEF FileInv, Saving
  <1>. QED
    BY <1>2, <1>3, <1>4, NextIsActs

LEMMA DamageStep == IInv /\ [Next]_vars => DamageNeedsOverlap'
  <1>. SUFFICES ASSUME IInv, [Next]_vars PROVE DamageNeedsOverlap'
    OBVIOUS
  <1>0. TypeOK /\ FileInv /\ DamageNeedsOverlap
    BY DEF IInv
  <1>1. ASSUME NEW r \in Request, Acts(r) PROVE DamageNeedsOverlap'
    <2>. SUFFICES ASSUME NEW u \in Url, store'[u] \in {Empty, Damaged} PROVE u \in overlapped'
      BY DEF DamageNeedsOverlap
    <2>1. overlapped \subseteq overlapped'
      BY <1>0, <1>1, Frame
    <2>2. CASE store'[u] = store[u]
      BY <1>0, <2>1, <2>2 DEF DamageNeedsOverlap
    <2>3. CASE store'[u] = disk[u] /\ pc[r] = "upload" /\ u = url[r]
      BY <1>0, <2>1, <2>3, MarkAssumption DEF FileInv
    <2>. QED
      BY <1>0, <1>1, <2>2, <2>3, Files
  <1>2. ASSUME NEW u \in Url, Evict(u) PROVE DamageNeedsOverlap'
    BY <1>0, <1>2, EvictFrame, MarkAssumption DEF DamageNeedsOverlap
  <1>3. ASSUME UNCHANGED vars PROVE DamageNeedsOverlap'
    BY <1>0, <1>3 DEF DamageNeedsOverlap, vars, history
  <1>. QED
    BY <1>1, <1>2, <1>3, NextIsActs

-----------------------------------------------------------------------------
(* Why a request fails.  With the service, a cache that is asked twice     *)
(* gives two answers only if the entry was dropped in between.             *)

LEMMA StoreIsKept ==
    ASSUME TypeOK, FileInv, [Next]_vars, NEW u \in Url, Kept(u)
    PROVE  Kept(u)'
  <1>1. ASSUME NEW r \in Request, Acts(r) PROVE Kept(u)'
    <2>1. pc[r] = "upload" => disk[url[r]] # Absent
      BY DEF FileInv, Saving
    <2>. QED
      BY <1>1, <2>1, Files, Frame DEF Kept
  <1>2. ASSUME NEW w \in Url, Evict(w) PROVE Kept(u)'
    BY <1>2, EvictFrame DEF Kept
  <1>3. ASSUME UNCHANGED vars PROVE Kept(u)'
    BY <1>3 DEF Kept, vars, history
  <1>. QED
    BY <1>1, <1>2, <1>3, NextIsActs

\* What the request itself does to get where AskedInv speaks of.
LEMMA AskedStep ==
    ASSUME IInv, [Next]_vars, Backend = "service"
    PROVE  AskedInv'
  <1>0. TypeOK /\ FileInv /\ AskedInv
    BY DEF IInv
  <1>. DEFINE Good(q) ==
           /\ pc[q] = "read" /\ ~exchanged[q] => Fakes("sendRequest", q) /\ Kept(url[q])
           /\ pc[q] = "fetch" => Kept(url[q])
           /\ pc[q] = "network" /\ ~exchanged[q] => hooks = {"sendRequest"} \/ url[q] \in evicted
           /\ pc[q] = "plain" => raced[q]
  <1>1. ASSUME NEW r \in Request, Acts(r), NEW q \in Request PROVE Good(q)'
    <2>1. hooks' = hooks /\ evicted' = evicted
      BY <1>0, <1>1, Frame
    <2>2. \A u \in Url : Kept(u) => Kept(u)'
      BY <1>0, StoreIsKept
    <2>3. CASE q # r
      BY <1>0, <1>1, <2>1, <2>2, <2>3, Frame DEF AskedInv, Fakes, TypeOK
    <2>4. CASE q = r /\ SendRequest(r)
      <3>1. pc'[r] = "read" /\ url' = url
        BY <1>0, <2>4 DEF SendRequest, Goto, TypeOK
      <3>2. ~exchanged'[r] => Fakes("sendRequest", r) /\ HasCache(url[r])
        BY <1>0, <2>4 DEF SendRequest, TypeOK
      <3>. QED
        BY <1>0, <2>1, <2>2, <2>4, <3>1, <3>2 DEF HasCache, Kept, Fakes, TypeOK
    <2>5. CASE q = r /\ ReadResponse(r)
      <3>1. /\ pc[r] = "read" /\ url' = url /\ exchanged' = exchanged
            /\ pc'[r] = IF Fakes("readResponse", r) /\ HasCache(url[r]) THEN "fetch" ELSE "network"
        BY <1>0, <2>5 DEF ReadResponse, Goto, TypeOK
      <3>2. CASE Fakes("readResponse", r) /\ HasCache(url[r])
        BY <1>0, <2>2, <2>5, <3>1, <3>2 DEF HasCache, Kept, TypeOK
      <3>3. CASE Fakes("readResponse", r) /\ ~HasCache(url[r])
        BY <1>0, <2>1, <2>5, <3>1, <3>3 DEF HasCache, Kept, AskedInv
      <3>4. CASE ~Fakes("readResponse", r)
        <4>1. ~exchanged[r] => hooks = {"sendRequest"}
          BY <1>0, <3>1, <3>4 DEF AskedInv, Fakes, TypeOK, Method
        <4>. QED
          BY <2>1, <2>5, <3>1, <3>4, <4>1
      <3>. QED
        BY <3>2, <3>3, <3>4
    <2>6. CASE q = r /\ (SendUnfaked(r) \/ ReadUnfaked(r))
      BY <1>0, <2>6 DEF SendUnfaked, ReadUnfaked, LosesAccess, Goto, TypeOK
    <2>7. CASE q = r /\ ~SendRequest(r) /\ ~ReadResponse(r) /\ ~SendUnfaked(r) /\ ~ReadUnfaked(r)
      <3>1. pc'[r] \notin {"read", "fetch", "network", "plain"}
        BY <1>0, <1>1, <2>7 DEF Acts, Step, Begin, FetchCache, ReadNetwork,
           NothingSent, OpenFile, WriteFile, Upload, CallFails, WriteFails, UploadFails, Fail,
           ReadPlain, HandlerThrows, Return, Kill, Goto, TypeOK
      <3>. QED
        BY <2>7, <3>1
    <2>. QED
      BY <2>3, <2>4, <2>5, <2>6, <2>7
  <1>2. ASSUME NEW u \in Url, Evict(u), NEW q \in Request PROVE Good(q)'
    <2>1. \A w \in Url : Kept(w) => Kept(w)'
      BY <1>0, StoreIsKept
    <2>2. UNCHANGED <<hooks, pc, url, exchanged, raced>> /\ evicted \subseteq evicted'
      BY <1>0, <1>2, EvictFrame
    <2>. QED
      BY <1>0, <2>1, <2>2 DEF AskedInv, Fakes, TypeOK
  <1>3. ASSUME UNCHANGED vars, NEW q \in Request PROVE Good(q)'
    BY <1>0, <1>3 DEF AskedInv, Fakes, Kept, vars, engine, history
  <1>4. \A q \in Request : Good(q)'
    BY <1>1, <1>2, <1>3, NextIsActs
  <1>. QED
    BY <1>4 DEF AskedInv

LEMMA FailureStep ==
    ASSUME IInv, [Next]_vars, Backend = "service"
    PROVE  FailureHasCause'
  <1>0. TypeOK /\ GenuineInv /\ DamageNeedsOverlap /\ AskedInv /\ FailureHasCause
    BY DEF IInv
  <1>1. ASSUME NEW r \in Request, Acts(r) PROVE FailureHasCause'
    <2>0. hooks' = hooks /\ evicted' = evicted /\ overlapped \subseteq overlapped'
      BY <1>0, <1>1, Frame
    <2>. SUFFICES ASSUME NEW q \in Request, pc'[q] = "failed"
                  PROVE  \/ faulted'[q] \/ raced'[q]
                         \/ url'[q] \in evicted' \cup overlapped'
                         \/ hooks' = {"sendRequest"}
      BY DEF FailureHasCause
    <2>1. CASE q # r
      BY <1>0, <1>1, <2>0, <2>1, Frame DEF FailureHasCause
    \* There is a document in the way, or none.
    <2>2. CASE q = r /\ FetchCache(r)
      <3>1. url' = url /\ url[r] \in Url /\ pc[r] = "fetch" /\ ~Parses(store[url[r]])
        BY <1>0, <2>2 DEF FetchCache, GetCache, Goto, TypeOK
      <3>2. store[url[r]] \in {Absent, Empty, Damaged}
        BY <1>0, <3>1 DEF Parses, GenuineInv, TypeOK
      <3>3. url[r] \in evicted \cup overlapped
        BY <1>0, <3>1, <3>2 DEF AskedInv, Kept, DamageNeedsOverlap
      <3>. QED
        BY <2>0, <2>2, <3>1, <3>3
    <2>3. CASE q = r /\ NothingSent(r)
      BY <1>0, <2>0, <2>3 DEF AskedInv, NothingSent
    <2>4. CASE q = r /\ ReadPlain(r)
      BY <1>0, <2>4 DEF AskedInv, ReadPlain
    <2>5. CASE q = r /\ (CallFails(r) \/ WriteFails(r) \/ UploadFails(r) \/ HandlerThrows(r))
      BY <1>0, <2>5 DEF CallFails, WriteFails, UploadFails, Fail, HandlerThrows, LosesAccess,
         TypeOK
    <2>6. q = r => \/ FetchCache(r) \/ NothingSent(r) \/ ReadPlain(r) \/ CallFails(r)
                   \/ WriteFails(r) \/ UploadFails(r) \/ HandlerThrows(r)
      BY <1>0, <1>1 DEF Acts, Step, Begin, SendRequest, ReadResponse, ReadNetwork, OpenFile,
         WriteFile, Upload, SendUnfaked, ReadUnfaked, Return, Kill, Goto, TypeOK
    <2>. QED
      BY <2>1, <2>2, <2>3, <2>4, <2>5, <2>6
  <1>2. ASSUME NEW u \in Url, Evict(u) PROVE FailureHasCause'
    BY <1>0, <1>2, EvictFrame DEF FailureHasCause
  <1>3. ASSUME UNCHANGED vars PROVE FailureHasCause'
    BY <1>0, <1>3 DEF FailureHasCause, vars, engine, history
  <1>. QED
    BY <1>1, <1>2, <1>3, NextIsActs

-----------------------------------------------------------------------------
(* What the cache is for.                                                  *)

LEMMA FreshStep == IInv /\ [Next]_vars => FreshInv'
  <1>. SUFFICES ASSUME IInv, [Next]_vars PROVE FreshInv'
    OBVIOUS
  <1>0. TypeOK /\ FreshInv
    BY DEF IInv
  <1>1. ASSUME NEW r \in Request, Acts(r) PROVE FreshInv'
    <2>1. pc'[r] = "idle" => ~exchanged'[r]
      BY <1>0, <1>1 DEF Acts, Step, Begin, SendRequest, ReadResponse, FetchCache, ReadNetwork,
         NothingSent, OpenFile, WriteFile, Upload, CallFails, WriteFails, UploadFails, Fail,
         SendUnfaked, ReadUnfaked, ReadPlain, HandlerThrows, Return, Kill, Goto, TypeOK
    <2>. QED
      BY <1>0, <1>1, <2>1, Frame DEF FreshInv
  <1>2. ASSUME NEW u \in Url, Evict(u) PROVE FreshInv'
    BY <1>0, <1>2, EvictFrame DEF FreshInv
  <1>3. ASSUME UNCHANGED vars PROVE FreshInv'
    BY <1>0, <1>3 DEF FreshInv, vars, engine
  <1>. QED
    BY <1>1, <1>2, <1>3, NextIsActs

LEMMA DueStep == IInv /\ [Next]_vars => DueInv'
  <1>. SUFFICES ASSUME IInv, [Next]_vars PROVE DueInv'
    OBVIOUS
  <1>0. TypeOK /\ FileInv /\ FreshInv /\ DueInv
    BY DEF IInv
  <1>. DEFINE Good(q) == /\ hooks = Method /\ url[q] \in Fake /\ Backend = "service"
                         /\ store[url[q]] # Absent
                         /\ raced[q] \/ pc[q] \in {"send", "read", "fetch", "done", "failed"}
                         /\ raced[q] \/ ~exchanged[q]
  <1>1. ASSUME NEW r \in Request, Acts(r), NEW q \in Request, due'[q] PROVE Good(q)'
    <2>1. hooks' = hooks
      BY <1>0, <1>1, Frame
    <2>2. \A u \in Url : store[u] # Absent => store'[u] # Absent
      <3>1. pc[r] = "upload" => disk[url[r]] # Absent
        BY <1>0 DEF FileInv, Saving
      <3>. QED
        BY <1>0, <1>1, <3>1, Files
    <2>3. CASE q # r
      BY <1>0, <1>1, <2>1, <2>2, <2>3, Frame DEF DueInv, TypeOK
    <2>4. CASE q = r /\ \E u \in Url : Begin(r, u)
      <3>1. PICK u \in Url : Begin(r, u)
        BY <2>4
      <3>2. /\ url'[r] = u /\ pc'[r] = "send" /\ hooks = Method /\ u \in Fake
            /\ Backend = "service" /\ Parses(store[u]) /\ store' = store
            /\ ~exchanged'[r]
        BY <1>0, <1>1, <2>4, <3>1 DEF FreshInv, Begin, Goto, TypeOK
      <3>. QED
        BY <2>1, <2>4, <3>2, MarkAssumption DEF Parses
    <2>5. CASE q = r /\ (Return(r) \/ Kill(r))
      BY <1>0, <1>1, <2>5 DEF Return, Kill, TypeOK
    <2>6. CASE q = r /\ Step(r)
      <3>1. pc'[r] # "idle" /\ pc[r] # "idle"
        BY <1>0, <2>6 DEF Step, SendRequest, ReadResponse, FetchCache, ReadNetwork,
           NothingSent, OpenFile, WriteFile, Upload, CallFails, WriteFails, UploadFails, Fail,
           SendUnfaked, ReadUnfaked, ReadPlain, HandlerThrows, Goto, TypeOK
      <3>2. due[r] /\ url'[r] = url[r] /\ (raced[r] => raced'[r])
        BY <1>0, <1>1, <2>6, <3>1, OwnFrame
      <3>3. /\ hooks = Method /\ url[r] \in Fake /\ Backend = "service"
            /\ store[url[r]] # Absent /\ url[r] \in Url
        BY <1>0, <3>2 DEF DueInv, TypeOK
      <3>4. HasCache(url[r]) /\ Fakes("sendRequest", r) /\ Fakes("readResponse", r)
        BY <3>3 DEF HasCache, Fakes, Method
      <3>5. ASSUME ~raced'[r]
            PROVE  /\ pc'[r] \in {"send", "read", "fetch", "done", "failed"}
                   /\ ~exchanged'[r]
        <4>1. /\ pc[r] \in {"send", "read", "fetch"} \cup {"done", "failed"}
              /\ ~exchanged[r]
          BY <1>0, <3>2, <3>5 DEF DueInv
        <4>2. CASE SendRequest(r)
          BY <1>0, <3>4, <4>2 DEF SendRequest, Goto, TypeOK
        <4>3. CASE ReadResponse(r) \/ FetchCache(r)
          BY <1>0, <3>4, <4>1, <4>3 DEF ReadResponse, FetchCache, Goto, TypeOK
        <4>4. CASE CallFails(r)
          BY <1>0, <2>6, <3>4, <4>1, <4>4 DEF CallFails, Fail, Goto, TypeOK
        <4>5. ~SendUnfaked(r) /\ ~ReadUnfaked(r) /\ ~HandlerThrows(r)
          BY <1>0, <3>5 DEF SendUnfaked, ReadUnfaked, HandlerThrows, LosesAccess, TypeOK
        <4>. QED
          BY <2>6, <4>1, <4>2, <4>3, <4>4, <4>5 DEF Step, ReadNetwork, NothingSent, OpenFile,
             WriteFile, Upload, WriteFails, UploadFails, ReadPlain
      <3>. QED
        BY <2>1, <2>2, <2>6, <3>2, <3>3, <3>5
    <2>. QED
      BY <1>1, <2>3, <2>4, <2>5, <2>6 DEF Acts
  <1>2. ASSUME NEW u \in Url, Evict(u), NEW q \in Request, due'[q] PROVE Good(q)'
    BY <1>0, <1>2, EvictFrame DEF DueInv, TypeOK
  <1>3. ASSUME UNCHANGED vars PROVE DueInv'
    BY <1>0, <1>3 DEF DueInv, vars, engine, history
  <1>4. ASSUME NEW r \in Request, Acts(r) PROVE DueInv'
    BY <1>1, <1>4 DEF DueInv
  <1>5. ASSUME NEW u \in Url, Evict(u) PROVE DueInv'
    BY <1>2, <1>5 DEF DueInv
  <1>. QED
    BY <1>3, <1>4, <1>5, NextIsActs

LEMMA UsedStep == IInv /\ [Next]_vars => CacheIsUsed'
  <1>. SUFFICES ASSUME IInv, [Next]_vars PROVE CacheIsUsed'
    OBVIOUS
  <1>0. TypeOK /\ DueInv /\ CacheIsUsed /\ DueInv'
    BY DueStep DEF IInv
  <1>1. ASSUME NEW r \in Request, Acts(r) PROVE CacheIsUsed'
    <2>. SUFFICES ASSUME NEW q \in Request, pc'[q] = "done", due'[q], ~raced'[q]
                  PROVE  ~exchanged'[q] /\ resp'[q].from = "cache"
      BY DEF CacheIsUsed, Answered
    <2>0. ~exchanged'[q]
      BY <1>0 DEF DueInv
    <2>1. CASE q # r
      BY <1>0, <1>1, <2>1, Frame DEF CacheIsUsed, Answered
    <2>2. CASE q = r
      <3>1. FetchCache(r) \/ ReadNetwork(r) \/ ReadPlain(r) \/ Upload(r)
        BY <1>0, <1>1, <2>2 DEF Acts, Step, Begin, SendRequest, ReadResponse,
           NothingSent, OpenFile, WriteFile, CallFails, WriteFails, UploadFails, Fail,
           SendUnfaked, ReadUnfaked, HandlerThrows, Return, Kill, Goto, TypeOK
      <3>2. due[r] /\ ~raced[r]
        BY <1>0, <1>1, <2>2, <3>1, OwnFrame DEF FetchCache, ReadNetwork, ReadPlain, Upload
      <3>3. FetchCache(r)
        BY <1>0, <3>1, <3>2 DEF DueInv, ReadNetwork, ReadPlain, Upload
      <3>4. Parses(GetCache(url[r])) /\ resp'[r] = FromCache(GetCache(url[r]))
        BY <1>0, <2>2, <3>3 DEF FetchCache, Goto, TypeOK
      <3>. QED
        BY <2>0, <2>2, <3>4, ParsedIsService, FromCacheIsResponse
    <2>. QED
      BY <2>1, <2>2
  <1>2. ASSUME NEW u \in Url, Evict(u) PROVE CacheIsUsed'
    BY <1>0, <1>2, EvictFrame DEF CacheIsUsed, Answered
  <1>3. ASSUME UNCHANGED vars PROVE CacheIsUsed'
    BY <1>0, <1>3 DEF CacheIsUsed, Answered, vars, engine, history
  <1>. QED
    BY <1>1, <1>2, <1>3, NextIsActs

LEMMA Invariance == Spec => []IInv
  <1>1. IInv /\ [Next]_vars => TypeOK'
    BY TypeStep DEF IInv
  <1>2. IInv /\ [Next]_vars => IInv'
    BY <1>1, SaveStep, GenuineStep, HitStep, OverlapStep, FileStep, DamageStep, AskedStep,
       FailureStep, FreshStep, DueStep, UsedStep DEF IInv
  <1>. QED
    BY InitIInv, <1>2, PTL DEF Spec

-----------------------------------------------------------------------------
\* The variables of OkhttpRedirect keep their types.
THEOREM TypeCorrect == Spec => []TypeOK
  <1>1. IInv => TypeOK
    BY DEF IInv
  <1>. QED
    BY Invariance, <1>1, PTL

\* Whatever overlaps, fails, is dropped or killed: a response from the cache has a body
\* that the network gave for the same url with code 200 (HttpEngine 141-163,
\* ResourceCache 108-133).
THEOREM HitsAreGenuine == Spec => []HitIsGenuine
  <1>1. IInv => HitIsGenuine
    BY DEF IInv
  <1>. QED
    BY Invariance, <1>1, PTL

\* The service holds something that is no document only for a url that two requests
\* saved at once (ResourceCache 127-133).
THEOREM DamageIsOverlap == Spec => []DamageNeedsOverlap
  <1>1. IInv => DamageNeedsOverlap
    BY DEF IInv
  <1>. QED
    BY Invariance, <1>1, PTL

\* With the cache service, a request fails only for one of the reasons of
\* FailureHasCause.  With ResourceCacheTest it does without one (HttpEngine 121-163).
THEOREM FailuresHaveCause == ASSUME Backend = "service" PROVE Spec => []FailureHasCause
  <1>1. IInv => FailureHasCause
    BY DEF IInv
  <1>. QED
    BY Invariance, <1>1, PTL

\* A request that begins with a document in the cache is answered from it and sends
\* nothing, if the entry is not dropped and no access to a Field is lost (HttpEngine
\* 122-134, 158-162).
THEOREM EntriesAreUsed == Spec => []CacheIsUsed
  <1>1. IInv => CacheIsUsed
    BY DEF IInv
  <1>. QED
    BY Invariance, <1>1, PTL

=============================================================================
