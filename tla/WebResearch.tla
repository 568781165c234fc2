----------------------------- MODULE WebResearch -----------------------------
(***************************************************************************)
(* Searching the web: search_payload and research_payload of               *)
(* online_search.py, the engines of ddgs_provider.py behind them and the   *)
(* probes of link_availability.py, whose cache all searches share. Titles, *)
(* extracts, dates, domains and their limits are left out. Engines and     *)
(* pages are external, and pages come and go while they are looked at.     *)
(* Time is counted in ticks, as ages that stop at the last one that        *)
(* matters; whoever waits with a deadline goes on when it is reached.      *)
(***************************************************************************)
EXTENDS Naturals, Sequences, FiniteSets

CONSTANTS
    Searches,       \* threads of queries, numbered
    Pages, Redirecting,   \* public addresses, and the ones of them that may lead elsewhere
    Spellings,      \* addresses of one video of YouTube
    Watch,          \* the canonical one of them
    Local,          \* an address that is not public https
    Engines,        \* backends of the provider
    Offered, Rows,  \* addresses in the rows of an engine, and how many rows it gives
    Wanted,         \* MAX_RESULTS
    Batch,          \* MAX_LINK_CHECK_CONCURRENCY
    Workers,        \* MAX_RESEARCH_CONCURRENCY
    Redirects,      \* MAX_REDIRECTS
    PositiveTtl, NegativeTtl,       \* of the cache
    CacheSize,      \* MAX_CACHE_ITEMS
    LinkDeadline,   \* LINK_VALIDATION_DEADLINE_SECONDS
    Deadline,       \* RESEARCH_DEADLINE_SECONDS
    MaxMoves        \* changes of the web

WebAssumption ==
    /\ Searches \subseteq Nat /\ {Engines, Rows, Wanted, Batch, Workers, CacheSize} \subseteq Nat \ {0}
    /\ {Redirects, PositiveTtl, NegativeTtl, LinkDeadline, Deadline, MaxMoves} \subseteq Nat
    /\ Watch \in Spellings /\ Redirecting \subseteq Pages /\ Pages \cap Spellings = {}
    /\ Local \notin Pages \cup Spellings /\ Offered \subseteq Pages \cup Spellings \cup {Local}
    /\ {"there", "gone"} \cap (Pages \cup Spellings \cup {Local}) = {}

Urls == Pages \cup Spellings \cup {Local}
Served == Pages \cup {Watch}
Oldest == (IF PositiveTtl > NegativeTtl THEN PositiveTtl ELSE NegativeTtl) + 1
Longest == PositiveTtl + (IF Deadline > LinkDeadline THEN Deadline ELSE LinkDeadline)

VARIABLES
    web,        \* of a page: where it leads, or what it answers; of Watch: if it plays
    unseen,     \* history: for how long each has not been there
    led,        \* history: if a page ever led to the video
    cache,      \* _cache, the least recently used first
    search,     \* what the thread of each query does
    probes,     \* its batch: the address each is at, and what it found
    asked,      \* the call under way: its queries and its age
    moves

webVars == <<web, unseen, led, cache, search, probes, asked, moves>>

States == {"there", "gone"}
Finds == {"available", "unavailable", "unknown"}
Quiet == [at |-> "done", engine |-> 0, empty |-> FALSE, rows |-> <<>>, found |-> {}, age |-> 0]
Nothing == [queries |-> {}, age |-> 0]

(* What may become of an address.                                          *)
Tells(u) == States \cup IF u \in Redirecting THEN Urls ELSE {}

TypeOK ==
    /\ web \in [Served -> States \cup Urls] /\ \A u \in Served : web[u] \in Tells(u)
    /\ led \in BOOLEAN /\ unseen \in [Served -> 0 .. Longest + 1]
    /\ cache \in Seq([of : Urls, age : 0 .. Oldest, finds : Finds, url : Urls])
    /\ Len(cache) <= CacheSize
    /\ search \in [Searches -> [at : {"queued", "engines", "batch", "checking", "ok", "failed", "done"},
                                engine : 0 .. Engines, empty : BOOLEAN, rows : Seq(Urls),
                                found : SUBSET Urls, age : 0 .. LinkDeadline]]
    /\ probes \in [Searches -> Seq([of : Urls, url : Urls, hops : 0 .. Redirects,
                                    finds : Finds \cup {"nothing"}])]
    /\ asked \in [queries : SUBSET Searches, age : 0 .. Deadline]
    /\ moves \in 0 .. MaxMoves

Init ==
    /\ web \in {w \in [Served -> States \cup Urls] : \A u \in Served : w[u] \in Tells(u)}
    /\ unseen = [u \in Served |-> IF web[u] = "there" THEN 0 ELSE Longest + 1]
    /\ led = \E u \in Pages : web[u] \in Spellings
    /\ cache = <<>> /\ search = [q \in Searches |-> Quiet] /\ probes = [q \in Searches |-> <<>>]
    /\ asked = Nothing /\ moves = 0

-----------------------------------------------------------------------------
Now(q, s) == search' = [search EXCEPT ![q] = s]
Lone == \E q \in Searches : asked.queries = {q}

(* One query is a search_payload, several are a research_payload. The      *)
(* first threads that are free are theirs.                                 *)
Free == {q \in Searches : search[q] = Quiet}

Ask(Q) ==
    /\ asked = Nothing /\ Q \subseteq Free /\ Q # {}
    /\ \A q \in Q, r \in Free \ Q : q < r
    /\ asked' = [queries |-> Q, age |-> 0]
    /\ search' = [q \in Searches |-> IF q \in Q THEN [Quiet EXCEPT !.at = "queued"] ELSE search[q]]
    /\ UNCHANGED <<web, unseen, led, cache, probes, moves>>

Working == {q \in asked.queries : search[q].at \in {"engines", "batch", "checking"}}

Start(q) ==
    /\ search[q].at = "queued" /\ Cardinality(Working) < Workers
    /\ \A r \in Searches : search[r].at = "queued" => q <= r
    /\ Now(q, [search[q] EXCEPT !.at = "engines"])
    /\ UNCHANGED <<web, unseen, led, cache, probes, asked, moves>>

(* What an address identifies: the video, or itself.                       *)
Identity(u) == IF u \in Spellings THEN Watch ELSE u

(* _safe_https_url, and the same again when a link is followed.            *)
Safe(u) == u # Local
Public(u) == u # Local

(* _sanitize_rows: what may be left of the rows of an engine. What is not  *)
(* public is dropped, and what was there already.                          *)
Sanitized ==
    {rows \in UNION {[1 .. n -> {u \in Offered : Safe(u)}] : n \in 0 .. Rows} :
        /\ \A i, j \in DOMAIN rows : Identity(rows[i]) = Identity(rows[j]) => i = j
        /\ rows = <<>> => \E u \in Offered : ~Safe(u)}

(* ResilientDDGSProvider._search: the first engine with rows is enough; an *)
(* empty answer counts when none has any.                                  *)
Answered(rows) == [Quiet EXCEPT !.at = "batch", !.rows = rows]
Tried(s, empty) ==
    IF s.engine + 1 < Engines THEN [s EXCEPT !.engine = @ + 1, !.empty = empty]
    ELSE [Quiet EXCEPT !.at = IF empty THEN "batch" ELSE "failed"]

Engine(q) ==
    /\ search[q].at = "engines"
    /\ \/ \E rows \in Sanitized : Now(q, Answered(rows))
       \/ \E empty \in {TRUE, search[q].empty} : Now(q, Tried(search[q], empty))
    /\ UNCHANGED <<web, unseen, led, cache, probes, asked, moves>>

-----------------------------------------------------------------------------
(* Mutant: what was found out is kept for ever.                            *)
CurrentAlways(e) == TRUE

(* _cached: each outcome for its time.                                     *)
Current(e) == e.age <= IF e.finds = "available" THEN PositiveTtl ELSE NegativeTtl

Holds(u) == {i \in 1 .. Len(cache) : cache[i].of = u}
Hits(u) == {i \in Holds(u) : Current(cache[i])}

(* What there is of other addresses, in its order.                         *)
Others(u) ==
    IF Holds(u) = {} THEN cache
    ELSE LET i == CHOOSE x \in Holds(u) : TRUE
         IN  [j \in 1 .. Len(cache) - 1 |-> IF j < i THEN cache[j] ELSE cache[j + 1]]

(* _available_results: the next links, as many as results are missing.     *)
Least(a, b) == IF a < b THEN a ELSE b
Size(s) == Least(Least(Batch, Wanted - Cardinality(s.found)), Len(s.rows))
Probe(u) == [of |-> u, url |-> Identity(u), hops |-> 0, finds |-> "nothing"]
Begun(s) == [i \in 1 .. Size(s) |-> Probe(s.rows[i])]

(* The batch is begun before the deadline is looked at: its probes may go  *)
(* on although nobody waits for them.                                      *)
Check(q) ==
    /\ search[q].at = "batch"
    /\ LET s == search[q]
           begun == [probes EXCEPT ![q] = Begun(s)]
       IN  \/ /\ Size(s) = 0 \/ s.age = LinkDeadline
              /\ Now(q, [s EXCEPT !.at = "ok", !.rows = <<>>]) /\ probes' \in {probes, begun}
           \/ /\ Size(s) > 0
              /\ Now(q, [s EXCEPT !.at = "checking", !.rows = SubSeq(@, Size(s) + 1, Len(@))])
              /\ probes' = begun
    /\ UNCHANGED <<web, unseen, led, cache, asked, moves>>

(* _remember: the final address only of what is available.                 *)
Remembered(p, finds) ==
    LET url == IF finds = "available" THEN p.url ELSE p.of
        all == Append(Others(p.of), [of |-> p.of, age |-> 0, finds |-> finds, url |-> url])
    IN  IF Len(all) > CacheSize THEN Tail(all) ELSE all

(* What one request tells. The page of a video says if it plays when it is *)
(* asked for as such; to the plain request of a redirection it answers.    *)
Answers(p) ==
    IF p.url \notin Spellings THEN web[p.url]
    ELSE IF p.of \in Spellings THEN web[Watch]
    ELSE IF p.url = Watch THEN "there" ELSE Watch

(* check(), one request at a time; one that fails, or comes out of time,   *)
(* leaves it unknown.                                                      *)
LookUp(q, i) ==
    LET p == probes[q][i]
    IN  /\ p.finds = "nothing" /\ p.hops = 0
        /\ \E e \in {cache[x] : x \in Hits(p.of)} :
              /\ cache' = Append(Others(p.of), e)
              /\ probes' = [probes EXCEPT ![q][i].finds = e.finds, ![q][i].url = e.url]
        /\ UNCHANGED <<web, unseen, led, search, asked, moves>>

Request(q, i) ==
    LET p == probes[q][i]
        a == Answers(p)
        ends(finds) == /\ probes' = [probes EXCEPT ![q][i].finds = finds]
                       /\ cache' = Remembered(p, finds)
    IN  /\ p.finds = "nothing" /\ (p.hops = 0 => Hits(p.of) = {})
        /\ \/ a = "there" /\ ends("available")
           \/ (a = "gone" \/ ~Public(a)) /\ ends("unavailable")
           \/ ends("unknown")
           \/ /\ a \in Urls /\ Public(a) /\ p.hops < Redirects
              /\ probes' = [probes EXCEPT ![q][i].url = a, ![q][i].hops = @ + 1]
              /\ cache' = IF p.hops = 0 THEN Others(p.of) ELSE cache
        /\ UNCHANGED <<web, unseen, led, search, asked, moves>>

(* The outcomes that are there when the batch is over or the deadline is   *)
(* reached; a probe that is let go of runs on, and is remembered.          *)
Pending(q) == \E i \in 1 .. Len(probes[q]) : probes[q][i].finds = "nothing"
Verified(q) ==
    search[q].found \cup
        {probes[q][i].url : i \in {x \in 1 .. Len(probes[q]) : probes[q][x].finds = "available"}}

Collect(q) ==
    /\ search[q].at = "checking"
    /\ ~Pending(q) \/ search[q].age = LinkDeadline
    /\ Now(q, [search[q] EXCEPT !.found = Verified(q), !.at = IF Pending(q) THEN "ok" ELSE "batch"])
    /\ probes' = IF Pending(q) THEN probes ELSE [probes EXCEPT ![q] = <<>>]
    /\ UNCHANGED <<web, unseen, led, cache, asked, moves>>

-----------------------------------------------------------------------------
Over(q) == search[q].at \in {"ok", "failed"}
Ready ==
    /\ asked # Nothing
    /\ (\A q \in asked.queries : Over(q)) \/ (~Lone /\ asked.age = Deadline)

(* What the queries have that ended well. Merged results of one identity   *)
(* are one here.                                                           *)
Given ==
    UNION {search[q].found : q \in {x \in asked.queries : search[x].at = "ok"}}

(* A thread ends when it has nothing left to do.                           *)
Ends(q) == Over(q) /\ probes[q] = <<>>

(* The caller is given them; queries that wait for a worker never begin.   *)
Give ==
    /\ Ready
    /\ search' = [q \in Searches |->
          IF q \in asked.queries /\ (search[q].at = "queued" \/ Ends(q)) THEN Quiet ELSE search[q]]
    /\ asked' = Nothing
    /\ UNCHANGED <<web, unseen, led, cache, probes, moves>>

(* So does one that nobody waits for any more, and its probes.             *)
Done(q) ==
    /\ q \notin asked.queries /\ Over(q) /\ ~Pending(q)
    /\ Now(q, Quiet) /\ probes' = [probes EXCEPT ![q] = <<>>]
    /\ UNCHANGED <<web, unseen, led, cache, asked, moves>>

Older(age, limit) == Least(age + 1, limit)
Waits == Ready \/ \E q \in Searches : search[q].at \in {"batch", "checking"} /\ search[q].age = LinkDeadline

Tick ==
    /\ ~Waits
    /\ unseen' = [u \in Served |-> IF web[u] = "there" THEN 0 ELSE Older(unseen[u], Longest + 1)]
    /\ cache' = [i \in DOMAIN cache |-> [cache[i] EXCEPT !.age = Older(@, Oldest)]]
    /\ search' = [q \in Searches |->
          IF search[q].at \in {"batch", "checking"} THEN [search[q] EXCEPT !.age = @ + 1] ELSE search[q]]
    /\ asked' = IF asked = Nothing \/ Lone THEN asked ELSE [asked EXCEPT !.age = @ + 1]
    /\ UNCHANGED <<web, led, probes, moves>>

Moves(u) ==
    /\ moves < MaxMoves /\ moves' = moves + 1
    /\ \E a \in Tells(u) : web' = [web EXCEPT ![u] = a]
    /\ unseen' = [v \in Served |-> IF "there" \in {web[v], web'[v]} THEN 0 ELSE unseen[v]]
    /\ led' = (led \/ \E v \in Pages : web'[v] \in Spellings)
    /\ UNCHANGED <<cache, search, probes, asked>>

Next ==
    \/ \E Q \in SUBSET Searches : Ask(Q)
    \/ \E q \in Searches :
          \/ Start(q) \/ Engine(q) \/ Check(q) \/ Collect(q) \/ Done(q)
          \/ \E i \in DOMAIN probes[q] : LookUp(q, i) \/ Request(q, i)
    \/ Give \/ Tick \/ \E u \in Served : Moves(u)

Spec == Init /\ [][Next]_webVars

-----------------------------------------------------------------------------
(* A link that is given was there, and a video was playing, not longer ago *)
(* than the cache and the longest wait allow, however often it moved and   *)
(* whichever search looked at it; except that a page that leads to a video *)
(* is taken for the video whether that plays or not.                       *)
OnlyLiveLinks ==
    Ready => \A u \in Given :
        /\ u \in Served
        /\ unseen[u] <= Longest \/ (u = Watch /\ led)
=============================================================================
