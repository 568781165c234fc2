------------------------------- MODULE MCParts ------------------------------
(***************************************************************************)
(* The parts of the application that share nothing with each other, for    *)
(* TLC: a behaviour is one of one part, whose variables the other parts    *)
(* leave alone. Searches of the web come twice: of two threads and one     *)
(* link at a time, to a video or to a page that may lead to it, and of one  *)
(* thread with several links, pages that lead anywhere, a second page, a   *)
(* video of two addresses and a link that is not public.                   *)
(***************************************************************************)
EXTENDS Naturals, TLC

CONSTANTS
    Requests, Paths, Other, Absent, NoOrder, MaxChanges, MaxFaults,
    Metros, Grace, FailureLimit, FirstDelay, LastDelay, MaxRuns,
    Calls, Limit, Window, MaxTime,
    Threads, Query, Wider, Another, Nameless, Page, Tasks, MaxRenames, MaxNoise,
    Searches, Pages, Redirecting, Spellings, Watch, Local, Engines, Offered, Rows, Wanted, Batch,
    Workers, Redirects, PositiveTtl, NegativeTtl, CacheSize, LinkDeadline, Deadline, MaxMoves,
    None

VARIABLES
    part,
    disk, order, at, pin, expected, hand, flag, temporary, outcome, during, changes, faults,
    metro, sup, worker, closer, lost, run,
    stored, account, running, call, holder, attempts, now,
    title, stamp, turns, op, inbox, quiet, noise,
    web, unseen, led, cache, search, probes, asked, moves

Files == INSTANCE FileActions
Metro == INSTANCE MobileRuntime
Sunshine == INSTANCE GameStreaming
Codex == INSTANCE CodexBridge WITH Limit <- Tasks, MaxChanges <- MaxRenames
Web == INSTANCE WebResearch

ASSUME PartsAssumption ==
    /\ Files!FileAssumption /\ Metro!RuntimeAssumption /\ Sunshine!StreamingAssumption
    /\ Codex!BridgeAssumption /\ Web!WebAssumption

-----------------------------------------------------------------------------
counters == <<changes, faults>>
files == <<disk, order, at, pin, expected, hand, flag, temporary, outcome, during>>
metros == <<metro, sup, worker, closer, lost, run>>
games == <<stored, account, running, call, holder, attempts, now>>
codex == <<title, stamp, turns, op, inbox, quiet, noise>>
webs == <<web, unseen, led, cache, search, probes, asked, moves>>
vars == <<part, counters, files, metros, games, codex, webs>>

(* What the two behaviours of the web are bounded to.                      *)
OneLink ==
    /\ \A q \in Searches :
          /\ search[q].rows \in {<<>>} \cup {<<u>> : u \in Redirecting \cup {Watch}}
          /\ search[q].engine = 0
    /\ \A u \in Redirecting : web[u] \in {"there", "gone", Watch}
    /\ \A u \in Pages \ Redirecting : web[u] = "there"
OneSearch == asked.queries \subseteq {1}

NoFiles ==
    /\ disk = None /\ order = None /\ at = None /\ pin = None /\ expected = None
    /\ hand = None /\ flag = None /\ temporary = None /\ outcome = None /\ during = None
NoMetro ==
    metro = None /\ sup = None /\ worker = None /\ closer = None /\ lost = None /\ run = None
NoGames ==
    /\ stored = None /\ account = None /\ running = None /\ call = None
    /\ holder = None /\ attempts = None /\ now = None
NoCodex ==
    /\ title = None /\ stamp = None /\ turns = None /\ op = None
    /\ inbox = None /\ quiet = None /\ noise = None
NoWeb ==
    /\ web = None /\ unseen = None /\ led = None /\ cache = None /\ search = None
    /\ probes = None /\ asked = None /\ moves = None

Init ==
    \/ part = "files" /\ Files!Init /\ NoMetro /\ NoGames /\ NoCodex /\ NoWeb
    \/ /\ part = "metro" /\ Metro!Init /\ NoFiles /\ NoGames /\ NoCodex /\ NoWeb
       /\ changes = 0 /\ faults = 0
    \/ part = "sunshine" /\ Sunshine!Init /\ NoFiles /\ NoMetro /\ NoCodex /\ NoWeb /\ changes = 0
    \/ part = "codex" /\ Codex!Init /\ NoFiles /\ NoMetro /\ NoGames /\ NoWeb /\ faults = 0
    \/ /\ part \in {"web", "batches"} /\ Web!Init /\ (part = "web" => OneLink)
       /\ NoFiles /\ NoMetro /\ NoGames /\ NoCodex
       /\ changes = 0 /\ faults = 0

Next ==
    /\ UNCHANGED part
    /\ \/ part = "files" /\ Files!Next /\ UNCHANGED <<metros, games, codex, webs>>
       \/ part = "metro" /\ Metro!Next /\ UNCHANGED <<counters, files, games, codex, webs>>
       \/ part = "sunshine" /\ Sunshine!Next /\ UNCHANGED <<changes, files, metros, codex, webs>>
       \/ part = "codex" /\ Codex!Next /\ UNCHANGED <<faults, files, metros, games, webs>>
       \/ /\ part \in {"web", "batches"} /\ Web!Next
          /\ (part = "web" => OneLink') /\ (part = "batches" => OneSearch')
          /\ UNCHANGED <<counters, files, metros, games, codex>>

Spec == Init /\ [][Next]_vars

(* Neither requests nor paths have an order. *)
Symmetry == Permutations(Requests) \cup Permutations(Paths)

-----------------------------------------------------------------------------
(* The properties of the parts, as their modules state and explain them:   *)
(* files that are whole, failures without effect, and nothing that is      *)
(* overwritten unasked (actions.py).                                       *)
WholeFiles == part = "files" => Files!WholeFiles

(* See FileActions. *)
FailureIsClean == part = "files" => Files!FailureIsClean

(* See FileActions. *)
NoSilentOverwrite == [][part = "files" => Files!KeepsOthers]_vars

(* See FileActions. *)
ChangesAreSeen == [][part = "files" => Files!Seen]_vars

(* No process of Expo is let go of (mobile_runtime.py). *)
MetroIsHeld == part = "metro" => Metro!MetroIsHeld

(* The credentials of Sunshine are not lost (game_streaming.py). *)
KeepsTheKey == part = "sunshine" => Sunshine!KeepsTheKey

(* No task is chosen among several of a title (codex_bridge.py). *)
NoGuess == part = "codex" => Codex!NoGuess

(* No dead link is given (online_search.py, link_availability.py). *)
OnlyLiveLinks == part \in {"web", "batches"} => Web!OnlyLiveLinks
=============================================================================
