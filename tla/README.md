# A TLA+ model of the Arfoxia companion

This directory holds TLA+ modules about the Python service of the repository
(`src/glaceon_companion`), its Linux walk client (`scripts/`) and the chat of its
phone (`mobile/src`), the TLC configurations that check them on small instances,
and proofs that TLAPS checks for every value of the constants. Paths below are
relative to the repository.

## 1. The system

One Windows process holds everything: the Qt desktop (UI thread), a FastAPI
server (event loop and a thread pool), one asyncio task or thread per chat turn,
a few daemon threads for background jobs, and SQLite and JSON files below the
data directory. Local models (Ollama servers, two private llama.cpp servers)
answer over HTTP. Expo, Sunshine and the app-server of Codex are processes that
it starts or talks to. A phone and the Linux client reach the same API.

| Component | Source | State | Operations | Module |
|---|---|---|---|---|
| Work task registry | `work_tasks.py` | records, sessions, `work-tasks.json`, a flag for a damaged file | start, stop, update, close, the worker, reload | `WorkTasks` |
| Continuous work loop | `services.py` `_run_continuous_work`, `WorkSession`, `CodingEvidence` | calls with results, counters, evidence indexes, status | one generation, one call, accept, refuse, end | `WorkLoop` |
| Chat turn | `services.py` `chat`, `_chat_locked`, `delete_conversation`; `database.py` | turn lock, messages, reply ids, bound files | arrive, lock, store, archive, generate, run tools, store the reply, delete | `ChatTurn` |
| Device travel | `travel.py`, `api.py`, `ui.py` `poll_events`, `scripts/traveler_linux.py` | active and pending device, lease ages, tunnels, tokens; the client's window | select, home, register, heartbeat, return, expire, poll, hide | `Travel` |
| Authorization | `auth.py`, `services.py` | password record and its file, challenges, failure window | configure, issue, look, grant, cancel, change, expire, reload | `Authorization`, `Grants` |
| Conversation storage, attachments | `conversation_storage.py`, `attachments.py`, `database.py` | object files, rows, quarantined files, uploads | upload, claim, archive and its undo, delete, sweep | `ConversationStorage` |
| Model profile and GPU runtimes | `services.py`, `ollama_client.py`, `dual_gpu.py` | mode, pause, loaded models, private servers | choose, unload, turns, guard, status, restart | `ModelProfile` |
| Desktop actions | `actions.py` | files | validate, bind, execute, report | `FileActions` |
| Online search | `online_search.py`, `ddgs_provider.py`, `link_availability.py` | cache of links, searches, probes | search, research, probe, collect | `WebResearch` |
| Desktop chat window | `ui.py` `ChatWindow`, `Bridge` | composer, drafts, requests awaited, authorizations in line | send, select, delete, authorize, signals, events | `DesktopChat` |
| Pet window and pet state | `ui.py` `PetWindow`, `desktop_interactions.py`, `state.py` | task under way, its timers, rest, queue of events | meals, game, bed, walks, mouse, Eevee, events | `Pet` |
| Mobile app | `mobile/src/ChatScreen.tsx`, `conversations.ts`, `workTasks.ts`, `api.ts` | history, local entries, draft, generations of requests | load, list, poll, send, follow, create, delete | `MobileChat` |
| Mobile runtime supervisor | `mobile_runtime.py`, `app.py` | a supervised process, failures, delays | ensure, register, restart, stop | `MobileRuntime` |
| Game streaming | `game_streaming.py`, `sunshine_ssh.py` | credentials, attempts, a lock | prepare, pair | `GameStreaming` |
| Codex bridge | `codex_bridge.py` | the requests of one operation | list, pause, open | `CodexBridge` |
| Service facade, HTTP API | `services.py`, `api.py` | a queue of events | the entry points of the above | with the component called |
| Configuration; temporal context and previews | `config.py`; `temporal.py`, `project_previews.py` | settings; none | load, save; read | none |

How they interact. `POST /api/tasks` enters the registry, whose worker thread
calls `chat` like every client does; `chat` takes the one turn lock, stores the
question, archives its files, and for a job enters the work loop, which calls
tools and reports progress back into the registry (a callback under the
registry's lock, with a write of its file). A tool that needs the password
creates a challenge, which the desktop shows and answers. The reply is stored
under the reply id, which is what makes a retry cheap; the registry then records
the outcome. `delete_conversation`, `set_model_mode`, `unload_model` and the
guard of the graphics cards look at the same lock. The desktop polls the travel
manager and the event queue every 120 ms and shares one thread for jobs,
authorizations and changes of the model; the phone polls the PC every few
seconds; the walk client talks to the manager through an SSH tunnel.

What is hard to test here: a stop or a progress report between any two steps of
a worker; an end of the process anywhere between two writes; two windows that
answer one challenge; a sweep of files next to uploads that are claimed and not
yet bound; a guard, a switch of profile, a turn and a status poll over the same
servers; one composer moved between the drafts of all chats by replies,
authorizations and deletions; timers, phones and trips that cut into a game of
the pet; answers to the phone that come late, in any order or never; files that
other programs change between a test and a write; links that die while several
searches share one cache. `PROJECT.json` lists each hazard at its line with the
properties that address it.

What makes each component correct: the registry never loses, repeats or leaves
running a job it shows; the loop never calls a job done without evidence and
always ends; a turn answers a message once and works only for a stored question;
the pet is never on two screens for longer than a window and never missing for
longer than a lease; a challenge is used at most once, under the password then
in force; what is attached can be opened and what is not leaves no trace; a
released card stays free and a game gets its card; a file action is whole,
undone or not begun; a draft stays with its chat; one task of the pet at a time;
the phone shows one chat and, where it knows what became of a text, returns it
only when that is safe.

## 2. Modules

A property is stated in the module it is about, after a comment that says it in
words. An operator that a mutant uses is marked "Mutant" and is no part of the
model. The modules named `MC...` give constants that a `.cfg` cannot express;
`..._proofs` hold theorems. Counters that bound an instance are variables or
constants named `Max...`: they limit how often something is asked for or fails,
never how the code reacts.

### WorkTasks - the registry of background jobs

`mem` is the status of each record in `self.tasks` and `disk` the same in
`work-tasks.json`, `damaged` when the file no longer parses; `request` is what
each record was created for. `sessions` and `cancel` are the `WorkSession`s and
their events, `turn` the turn lock, `up`, `closed` and `storageError` the process
and its two flags. Each job's thread is a program counter (`worker`): waiting for
the turn lock, before and after the one check of the turn, in the loop, past one
of its checks, inside a tool, carrying out a plan, holding an outcome. A request
that requires no work may be answered by a direct plan: a search and what it
opens, or the opening of an application, up to `PlanTools` tools (six in the code)
without a check among them. `plan` is what is left of it, and `WorkRequests` are
the requests that are never answered so. `launched`, `pruned`, `direct` and `late`
are history variables, read by the properties alone. The registry's lock makes
each method one action; a write inside a method may fail, which is one of the
outcomes of that action. `End` and `Restart` end and start the process; `Damage`
truncates the file while the process is down. `MaxRecords` stands for the 200
records kept, `MaxActive` for the four jobs.

### WorkLoop - one job from its first generation to its outcome

The model may propose any call at any time, and a tool may end in any way: this
is the point of the loop. A call is a tool class and an argument; the classes
are those the loop distinguishes (changes, checks, read-only, dialogue).
`completed` is the code's list with results; `lastWrite`, `verified`,
`changedAt`, `checkedAt` are its indexes. The properties are stated on the
record and not on the indexes. `NextCall` covers the head of the loop over the
calls, up to the tool; `ToolReturns` what follows it.

### ChatTurn - turns of one conversation

An attempt is one arrival of a message. `stage` names the places of
`_chat_locked` where something becomes visible or may fail: archive, model,
first calls, follow-up, further calls, report. Which branch a text takes is a
nondeterministic choice. A work job is the case whose calls are all "more": the
loop itself is WorkLoop. "tools" and "more" are apart because a request for the
password in the first calls is stored without the reply id, and later ones with
it.

### Travel - the walk of the pet

`mgr` is the state of `TravelManager`; `Expired` is `_expire`, which every
method calls first. Every time the code compares with a clock is an age; `Tick`
is one unit. Requests of the client are in `exchange` (the thread waits) or
`late` (it gave up, the network has not). Authentication is a step of its own,
because FastAPI runs it in another thread. A return is two steps, since the
route reads a snapshot and then goes home.

### Authorization and Grants

`record` is the record in memory and `disk` the file, `open` the challenges with
their ages, `asked` the question each thread has looked up and not yet answered.
`authorize_action` looks the challenge up and then grants it: two entries into
the lock, with anything in between. A save may fail (the record goes back to
what it was), the process may end, the file may be damaged, the clock goes in
ticks. `guesses` remembers the ages of wrong passwords. `Grants` is what the
docstring of the manager promises, in five actions: a challenge is granted at
most once, in time, under the password in force, and never after it was
cancelled or the password changed. `OneUse` says that `Authorization` implements
it, with `issued <- 1 .. issued` and the record's secret as mapping.

### ConversationStorage

`files`, `rows`, `attached` and `stray` are the object files, their rows, the
attachments of each message and the files left under a temporary name or one of
quarantine; `pending` and `old` what `AttachmentStore` holds in memory. Archiving
and sweeping are sequences of steps inside the turn lock: check, write one file,
register, bind, consume; on a failure undo, unlink, take the question back. What
fails a step may fail its cleaning too: the removal of the temporary file, or the
renaming by which the sweep puts a file back. Between two steps the process may
end, uploads come, age and are discarded. `Delete` removes a conversation and
hands its objects to `Quarantine`, `Drop`, `Shred` and the sweep of orphans.

### ModelProfile

The three servers (`loaded` for the primary Ollama server, `gaming`, `dual`), the
flags of the service and of its settings file (`mode`, `paused`, `saved`), and
four threads: the switch, the turn, the guard that watches for games, a
status poll. Each keeps what it read before a request and uses it afterwards.
Which of the small and the large model a turn takes is one model here.

### FileActions

A request is validated, bound to the version of the file it names, asked for
its password and executed in steps: tests, reading, the temporary file, the
replacement, or a copy in place that is opened and filled. When a call fails, the
removal of the temporary file in the `finally` may fail with it. Other requests,
another program (`Stranger`), a failing call and the end of the process come
between any two of them. A file is the set of requests whose text it holds and
of those whose copy is incomplete (`torn`). The rules of Windows for open files
and of `shutil.move` are external.

### DesktopChat

`window` is the state of `ChatWindow`; each handler is a function on it (`Shown`,
`Asked`, `Discarded`, `Refreshed`, `Composer`...), composed as the handlers call
each other. A dialog runs an event loop of its own, so it is two actions with
anything in between. `pool` is the one thread of `Bridge`, `signals` its answers,
`events` the queue of the service. A text is told apart by the chat it was
written for; `left` is what the owner last left in each chat.

### Pet

`win` is the task under way (`mode`), what moves it (`way`, `purpose`, the timers
and the layer that waits for a click) and where the pet is; `rest` is awake,
asleep or seated in `PetState`. Places are kept as far as they decide a branch:
the steps left on a way, whether a way exists, and whether the sprite reaches out
of the screen (`outside`, which `Placed` changes at any time: it depends on the
frames, their size and the screens). Every `Play` ends in `EnsureOnScreen`, as in
the code, which takes the way of a walk when it moves the sprite. Phones interact
from the threads of the API, so `rest` and the queue change between two events of
Qt.

### MobileChat

`phone` is the state of the screen with its refs, `net` the requests made and not
yet answered, `log` and `jobs` the PC. What runs between two awaits is one action.
A reading request carries the answer of the moment it was served and may be
delivered much later or fail; a changing one is served or not, and its answer may
be lost either way, or come as an error of the server or without a body. A job
whose first save failed is active and has no thread ("stuck"), until the program
of the PC ends. `told` is history: whether the answer that ended a call of `send`
said anything of the job. A question and its reply are one entry of the history.

### MobileRuntime, GameStreaming, CodexBridge, WebResearch

Four small parts. `MobileRuntime`: the worker of `ensure_started` between reading
the process, probing it, starting one and registering it, next to `stop()` and
the timer, over runs of the application; processes of Expo outlive it.
`GameStreaming`: threads that prepare and pair; the lock, the attempts of a
window, and an account that Sunshine keeps and whose answer may be lost.
`CodexBridge`: one operation with its requests and the messages on the pipe, over
tasks that change meanwhile. `WebResearch`: searches
of several threads, engines that fail, rows that are sanitized and probed in
batches, redirects, the cache with its two lifetimes, deadlines after which a
probe runs on unheard. `MCParts` puts these and FileActions behind one variable
`part` so that one run checks them side by side; they share no state.

## 3. Runs

| Run | Question | Instance | Distinct states |
|---|---|---|---|
| `jobs` | One thread per request, sessions for active jobs, one late tool or the rest of a plan, stops that take effect | 3 requests in 2 chats, one of them without work, 2 jobs, plans of 2 tools, 1 old record kept, 2 faults of any kind; fair | 369,659 |
| `jobs_unstarted` | Does a stop end every job? (violated, see below) | 1 job, 1 failed write; fair | - |
| `loop` | Is a completed job verified; is no change repeated; does each job end? | 10 kinds of call, 3 handled, batches of 2, 1 content; fair | 3,301,581 |
| `turn_safety` | Once-only turns over retries, deletions and ends; is the lock released? | 3 attempts, 2 messages (one with files), 2 tools, 2 ends; fair | 86,941 |
| `travel_lease` | Which screen shows the pet, over delay, loss and restarts | 1 device, lease 2, window 1, request 2 units, 1 late request; fair | 783,646 |
| `authorization` | Does the manager implement `Grants`; how many guesses; is the password the saved one? | 2 passwords, 2 threads, 2 challenges (1 open), lifetime 2, 3 failures, window 2, 1 remote request, 2 faults | 1,252,539 |
| `storage` | Can what is attached be opened; is the rest gone? | 3 uploads of 2 contents, 3 messages in 2 chats, a quota, 2 faults | 1,909,240 |
| `profile` | Who holds the cards | 1 repeated question per turn, 2 faults; fair | 346,926 |
| `parts` | Files, Expo, Sunshine, Codex, links (below) | below | 2,271,982 |
| `desktop` | Drafts and answers of the chat window | 2 chats, 2 jobs, 2 less usual moves, symmetric | 1,731,889 |
| `pet` | Tasks of the pet | 3 moves of the owner, 2 events in the queue, ways of 1 step, a sprite that fits or not at any time; fair | 622,784 |
| `phone` | The phone against the PC | 2 chats, 1 message, 1 turn of another device, 1 move, 1 fault, pages of 1; fair | 775,088 |

`parts` is one behaviour per part: files with 2 requests, 2 paths, 1 change by
another program and 2 faults (symmetric in both); Expo with 3 processes, a grace
period of 2, 2 failures, delays of 1 to 3 and 2 runs of the application; Sunshine
with 2 requests, 1 attempt in a window of 2 and 2 lost answers; Codex with 3
tasks, pages and lists of 2, 1 change and 1 foreign message. The web comes twice:
with 2 searches of one row each, answered by the first engine, over a page that
may lead to a video and that video; and with 1 search of up to two rows from two
engines, over a page that may lead anywhere, a second one, a video that has two
addresses and a link that is not public. Both have a cache of one link that keeps
a live one for 1 unit and a dead one for none, deadlines that are reached at once,
one redirect and one change.

The bounds are chosen so that the cases happen. Two jobs against one old record
make the registry drop one while the other is active. A plan of two tools is the
shortest that begins one after a stop and another after it. Three handled calls
allow change, check and failure in any order, and a batch of two with a refusal in
it. Three attempts allow a failure, a retry that crashes and one that succeeds, or
two in line behind a lock. A lease one unit longer than the window is the smallest
that keeps the order of 8 and 5 seconds. Three failures with two windows that meet
is where the bound of `2 * Failures - 2` is reached. Three uploads with two
contents let one object be shared by two messages while a third is deleted. Two
file requests and a stranger give every pair of overlapping operations; more of
each adds no new pair. Three processes of Expo are one of an earlier run, one that
hangs and its successor. Two chats and two jobs put a second authorization in line
while the other chat is open. One message of the phone can be sent, lost, found
and returned; two would only repeat it. The two chats of the phone are alike until
something tells them apart; `MCMobileChat` follows the behaviours in which that is
one of them by name (`Leader`), as those of the other are the same with the names
exchanged. What a bound hides is proved for every value where section 4 says so:
in `jobs` the limit of active jobs never bites, and `Admission` is a theorem; two
devices of `Travel` are too large to enumerate, and its theorems speak of any
number. The other bounds (`MaxFaults`, `MaxCrashes`, `MaxLate`, `MaxMoves`...)
limit how often something strikes, not the reaction to it.

Fairness. `WorkTasks`: weak fairness of each worker's steps, as threads run, and
of the end of a turn, as every check of a session raises once it is two hours
old or has made 240 calls. A job that waits gets the lock because the jobs are
finitely many; nothing is claimed about a stream of chats that never leaves the
lock free at a poll. `WorkLoop`: weak fairness of the loop for the same reason.
`ChatTurn`: only the attempt inside goes on; nothing promises the lock to one
that waits. `Travel`: the timers of both programs and time; nothing is assumed of
the network, of the client's thread or of the owner. `ModelProfile`: requests
have time limits, so a switch, a release, a turn and the guard go on; owners,
games and faults need not come. `Pet`: the timers of Qt fire and the layer that
waits for a click gives up after 30 seconds. `MobileChat`: the timer goes on, what
is asked is answered or given up within the time limit of `request()`, a call of
`send` goes on and jobs end; of the requests only `MaxFaults` fail.
`CHECK_DEADLOCK FALSE` is set where all work may be done or a bound on inputs be
used up.

### What the runs and the models say about the code

`jobs_unstarted` is a counterexample: a failed first write leaves an active
record without a thread (`work_tasks.py:146-147`), and a stop leaves it
"cancelling" for ever, against docs/CONTINUOUS_WORK.md:57-59.

The following are excepted by a property, or lie outside what one says. Each is
what the code does, found while modelling it; none is checked as a violation.

* Work registry: a request that requires no work may be a direct plan
  (`services.py:1798-1863`): one check (`services.py:2135`), then a search and up
  to five links. A stop does not keep the rest from being opened, although its
  message says that no other tool is begun (`work_tasks.py:172`), and the job ends
  as completed. `StopLetsOneToolPass` allows it the length of the plan.
* Chat turn: the end of the process between storing a question and archiving its
  files makes the retry ask the model without them, against the comment at
  `services.py:2202`. A retry through `POST /api/chat` of a message whose first
  calls asked for the password runs its tools again (`services.py:2711`).
  `OneAnswer` excepts these messages; the interfaces use `/api/tasks`.
* Travel: a ready heartbeat held back from an earlier trip confirms the next one
  before the client has painted it (`travel.py:187`): the pet may be nowhere
  until the next heartbeat or for a lease.
* Model profile: a Gaming server that is alive but does not answer is replaced
  and its handle lost (`ollama_client.py:1027`); `ReleasedIsFree` speaks of
  servers whose process the application holds. While the pause is on the guard
  leaves a Gaming server to a game (`services.py:923`), the excuse in
  `GameGetsTheCard`. A status poll that began before an activation may end the
  profile just activated with what it saw; a Dual server is adopted while paused.
  Dialogs that save the settings during a switch are left out.
* Storage and turns: a deletion whose sweep raises reports an error and sends no
  `conversation_changed` (`services.py:1075`). A file may stay under its temporary
  name (`conversation_storage.py:333`) or the one of quarantine (line 211) when
  what failed, a handle that is still open on Windows, fails the cleaning as well;
  no sweep looks at such names. `NoTrace` speaks of behaviours without faults.
* Files: `append_text` creates over a file that appeared, `shutil.move` falls back
  to a copy over one (`actions.py:1122`), and of two additions that overlap one is
  lost (`actions.py:959`). After a reported failure the temporary file with the
  text may stay beside its destination, for the same reason (`actions.py:1045`,
  `1104`); `FailureIsClean` names it. Only a file that exists at the request is
  bound to its version, although README.md:132 says that a change invalidates the
  authorization.
* Desktop chat: a second authorization shown while another chat is selected
  clears that chat's draft (`ui.py:2022`, against
  `tests/test_chat_window_conversations.py:620-622`); a quick message, a chosen
  file or a removal of files during an authorization meets the wrong composer;
  `DraftsReturn` excepts these chats. A message the service refuses loses its
  text. The one thread of `Bridge` may wait for a job until a challenge of 90
  seconds has expired.
* Pet: a trip during a meal stops its timer and leaves its mode (`ui.py:4034`), so
  after the return the pet stays at its meal, against README.md:19. A click, or
  falling asleep, while it runs for the lemon leaves the game without a way to go,
  and so does a sprite that does not fit into the screen: `play` calls
  `ensure_on_screen` (`ui.py:3518-3519`), which takes the way and its timer and
  leaves the mode (`ui.py:2898-2901`). `KeepsGoing` names exactly these steps. Not
  stated as properties: the stale `pet_distance` (`ui.py:3589`), `onBed` after a
  silent waking, Eevee's timer that is not scheduled again, and the rounding of
  `PetState.advance` that holds hunger and energy still under frequent polls.
* Phone: an own reply is appended before turns of others that are not loaded yet;
  a first list that comes late replaces a chat just created and leaves its text;
  the task of the last chat is kept over `selectConversation`; chats deleted
  elsewhere stay listed; the text of a send that failed is lost if another chat
  was opened meanwhile; an upload that timed out is called uncertain although
  nothing was sent. An answer without a body becomes `null` (`api.ts:115`) and
  then a `TypeError` (`workTasks.ts:25`), which `send` takes for a certain
  failure, as it does any error of the server (`ChatScreen.tsx:859-866`): the text
  comes back although the job may be active, or, after a failed first save, active
  and without a thread until the PC's program ends, which keeps the composer of
  the chat closed. `ReturnedIsOver` excepts the texts that came back so.
  `CatchesUp` excepts a message that lies behind a whole page.
* Expo: when the application ends between the start of a process and its
  registration, the daemon thread is cut off and the process is left alone;
  `MetroIsHeld` names it, and one that survived `kill()`. A later run waits for
  its port, for as long as it hangs.
* Sunshine: credentials of a refused creation are kept, never work and are never
  made again (`game_streaming.py:158-163`).
* Codex: the fallback that opens a task resolves its title again and may open
  another one than it tried to pause; a title is unique among the tasks listed,
  which may have changed while the pages came.
* Links: a page that leads to a video of YouTube is judged by its own status
  (`link_availability.py`), so a removed video may be given; a probe that nobody
  waits for still writes the cache.

## 4. Proofs

Each theorem is about the specification of a module without its fairness, for
any values of the constants that meet the module's named assumption (bounds are
naturals, model values are distinct). Every safety property of a passing run,
invariant or action property, is proved; liveness is not (below). A module of
proofs may hold those of two modules that share no name.

* `Work_proofs`, registry: types, `Admission`, `ActiveHasSession`,
  `RecordedBeforeLaunch`, `LaunchedOnce`, `StatusMovesForward`, `DamageIsKept`,
  `StopLetsOneToolPass`. The inductive invariant `Indexed` joins those that are
  invariants with `Fresh` (nothing is known of a job not yet created),
  `WorkersAgree` (a thread has a session, one inside its turn has an active
  record, one that leaves has a final one), `NothingHeld` (a process that is down
  or refused its file holds no record, thread or session), `DamageSeen` (a process
  that runs beside a damaged file knows it) and `LaunchedKnown` (every launched
  job is in memory unless dropped as old). `LaunchedOnce` needs the last three:
  the test for a repeated request looks at the memory, which a restart fills from
  the file. `ToolPassUsed` carries the stop: a worker that began a tool after its
  event has passed no check since, and one at a plan has begun no more than what
  is gone of it.
* `Work_proofs`, loop: types, `CompletedIsVerified`, `CodeIsTested`,
  `NoChangeTwice`, `ThreeAlikeBlock`, `PasswordEndsJob`. The invariant `Sound`
  ties every index to the record: `VerifiedRight` (the check it names was followed
  by no failed tool), `WriteRight` (no later change succeeded, and `last_mutation`
  is that call), `CodingRight` (the three fields of `CodingEvidence`),
  `RepeatedRight` (the counter is at least the length of the tail of results
  alike), and `Bounded` (while the loop is open the status is running and no
  counter is at its limit). `FinishJustified` then derives the evidence from the
  test that `finish_task` makes. `Records` states once what both a refused and an
  executed call may assume.
* `Chat_proofs`, turns: types, `OneTurn`, `WorkIsStored`, `OneAnswer`,
  `RepliedIsSettled`. The invariant `Settled` adds that a question at work has no
  reply yet (the cached reply is looked up inside the lock, and only the attempt
  inside stores one) and that answers are counted by replies except where a
  password was asked.
* `Chat_proofs`, phone: types, `NoMixing`, `ReturnedIsOver`, `DraftFollows`. The
  invariant `Synced` joins the types with `Shown` (the screen holds entries of the
  open chat, each once), `Sending` (where the call of `send()` is, its message has
  not been posted, or is in the chat it was written in), `Posting` (a request to
  start a job is the only one of its message, and is waited for until the PC has
  decided) and `ReturnedIsOver` itself: a text comes back only where the post is
  known to be over, or where the answer told nothing (`told`), so the orphans of a
  failure or of the end of the app must be told from the ones that may still be
  served. That merging pages keeps entries apart is a lemma about sequences, by
  the least counterexample. `DraftFollows` asks of each handler where it may take
  the screen (`Goes`).
* `Pet_proofs`, trips: types, `NoTripUnasked`, `ClientLeavesFirst`,
  `ClientLeaves`, for any devices and any limits with `Window < Lease`. The
  invariant `Timely` says that a pending request is the owner's wish and as old
  (`Wished`), and that the age of a client's window, counted from the sending of
  its request, is at least the time for which the manager has been without that
  device (`WindowsFresh`, `AnswersFresh`). Nothing is assumed of the network.
* `Pet_proofs`, desktop: types, `OneErrand`, `KeepsGoing`. The invariant `Fit`
  joins the types with `Able`: one errand at a time, and a way has a purpose. The
  methods of the window are functions on its record, and for each a lemma says
  that it is `Onward`: it keeps the window able, and an errand that something
  carries on is carried on after it, or is `Aground`, the run for the lemon whose
  way the screen took. `PlayIs` says what `play` leaves alone. A chain of events
  is a recursive function over the queue; `AfterEvents` follows it by the least
  event at which it would fail. `KeepsGoing` is then one case per handler, beside
  the steps it names as exceptions.
* `Parts_proofs`, files: `WholeFiles`, `FailureIsClean`, `NoSilentOverwrite`,
  `ChangesAreSeen`. `FileShape` says what is under way at each place of an
  operation; `Purity` that a file lacks something only by an operation that works
  in place; `Published` and `Tidy` that the text of an operation is on the disk
  only when nothing is left to it but to report, and its temporary file only while
  it is at it, after a failure it reported or after the end of the process; `Met`
  that the version it tested or read is one that was there since it began, for as
  long as it relies on it.
* `Parts_proofs`, Expo: `MetroIsHeld`, from `Supervision` (a live process that was
  not lost is the supervised one or the one in the hands of the worker or of
  `stop()`, and what these hold agrees with what is supervised).
* `Parts_proofs`, Sunshine: `KeepsTheKey`, from `Kept` (an account is posted only
  after it was stored).
* `Parts_proofs`, Codex: `NoGuess`. The invariant `Operation` joins `Touched` (no
  two tasks were last used at the same moment, which is what orders the pages),
  the types of requests and messages, `Progress` (a task that was left alone is
  listed under its title, unless it lies behind the cursor) and `Heard` (an answer
  in the pipe is of the request under way, and fits it, or of an earlier one).
* `Parts_proofs`, links: `OnlyLiveLinks`. The invariant `Links` gives every
  finding an age that bounds how long ago its link was there: an entry of the
  cache its own (`CacheFresh`), what a thread has found that of the cache and of
  the wait since (`ThreadFresh`: `ProbesFresh` for the batch, `FoundFresh` for the
  results). A thread that nobody waits for has no bound and needs none.
  `WebGivesLiveLinks` says it of `WebResearch` alone; the theorem about `MCParts`
  follows from the same lemmas.
* `DesktopChat_proofs`: types, `DraftsReturn`, `NoLeak`, `OneAnswer`. The
  invariant `Arranged` joins `Sound` (what the owner left in a chat is in the
  composer or in its draft, but where an authorization spoilt it), `Addressed`
  (jobs, dialogs and events are of chats and jobs that exist), `Asking` (the
  dialog of a deletion is about the open chat) and `OneAnswer`. As with the pet,
  each method of the window has a lemma about what it preserves, and the poll of
  events is a recursive function, followed by its least counterexample.
* `Authorization_proofs`: types, `GuessesBounded`, `PasswordIsSaved`, and the
  refinement `OneUse`: every step of the manager is a step of `Grants` or a
  stutter. The invariant `Guarded` says which counters a record can hold (`Sound`:
  no failures without a window, a lockout exactly with the last failure) and how
  the remembered guesses lie under them (`Spread`: the failures of the window are
  the newest, and the window before it had one failure less than a lockout), in
  memory and in the file; the refinement rests on the types in it.
* `ConversationStorage_proofs`: types, `AttachedIsKept`, `SentOnce`, `NoTrace`,
  `SweepCleans`. The invariant `Careful` joins them with `InHand` (the object a
  step holds is one of those to be handled), `Prepared` (the contents of a
  question get their files, then their rows, then the attachments), `Unneeded`
  (what a loop takes back or sweeps has no reference, and only that; a file under
  another name there is only after a fault), `Unsent` (an upload of a stored
  question is no longer in memory but for the one about to be consumed) and
  `Exact` (without faults, the very objects each stage has beside those referred
  to).
* `ModelProfile_proofs`: types, `ReleasedIsFree`, `PauseIsKept`, `DualAlone`. The
  invariant `Orderly` joins `Locking` (who holds the lock is at a step of its own,
  and has claimed its profile), `Pausing` (where the owner's pause is kept while a
  profile is being activated), `Releasing` (what was released stays so while the
  lock is away from a profile) and `DualRuns` (only its own activation starts the
  Dual server, after everything else has gone).

Each invariant was checked by TLC on small instances before it was proved.

Proved and in no run: `Admission`, `RecordedBeforeLaunch`, `StatusMovesForward`,
`DamageIsKept`, `CodeIsTested`, `ThreeAlikeBlock`, `PasswordEndsJob`, `OneTurn`,
`RepliedIsSettled`, `ClientLeaves`, `SweepCleans`, `DualAlone` and the types.

Only model-checked: `StopTakesEffect`, `JobEnds`, `TurnEnds`, `PetReappears`,
`GameGetsTheCard`, `InteractionEnds` and `CatchesUp`. They are liveness
properties: they rest on fairness, and so on ENABLED, about which the provers at
hand cannot reason.

## 5. What is left out

* Texts, prompts, previews, file contents and the wording of errors; the rules
  that classify a message as work or choose a model size; what tools other than
  file operations do to the machine; speech, sounds, pictures and geometry.
* In WorkTasks the write of the file is atomic (`os.replace`). In Travel the
  faults of the two registry files, `generation` (only reported) and the drawing
  of the client.
* Settings and pairing dialogs, the setup of the BC-250, the other screens of the
  phone and `web_reader`, which keep no state that outlives a call.
* `config.py`: the fields that matter are variables of the modules that read them.
  `temporal.py` and `project_previews.py` compute and list, and change nothing.
* Browser routing, as far as it chooses a plan and reads its links; the order of
  the plan's tools under one check is in WorkTasks, where whatever ends such a
  plan early (a search that fails, no link, a request for the password) is its
  failure or a shorter plan. Keyboard and window actions are single calls of the
  operating system, whose outcome is a result in WorkLoop and ChatTurn.

## 6. Plan

1. `JobPromise`, the abstract life of a job (asked, active, one final outcome,
   evidence where it is required), and refinements of it by `WorkTasks` and by
   `WorkLoop`, with the callback of the loop as the update of the registry.
2. A composition of `ChatTurn` with `ConversationStorage`, for files that a retry
   finds unarchived.
3. Settings that several dialogs and a switch of profile save at the same time.
