# Verification of the Brain

TLA+ models of the code under `src/`, the TLC configurations that check them
on small instances, and TLAPS proofs of their main invariants. Every
definition is translated from the source; `PROJECT.json` names the lines each
one stands for.

## The system

The Brain is the process that answers a Team's chat turns and short decisions.
`src/README.md` puts its core in one sentence: *a chat turn is one Holdpoint
run*. Every model call and every request to Team is a step of a durable run,
journaled in a SQLite ledger by Holdpoint (`src/vendor/holdpoint`), and the turn
service (`src/runtime/src/turn`) keeps the conversation of each thread in a
second store beside it. Around them are the HTTP boundary, the provider
transport and the egress proxy; beside them the decisions and the Browser agent,
which keep no state between calls.

| Component | Source | State | Operations |
|---|---|---|---|
| Ledger | `holdpoint/src/store/` | one row per run (state, sequence, fence, lease, cancel flag, wake time, outcome), its events, obligations and deferred requests | one write of a lease holder with four endings (hold, receipt, park, finish); create, resolve, cancel, acknowledge, wake, delete |
| Drive session | `session.rs`, `ctx.rs`, `attempt.rs`, `worker.rs` | what it read, a buffer of events, the lease it presents, new obligations, the attempt it waits for | load, replay, gate, dispatch, prove, heartbeat, renew, settle, release, park, finish |
| Deletion | `worker.rs`, `store/host.rs` | what was read of the row | read, prove with no transaction open, delete |
| Host | `holdpoint/src/host.rs`, `turn/host.rs` | the executors it runs | authorize, prove_ended, release |
| Turn service | `turn/service.rs`, `turn/threads.rs`, `turn/service/prepare.rs` | a thread's row (contract, history, open run, committed run) and its delivery | start, resume, delete, purpose lookup |
| Turn definition | `turn/definition.rs`, `turn/step.rs`, `turn/model.rs`, `tools/` | the conversation as the run replays it, its journal | call the model, review its answer, run tools, ask Team, check memory, settle |
| Conversation and budget | `budget.rs`, `attachments.rs`, `attachments/count.rs`, `turn/context.rs` | the history a thread keeps; the count slots of the process | drop whole exchanges, let old results give way, count and charge files |
| Routines | `tools/routine*`, `protocol/team/http` | none in the Brain; Team keeps the Routine | record, refine and rerun a Routine |
| HTTP server | `server/` | lanes, memory budget, what each request holds | admit, start work, answer, notice a client that went away, shut down |
| Provider transport | `provider/` | two pools of connections, usage counters, cancellation | one logical call with attempts and retries |
| Decisions, Browser | `decisions/`, `browser/` | none between calls | purpose, capability, intent with a fast path, Browser step, fold, check and answer |
| Egress proxy | `src/egress` | its policy | admit a tunnel to a host |

How they interact. The server admits a request and starts its work on a thread
of its own; the work makes provider calls, or drives a turn. The turn service
drives one run per thread under the thread's lock and moves results between the
two stores, with no transaction over both. Holdpoint drives a run by a
*session*: it loads the history without a lease, runs the definition on it, and
claims the lease with its first write, presenting how much it had read.
Sessions of several processes, the host (answers, cancellations, wakes,
deletions) and the executors of activities act at the same time and meet only in
ledger transactions. The host is called back to prove that an executor ended
before anything else is dispatched. Every provider call of the process shares
the connections of its pool, and every connection is a tunnel through the
egress proxy.

What is hard here:

- a session that stalls past its lease and goes on, or crashes between the
  commit of a dispatch and the commit of its receipt, while another takes over;
- decisions taken on a history that was read without a lease;
- an answer or a cancellation that lands between a decision to wait and the park;
- a history at its bound, where cancellations, receipts and the end of the run
  each go past it by a different headroom;
- a deletion that proves outside any transaction;
- a crash between any two transactions of the two stores, and resumes that
  Team repeats, sends in parts, or sends late;
- a definition that is executed again from its beginning, and must come to the
  same calls;
- answers of a model that mix calls, break their arguments or propose what the
  user did not say, and corrections that must leave every call paired;
- work that goes on after its connection closed, and must neither lose nor keep
  what it holds, nor send anything more;
- connections that outlive the call they were opened for, in a bounded pool that
  two hosts share;
- counts of files that share slots among turns, under one deadline each;
- histories and plans that are trimmed, folded and edited while they change.

`PROJECT.json` lists these hazards, line by line, with the properties aimed at
them, and the few that no property covers with the reason.

## Modules

| Module | Models | Uses |
|---|---|---|
| `Ledger` | the row of one run and every transaction over it | |
| `Drive` | sessions, host and executors over the ledger | extends `Ledger` |
| `Deletion` | a deletion interleaved with all of them | extends `Drive` |
| `Conversation` | what a thread promises of its history (abstract) | |
| `TurnService` | one thread over its two stores, with Team's requests | implements `Conversation` |
| `Attachments` | the bounds, ceilings and estimates of files | |
| `Adapters` | conversation to wire form and answer to message, for both providers | |
| `Requests` | what a turn request is admitted under and offers the model | extends `Attachments`, `Adapters` |
| `Guards` | the reviews of a model's answer before any call runs | |
| `TurnLoop` | the chat turn as a durable definition, with replay and a crash | extends `Requests`, `Guards` |
| `History` | what successive starts keep of a thread | |
| `Charging` | the counting of files by worker threads of several turns | extends `Attachments` |
| `Routines` | the canonical forms of a Routine, and the checks of each | |
| `Recording` | sends that record, refine and rerun a Routine | extends `Routines` |
| `Egress` | the proxy's policy from what it finds as it starts | |
| `Provider` | the logical provider call over pools of connections | extends `Egress` |
| `Decisions` | purpose, capability, intent, the fast path | |
| `Browser` | the Browser thread, its rendering, its four operations | extends `Decisions` |
| `Server` | the HTTP boundary, what work holds, cancellation, shutdown | extends `Provider`, `Browser` |
| `DriveProofs`, `DeletionProofs`, `TurnServiceProofs`, `TurnLoopProofs`, `ChargingProofs`, `RecordingProofs`, `ServerProofs` | theorems about the modules they are named for | |
| `ReplayProofs` | theorems about the histories `Drive` writes | extends `DriveProofs` |
| `MC...` | instances and symmetry for TLC | |

### Ledger and Drive

The state of `Ledger` is the columns of `runs` and the three side tables;
`fence`, `holder`, `expires`, `cancel`, `wake` and `outcome` keep their names
or those of their columns. Each operator `Write...` is one ending of
`Store::write`; `Create`, `Resolve`, `Cancel`, `Acknowledge`, `Wake` and
`DeleteRow` are the host's transactions. The holder's write is kept apart from
its conditions (`Stale`, `MayWrite`, `Refused`, `Fits`, `Allowed`), because
`session.rs` chooses what to write by them.

`Drive` keeps, for each session, the fields of `Session` that decide
transitions (`token`, `seen`, `buffer`, `owed`), the attempt it waits for, and
a program counter whose values are listed in the module. A session knows only
the prefix of the history up to `seen` and its buffer; everything else it
learns by a write. `acting` is the set of activity executors that may still
act. What a definition does is a choice among what `ctx.rs` lets it do: record
pure work, attempt a model or an activity, wait, return.

| Action | Code |
|---|---|
| `Load`, `Interrupted`, `Record`, `Suspend`, `Return` | `worker.rs` drive_once and execute, `ctx.rs` position, interrupted, await_deferred, sleep_until |
| `Attempt`, `Dispatch`, `Prove`, `HoldUnproven` | `ctx.rs` attempt, the loop of `session.rs` dispatch |
| `Beat`, `Renew`, `Observe`, `SettleActivity`, `SettleModel`, `GiveUp` | `attempt.rs` wait, `session.rs` renew_if_due and poll_cancel, `ctx.rs` settle_activity, settle_model and conclude |
| `Release`, `Park`, `Finish` | `session.rs` release, park, finish |
| `Crash`, `ExecutorEnds`, `Clock` | a process that dies, an executor that ends on its own, the shared clock |

### TurnService

`thread` and `delivery` are the two rows of the thread store, `run` what the
service can see of the ledger, `op` what the operation in progress holds in
memory. Every transaction of either store is an action, `Fail` is a
transaction or a drive that fails (503) and `Crash` the death of the process;
both may come before any transaction. `Request` is Team: it may start, delete,
or resume with any set of interrupts it was told of, current, partial or old.
A drive (`Ask`, `Wait`, `End`, `Cancel`) ends as `Drive` lets it end: in
particular a cancellation that lands before a park ends the run together with
the requests it was about to park on. `History` maps the thread to
`Conversation`: appended to by whole exchanges, in order and at most once,
trimmed only from its old end, or forgotten.

### TurnLoop, Requests, Guards and Adapters

`TurnLoop` keeps apart what a crash loses (`turn`, the definition's own
variables) and what the ledger keeps (`journal`, one entry per model call and
per round of Team). `Dispatch`, `Interrupted`, `Receive` and `Exceed` replay or
extend the journal; `Attempt`, `Retry`, `Answer` and `GiveUpCall` are one model
call under the attempts of `Profile::CHAT`; `Review` and `RunTools` are
`definition.rs` over the answer; `AskTeam`, `Rewait`, `TeamAnswered` and
`Resume` are a round; `Check`, `Unproposed` and `Confirm` are the memory check.
`Crash` and every suspension lose `turn`, and the definition runs again. A
replay that comes to something else than the journal ends as *diverged*. What
the code does between two steps of the journal is a function of the input and
`turn` (`received`, `review`, `run_tools`, `told`, `settle`), which `GoOn` takes.
A batch for Team maps the places of its calls to requests numbered in order,
and the tools offered are a set: their order is the input's.

`Requests` has `turn_input.rs` (admission, in the order of its checks) and what
`prepare.rs` offers the model. `Guards` has one operator per review, in the
order `definition.rs` takes them; the module that extends it says what an
answer is. `Adapters` translates messages to items and answers to messages as
`anthropic.rs` and `openai.rs` do, with the rewritten call identifiers of the
one and the replayed items of the other.

### History and Charging

`History` follows one thread over turns: `Start` is `fit`, with the budget's
passes in their order (what is remembered, the newest exchanges within count,
budget and window, results that give way a batch at a time, a bridge only when
nothing is kept); `Complete` appends the turn's exchange and `Fail` does not.

`Charging` has one charging per turn with `MaxWorkers` threads over the process's
`Slots`. A worker's program counter is a line of `Job::work`: next file, slot,
with the slot, counting, sending. The nested scope of a charging is its `left`
flag; its deadline may pass at any moment, and Team may stop it.

### Routines and Recording

`Routines` is the canonical forms as predicates and functions; `Recording` is
what happens around them. `Send` is Team's context, `Run` a traced call,
`Propose` the model's call of the Routine tool with the guard's decision,
`Confirm` and `Revoke` the person and Team moving the revision on. `messages` is
the conversation as the guards see it: results of earlier sends stay in it, and
Team's handles start again with each send, so that a handle alone does not tell
which send it is of. What Team does is read off the tool's schema and its card
forms and marked external; its plans and cards show inputs that are read from
other steps, which is what edits can break, and no literal ones.

### Server, Provider, Decisions, Browser and Egress

`Server` follows each request through three variables: `http` (the connection),
`work` (the thread that serves it, which lives on when the connection is gone)
and `call` of `Provider`. `permits` and `reserved` are what the work holds.
`Bodyless`, `Admit`, `Received` and `NotReceived` are the boundary in the order
of its checks; `Read`, `FastPath` and `Chatted` are the work up to its next call
or its answer; `Close`, `Terminate` and `Shutdown` drop handlers.

`Provider` has one logical call per request (`Attempt`, `Send`, `Slot`,
`Connected`, `Unanswered`, `Answered`, `Refused`, `Wake`, `Stop`, `Refuse`) and,
for each host, the connections that are idle and those that still open although
the call they were opened for got another one. The HTTP client is external: the
module says how it hands a returning connection to a waiting call. `Egress`
says which hosts a tunnel can reach at all.

`Decisions` and `Browser` are functions from a request and a model's answer to a
status and a value. `Server` composes them: a Browser task is a chain of
requests in which each one carries the thread Team made of the answers before.

### Abstractions, and why they are sound here

- An event of a ledger keeps what decides a later transition. The size of a
  history is its number of events; the bound in bytes is checked in the same two
  places and is left out.
- In `Drive` an attempt is named by the position of its dispatch, which is as
  unique as the code's step and attempt numbers; steps are numbered in
  `TurnLoop`. A pure computation is one event. A reload after newer history is
  not bounded (the code gives up after a fixed number of reloads, which a crash
  of the session covers).
- `load` reads in one step, although its two statements are no transaction;
  every transaction that writes checks the row again. A run's identifier is not
  submitted again after a deletion: the Brain draws each one at random.
- An unsubmitted run identifier of a thread may be taken again; the code draws
  a random one, and the ledger knows neither.
- Time is left out of every module but `Ledger` and `Drive`: whatever has a
  time bound may end by it at any moment it waits.
- Texts are classes that the checks tell apart, tokens and bytes small numbers,
  a body what its checks see of it. Prompts, wording and encodings are left out.
- A chat turn is one attached call in `Server`; its rounds are in `TurnLoop`.

## Checks

| Run | Instance | Distinct states | Shows |
|---|---|---|---|
| `takeover` | 2 sessions, lease 1, 4 events, clock and deadline to 2, wakes | 0.8 M | one executor at a time, every executor named, no view misses another session's decision, the history replays |
| `cancelled` | 1 session, 5 events, one buffered, cancellation, deadline, wakes | 0.7 M | a committed cancellation decides the outcome, an open run always has room for its end, no park sleeps over what arrived, nothing is dispatched after a cancellation |
| `deletion` | 2 sessions and a deletion, 3 events | 0.9 M | a run is deleted with no executor left and no live lease |
| `turns` | 2 turns, 2 rounds of up to 2 requests, 2 contracts | 1.4 M | no orphan run, one contract per thread, turns go only to resumes of their last round, a repeated finishing resume is not refused, completed turns are not lost, and `Conversation` is implemented |
| `turn` | 6 model calls, 2 attempts, 1 round, 1 crash | 0.4 M | a replay comes to the same calls, a Browser task is asked alone and last, memory comes from the user's words, every call is answered once in what a provider receives, attachments stay within the turn's ceiling over retries and a crash |
| `history` | 5 turns, 3 exchanges | 0.2 M | what is kept is the newest run of exchanges that fits, the newest results are whole, a bridge leads its turn |
| `charging` | 2 turns, 2 workers, 1 slot | 0.2 M | slots are neither lost nor held twice, only Team cancels, every charging ends |
| `recording` | 2 sends, 2 calls, 2 revisions | 0.04 M | a kept step reads what it read, cards are ones their clients admit, a fresh value is not one remembered, a refinement names calls of its own send only |
| `server` | up to 3 requests, pools of 2 and 1, lanes of 1, memory for two of the smaller bodies | 0.3 M | calls wait only for calls, work stays within lanes and memory, nothing is sent after a close, answers name only what Team supplied, a Browser conversation grows at its end, every work ends and returns what it held |
| `ended`, `leftover`, `unparsable` | that of `turns`, `turns`, `turn` | | disagreements of the code with its own words, below |

Bounds. Two sessions give every takeover: a third only meets the row as the
second did. `MaxEvents` lets a run start, dispatch, be taken over and reach its
bound; `ReceiptHeadroom` 3 and `TerminalHeadroom` 5 scale the code's 8 and 64
and keep what matters, that the end's headroom exceeds a receipt's by at least
two. `MaxTime` lets a lease expire once or twice; `Delays`, `MaxBuffer` and
`HostOps` limit what a definition and the host do in one instance. In `turns`
two rounds are what a late resume needs, two turns what an abandoned one needs,
two requests what a partial answer needs. In `turn`, six model calls leave room
for a correction, a round and the answer after it, and for the limit itself;
one crash may come at any point. In `history`, five turns go past three
exchanges with one turn failed between them, and the numbers let a batch of
results give way and a bridge not fit. In `charging` one slot under two turns
makes workers wait for the other turn. In `server` two slots are the smallest
pool two hosts can share; three requests are two that meet in a pool or lane and
one more, or a Browser task of two steps and a fold. The memory budget holds two
works of a body of size 1 (the lane then turns the second away) and not one of
size 2 beside one of size 1 (the budget does, before its body is read).
`MaxAtClose` lets
connections close and the process stop in workloads of at most two requests:
closing matters between a request and one it shares something with.

Deadlock is checked in `server`, where only a finished server may stop. The
other systems really stop: a run whose sessions ended under the bounded clock, a
thread after its bounded turns, a turn that has its outcome.

Fairness. `Charging` and `Server` assume weak fairness of each thread
(`Charge`, `WorkerStep`, `Work`), because the operating system schedules a
thread that can go on, and of the bounds of time: a charging's deadline passes, a
body arrives or times out, an attempt has its timeout (`Unanswered` is one of the
steps of `Work` wherever a call waits for a slot, a connection or an answer).
Under it `Ends` and `WorkEnds` hold: nothing waits for ever behind the slots of
others. The other runs assume none, and their properties are ones of safety.

Each property of a passing run has a mutant: a plausible bug in one definition
(a claim that forgets the session it takes over from, a commit without its
delivery, a connection opened without a slot, a count that keeps its slot) under
which TLC finds the property violated in the same instance. They stand beside the
definitions they change, marked *Mutant*.

### Disagreements found

- `ended` (`prepare.rs:259`): a start takes a cancelled run that was not yet
  reconciled for a turn that waits on Team, and forgets the conversation.
- `leftover` (`threads.rs:231`): a deletion stopped between its two statements
  leaves a delivery that a later thread hands out.
- `unparsable` (`tools/memory.rs:236`): a refused memory proposal beside a call
  whose arguments do not parse leaves that call without a result in the next
  request, against what `refusal.rs` says of every refused response.

Observations that contradict nothing the code says, kept in the models as they
are: `provider_requests` counts an attempt before it has a connection; Claude
Haiku's bound on its input refuses every step of a thread that renders larger; a
Browser check that says *incomplete* without `missing` is a 502; and a pool of a
single slot shared by two hosts would let the idle connection of one keep the
other waiting, which is why `SharedAssumption` asks for two (the code has five).

## Proofs

The theorems about `Drive` are in `DriveProofs` (which begins with the lemmas
about `Ledger`) and `ReplayProofs`, the others in the module named for theirs.
`PROJECT.json` lists them with the property each proves.

### Drive

They hold for any sets of sessions, requests and results, any lease, bounds,
delays and host, under the assumptions the modules name: `LeaseAssumption` and
`DriveAssumption` (types), `NoneAssumption` (NULL is no value),
`HeadroomAssumption` (the end's headroom exceeds a receipt's by two), and a
host that says *ended* only of an executor that ended (it is part of
`Provable`).

| Theorem | Invariant and argument |
|---|---|
| `TypeCorrect` | `TypeInv`: the types, and that obligation numbers are bounded, so that the next number exists |
| `CancellationWins` | `CancelInv`: a run that is not closed has no outcome; the end of a cancelled run writes *cancelled* |
| `AlwaysRoomToEnd` | `RoomInv`: an open history is at most its bound, a receipt's headroom and one cancellation long; the assumption on headrooms leaves room for the end |
| `OneExecutorActs`, `ExecutorsAccounted` | `FenceInv` and `ExecutorInv`, below |

`OneExecutor` is not inductive. What carries it: fences only grow and one
session holds the newest (`FenceInv`); an executor that may act is named by an
obligation, or belongs to the newest fence while somebody is recorded as its
holder; and the live holder of the newest fence answers for its own executor,
by waiting for it or by an obligation not yet written (`ExecutorInv`). A claim
turns the second case into the first by recording an obligation for the session
it takes over from; a dispatch needs an empty table, so nothing may act when it
commits; an obligation leaves the table only when the host proved it. Obligation
numbers are reused once deleted, so `UniqueIds` is part of the invariant. Proofs
about the row go through `RowStep`: each step leaves the row alone or is one
transaction.

### Histories and deletion

| Theorem | Invariant and argument |
|---|---|
| `HistoriesReplay`, `NothingDispatchedAfterCancel` | `HistoryInv`: the history is one that replay accepts, an unended one while the run is open; a wait that is open was registered, a resolved one is not open, and the column knows every recorded cancellation |
| `ViewsAreComplete`, `SleepersInformed` | `ReadingInv`, below |
| `DeletionLeavesNone`, `DeletionFindsNoHolder` | `DeletionInv`: a run has a history exactly while it is open or ended (`Written`); while the history has the length the deletion read, every executor that acts is one it still has to ask, and while the fence is the one it read, so is the holder (`InProgress`). A session that makes this false makes the history longer or raises the fence, and the deletion's last transaction looks at both |

That a history replays does not follow from what the row holds: a session
appends events it had buffered, and no transaction looks for them in the
history. `ReadingInv` says of every session what its memory knows of the
history (`Remembers`, over what it has read and buffered, `KnownTo`): it has read
no more than the history holds; what it buffers is of the kinds a session
writes, is not in what it read, and settles only attempts it read; the attempt in
flight is dispatched and not settled; where it is about to decide, none is. For
the session with the newest fence it says more (`ViewsComplete`): what it has not
read, only the host wrote. Those host inputs never contradict a buffered event. A
session that lost its lease may hold a buffer that contradicts the history, and
nothing more is required of it, because `MayWrite` refuses its transaction: no
two sessions hold one token (`OneToken`).

### TurnService

They hold for any number of turns, rounds, requests and contracts, under
`TurnAssumption` (bounds are numbers, NULL is none), `NullAssumption` (NULL
is no row) and `OutcomeAssumption` (nor an outcome). Each of these invariants is inductive with those above it.

| Theorem | Invariant and argument |
|---|---|
| `TurnTypeCorrect` | `TypeInv`: the types, and which of the operation's fields are set at which of its steps |
| `NoRunOrphaned` | `OrphanInv`: the thread in memory is the stored one until the operation writes it; where a run is about to be named or was let go nothing is held; the run worked on is the one the thread names, and new until it is submitted |
| `ThreadOfOneContract` | `StoredInv` and `MeantInv`: every exchange of the thread, and of what a held run started from, comes from a run under its contract, and so does what the operation is about to store |
| `HistoryIsConversation` | `ChatInv`, below |
| `CompletedTurnKept` | `KeptInv`: what a resume is about to delete did not complete, or was committed |
| `TurnsToTheirRound` | `RoundInv`: a run that is done has nothing pending (`AskedInv`); a drive works on a run with something pending, or answers its last round (`DrivenInv`); so what is told, and the delivery that is kept, are of a run that ended, and answer nothing or a request of its last round (`ToldInv`) |
| `RetriesReceiveTheirTurn` | `RetryInv`: the resume that ended a run is its finisher or named its whole last round, and a turn committed by a resume that named it all has its delivery, to that round (`FinishInv`); nothing is answered while an operation lasts, and a start answers no request (`QuestionInv`) |

The refinement of `Conversation` by `TurnService` is the one that needs most. A
step that commits must append, to the history *as it is now*, an exchange newer
than all of it; but `Commit` writes the history the run started from, which is
in the other store. `CommitInv` says the two agree until the turn is committed,
`ProgressInv` that a turn is never committed twice (a committed run has ended,
and a drive works on an open one), and `OrderInv` that runs are submitted in
the order of their numbers, so what a run started from is older than it. That
the runs last is one lemma (`RunsLast`): every step but `Submit` keeps each
run's contract, and what it started from while it is held.

### Charging

They hold for any finite set of turns, any files, slots and workers
(`ChargingAssumption`). `IInv` is inductive as a whole.

| Theorem | Invariant and argument |
|---|---|
| `SlotsConserved` | `Conserved`: the free slots and the pairs of a turn and a worker that hold one make `Slots`; one lemma (`ConservedByOne`) follows the set of pairs through a step of one worker. `Running`: a worker runs only while its charging collects or joins, so one that ended has none |
| `OnlyTeamCancels` | `Cancels`: a worker carries a cancelled count only when Team stopped its turn or nobody will receive it, and a cancelled count in the channel means Team; `Results`: an answer comes with the end |

### Server

They hold for any workload, any number of requests, one slot or more for the
fast path and two or more for the providers (`SlotsAssumption`,
`SharedAssumption`, `RequestAssumption`), any budget and bodies
(`BoundsAssumption`), when every request names a host of the transport, one
without a body has no JSON and a bearer is right, wrong or rotated while it is
checked (`WorkloadsAssumption`), and an absent option is none of the words an
answer may carry (`NoneAssumption`).

| Theorem | Invariant and argument |
|---|---|
| `PoolsBounded` | `PoolInv`: no pool holds more connections than slots (`Bounded`), no host more idle ones than its share (`Shared`), a waiting call left none of its host idle (`Reused`), an attempt to be made again is not the last (`Counts`). A connection that returns moves a slot from one call to another, or to the idle ones; `HoldersOfOne` and `HoldersOfTwo` follow the calls that hold one |
| `CallsWaitBehindCalls` | when nothing is free and no call or opening connection holds a slot, all are idle; but the caller's host has none and the other at most half of at least two |
| `WorkStaysBounded` | `HeldInv`: what is reserved is exactly what received bodies and running works take (`MemoryHeld`), and the slots of a lane are exactly the works that run in it (`LanesHeld`), whatever connections closed. An admission adds one body to a sum that leaves room for it (`SumOfOne`); every other step makes no part of it larger (`SumMonotone`) |
| `AuthorityStaysClosed` | `AuthorityInv`: the work of the fast path is a classification's; the call of the model is another than the fast path's; an answered success has the authority of its call, which no step changes any more (`KindStays`). `PlanNames`, `RouteAuthority` and `FastAuthority` bound what each decision may say, for every answer of a model; `SortedCounts`, that ids in increasing order name each Assistant once |
| `TypeCorrect` | `AnswerInv`: a connection has an answer exactly when it was answered, whatever its work does once it is gone, and the answer's status is one the boundary or a decision gives (`VerdictAnswers`, `DecidesAnswers`, for every answer of a model). The rest of the types follows from `PoolInv`, `Placed` and `HeldInv` |
| `NothingSentAfterClose` | a step of a call sends only for its own request, and looks at the cancellation first; a returning connection goes to a call that already waited for one. `ServerInv` adds where each request's work can be (`Placed`) |

### TurnLoop

They hold for any starts, models, verdicts and results of Team, any thread kept,
any limits, and any number of rounds, retries and crashes. The first two use no
assumption on a constant; `CeilingKept` uses those of `TurnLoop`: what the thread
keeps and the items of an answer are lists (`KeptAssumption`,
`AnswersAssumption`), and a charge and the ceiling are numbers
(`ChargeAssumption`).

| Theorem | Invariant and argument |
|---|---|
| `TurnsReplay` | `ReplayInv`, below |
| `BrowserComesLast` | `BrowserInv`: `ReplayInv`, and a run goes on only with an input that has the Browser among its tools when it is offered (`Offering`). A call comes to the tools only through the guards, so a Browser call there is the only one (`BrowserAlone`), and from a place that asks for one every later place is after the Browser, where no tool is known (`NothingAfterBrowser`) |
| `CeilingKept` | `SentInv`, below |

That a turn never diverges is not inductive: while it replays, the definition
knows less than the journal, and the journal was written by an earlier drive.
`ReplayInv` therefore speaks of the whole way through the journal (`Way`): places
(a position of the definition and its `turn`) that start at `Fresh(input)`, each
reached from the one before by the one move the code has there (`Moves`,
`MovesOneWay`); every step of the journal that was passed can no longer change
(`Over`), and every step of the journal was asked for, as it stands there, at one
of the places (`AskedAt`). The run is at a place of such a way (`OnTheWay`),
whether it replays or goes further. A place that asks for a step has passed
fewer steps than every later one (`Before`), so the step at the cursor is the
one asked for here (`WayAgrees`); a step that is appended, settled or answered
leaves the way a way (`WayAsked`, `WayKept`), a move follows it or makes it
longer (`WayGoesOn`), and a crash or a resume goes back to its first place. How
often a call was tried is no part of a place (`Rest`): it is lost by a crash and
never reaches a request. A running call is the last step of the journal
(`UnderWay`, `OpenIsLast`).

What was sent is counted nowhere: each drive recounts from its messages what the
turn reserved (`dispatched`), an answer cut off by a crash leaves nothing there,
and the last drive's attempts are gone with it. `SentInv` bounds `sent` by what
the journal tells (`Accounted`): by the attempts of its answers (`Spending`),
and by those of the call that is made while one is. A call that was cut off or
failed is the last step of its journal, and no drive sends anything after it, so
nothing has to be known of its attempts. That the messages tell as much as the
journal is shown along the way: `Paid` holds at its first place, and every move
keeps it (`MovesPay`): an answer that is received adds at least its attempts
(`DispatchedAdds`), results and a recorded question take nothing back
(`DispatchedGrows`). So the check before an attempt (`admit_call`) saw all of
them (`CallReserved`).

### Recording

They hold for a plan of any length, any list of edits a model may name, any
bounds of the sends, calls and revisions, and any calls and values, when
every edit is of a kind the tool's schema names (`EditsAssumption`), the first
plan reads only what comes earlier in it (`FirstPlanAssumption`), and what stands
for no place in a plan is no number (`PlaceAssumption`).

| Theorem | Invariant and argument |
|---|---|
| `KeptReadsOn` | `PlansInv`, below |
| `FreshFoundAnew` | `TurnInv`: the last messages are the results of the send's calls, in the order of the trace and under its handles; what a rerun must find anew is in one of those before the call, or in the user's message (`RerunFinds`) |
| `OwnCallsRefined` | `TurnInv` again: a message of the turn is the user's or a result of a traced call (`TurnMessages`), so the handles the guard collects are those of the trace (`HandlesTraced`), and it records no edits that name another (`RefineRecorded`) |

That a refinement reads on is about a plan nobody confirmed yet, made of a plan
the send saw: `PlansInv` says that the plan reads only earlier steps (`PlanInv`),
a call only results of earlier calls (`TraceInv`), that what somebody was shown
of the current revision is the plan (`SelectedInv`), and that a card reads
earlier and, when it refines, reads on (`CardInv`, `CardOK`), which is what the
plan needs when it is confirmed. Where the
edits put a step is a flattening of pieces: what comes before a step, the step
itself, what comes after. No backend has the flattening of the community
modules, which is recursive; `FlattenPieces` says what the prefixes it builds
are, by the least counterexample, and that each piece is found whole, in the
order of the pieces. From it `EntriesPlaced` has every step that stays at one
place (`KeptStays`), in the order it had, and `RefinementReadsOn` puts the guard
`read_after` to use: a step that stays reads steps that stay.

### Sums and sequences

The prover has no induction: the library's induction theorems take an operator,
which no backend can instantiate. What is proved about a sum over the requests,
or about a sequence of any length, is proved by the least counterexample
instead: `LeastNat` and `LeastSet` (from the well-foundedness of the numbers)
give the smallest number or set for which a statement fails, and the step below
it contradicts that (`Climbs`, `FlattenPieces` of `RecordingProofs`). `SumIsNat`, `SumMonotone`, `SumOfOne` and `SortedIncreases`
of `ServerProofs` rest on them, and what is said of `dispatched`: `SumExists` and
`SumsAgree` of `TurnLoopProofs` give a sum over a list of any length, and
`SummedOfOneMore` what one more message adds to it.

### Only model-checked

The other properties of `TurnLoop`; those of `History`; `CardAdmitted` of
`Recording`; `ThreadGrows` of `Server`. They depend on what folds over sequences
of messages or of entries compute. The properties of liveness (`Ends`,
`WorkEnds`) are out of the prover's reach.

## Not modelled

- Holdpoint's scheduler, agent loop and provider adapters: the Brain starts
  none of them. The turn service drives each run itself, its definition is its
  own, and so is its transport.
- Holdpoint's retry policy: backoff and timeouts are arithmetic on time alone.
  The attempts they allow are counted in `TurnLoop` and `Provider`.
- Strict JSON, canonical encoding, schema validation, option defaults, clocks,
  phrases, payloads and Python's Unicode tables: functions without state over
  data no property here tells apart.
- Pages, summaries and views of a Routine: forms for clients, which check one
  of them at a time; the Brain reads none.
- Prompts, schemas sent to a model, hashing, and the wording of any text.

Partly modelled: the history fold (what it refuses is an invariant of every
history written; the fold as an algorithm, spend and blobs are not), the host's
wait for lost authority, steps numbered within `Drive`, the layout rules of a
turn request, the startup and custody of the store, the proxy's resolving,
audit and splicing (an external crate), the validators of Action schemas.
Emptying SQLite's log, erasing pages and file permissions are I/O.

## What is left

- The fold of `history.rs` as a function, against `HistoryValid`.
- `TurnLoop` over the writes of `Drive` in one module: each is checked against
  what it assumes of the other, not both together.
