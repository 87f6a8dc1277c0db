# A verification development for Basic Translation Infrastructure

TLA+ models of this repository's translation server with its decoder and models,
of the balancer, the text processor and the translation client, checked with TLC,
with theorems proved with TLAPS. Every definition is translated from the C++
sources; `PROJECT.json` maps each of them to its lines and lists the runs, the
mutants that show that the properties can fail, the hazards, the findings and the
theorems.

Contents: 1 the system; 2 the modules; 3 the runs; 4 fairness; 5 what is proved;
6 what disagrees with the code's own words; 7 what is not modelled; 8 what is left.

## 1. The system

A *client* splits a text into translation jobs and sends them over a websocket
to a *server*, or to a *balancer* that looks like one and forwards each job to
one of several servers. A *text processor* pre- and post-processes texts through
external scripts. A server translates the sentences of a job in parallel, each
with a phrase-based decoder over a language, a translation and a reordering model.

```
client_manager --ws--> balancer_server                         processor_server
  trans_manager          balancer_manager : job pool             processor_manager
  proc_manager             balancer_job --- task pools (2)         processor_job
                           adapters_manager
                             translator_adapter (1 per server)
                               generic_client --ws--> translation_server
                                                        translation_manager : job pool
                                                          trans_job
                                                            trans_task -- task pool
                                                              sentence_decoder - LM, TM, RM
```

| Component (under `src/inc`) | State | Operations | What is hard | What makes it correct |
|---|---|---|---|---|
| session job pool `common/messaging/session_job_pool_base.hpp` | jobs per session, a counter, a list of finished jobs, the stop flag, three mutexes and a condition variable | plan_new_job, cancel_jobs, notify_job_done, process_finished_jobs, delete_job, stop | the listener, the stopper, the pool's thread and the workers meet in nested locks; objects are deleted while others hold pointers | accepted jobs are answered once and then deleted; nobody touches a deleted job; the thread ends only when all is done |
| task pool `common/utils/threads/task_pool*.hpp` | a priority queue, workers, their flags, a mutex and a condition variable | plan_new_task, set_num_threads, destructor, the worker's loop | notifications and flags outside the mutex; the worker vector shrinks while it is walked | no task is lost or run twice; no running worker is deleted |
| translation job and task `server/trans_job.hpp`, `trans_task.hpp`, `translation_manager.hpp` | counters, per-sentence codes and texts | schedule, execute, cancel, notify_task_done, collect_job_results | cancellation during and after any task; the pool reads results without the job's lock | the job reports once, after its last task; the response agrees with the sentences |
| balancer jobs and manager `balancer/balancer_job.hpp`, `balancer_manager.hpp` | phase and state of a job, jobs waiting per adapter, two task pools | execute, send_request, set_trans_job_resp, fail, cancel, send_reply, register_awaiting_resp | a response, a lost connection and a cancellation race for one job | each accepted job is replied to once; no dangling job in an adapter's map |
| adapters `balancer/adapters_manager.hpp`, `translator_adapter.hpp` | client, flags, registrations per language pair, languages response, re-connection thread | enable, disable, reconnect, notify_adapter_ready, notify_disconnected, callbacks | connection callbacks against re-connection and stop | an adapter is listed once and only while usable; withdrawn before its jobs are failed |
| websocket client `client/generic_client.hpp` | m_opened, m_closed, its asio thread | connect, connect_nb, disconnect, send, callbacks | unsynchronised flags; joins of the thread that runs callbacks | as for its owners |
| client manager `client/client_manager.hpp`, `trans_manager.hpp` | statuses and responses, sent and done flags, counters | start, wait, stop, sending thread, callbacks | counters changed by two threads decide the end | waits for what was sent, writes what was accepted, ends |
| processor client `client/proc_manager.hpp` | chunk responses | send chunks, set_job_response, process_results | the number of expected chunks changes with the first response | output in order and complete |
| text processor `processor/*.hpp` | jobs by session and token, chunks of a job | process, add_request, cancel, session_is_closed, run of the script | ownership of jobs that are incomplete when the session closes | a complete job is processed and deleted once; a closed session is forgotten |
| sessions, websocket server `common/messaging/session_manager.hpp`, `websocket_server.hpp` | connection-to-id and id-to-connection maps | open_session, close_session, send_response, dispatch, run, stop | a late answer for a closed session | both maps agree |
| decoder `server/decoder/**` | stacks of hypotheses by covered words | expand, recombine, prune, extract | recombination keeps the best; pruning thresholds | the best hypothesis is extracted |
| LM, TM, RM `server/lm`, `tm`, `rm` | tries, hash maps, phrase tables | build, query with back-off | index arithmetic, hash collisions | agrees with the back-off definition |
| containers `common/utils/containers` | arrays, queue, hash map, ordered list | insert, look up, grow | capacity limits, wrap-around | agree with a set, map or sequence |
| messages, parameters, consoles, mains | - | parse, format, start, stop | - | - |

The threads are: one asio listener thread per server, one pool thread per job
pool, the workers of the task pools, one asio thread per client connection, the
balancer's re-connection thread, the client's sending thread and the console.

## 2. The modules

| Module | Models | State and actions |
|---|---|---|
| `JobService` | what a job manager promises: refuse or accept, answer once, retire, halt only when nothing is left | `status` of each request; `Accept`, `Refuse`, `Answer`, `Retire`, `Stop`, `Halt` |
| `JobPool` | `session_job_pool_base.hpp` | one variable per mutex and field; a program counter for the listener, the stopper, the pool's thread, and each job's worker; one action per critical section, several where it nests another lock |
| `TaskPool` | `task_pool.hpp`, `task_pool_worker.hpp` | the queue, workers and their flags; the gap between a worker's test and its wait is a location ("empty") because the flags change without the mutex |
| `TransTask` | the tasks that `TaskPool` and `TransJob` share | their set, as a constant |
| `TransJob` | `trans_job.hpp`, `trans_task.hpp`, `schedule_new_job` and `notify_job_done` of `translation_manager.hpp` | one job, its tasks' locations, codes and texts, the three counters, the response as it is collected |
| `Balancer` | `balancer_job.hpp`, `balancer_manager.hpp` on the pool they inherit | EXTENDS `JobPool`: its actions are conjoined with what the virtual functions and callbacks add; adapters as threads with requests in flight |
| `AdapterProtocol` | what the balancer's jobs rely on of an adapter | `stage`: offline, online, failing |
| `Adapters` | `adapters_manager.hpp`, `translator_adapter.hpp`, and `generic_client.hpp` as they own it | m_lock_con's owner, flags, the asio thread's location, the lists per language pair; start, stop and re-connection as two loops that share `Close`, `StopIo`, `JoinIo` |
| `Client` | `client_manager.hpp`, `trans_manager.hpp`, and `generic_client.hpp` as they own it | locations of the main, sending and asio threads; the flags and counters they share |
| `Processor` | `processor_manager.hpp`, `processor_job.hpp` and `session_manager.hpp` with both its maps | the sessions and what the asio thread does with one that closes; each job's chunks, location, files and deletions; `stop()` and the destructor |
| `FixedHashMap` | `fixed_size_hashmap.hpp` | operators on a map as a value: add a key, find it, by linear probing |
| `LanguageModel` | the joint back-off query of `generic_trie_base.hpp` and its proxy | recursive functions over an abstract map of m-grams and a cache that may report what is not there |
| `PhraseTables` | `tm_basic_builder.hpp`, `rm_basic_builder.hpp`, the entries they fill and `ordered_list.hpp` | two passes over the translation file, three over the reordering file, one action per line read; the queries the decoder makes |
| `StackLevel` | `stack_level.hpp` | operators on a level as a value: add a state, recombine, prune |
| `Decoder` | `sentence_decoder.hpp`, `multi_stack.hpp`, `stack_state.hpp`, `set_decoder_params` of `server_console.hpp` | EXTENDS `PhraseTables` and `StackLevel`; one action per phase of the decoder and per state expanded; stop and console commands at any moment |
| `MC*` | instances for TLC | values of the constants |
| `*Proofs` | the theorems of section 5; `TaskProofs` those of `TaskPool` and `TransJob`, `DecoderProofs` and `SearchProofs` those of `Decoder` and the modules it extends | |

A mutex is a variable that holds its owner. A critical section that takes no
other lock and calls nobody outside is one step, enabled when the mutex is free;
one that nests locks or calls back holds the mutex across steps. Definitions whose
comment begins "Mutant" are plausible bugs, used to show that a property can fail.

### Composition

`Balancer` shows `ImplementsJobPool`: seen through the mapping that hides the lock
while a job sends its request, it takes the steps of `JobPool` and no other; so the
protocol `JobPoolProofs` needs of a worker - report once, under the lock, then
leave - is one the balancer's jobs keep. `JobPool` and `Balancer` both refine
`JobService`, the former answering when it tells its owner, the latter when it
replies to the client. `Processor` uses that promise for its own pool: a planned
job is executed, then deleted once, and `stop()` returns when none is left.
`TransJob` models the same hand-over from the side of a server's job, with the
decoder as a choice between success, failure and cancellation, and `Decoder` shows
what stands behind that choice. `AdapterProtocol` is the part of `Adapters` that
`Balancer` has as `ConnectionLost`, `Fail`, `FailEnd` and `AdapterReady`.

### What is abstracted

Texts, message formats, the balancer's priorities, the weights of adapters (the
choice among listed adapters is any) and logging, everywhere. Besides:

* `Processor`: a client's token is used once in its session; there is one asio
  thread, as in the code; the script ends in any way. A step that uses a deleted
  object or an erased map entry leads to `broken`, in which nothing happens any
  more: the behaviour is undefined from there on. Where the code reads a pointer
  from an entry that it has just erased (`Process`), it may still find it.
* `PhraseTables`: a file is a sequence of lines whose features are already
  weighted, with a flag for the lines that fail the model's thresholds. The uids
  of distinct phrases are distinct (in the code they are 64-bit hashes). The order
  in which an `unordered_map` is walked is any.
* `LanguageModel`: what the eight tries share. Their arrays and hashes are an
  abstract map; a false answer of a bitmap cache is an element of `collisions`.
* `Decoder`: scores are integers. All states that one expansion makes are added in
  one step, with the parameters that hold then; a console command comes between
  two expansions, while the code reads the parameters again for each state added.
  A capacity is unsigned, so that a negative one wraps around (`CapacityValues` is
  2^32 in the code).
* `Balancer`: which servers do a job's languages is a constant (`Serves`); the order
  of an adapter's map of waiting jobs is any.

## 3. The runs

All bounds are constants of the configurations. Symmetry is used in
`balancer_safety` only, on the two jobs, whose keys differ and which nothing else
distinguishes; its properties are all safety properties.

| Run | Bounds | What it shows |
|---|---|---|
| `job_pool` | 3 jobs of a session, two with the same id; `cancel()` does not take the lock a job reports under, as in the server and the processor | safety, refinement of `JobService`, and both liveness properties of the pool. Three jobs let one be planned, one canceled and one deleted at once |
| `task_pool` | 2 tasks of different priority, 2 to 3 workers, 2 resizes to 0, 1 or 3, destruction | no task is lost or in two places, no working thread is deleted, indices stay within the vectors, unresized pools execute everything. Two resizes cover shrinking then growing and the clean-up of a stopped worker while another waits |
| `trans_job` | 3 tasks, 2 cancellations | one report when all is done, results final from then on, the response matches the sentences, the job is answered. Three tasks give every mix of done, failed and canceled |
| `balancer_safety` | 2 jobs, 1 server that loses its connection once | one queue entry per phase, no dangling job, both refinements |
| `balancer_live` | 2 jobs, 2 servers: one does the first job's languages only, the other may lose its connection once; no client leaves and nobody calls stop() | an accepted job is replied to, unless its answer came too early or the threads have closed the cycle of locks. Two jobs are what that cycle takes, and a job behind another one on an adapter's map is reached only after it |
| `adapters` | 2 servers, 2 pairs, one shared | lists and clients agree, refinement of `AdapterProtocol`. Losses and re-connections are not bounded: the state space is finite without |
| `client` | 3 requests, 1 repeated attempt to connect, 1 spurious wakeup | waits for what was sent, writes what was accepted, the wait ends. `MAX_NUM_CONNECTION_ATTEMPTS` is 10 in the code; an attempt leaves nothing behind but the counter |
| `processor` | 2 sessions with a job each, 2 chunks, 0 to 2 replies | complete jobs are deleted once, closed sessions forgotten, jobs end and `stop()` returns. Two chunks let a session close in the middle of a request, two replies in the middle of an answer |
| `decoder` | 70 instances: 3 sentences by 3 distortion limits, 2 thresholds and 3 capacities; 12 variations of the models; 4 with stops and console commands. Ten lines of phrases, an LM of order 3 | the tables hold what the files say, the levels keep what they should, scores are those of the derivations, the search is exact when nothing is pruned, an unstopped decoder translates |
| `client_ends_early`, `balancer_deadlock`, `decoder_recombination` | 1 or 2 of everything; one instance of the decoder with three classes of reordering | each finds a counterexample: section 6 |

In the decoder's instances the hash makes all sources of one length collide and
the walk wrap around, the file repeats a line and separates the lines of a source,
and the sentences include an unknown word, none at all, and one word more than
`MAX_WORDS_PER_SENTENCE`, which the instance sets to 3. Three words are the
shortest sentence with a swap and a jump. The console gives a
negative distortion limit to decoders that started with one and to decoders that
started without, a negative capacity, which becomes a huge one, and values that
finalize() refuses.

Deadlock is checked in the runs of `JobPool`, `TransJob`, `Processor` and `Decoder`,
whose normal ends are explicit stuttering steps. It is switched off where the modelled system really stops (a destroyed task pool, a
client that has ended, a stopped balancer) or can hang (section 6).

### The properties

* `JobPool`: `NoJobLeftBehind` (the pool's thread never ends with a job
  registered or unprocessed, and the counter is exact), `NoUseAfterDelete`,
  `StopCancelsAll` (no job slips in behind stop's cancellation), `JobKeysUnique`,
  `ImplementsJobService`, `StartedPoolStops`, `StartedPoolProcesses`; and
  `NotifiedExactlyOnce`, which is proved only (`ImplementsJobService` implies it).
* `TaskPool`: `TaskInOnePlace`, `ResizeSafe`, `UnresizedTasksExecuted`.
* `TransJob`: `NotifiedWhenAllDone`, `ResultsFinalOnceNotified`,
  `ResponseMatchesSentences`, `JobAnswered`; violated: `PartlyTranslated`.
* `Balancer`: `ScheduledForItsPhase`, `AwaitingJobsAlive`,
  `ImplementsClientService`, `ImplementsJobPool`, `AcceptedJobReplied`. The last
  one names the two states from which a reply may never come: `AnswerMissed`, the
  answer came before the job was registered for it, and `LockCycle`. Violated:
  `IgnoredResponsesLate`, and `StartedPoolProcesses` of `JobPool` on the balancer.
* `Adapters`: `ListedOnceWithClient`, `ImplementsAdapterProtocol`.
* `Client`: `WaitEndsCounted`, `FinishedJobsWritten`, `WaitReturns`. The last two
  name the interleavings they except (`Overtakes`, `LossMissed`), which the code
  does allow. Violated (section 6): `EndsComplete`.
* `Processor`: `CompleteJobsDeletedOnce`, `ClosedSessionsForgotten`,
  `JobsEndAndStopReturns`. Violated: `CompleteJobScheduled`, `DeletedOnce`,
  `EndedJobAnswered`, each of what the others say nothing of: a job that does not
  reach the pool, one that is not complete, and an empty output.
* `Decoder`: `TablesMatchFiles`, `LevelsKeepBest`, `ScoreIsDerivationScore` and
  `BestTranslation` compare with reference definitions written from what the
  models and the search are for (a filter over the file, Katz back-off, the sum
  over a derivation, the maximum over all derivations); `UnstoppedTranslates`, of
  every search whose distortion limit is not taken away (`limitDropped`). Violated:
  `RecombinationKeepsBest`, `TargetsWithinLimit`, `NegativeLimitIsNoLimit`.

One `TypeOK` per module with variables; `TransJob`'s is `JTypeOK`, as its other standard
names begin with a J, because `TaskProofs` extends it together with `TaskPool`.

## 4. Fairness

Weak fairness of a thread's steps: threads are scheduled by the operating system
and none is suspended for ever. Strong fairness is used for acquiring a mutex
others release and take again (the pool's notification and stop's wakeup in
`JobPool` and `Balancer`): std::mutex is not fair, but a thread that tries again
and again while the others need the lock only to handle finitely many events gets
it. Requests, chunks, cancellations, losses, departures, resizes, stop() and
destruction have none: nobody has to do them. A server's answer has weak fairness
in `Balancer` and `Client`, where the question is what becomes of the caller when
it does answer or is lost. A decoder ends (`TransJob`): it stops at the end of the
sentence or when its stop flag is set. In `JobPool` a job need not end unless it
was canceled; in `Processor` the script of a job ends. `Adapters`, `PhraseTables`
and `Decoder` have only safety properties and no fairness.

## 5. What is proved

The theorems hold for every value of the constants, from the named assumptions in
the modules (finite sets of jobs or workers, distinct names of threads, bounds that
are numbers). Each component has one inductive invariant, a lemma per part of it
with one step per action, and the properties as its consequences.

| Module | Theorems | Properties |
|---|---|---|
| `JobPoolProofs` | `TypeAlways`, `ExitIsClean`, `DeleteIsSafe`, `NotifiedOnceAlways`, `StopCancelsAllAlways`, `JobKeysUniqueAlways`, `PoolImplementsJobService` | every safety property of `JobPool`, and that it implements `JobService` |
| `TaskProofs` | `TypeAlways`, `TaskInOnePlaceAlways`, `ResizeSafeAlways` | every safety property of `TaskPool` |
| | `JTypeAlways`, `NotifiedWhenAllDoneAlways`, `ResultsFinalAlways`, `ResponseMatchesSentencesAlways` | every safety property of `TransJob` |
| `BalancerProofs` | `BTypeAlways`, `BalancerImplementsJobPool`, `ScheduledForItsPhaseAlways`, `AwaitingJobsAliveAlways`, `BalancerImplementsClientService` | every safety property of `Balancer`, and both refinements |
| `AdaptersProofs` | `TypeAlways`, `ListedOnceWithClientAlways`, `AdaptersImplementProtocol` | every property of `Adapters` |
| `ClientProofs` | `TypeAlways`, `WaitEndsCountedAlways`, `FinishedJobsWrittenAlways` | every safety property of `Client` |
| `ProcessorProofs` | `TypeAlways`, `CompleteJobsDeletedOnceAlways`, `ClosedSessionsForgottenAlways` | every safety property of `Processor` |
| `DecoderProofs` | `TypeOKAlways`, `TablesMatchFilesAlways`, `LevelsKeepBestAlways`, `UnstoppedTranslatesAlways`, `TablesInvAlways` | `TypeOK`, `TablesMatchFiles`, `LevelsKeepBest`, `UnstoppedTranslates`, and what the loading of the tables relies on |
| | `EmptyLevelKeeps`, `AddStateKeeps`, `AddStateShape` | what a level promises, for states of any kind, any capacity and any threshold |
| | `GetElementFinds`, `AddNewElementOK`, `ExecuteQueryType` | the hash map, for all hashes; the query of the language model, for all word sequences |
| `SearchProofs` | `ScoreIsDerivationScoreAlways`, `BestTranslationAlways` | `ScoreIsDerivationScore`, `BestTranslation` |
| | `QueryIsKatz`, `FutureIsBestCutting`, `SameContinuation` | the query, the future costs and recombination against their reference definitions |

The arguments, where they are not the obvious ones:

* `JobPool`. That a job is deleted safely depends on which of its stages the
  worker is in when the pool's thread synchronises with it; that the exit is clean
  on nobody being between the stop flag's test and the registration. `IInv` says
  who holds each lock at each location (`LockInv`), relates the life of each job
  to the maps, the list and the thread's hand (`LifeInv`, `HandInv`, `ListInv`),
  what a canceling loop has left (`CancelInv`), what stop() has established
  (`StopInv`) and that the counter is the size of the map (`CountInv`).
* `TaskPool`. `TaskInOnePlace` counts copies; what a step keeps is `OnePlaceInv`,
  which names the place. Shrinking is safe because a worker that is popped from the
  vector was joined first (`HandsInv`, `LoopInv`, `ListInv`), although is_busy was
  read without a lock.
* `TransJob`. The last task to be counted is the one that reports, under the lock
  under which it was counted (`LockInv`, `NotifyInv`), and a task that has ended
  changes neither code nor text (`TextInv`); so the pool's thread may read them
  without the lock (`RespInv`).
* `Balancer`. A worker that sends a request holds its job's lock longer than
  `JobPool` knows of. Behind `ReportingLock`, which hides that, each of its steps
  is one of `JobPool` or changes nothing of it. The pool's invariant then holds of
  the balancer without being proved again (`BalancerProofs` instantiates
  `JobPoolProofs`), and what it says about the life of the objects is used for the
  two maps: phases follow executions (`PhaseInv`), and a job leaves its adapter's
  map before it is deleted (`AwaitInv`).
* `Adapters`. A connection is asked for its languages once, after it opened, and
  until the answer is handled its adapter is listed nowhere (`ConnInv`): no pair
  gets it twice. What the re-connection finds under the adapter's lock stays true
  until it releases it (`LoopInv`, `ReconInv`), so it never takes the client of a
  listed adapter.
* `Client`. Together with the requests on the wire the responses counted are the
  requests that went out, and the number expected lags behind by the one that the
  sender has not marked yet (`CountInv`). While the connection is up no flag is set
  that ends the wait early (`UpInv`).
* `Processor`. Who owns a job before its last chunk (`OwnInv`), that a job which is
  complete and not in the pool means the erased entry was used (then nothing happens
  any more), and that no chunk comes after the incomplete jobs of its session were
  deleted (`DeleteInv`).
* `Client`, again. `FinishedJobsWritten` excepts the behaviours in which a response overtakes the
  sender; in the others nothing is counted that is not stored (`WrittenInv`, under
  `[]~Overtakes`).
* `Decoder`. The inductive invariant is `DecoderInv`:
  - `TablesInv`: each hash map has more buckets than it will have elements, so a
    free one ends every probing. For the translation model that is the number of
    lists; for the reordering model it is that the counting pass has counted the
    good lines up to the present one, and the building pass stores those. All
    entries have their types, and a decoder only runs with the special ones there.
  - `ParamsInv`, `QueriesOK`: the parameters are what finalize() accepts; every
    short span has the entry the tables give for it, every uid the search can look
    up has been queried, every span has a future cost.
  - `LevelsOK`: every state in level l has a path of disjoint phrases with
    translations, which cover exactly its covered words, and those are as many as
    l says. Each level is in order whatever the parameters were, and `Keeps` what
    it was given while they stay: add_before inserts, recombines and prunes; the
    merged list is still sorted and has for each old state one that stands for it,
    so what pruning cuts off is below the bound or behind a full level.

  What the tables hold of the files is `FilesInv`, kept by each line read: a list has
  the best of the passing lines read for its phrase, and all of them unless it is full,
  so what a full list drops never belongs to the best; the hash map of the translation
  model has the entry of each list that was converted; that of the reordering model has
  for each pair that is kept its first line before any other, which is the one
  that `get_element` finds. `TablesMatchFiles` is what this says when the last line was
  read. The attempt at this proof showed the property wrong for costs below the one
  that stands for "undefined", where the entry's minimum is that one; it was corrected,
  and an instance with such a weight added.

  `LevelsKeepBest` follows from `DecoderInv`. For `UnstoppedTranslates`, `LevelsReached` says
  of the levels behind the search, and of the next one once a state of this one was
  expanded, that they are not empty: a state always makes one of the next level,
  for its first uncovered word, which the distortion limit never excludes unless
  the search is limited and the console has made the limit negative, which
  `limitDropped` remembers; and a level that was given a state is never empty
  again, whatever the console does to the capacity.

  `ScoreIsDerivationScore` needs `ScoresInv`, which says of each state (`IsScored`) what
  ties it to its derivation: the end of the circular queue is the end of the words
  translated so far, as far as the language model looks back; its level tells how many
  of them are still to be scored with more context; its reordering weights and span are
  those of the last phrase; its partial score is the derivation's. A query, row by row
  and column by column, leaves for each word the value of the longest m-gram found and
  the back-offs of the longer contexts: that is Katz back-off (`QueryIsKatz`), whose value
  depends on the last words alone, so what is asked for phrase by phrase sums up to the
  whole. The estimate: the table of future costs, filled by span length, is the best
  cutting of each span; summed over the maximal uncovered spans it is what the
  reference finds going from left to right (`FutureIsBestCutting`).

  `BestTranslation` rests on `SameContinuation`: two states that `operator==` takes to be
  equal have the same context, orientation classes (if there are at most two: a step is
  monotone or not, wherever the last phrase began) and distance, so whatever phrase comes
  next they pay the same for it and their successors are equal again. That each entry
  of the loaded table has at most two classes because the file's first line has is
  `FilesInv`. `BestInv` adds that all that an expanded state makes was given to its level,
  and a search that ends by itself has expanded everything. Then, by induction over
  the rounds in which `Derivations` is built, for each path of a derivation there is a
  state in the stack that stands for one with this path (`DerivationsRepresented`): what
  the path goes on with, the state goes on with (`ExtensionIsMade`), and what that makes
  is given to its level, where nothing is lost but to a state that is no worse. TLC
  finds `FilesInv`, `BestInv` and what `ScoresInv` says of scores to hold in the run
  `decoder`, too.

The hypotheses of the decoder's theorems. `HashIsNat`: hashes are natural numbers
(uint64_t in the code); TLC cannot evaluate that for all sequences of words, hence
it is no assumption of the module. The console may do what it likes: what it can break is part of
`UnstoppedTranslates` itself. For the two theorems on the search: `LmClosed`, the language model
has the context of each of its m-grams, as the loading of an ARPA file asserts, and
where the bitmap sorts out m-grams at the unknown word it has none of them; and
`TagsAreWords`, `<s>` and `</s>` are a word each. `MCDecoder` assumes both of its
instances, so TLC evaluates them. The instances are assumed to have the types that
parsing gives them (`InstancesAssumption`): scores are integers, a reordering entry has
one to four weights for each half and as many as the first one, parameters are those
finalize() lets through.

Folds and recursive functions are unfolded by ranks and chains (`RecursionExists`,
`ChainExists`), since the library's induction theorems cannot be instantiated here.

Only model-checked: the liveness properties. Liveness under fairness and ENABLED are
out of the prover's reach. Every other property of a passing run is a theorem.

## 6. Where the code disagrees with its own words

Three of the runs find a counterexample, with a finding that quotes the line:

* `client_ends_early`: a response is counted before it is stored; if the sending
  thread looks at the counter in between, the client stops and discards it.
* `balancer_deadlock`: the pool's thread, an adapter's thread and a worker can wait
  for each other's mutex in a circle.
* `decoder_recombination`: two hypotheses are equal to the stack that differ in
  where their last phrase begins. With three classes of reordering or more that
  decides between a swap and a jump, the better continuation may belong to the worse
  of the two, and recombination drops it. `BestTranslation` shows that with one
  or two classes the search is exact.

Seven more configurations each check one property that the code's own words suggest,
and TLC finds each violated, too (for instance by
`tlc -config TransJobPartial.cfg MCTransJob`). The properties of the passing runs
name these cases in their statements, and are about all the others.

| Configuration (module) | Violated property | What the code says | What it does |
|---|---|---|---|
| `TransJobPartial` (`MCTransJob`) | `PartlyTranslated` | "Some of the sentences were translated but not all of them", `server/trans_job.hpp:316`; the client is told "The text was partially translated!" | `set_job_status` counts the canceled tasks and looks for an error: a job of which no sentence was translated is PARTIAL, unless all of them were canceled |
| `BalancerEarlyAnswer` (`MCBalancer`) | `IgnoredResponsesLate` | a response is ignored because its job "is no longer present", `balancer/balancer_manager.hpp:236` | the request is sent before the job is registered (`balancer_job.hpp:475-479`): the job is not present yet, and waits for this response for ever |
| `ProcessorErasedEntry` (`MCProcessor`) | `CompleteJobScheduled` | "Schedule the complete job for execution", `processor/processor_manager.hpp:207` | the pointer that is scheduled is read through a reference (line 191) into the entry that line 206 erases |
| `ProcessorDoubleDelete` (`MCProcessor`) | `DeletedOnce` | "there is no need to remove the jobs from mappings", `processor/processor_manager.hpp:87` | `cancel_incomp_jobs` copies the session's data (line 264); the copy's destructor deletes the incomplete jobs, and `stop()` or the manager's destructor deletes them again |
| `ProcessorEmptyOutput` (`MCProcessor`) | `EndedJobAnswered` | "It throws if the stream is empty", `common/utils/text/utf8_utils.hpp:157` | an empty output has no chunks, nothing is thrown and nothing is sent: the client is never told |
| `DecoderTransLimit` (`MCDecoder`) | `TargetsWithinLimit` | the sanity checks "... targets size ... is exceeding the trans limit", `server/tm/builders/tm_basic_builder.hpp:431` and `452` | a limit of 1 or 2 is none to `ordered_list` (`ordered_list.hpp:51`; the builder warns of it in line 103): all translations are stored. With sanity checks on, the loading fails; they are off in a release build |
| `DecoderNegativeLimit` (`MCDecoder`) | `NegativeLimitIsNoLimit` | "A negative value means no distortion limit.", `data/server-1-10.000.9001.cfg:88` | whether there is a limit is decided once (`sentence_decoder.hpp:425`), the limit is read as the search goes (`stack_state.hpp:632`): if the console makes it negative meanwhile, no word is left to go on with and the translation fails |

The models have further behaviours of this kind, without a configuration of their own:

* The asio thread of a connection is joined under m_lock_con, which its own
  callback may be waiting for (`JoinIo`): the balancer hangs.
* A notification is lost before the pool's thread first waits; a shrinking task
  pool joins a worker that missed its wakeup, or one takes a notification that was
  meant for another; two threads join the client's sending thread.
* A job's last reply may use the entry of its session in m_handlers after it was
  erased (`broken` in `Processor`).

## 7. What is not modelled

* Messages, parameters and consoles' reading of commands: parsing and formatting
  around vendored libraries. `report_run_time_info` only logs.
* `websocket_server`, `translation_server`, `processor_server` and the mains: they
  forward each callback to a manager that is modelled. Their order of starting and
  stopping the parts is in the initial states and the stop actions.
* The storage and the building of the eight tries, the m-gram ids, the growing
  arrays and bitmaps: packed arrays of bits whose size is what makes them hard. A
  small instance would show nothing of it, and a faithful one is out of reach.
* `proc_manager`, the client of the text processor.
* The lattices of the tuning mode, which the build switches off.
* Data races inside containers: `get_translator_adapter` inserts under a shared
  lock (the model has every pair's entry from the start), and draws from a shared
  random generator.
* Overflow of a distortion limit near the largest int32_t; integers are unbounded
  here.
* The vendored code under `ext/`: asio and websocketpp appear as callbacks that run
  one at a time on a connection's thread, and a send that fails when it is closed.

A translation request without a sentence is excluded by an assumption of `TransJob`.

## 8. What is left

`ProcClient` would model `proc_manager` with the number of expected responses that
changes with the first one. The query of the language model could be stated over
one concrete trie (`h2d_map_trie`) with its hash.
