# A verification development for vqtrs

vqtrs serves text, sparse, reranking and multimodal embeddings from one HTTP
server (`vqtrs-api`) and one command line (`vqtrs`), over a library
(`vqtrs-core`). This directory holds TLA+ models of the parts of it that keep
state, the TLC configurations that check them, and TLAPS proofs. Every
definition is translated from the Rust and Python source; `PROJECT.json` names
the lines each one stands for.

## 1. The system

| Component | State | Operations | What makes it correct |
|---|---|---|---|
| Model registry, `vqtrs-api/src/registry.rs` | map of loaded models, recency list, pinned set, one mutex | `get_or_load`, `load_pinned`, `evict` | list and map agree; capacity; warm models stay; concurrent misses share one instance |
| Admission, `vqtrs-api/src/main.rs`, `multimodal.rs` | semaphore, handler futures, closures in tokio's blocking pool | extractor, spawn, await, disconnect | permits conserved; bounded work; waiting clients are answered |
| Local socket, `vqtrs-api/src/socket.rs` | the socket path | `serve` before the TCP bind | the path leads to a server that serves |
| Native engine, `vqtrs-core/.../native.rs`, `native/process.rs`, `native_worker.py` | process group, I/O thread, two pipes, two channels, `broken` | start, predict, stop, drop | fail-stop; no late answer is taken for another; nothing left behind |
| Service manager, `vqtrs-cli/src/service.rs` | PID file, port file, process table | start, stop, restart, status | one server; recorded; a stop signals and waits before it forgets |
| CLI and daemon client, `vqtrs-cli/src/main.rs`, `daemon.rs`, `media.rs`, `pull.rs` | none of its own | route a request to the daemon or run it in process | what is retried, and where, is decided by the caller's choice of model |
| Settings, `vqtrs-api/src/config.rs`, `main.rs` | none | flag or environment, file, built-in value | no setting makes the server refuse everything; what is built in can be loaded |
| Catalog and engines, `vqtrs-core/src/catalog.rs`, `embed.rs`, `sparse.rs`, `rerank.rs` | tables of models | name resolution, loading, batching | one name resolves to one model |
| EmbeddingGemma 2, `vqtrs-core/src/embedding_gemma2/` | model weights | decode media, features, encoders, sequence assembly | host, towers and workers agree on every count; rows land in order; windows are exact; floating point is bit-exact against references |
| Media decoders, `jpeg.rs`, `image.rs`, `video.rs`, `mel.rs` | a subprocess and its directory (video) | decode, sample, resize, frame | what a token shows is what was at its place in the file |
| Numeric kernels, `torch_cpu.rs`, `layer_norm.rs`, `pocketfft.rs`, `sleef.rs` | none | reductions in PyTorch's order, FFT, elementary functions | no term lost or added twice |

How they interact. A request enters the HTTP server, takes a permit
(Admission), and its closure asks the registry for an engine (Registry), which
may load it. A native engine is used under its mutex (NativeWorker). Evicting
the last owner of a native engine stops its process. The CLI reaches the server
through the Unix socket and manages it through files and signals (Service).

What is hard in it: closures that outlive the client that asked for them,
loading outside the lock, a subprocess that may answer late or not at all, and
a manager that learns about its server only from files and the process table.
`PROJECT.json` lists each hazard with its line.

## 2. The plan

1. `Registry` with the abstract cache `LruCache`; proofs, with the refinement,
   in `RegistryProofs`. Done.
2. `Admission` with `Settings`; proofs in `ServerProofs`. Done.
3. `NativeWorker` with the abstract engine `FailStop`; proofs, with the refinement,
   in `NativeWorkerProofs`. Done.
4. `Service`, which composes the manager, the servers and their listeners; proofs in
   `ServiceProofs`. Done.
5. `Routing` of the CLI between the server and its own process; proofs in
   `ServiceProofs`. Done.
6. `Video`: `run_bounded`, its reader threads and the private directories; proofs in
   `VideoProofs`. Done.
7. `Jpeg`: the scans of the JPEG decoder, against any legal encoder; proofs in
   `JpegProofs`. Done.
8. `Embedding`, a call of EmbeddingGemma 2 on any backend, over the pure modules
   `Images`, `Pixels`, `Entropy`, `Speech`, `Kernels` and `Fft`; lemmas about
   their operators in `EmbeddingLemmas`, proofs in `EmbeddingProofs`. Done.
9. `Catalog`, and `Server`, the composition of Admission, Registry, catalog and
   the engines that the closures lock; proofs in `ServerProofs`. Done.
10. Left: what section 6 leaves to TLC.

## 3. Modules and how they correspond to the code

**Registry.** `models`, `lru`, `pinned` are `Inner`; `lock` is the mutex, held
across steps only while `evict` loops; `stage`, `want`, `held` are the locals of
the threads inside `get_or_load` or `load_pinned`; `boot` is the position of the
preload loop of `try_main`. A critical section without a loop is one action
(`Touch`, `PinHit`, `InsertExisting`, `InsertNew`), and so is one victim of
`evict` (`EvictOne`). `Load` happens between two critical sections. Instances are
numbered in the order of their loads, so "the same instance" can be said.

**LruCache.** What the registry promises, with no list and no lock: recency is the
relation `newer` (the names used since). `Registry` implements it under the
mapping at its end, which reads `newer` off positions of the list.

**Admission.** `permits` is the semaphore; `handler` the handler future of each
connection; `task` its closure; `owner` which of the two would release the
permit when dropped; `queue` the closures that wait for a thread. `Disconnect` is
hyper dropping the future; the closure stays. The four text endpoints share the
kind `"text"`, as they differ only in the engine; media moves the permit into the
closure. Inference itself is the choice of a result in `TaskEnd`.

**Settings.** `Flags` is what `Cli` holds after parsing, `File` what the TOML file gives;
`Setting` is the chain of `unwrap_or` in `try_main`, `AtLeastOne` its `.max(1)`. `Admission`
takes its permits and its batch limit from here, `Server` what it preloads and how many
models it keeps.

**Catalog.** The tables of `catalog.rs` and `pull.rs` and the resolvers that spell
their names out. A name is an atomic value; `CaseFold` maps the spellings that only
differ in case. `Rows` is what the server and `pull` list, `Misfits` the rows of it
that something else in the program does not agree about.

**Server.** `Admission` and an `INSTANCE` of `Registry` in one state space, with the
engines of `embed.rs`. What `Admission` leaves to chance, the end of a closure, is here
what the closure does: check the model (`Refuse`), look it up or load it (`LookUp`, the
critical sections of the registry in `Fetch`, `LoadEngine`), wait for the engine's mutex
(`LockEngine`) and compute. `origin` is the name an instance was loaded for, `user` who
holds its mutex, `broken` the instances whose mutex is poisoned by a panic or whose
worker has stopped (`FailStop`): the registry hands them out as before. A connection is
a task of the registry. The registries of sparse, BGE-M3 and reranking models run
the same code on their own keys and are not instantiated again.

**NativeWorker.** `at` is the control of whatever code has `&mut Worker`: the
start, a caller with the mutex, or the drop of the last `Arc`. `requests` and
`replies` are the two `sync_channel(1)`, `stdin` and `stdout` the pipes, `io` and
`job` the I/O thread, `child` is `uv` and `peer` the Python process. Deadlines may
pass at any moment in which no reply is there. Python follows `native_worker.py`,
may print a foreign line (frameworks write to file descriptor 1 directly), may
hang and may die. The size limit of a request is left out: the token limits and
chunk sizes of `native.rs` keep every request below it.

**FailStop.** The engine as its callers see it: up, then down for good.
`NativeWorker` implements it.

**Service.** One step for each look at a file, the process table or a port.
`platform` is chosen once: Unix lists zombies and has the socket, Windows does
neither. A server goes through loading, `bound` (it has the socket path) and
`serving` (it has the port). `cut` remembers the servers whose start was
interrupted, or failed to write, before both files existed. `Kill` sends a signal and no more:
`signal` has who was signalled, `Terminate` is the end that follows, at any time or never, and a
server goes on as it was until then. `Poll` counts to its limit and looks no further, as the code
does; a live server it gives up on is `"outlived"`, and the manager knows it no more (section 7). Once a server has gone its
number may be that of another program (`Reuse`), which nothing in the code tells from a
server; only numbers that a file or an invocation still has are used again, as nobody looks
at the others.

**Routing.** One element of `Client` is an invocation of `embed`, `embed-media`,
`sparse`, `m3` or `rerank` together with its request in the server. `Look` and
`Post` are the two connections it makes one after the other; `Fail` is what
`try_daemon` and `try_embedding_daemon` do with an error of `post_json`, the place
where the two differ (`NoRetry`). `write_all` has no timeout, `read_to_end` has: a request that
the socket's buffer does not hold is `"arriving"` until the server has read it (`Receive`), and
`Write` waits for that. Connecting does not wait, that is, the backlog of the listener is not full. The server is external here: it queues, serves,
refuses, answers, dies and comes back, and goes on computing for a client that has
left, as `Admission` says. `wire` is what has arrived: `"broken"` is a stream that
ends before the head of an answer, `"cut"` one that ends inside its body.

**Video.** One call of `decode_container_rgb` per thread. `Create` is a round of
`LocalContainer::create` with its `fetch_add`; `Spawn` to `Join` are `run_bounded`
in the order of its lines; `Check` goes on to the next subprocess or, on any of the
errors, to `Drop`. Output is counted in units: the reader takes one more than are
allowed, as `take(cap + 1)` does. `Restart` is the process dying and being started
again with the same number, which is part of the names of its directories.

**Jpeg.** The decoder and an encoder of its input, joined by `data`. `Start`, `Enter` and
`Finish` are `scan` and the loops of `decode_scan` with their restarts; `DcFirst` to
`RefineEnd` are the four `decode_*` functions, one step per Huffman symbol. `cur` and `k` are
the block and the coefficient the decoder is at, `eobrun` the blocks that have ended with this
one. The encoder is not in the repository: it is ITU T.81 read as a relation (`Write`), so that
`Encode` may write whatever a legal encoder may (a run of ended blocks can be cut anywhere). It
keeps its own place in the image, `out`, and sees nothing of the decoder but that it waits. A
file is a record `picture`, with the image it stands for, of which `Legal` says what T.81 asks of
its frame and its script of scans. A symbol is the pair that its code
stands for, a group of appended bits one element: how they are written in bits and bytes is
in `Entropy`, and what becomes of the coefficients in `Pixels`.

**Embedding.** One call, from its input to its vectors. `backend` is chosen when the model
is loaded: `"cpu"` and `"gpu"` run the towers of `mod.rs`, `text.rs`, `audio.rs` and
`vision.rs` here (`Decode` to `PoolTokens`), `"coreml"` and `"mlx"` prepare the input, send
batches and are answered by a Python worker (`PrepareTexts` to `Work`). `pc` is the place in
that call: for a JPEG file `ReadJpeg` (its scans, and what is kept of its coefficients and
quantisers) and `Finish` (its pixels) come before `Decode`. `layer` counts the pictures through the vision tower, the layers of the two
others, and between `Send` and `Work` it is the end of the batch. `refusal` says whose
fault an error is: the caller's input, or a disagreement inside the program (an index out
of its table, a count the other side does not expect). A container is what ffprobe says of it
(`known`, its rate, duration and count) together with what is decoded; `ParseProbe` and
`SampleFrames` check the one and the other, and `alike` is whether all frames have one size.
`InputFits` states the limits a second time, of whole numbers and without the order of the
checks. There is no arithmetic on values:
a value is *what it was computed from*. A soft token carries the patches or frames it
depends on, a token the tokens that its layers have mixed in, a sum the list of its
terms. Where the code computes in `f64` and truncates, every result that the rounding
can give is a step of its own; where it compares a quotient or a product with a limit it may
just not exceed, the input says on which side the `f64` falls (`above`). A number that does not parse
stands among the inputs as one that is refused for its value.

**Images**, **Pixels**, **Entropy**, **Speech**, **Kernels** and **Fft** hold its algorithms
as operators, with no state. `Images` is `target_size`, `axis_weights`, `patchify`, the limits of
`VideoMetadata`, `sample_frames`, the pooling
of `vision.rs` and its counterpart in `coreml_backend.py`. `Entropy` is the
reader of an entropy-coded segment: the construction of a Huffman table, decoding by it, stuffed
bytes, markers, restarts and the end of a scan, with the encoder of ITU T.81 as its reference.
`Pixels` is what follows the coefficients: zig-zag order, the inverse transform in its fixed
point, upsampling and colours, in exact integers. `Speech` is `decode_wav`, the
framing and masks of `mel.rs` and the audio tower, in the form for the CPU and the form for a
GPU, which have to agree. `Kernels` is the order of the reductions in `torch_cpu.rs` and
`layer_norm.rs`. `Fft` is `pocketfft.rs` in the integers modulo a prime that has the roots
of unity: there sums, products, sines and cosines obey the laws they obey in the reals,
and the algorithm can be compared with the definition of the transform, exactly.

## 4. Runs

| Run | Bounds | Shows |
|---|---|---|
| `registry` | 5 models, 2 tasks, room for 4, 2 warm, 6 loads | both tasks can miss the same model, evict while the other waits, and the list can be over capacity by one with pinned models at its head |
| `registry_warm_count` | 3 models, 1 task, room for 1 | violation: warm models count toward eviction |
| `server` | 2 connections, 1 permit (`max_inflight = 0`, raised by the floor), 2 threads, 4 names of which one is warm, one loads lazily, one is multimodal and one a spelling of it that does not resolve; room for 2 models, 3 loads | closures abandoned by their client that load, wait for an engine or break it while others evict it; the tables, when the server starts |
| `admission_inflight` | 2 connections, 1 permit | violation: text closures in flight exceed the limit after a disconnect |
| `native_worker` | 2 callers, batches of 1 or 2 requests, 3 request numbers | late replies, noise, hangs, death and crash at every point; the number sequence runs out |
| `service` | 1 administrator, 1 port, 3 processes, 2 attempts | servers of others take the port or die between any two steps, a signalled server ends at once, late or never, and other programs get their numbers |
| `service_started` | 1 port, 2 processes | violation: an ended child is reported as starting |
| `service_socket` | 1 port, 2 processes | violation: a server that fails to bind its port takes the socket path along |
| `routing` | 2 invocations of any command, model and `--no-daemon` | requests that are written in part, wait, run or are answered while their client times out and the server dies and returns |
| `video` | 2 threads, 2 subprocesses a call, 2 rounds, 3 directory numbers, 1 unit of output and 1 of pipe | races for numbers, leftovers of earlier processes, subprocesses that hang, print too much or end at any point |
| `jpeg` | blocks of 5 coefficients, 2 blocks or 2 components (3 and 2 blocks), symbols that skip 2 zeros, runs of up to 3 blocks, restart intervals 0 and 1 | runs of zeros longer than a symbol, corrections across them, ended blocks in runs, padding blocks of an MCU |
| `embedding` | four backends and three hidden sizes; 247 inputs: texts of 0 to 23 words in batches of up to 7 and at the limit of bytes, pictures of 0 to 17 pixels a side, 25 JPEG files, 133 videos of up to 13 frames, untimed or at several rates, with each number they declare missing, zero, negative, at its limit and above it, clips of up to 65 samples; see below | each of them from its file to its vectors, with lengths just below, at and above every limit, and widths, clips and pictures that divide into blocks and that do not |

Every property of a passing run has a mutant: a change of one mapped definition
that a plausible bug would make, under which TLC finds the property violated.

The bounds are the smallest that contain the interesting cases: two threads to
race, one victim more than needed, one request more than a batch. `MaxLoads`,
`MaxPid` and the `MaxSequence` of `Video` bound counters that only grow. The `MaxSequence` of `NativeWorker` stands for `u64::MAX`, so
the model reaches the error the code has there. `service` has one
port, as a second one multiplies its states by ten and changes the number in the port file only, of which
`Recorded` is proved for any ports. Two subprocesses of a call stand for the three
of the code: what follows the last one differs from what follows the others, and
nothing else does.

In `embedding` every size of the code is scaled down and keeps the relations that
matter: patches of 2 pixels pooled 2 by 2, 6 soft tokens an image and 3 a frame (2
without a processor configuration), 4 sampled frames of at most 12, at most 3 a second and 9
seconds, containers of up to 4 bytes; frames of 4 samples every 2, padded
to 3; attention in chunks of 2 over 2 earlier frames, convolution over 2, 2 layers; texts
of up to 24 tokens (12 for CoreML, with widths 4, 6, 8 and 12) and 30 bytes, batches of 3, a
window of 2 in four layers of which one is full. In `Kernels` there are 2 lanes, 4
levels, steps of 2, 2 interleaved accumulators, so 45 terms reach the last
level. The JPEG files are 3 by 3, 9 by 10 and 17 by 5 pixels, with
six choices of sampling factors (none, halved across, down and both, a quarter, and one that
does not divide), in grey, RGB and YCbCr by every kind of marker; their quantisers and
coefficients are the code's, at full width. Entropy-coded segments have bytes of 2 bits, a
register of 6 and codes of up to 3: two tables, each with every pair of segments of up to two
items and one item, up to two bytes lost before the restart and up to one fill byte before each
marker. The Fourier transform has length 128, a factor 2 before three factors 4, and every unit
impulse goes through it; the 512 of the code has one factor 4 more, and with
`Longest = FftLength = 512` and `Root = 1331` the run passes as well, in a few minutes.

Deadlock is checked in
`admission_inflight`, `native_worker`, `routing`, `video` and `embedding` (whose finished
calls stutter); the other systems really stop (the process ends when a preload fails; no
process number or load is left).

## 5. Fairness

- Registry: a thread inside `evict` is scheduled again (weak fairness of `Evict`), and
  a thread that waits for the mutex gets it if it is released again and again (strong
  fairness of `Enter`). Loads owe nothing, and that is the point of `LoadsBlockNobody`:
  a thread that is downloading stops no other.
- Server: the pool starts what is queued, the runtime answers when the closure has
  ended, and a closure goes on whenever it can again and again: downloads and inference
  return, a mutex that is released again and again is obtained (strong fairness of
  `Closure`). A poisoned mutex or a stopped worker answers with an error.
- Admission: the pool starts what is queued, closures end, and the runtime polls
  a future whose task has ended. Nothing makes a client send or go away.
- NativeWorker: the code that has the worker runs on (`recv_timeout` returns), the
  I/O thread and the watching thread of Python are scheduled. Python's main
  thread owes nothing.
- Service: an invocation runs on. Servers owe nothing; nothing makes one that was signalled end.
- Routing: an invocation runs on and its read times out (`set_read_timeout`). The
  server owes nothing, so it may hold a request for ever, or never read it: a write does not
  time out, and `InvocationsEnd` excepts an invocation that waits in one.
- Jpeg: decoding runs on, and the file is there.
- Embedding: none, as only safety is stated of it.
- Video: calls and reader threads run on, and the 30 seconds pass: a subprocess
  that is late is found late. Subprocesses owe nothing. `CallsEnd` starts after
  the directory is made, as the bound on numbers can stop a call before.

## 6. Proofs

`RegistryProofs` proves, for every set of models and tasks, every preload list and
every capacity: type correctness, `LruMatchesModels`, `WithinCapacity`,
`WarmStayLoaded` and `CachedInstanceStable`. The inductive invariant adds three
things to them: pinned models are loaded except between the two critical
sections of `load_pinned` (where only the main thread runs), nothing but the
preload loop runs before the server serves, and what a thread holds while it
inserts or evicts is a real instance. Lemmas say what removing, appending and
moving to the back do to a list without duplicates.

It proves from there that `Registry` implements `LruCache`. `After` says which key of a
list stands behind which: appending, removing and moving to the back are described by it
once, and each action follows from the description of its list operation. The victim of
`EvictOne` is the key used longest ago since every other key that could go stands behind it.
`GivenInv` is needed besides: a thread that inserts owns one of the numbered instances, and
one that was given something owns it.

The first part of `ServerProofs` proves type correctness, `PermitConservation`, `WorkBounded` and
`AnsweredLeaveNothing` for every number of connections and threads and all settings, of which
`Limits` says that they leave at least one permit. The last,
and `CachedInstanceStable` of the registry, are proved and not run. The
strengthening is `Owned`: who owns the permit follows from how far the request has
come. Counting permits alone is not inductive, as a release has to find its
owner; two lemmas about finite cardinalities say what taking and giving back do.

`NativeWorkerProofs` proves type correctness, `NoStaleReply`, `KillsOwnGroup`,
`LeavesNothing` and that the engine implements `FailStop`, for every set of callers,
batch size, number of requests and size of the pipe. The invariant has three parts
beside types. `Control` ties the control of the worker's owner to the mutex, the
process and the thread: who holds the mutex, when `broken` is set, what `stop` has
already ended. `Hands` says that what the thread or Python has in hand is real.
`Flow` is the heart: while the worker is not broken, either nothing is under way, or
the one request asked for (or the greeting) is in exactly one place between the
caller and Python, or its one reply is in exactly one place on the way back, among
lines that are no replies. `NoStaleReply` alone is not inductive, as it says nothing of
replies that are still in a pipe. Once broken, nobody reads any more, which is why
late replies do no harm and why a failed engine must never be revived.

The rest of `ServerProofs` proves that every step of `Server` is a step of `Admission`, or leaves it
alone, and one of `Registry`, or leaves it alone: so what is proved of either holds in
the server. It proves `PermitConservation`, `WorkBounded`, `RightEngine`, `ResidentBounded` and `ListedLoads` of
`ServerSpec` for every set of connections and names and all limits. The invariant is
those of the two parts, taken over by an `INSTANCE` of `RegistryProofs`, and what neither can
say: what is cached or owned was loaded for its name (`Cached`, `Holding`), a call of the
registry belongs to a running closure (`Inside`), the mutex of an engine to one that computes
on it (`Locked`, which gives `NoMutexLeft`, proved and not run). `ResidentBounded` needs
`Overfull`: while `evict` runs there may be one model too many, which is then the one
its thread owns.

`ListedLoads` is proved for every choice of features, where the run has all four. No two rows
of the dense table share a name (`DenseNames`), so that the first row that answers is the only one
(`DenseFound`); of the other tables only BGE-M3 has names that an earlier row has, too
(`NotDense`). `MediaResolves` says that the check of media, which reads codes up to case, and
the resolver, which reads both names literally, mean the same row where both accept: `RightEngine`
therefore holds for all names. It rests on `FoldAssumption`, that a name in the
catalog is not a spelling of another one.

`ServiceProofs` proves type correctness, `ComputedOnce` and `ServersModel` for any
number of invocations. `Reached` says when a request can be in the server at all,
`Spent` what both sides have computed when it waits there, and `Committed` that an
invocation which must not try again, and has seen a server, is done with its own
process.

`ServiceProofs` proves `OneServer`, `Recorded` and `StopStops` for one administrator and any
number of ports, processes and attempts. None of them is inductive: `Place` says, for each
stage of an invocation, which servers of the manager there can be and what the files say of
them. Between the spawn and the files the server is known to the invocation alone, which is
why one that is cut short there is exempt. From the signal to the end of the wait the files name
the only one there can be (`Told`: it has been signalled), even when the number is another program's by
then; when the files are removed it has ended or outlived the wait. The three theorems speak of the
servers that have not: no timing is assumed of a server, and what is lost with one that is too
slow is said in section 7.

`VideoProofs` proves `OwnContainer`, `LeavesNothing`, `WholeOutput` and
`OnlyLeftoversRefuse` for any number of calls, attempts, units and restarts. `Places` says
that a directory belongs to a call that is inside or to an earlier process, `Control` where
subprocess and reader are for each place of the call, `Units` that what was written is
in the pipe or read, until the reader stops with all of it or one unit too many. `Rounds`
is what the last theorem needs: the rounds that a call has lost so far were lost to
directories left over, since the counter gives no number twice.

`EmbeddingProofs` proves `EachOnce`, `Reach`, `OnlyInputRefused` and `RowsInPlace` for every
length of input and every value of the constants, from `EmbeddingLemmas`. That holds three
kinds of lemmas.
- Kernels. `Once(s, S)` says that the terms `s` are those of `S`, each once. A cascade sum keeps
  several accumulators that are flushed into each other at powers of two: the terms so far are
  spread over them (`Spread`), and adding a term, handing an accumulator on and flushing keep
  that (`AddSpread`, `HandOn`, `FlushSpread`), so that it holds after every step
  (`FillsSpread`). Lanes, strides and tails partition the indices; `ReduceAllOnce`,
  `SumRowOnce`, `SumColOnce`, `GatherOnce` and `MomentsOnce` follow.
- Towers. Of a clip: subsampling keeps masks a prefix (`Masked`) and gives each row four
  frames' reach (`SubsampledHeard`), each layer adds `Lag` more (`LayerHeard`), and the rows that
  are valid are those that are kept. Of a text: a layer joins the windows of what is seen
  already (`WindowsJoin`, `LayerMixes`).
- Counts and places. The integer square root behind a target size exists and is at most one
  off, so that a picture has a size at all and its patches fit the tables (`SnappedIs`,
  `TargetSizeSome`, `TiledFits`); each soft token's square of patches covers its share of the
  source (`GridCovers`); what sampling selects are the frames asked for, in order; what
  `decode_wav` reads of a chain of chunks are the samples of its data chunk; and a prompt has as
  many placeholders as it announces soft tokens (`MediaIdsAre`).

There are two invariants.
- `Inv` is that of `EachOnce` and `Reach`, which speak of the end of the towers, so that neither
  is inductive. `LayerOutput` says what each row has heard after `layer` layers,
  `WindowsMixed` what each token has, `RowsHeard` what is cut from the last layer;
  `Control` and `PicturesShown` say that counts in between are numbers at all, without which
  a reduction of them is nothing.
- `Placing` adds what host, towers and workers know of each other. `AlbumInTower` says that the
  pictures are all of one grid and that those through the tower have left their rows in order,
  `ClipThrough` that a clip's rows are numbered and leave room for the prompt, `PromptFits` and
  `Scattered` that tokens and rows are those of one input (`Prompted`), `TextsSent` and
  `MediaSent` that a worker is sent what it takes: texts in batches of answers so far,
  media at once. `OnlyInputRefused` is a part of it: a refusal by the worker or by
  `masked_scatter` is one that these parts exclude, and one of the input is given only
  when `InputFits` fails, which every guard is compared with (`FitsDecoded`, `AlbumTokens`,
  `ClipRows`). Of a video this is the way from the limits as stated to the checks as made
  (`BoundedWithin`, `ContainerSampled`, `FramesSampled`) and from there to frames that exist
  (`SampleFramesChosen`). `RowsInPlace` follows from `Scattered` (`ScatteredInPlace`).

`Placing` rests on two assumptions that the other theorems do without. `AgreementAssumption`
says of the constants of the host, the towers and the workers what makes them agree, and is
true of those in the code: the position table reaches as far as any budget of soft tokens,
`native_worker.py` takes the widths, rows and frames that `prepare.rs` makes, the longest
clip and the largest picture leave room for the prompt. `DescriptionAssumption` says of the
WAV files among the inputs that what the properties read of them (content, whether it is
good) is so by the chunks that the code reads.

The recursive functions of the model are reached by an induction over sets of numbers
(`Induction`) and the existence of what a recursion defines (`Recursion`). `TokensReachExactly`
is what `Reach` says of soft tokens and of the tokens of a text, with no further hypothesis.
The third thing `Reach` says, that a pair of frames is scored by the position of its distance,
needs `Balanced`: the context of a block is twice its past. It is so in the checkpoint (chunks of
12 over 12 earlier frames: context 24, past 12) and in the run; the code does not check it, and
the configuration of the unit test at `audio.rs:918` (chunks of 4, `left` 6) is not
balanced, so `ReachHolds` states it as its hypothesis. The inputs are any that `Legal` admits:
what the callers of `run` can build.

`JpegProofs` proves `ScanExact` for every length of a block and of a run, every frame, every
legal script of scans, every image of 16-bit coefficients and every choice of the encoder. It
is not inductive, as it speaks of the ends of scans only. The invariant has to relate two
programs that never see each other's state, at every symbol:
- `Filled`: in the middle of a scan, the coefficients before the decoder's place are what the
  scan makes of those of the image (`Becomes`), those after it what they were (`Was`), those that
  it does not carry what the scans before have left. Both are functions of the image and of the
  bit positions of the scan alone. `ScanBegins` and `ScanFinishes` join it to `ScanExact`:
  a script is legal when every scan takes up the bits where the one before it that carries the
  coefficient has left them.
- `Foreseen`: the predictions of DC are the last values of the restart interval so far.
- `Agreed`: what is written and not read is what the encoder may write from the place of the
  decoder to its own. Between two blocks and within one it is one of few things: nothing, one
  restart marker, all that belongs to one symbol, or the corrections of the blocks that have
  ended together (`Underway`), which the decoder takes block by block (`BlockEnds`).
- `Place` and `TypeOK`: where the decoder can be, and that it is in the scan of its number.

The heart is `Passing`: the decoder counts zeros in a block that it corrects on the way, the
encoder counts in the image. Both stop at the same coefficient (`StopIs`, as what is there is
what the scans before have made other than zero, `ThereIsOld`), and the bit that each
correction takes is the one that was written for it (`ServedBy`: as many are before it as there
are old coefficients before it). Below are the geometry, that the blocks of a scan are
blocks of the buffer, each once (`Ordered`, from `CeilDivReaches` and `PlaceUnique`), and the arithmetic of
one bit more: `AcRefined` says that a correction with the sign gives the value to one bit more,
DC by bits of two's complement (`DcRefined`), and that what receive_extend returns is what
was given as magnitude. `JpegAssumption` is all that is assumed: a block has AC coefficients, a
symbol can name a zero, and the files are legal.

The proofs rest on the named assumptions of the modules (finite sets of
connections, positive limits, distinct special values).

The type invariants of Admission, Registry, NativeWorker and Routing are proved and
need no run of their own, like those of Service and Video, which are parts of their invariants.

Left to TLC:
- liveness and `ENABLED`, out of the reach of the prover;
- `FftExact`, `StreamExact` and `SamplesExact`: a Fourier transform, the bit reader and the inverse
  transform on all their inputs, whose recursions are over data and whose arithmetic (powers
  modulo a prime, products of 32 bits) the provers have no rules for.

## 7. Findings

1. `registry.rs:104` counts warm models toward eviction; `config.rs:37-38` says they do not count.
2. `main.rs:481`: text handlers release the permit when the client disconnects while
   the closure runs on; `main.rs:107-109` and `config.rs:40-43` promise a bound on the tasks in flight.
3. `service.rs:150`: an ended child is a zombie and still listed; `service.rs:112-113` promises an error.
4. `socket.rs:44`: the socket path is taken before the port is bound; `README.md:110` promises every route over the socket.

`service.rs:186` is a limit that is no finding: stop waits five seconds, removes the files and returns
Ok whatever it saw last, although its comment promises no such time and `main.rs:591` prints "server
stopped". A server that takes longer, or is stopped or stuck, is then recorded nowhere, status says
"stopped", and restart spawns another one beside it. The model has all of this; `Ours`, which
`OneServer`, `Recorded` and `StopStops` speak of, leaves such a server out.

## 8. Not modelled

Floating point as such: the elementary functions of `sleef.rs`, the rounding of sums and
products, tensor arithmetic and weights, which are checked bit for bit against references
by the repository's own tests. The model distinguishes what an `f64` may do at a limit or at a whole
number; the numbers of a video are taken to be small enough for an `f64` to tell two of them
apart. The headers of JPEG files and every other format of a
picture, which the `image` crate decodes; the JSON that ffprobe prints, beyond the numbers it
has; ONNX Runtime, MLX and CoreML; the systemd commands of
`service.rs`; JSON shapes and messages; scripts and packaging. File-system
errors other than those of writing the PID and port files are left out; in particular
`Drop` of `Video` assumes that the file and its directory can be removed. In `Video` a panic of
`thread::spawn` leaves its subprocess running, neither killed nor waited for (`lost`); the
properties exempt it, as `PROJECT.json` says of the hazard at `video.rs:305`.
