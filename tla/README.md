# A TLA+ model of the scaffolding jobs

This directory specifies, model-checks and proves correct, as far as said below, the programs under
`tools/` that set up a Sigstore stack on Kubernetes: Jobs that create keys,
certificates, a Trillian tree and configurations, store them in Secrets and
ConfigMaps, and are simply started again when anything goes wrong, and the TUF
server that publishes the result.

## Inventory of the system

| part | state it owns | operations | interacts with |
|---|---|---|---|
| `tools/secret` ReconcileSecret | none (a Secret in the API server) | Get, compare, Create or Update | every job below |
| `createtree` | ConfigMap entry `treeID`, trees in Trillian | check, create a tree, record it | `createctconfig` reads the entry |
| `tools/ctlog/pkg/ctlog` Config | list of Fulcio roots, key pair, LogID | AddFulcioRoot, RemoveFulcioRoot, MarshalConfig, Unmarshal | used by `createctconfig` |
| `createctconfig` | Secrets `ctlog-secrets`, `ctlog-public-key` | create or extend the configuration, publish the key | ConfigMap, Fulcio, ReconcileSecret |
| `createcerts` (Fulcio) | two Secrets | generate always, reconcile both | ReconcileSecret |
| `rekor-createsecret` | two Secrets | generate always, reconcile both | ReconcileSecret |
| `createcertchain` (TSA) | one Secret | generate unless present, reconcile | ReconcileSecret |
| TUF `createsecret` | Secret with the four public parts | read four Secrets, reconcile one | output of the jobs above |
| TUF server, `tuf/pkg/repo`, `tuf/pkg/certs` | target directory, Secrets for root and keys | make repository, store, unpack, serve | ReconcileSecret |
| `createdb` | MySQL schema | ping, list tables, create tables and indices | MySQL, `cloudsqlproxy` through the exit file |
| `cloudsqlproxy` | a child process | start it, stop it when the exit file appears | `createdb` in the same pod |
| `updatetree` | state and type of a tree | one masked update, retried | Trillian admin server |
| `hack/setup-scaffolding.sh` | none | deploys, waits, copies Secrets | all |
| fakeoidc, getoidctoken, create-tink-keyset | none | test and one-shot helpers | - |

What makes these programs hard to test is what happens between their requests.
Pods die, replies get lost after the write was applied, another client writes
the same object, Kubernetes occasionally runs two pods of a Job, and a program
decides on one read and acts on another. PROJECT.json lists these hazards with
the line where each bites.

## Modules

| module | models |
|---|---|
| `Faults` | the budget of failures shared by the modules below |
| `SecretReconcile` | ReconcileSecret as steps against the API server; a component, without a next-state relation of its own |
| `ConcurrentReconcile` | the closed system: callers, other clients, faults |
| `AtomicSecrets` | the abstract specification: a call is one atomic patch |
| `CreateTree` | createtree, with and without `--force`, concurrent pods |
| `CTLogConfig` | the pure functions of `config.go` |
| `CreateCTConfig` | createctconfig; extends the three above |
| `CTLogSetup` | the composition of createtree and createctconfig, initial states and properties |
| `KeyJobs` | createcerts, rekor-createsecret, createcertchain, which have one shape; the program is chosen in `Init` |
| `TufServer` | the TUF server, its repository directory and its two secrets |
| `TrustedRoot` | how the files of a directory become targets and `trusted_root.json`: SplitCertChain, CreateRepoWithOptions and the functions below it |
| `CreateSecret` | TUF createsecret; a component, extends `SecretReconcile` |
| `TufStack` | the composition of `setup-scaffolding.sh` (TUF part), createsecret and the server |
| `CreateDB` | createdb, cloudsqlproxy and the life of their pod |
| `UpdateTree` | updatetree and the admin server |
| `SecretReconcileProofs` | lemmas about single steps of ReconcileSecret, used by the next four |
| `KeyJobsProofs`, `TufStackProofs` | theorems about the key jobs, and about the TUF server alone and in the composition |
| `CTLogSetupProofs`, `CTLogJobsProofs` | theorems about createtree and the CT log setup for any pods; and for the jobs as they are deployed |
| `ConcurrentReconcileProofs`, `TrustedRootProofs` | theorems about the module of that name |
| `TrillianProofs` | theorems about `CreateDB` and `UpdateTree`, the two commands that prepare Trillian |
| `MC*` | values for the constants |

Correspondence. One action is one request to another process, together with all
local computation up to the next request. `at`, `arg` and `seen` of
`SecretReconcile` are the program counter, the parameters and `existingSecret`
of a call; `step` is the program counter of a `main`. Data maps are functions
from keys to values. A key pair, everything one run generates, or one TUF
repository is a number. Encrypting a private key gives different bytes each
time, which `enc` in `CTLogConfig` stands for. The roots come out of a Go map in
an arbitrary order, so `Unmarshal` is a set of results. In `TrustedRoot` a file
name is a stem (known by its place in the alphabet and the words it contains)
with decimal digits, and of bytes it is known which PEM blocks they hold, whether
the last line ends, and whether one block has run into the next, which is what
splitting, trimming, sorting and joining act on.

The repositories of `TufServer` are consistent snapshots (`r.Init(true)`). All of
them are at version 1, so the metadata files of each have the same names and
replace those of the one before. A target is named by the hash of its contents:
`Path` gives its place in the directory and `Content` what is written there.
`Hash` says which generations share the contents of a target: the trusted root
has a time stamp and is new each time, a public key stays until its service gets
a new one. `Uncompress` removes nothing, so in a directory that outlives the
container earlier targets lie beside the new ones. They do so in states of
`tuf_server` that serve; the properties say that the metadata served are of one
repository and the targets these name are there. Within the targets directory
the archive is in the order of the hashes; `Files` takes one order for all
generations.

External and modelled from its use: the API server (versions, conflicts,
NotFound, AlreadyExists), Trillian (fresh tree IDs), Fulcio (a sequence of
chains), Kubernetes (restarts, mounted secrets, the Ready condition), MySQL
(foreign keys, existing objects), the Trillian admin server, `exitdir`,
`pem.Decode`. A dying process's request is taken to be applied
before the death or never.

Operators whose comment begins with "Mutant" are deliberate bugs. Each property
was seen to fail when the definition that follows is replaced by its mutant.

## Runs

| run | question | result |
|---|---|---|
| `concurrent_reconcile` | is a call an atomic patch that leaves foreign keys alone? | yes, 220,312 states |
| `reconcile_nil_data` | is a secret without data updated, as the doc comment says? | no: nil-map panic at `secret.go:47` |
| `create_tree` | do pods overwrite one another's tree? do all finish? | no; yes, 446,251 states |
| `ctlog_setup` | do keys, roots, tree and published key stay consistent through migration, rotation, faults and reruns? | yes, 388,860 states |
| `ctlog_overlap` | what is left when two pods overlap? | root files and key pair stay consistent, 316,464 states up to symmetry |
| `ctlog_keys_replaced` | are keys "not updated once set" then? | no: a pod that read too early replaces them |
| `key_jobs` | can two pods mix generations within a secret? do all finish? do pods that do not overlap leave matching secrets? | no; yes; yes, 903,573 states |
| `tuf_server` | is what is served whole, and what the secrets hold, whatever earlier repositories have left in the directory? | yes for one replica, 73,228 states; completeness is not claimed for `init-no-overwrite` |
| `trusted_root` | does the trusted root describe the files it was made from, and are exactly the valid directories accepted? | yes, 35,160 states |
| `tuf_stack` | does the setup complete, trust the keys in use, and hand out the served root? | yes on a fresh cluster, 128,514 states |
| `create_db` | is everything that is missing logged? is the order right? does the proxy stop, and the job finish? | yes, 356,489 states |
| `update_tree` | does a successful update last, change nothing else, and does the command end? | yes, 189,456 states |

Properties above hold within these limits; TLC gives a counterexample when the
run's cfg is changed as said:

- with the two pods of `ctlog_overlap`, `RootsNeverLost` (the later write puts
  its root under a number the other pod has used), `ConfigKeyMatches` and
  `PublishedKeyMatches` fail;
- without the condition on `overlap`, `FinishedJobMatches` fails, also once both
  pods have finished, and so does `ChainIsKept`;
- with a forced pod in `ctlog_setup`, `LogIDIsTree` fails: an existing
  configuration keeps its log ID;
- with two replicas, `ServedIsPublished` fails: each makes its own root;
- without the exception for `init-no-overwrite`, `ServedIsComplete` fails: an
  interrupted unpacking that has reached `root.json` is never repeated;
- without the exception for `-no-k8s`, `EventuallyServing` fails: the temporary
  directory of the earlier start makes `Mkdir` fail;
- when `setup-scaffolding.sh` is run a second time on the same cluster, the
  repository may have targets of the first run, or of both: the finished job and
  the running server are left as they are, and createsecret or the server may
  read while the copies change;
- when the server dies after it was ready, `root.json` of the script may be of a
  repository that is no longer served;
- after a failed statement createdb ends successfully with an incomplete schema;
  `MissingIsLogged` is what remains. A killed main leaves its proxy running;
- an updatetree that reports an error may still be applied, and a request that
  was given up can reach the server late and undo what another invocation asked
  for. `-tree_state` defaults to `FROZEN`, so whoever changes only the type must
  pass it empty;
- a TSA chain with eleven intermediates is put together in the wrong order
  (`TrustedRootMatches`), as the comment in `constructTrustedRoot` expects;
  `DirectoriesAssumption` says that there are at most ten.

One comment is wrong without a run of its own: that of `CreateRepo` (`repo.go:203`)
says `AddTrustedRoot: false`, the code passes true.

These are limits and not findings: we know of no line of the repository that
promises otherwise. The two Jobs whose manifests are under `config/`
(`createcertchain` and TUF `createsecret`) leave `parallelism` at its default of
one, so their pods overlap only when one is replaced or a Job is applied twice.
The manifests of the other jobs are not in this repository; that they run one
pod at a time is an assumption of the properties that say so. The Knative
service of the TUF server sets a minimum scale of one and no maximum.

An empty chain from Fulcio makes `extractFulcioRoot` panic (`config.go:89`).
Nothing has been written by then and the pod is started again, as after any
other death (`CTDie`).

Bounds. Two concurrent writers suffice for every conflict, since a call
conflicts with one other write at a time; `create_tree` has three pods so that
a forced one meets two others. One to three faults place a failure at every
step and a second one in the recovery. Three chains give a rotation that keeps
the root and one that changes it; three runs let a root be renumbered twice.
`key_jobs` has one fault beside the conflicts of its two pods and three completed
runs. `create_db` has two of the five pings, one fault, and an empty schema or
one with gaps; `update_tree` one late request for each of two invocations, with
valid, invalid and empty flags; `trusted_root` chains of none to ten
intermediates; `tuf_server` four metadata files, before and after the targets in
the archive, a target that is new in every generation and one that changes once;
`tuf_stack` two faults, so that the script or a pod fails and another pod in the
recovery, and two runs of the script (with three faults and two files per
repository TLC finds no error in 748,915 states either, in more time).
`MaxRev`, `MaxCMEdits`, `MaxRuns`, `Runs` and `MaxGen` cap the environment and
are large enough not to block the programs. `ctlog_overlap` uses symmetry over
the two pods and checks no liveness.

Fairness. Weak fairness for each pod's next step, restart included. The
manifests of `createcertchain` and TUF `createsecret` set `backoffLimit: 90` and
the kubelet restarts the server; for the jobs whose manifests are elsewhere it is
an assumption that they are started again. Faults,
edits, rotations and reruns are not fair. The script and updatetree go on while
their commands return, a deadline passes in the end, and nothing is assumed of
the admin server. In `tuf_stack` a wait does not time out by itself, which
counts as a fault. The model has no
`activeDeadlineSeconds`: the liveness results say that the jobs do not block,
not that they meet the deadline. Deadlock checking is off because the jobs end.

## Proofs

Every safety property of a passing run is also a theorem for all values of the
constants, so for any number of pods, faults, reruns and rotations. TLC has checked each invariant below on the instances of the
runs as well. Where a theorem needs a hypothesis, the section on runs names the
counterexample without it.

`ConcurrentReconcileProofs`, for any sets of processes, names, keys and values:
type correctness; the optimistic lock (`SnapshotIsCurrent`); that a write leaves
foreign keys alone; and that the specification implements `AtomicSecrets`. The
lock alone is not inductive: a write could reuse a version somebody holds. `IInv`
adds `VersionsAreFresh`, that no version in the store or in a snapshot is newer
than the last one given out. The refinement maps a call's Get, Create or Update
to one atomic step or to a stutter.

`SecretReconcileProofs` has the lemmas the composed modules share: what a step of
a call leaves alone (`CallStaysInFrame`), what a call that passes every key of
its secret leaves there (`CoveringCall`), what any call can leave
(`CallOutcomes`), and, with `CallLock`, that a write merges the call's data into
what the secret holds at that moment, whatever else the callers do.

`KeyJobsProofs`: types, `MaterialNeverTorn`, `FinishedJobMatches`, `ChainIsKept`.
`JobInv` says that each pod hands over a whole generation of its own and that the
secrets, and what pods have read of them, are of one generation each; it holds
with overlapping pods. `Alone` is about histories without overlap: one pod is at
work, what it has stored stays until it has finished, and createcertchain has
something to do until then. Without `WrittenStays` nothing relates the first
secret to the second when the job ends.

`TufStackProofs`, for the server alone (`TufSpec`): types, `ServedIsComplete`, and
for a single replica (`SingleServer`) `ServedIsPublished`, for any `Files`,
`Targets` and `Hash`, so for any history of the contents. `Unpacked` says that
the files before the current archive entry are of the repository being unpacked
(`Has`), in their places; two files of one repository never share a place.
`Published` adds the order in which a repository is stored and unpacked, and for
`-init-no-overwrite` that `root.json` decides: before it is there no later file
of the archive is, after that no new repository is made. For the composition
(`StackSpec`): `TargetsAreKeysInUse`, from `FirstRun`, which follows the first
copy of each key through createsecret, the mounted secret and the targets; and
`RootIsServed` for a single replica, from `TakenInv`, that a ready service serves
until the server dies.

`CTLogSetupProofs`, for any pods of both jobs. For createtree alone, any of its
pods forced: types, that recorded trees exist, and that only a forced pod
replaces one. `TreeIInv` adds that what a pod has read is an old or the current
version and, without `--force`, had no tree, and that a tree about to be recorded
exists. For the composition: types, `RootFilesPresent`, `KeyPairMatches`. `CTInv`
says of the secret, of the data of each call and of what each call has read that
the key pair matches and that every file the configuration names is there
(`Sound`, `Whole`), and that a call without a key pair is for a secret that has
one. The lemmas on `AddFulcioRoot`, `MarshalConfig` and `Unmarshal` carry this
through the conversions: a configuration that was read, extended and written
numbers its roots anew and still names only files that are written with it.
From `CTInv` and `CallLock` it follows that the secrets change only by such a
merge of one call's data (`SetupWritesArePatches`), so that no file is ever
removed (`SetupEntriesStay`), for any number of overlapping pods. The key jobs
and the TUF server need no such theorem: they pass every entry of their secrets.
These two are not among the properties of the runs; TLC has checked them, and
`CallLock`, on the instance of `ctlog_overlap`.

`CTLogJobsProofs` has what needs the jobs to run as deployed. `LogIDIsTree`, when
no pod is forced (`Forced = {}`, the default of the flag), from `OneTree`: every
configuration, stored or under way, is for the one recorded tree. With one pod of
createctconfig at a time (`SingleJob`, an assumption on how the Job is deployed):
`ConfigKeyMatches`, `PublishedKeyMatches`, `FetchedRootIsTrusted`, `KeysOnceSet`
and `RootsNeverLost`, from `SoleJob`: a new key pair is made only for a secret
without a configuration, and otherwise the data to be written has no key pair
and lists every root of the secret, wherever the run is interrupted.

`TrillianProofs` about createdb, for any pods, initial schemas, pings and faults: whatever is
missing when main returns has been logged (`MissingIsLogged`), and as long as
nothing fails no table is refused and nothing is missing
(`CompleteWithoutFaults`). `Accounted` adds that at any time a missing object is
logged or still to be looked at, and that what a pod takes for existing exists;
it is inductive because objects are never dropped. `Unharmed` adds that without
faults a pod keeps its connection, since the exit file is written when main ends,
and comes to the indices when all tables are there.

About updatetree, for any invocations, flags and late requests: success lasts
(`SuccessIsLasting`), and a field changes only to what a valid invocation asks
for (`OnlyWhatWasAsked`). `Applied` adds that from the first application on the
tree keeps what was asked, as long as nobody else asks for something different:
repeating a request is harmless because it sets the same masked fields.
`Checked` adds that no request, waiting or late, is of an invocation whose flags
were rejected.

`TrustedRootProofs`, for any set of well-formed directories: `TrustedRootMatches`
and `MadeOfValidFiles`, from `RootInv`: until the program fails, the files in
memory are exactly those of the directory that have been read, a TSA chain in
pieces; it fails only on what is not valid; and the targets are made once all has
been read. The work is in what the files become. `SplitChainIsRejoined` says that
SplitCertChain followed by reading the pieces in the order of their names, with a
line end before the root, gives the chain back. It needs that names with one
digit sort like their numbers, which `Sorted` picks by counting smaller names,
and that joining files of one certificate each lists the certificates. The latter
is a loop over any number of files. The library's induction rules cannot be used
here, so `SetInduction` derives one about a set of numbers from the existence of
least elements, and `ConcatenatedSingles` shows with it that the recursive
function of the loop has one solution.

Assumptions, all named in the module that declares the constant and evaluated by
TLC:

- bounds are naturals; forced pods, createsecret pods and servers are pods, and
  the last two are different ones (`PodsAssumption`); a key job has a pod;
- the names of the secrets a program writes are among `Names` (`NamesAssumption`,
  `JobNames`, `TufNames`, `StackNames`, `CTNames`), and callers pass non-empty
  maps of values;
- an archive has each file once, `root.json` among them (`FilesAssumption`), and
  that is no target (`TargetsAssumption`); a target is known by the first
  generation with its contents (`HashAssumption`);
- chains are not empty (`ChainsAssumption`); the keys `fulcio-0`, `fulcio-1`, ...
  differ from one another and from the other keys (`FulcioKeysAssumption`) and
  are not fewer than the roots (`KeysSuffice`): the code makes up as many as it
  needs;
- schemas respect their foreign keys;
- in a directory (`DirectoriesAssumption`) the Fulcio intermediates, if in files
  of their own, are numbered from 0, at most ten, with one certificate each; a
  TSA chain is in one file, starts with its leaf and has at most twelve
  certificates; no file has the name of one of its pieces; and a key file holds at
  most one key.

Only model-checked:

- liveness (`TreeJobsFinish`, `SetupFinishes`, `JobsFinish`, `EventuallyServing`,
  `SetupCompletes`, `ProxyStops`, `DBJobFinishes`, `UpdatesEnd`), which is about
  fairness and `ENABLED`, where the prover has no rules.

## Not modelled

- `fakeoidc`, `getoidctoken`: stateless test helpers.
- `create-tink-keyset`: a command run by hand that encrypts a keyset and writes
  three files; nothing in the repository reads or retries them.
- Of the CT log configuration `RemoveFulcioRoot`, which no program calls, and
  `String`.
- The parts of `setup-scaffolding.sh` before TUF: they fill placeholders in
  manifests and wait for services that are not in this repository.
- Several replicas of the server beyond the limit named above, HTTP serving,
  cryptography, flag parsing, logging, the contents of TUF metadata (go-tuf).
- Deadlines and back-off limits of the Jobs: the model has no clock.
